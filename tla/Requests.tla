-------------------------------- MODULE Requests --------------------------------
(***************************************************************************)
(* What one session sends to its model (agent.cpp, the steps of a turn):   *)
(* the system prompt assembled from what the plugins contribute at the     *)
(* moment (system_prompt.cpp), committed to the session's surface; the     *)
(* workspace instructions injected when they change                        *)
(* (agent_instructions.cpp); and the series of requests whose prefix a     *)
(* provider may keep in its cache.                                         *)
(***************************************************************************)
EXTENDS Naturals, SequencesExt

CONSTANTS
    Sections,     \* contributions: [name, scope: "all", "mine" or "others", text, complete]
    Blank,        \* the text of a section that says nothing
    Unbound,      \* the text of a section with a variable nobody defines
    Tools,        \* tools that may be offered
    MaxSections,  \* bound: contributions registered at a time
    MaxAsks,      \* bound: messages of the user
    MaxSteps,     \* bound: requests
    MaxChanges    \* bound: changes to the contributions, the tools, the route and the file

VARIABLES
    sections,     \* sections_, in the order they were registered
    tools,        \* the tools offered
    capable,      \* whether the route takes a changed prompt in the middle of the history
    file,         \* the instruction file's version, 0 without one
    cache,        \* the instructions rendered last and the version they were made for
    nodes,        \* the session's surface: [kind, text] in order
    generation,   \* of the surface: how often it was rewritten
    logged,       \* the tools and the generation at the last request
    header,       \* the last request/header in the log
    at,           \* the turn: "idle", "pre" (listeners are asked), "sent", "next"
    step,         \* the step under way
    series,       \* what the log says of the last request: it starts a series or does not
    spliced,      \* history: whether a plugin has spliced the surface
    asks, steps, changes

vars == <<sections, tools, capable, file, cache, nodes, generation, logged, header, at, step, series, spliced, asks, steps, changes>>
registry == <<sections, tools, capable, file>>
surface == <<nodes, generation>>

Fresh == [tools |-> {}, generation |-> 0]
NoStep == [prompt |-> {}, tools |-> {}, messages |-> << >>, first |-> TRUE, stale |-> FALSE]

Init ==
    /\ sections = << >> /\ tools = {} /\ capable \in BOOLEAN /\ file = 0 /\ cache = [made |-> 0, text |-> 0]
    /\ nodes = << >> /\ generation = 0 /\ logged = Fresh /\ header = << >> /\ at = "idle" /\ step = NoStep
    /\ series = "none" /\ spliced = FALSE /\ asks = 0 /\ steps = 0 /\ changes = 0

----------------------------------------------------------------------------
(* What the adapters make of a session's surface: the message list of a    *)
(* request under the "messages" protocol (messages.cpp), where turns       *)
(* alternate, and under "chat-completions" (translate.cpp), from the typed *)
(* messages of build_generate() and the bridge (bridge.hpp).               *)
(* A node is [kind, text]; text says something of a system node only.      *)

(* to_llm_message(): the results of tools project onto the user.           *)
Role(n) == CASE n.kind \in {"user", "instructions", "result"} -> "user"
             [] n.kind \in {"assistant", "call", "partial"} -> "assistant"
             [] n.kind = "system" -> "system"

Nothing == [out |-> << >>, system |-> {}, updates |-> << >>, ok |-> TRUE]
Turn(role, n) == [role |-> role, blocks |-> <<n.kind>>, text |-> n.text]

(* flush_system_updates(): an update stands behind the user's turn.        *)
Flushed(s) ==
    IF s.updates = << >> THEN s
    ELSE IF s.out = << >> \/ Last(s.out).role # "user" THEN [s EXCEPT !.ok = FALSE]
    ELSE [s EXCEPT !.out = @ \o s.updates, !.updates = << >>]

(* Messages of one role in a row are one turn.                             *)
Joined(s, n) ==
    IF s.out # << >> /\ Last(s.out).role = Role(n)
    THEN [s EXCEPT !.out[Len(s.out)].blocks = Append(@, n.kind)]
    ELSE [s EXCEPT !.out = Append(@, Turn(Role(n), n))]

(* A system node before any turn is the request's system field, a later    *)
(* one an update in the history if the route takes it.                     *)
Put(s, n, inHistory) ==
    CASE n.kind = "system" /\ inHistory /\ s.out # << >> ->
            [s EXCEPT !.updates = Append(@, Turn("system", n)), !.ok = @ /\ n.text # {}]
      [] n.kind = "system" /\ ~(inHistory /\ s.out # << >>) -> [s EXCEPT !.system = n.text]
      [] Role(n) = "assistant" -> Joined(Flushed(s), n)
      [] Role(n) = "user" -> Joined(s, n)

Messages(list, inHistory) == Flushed(FoldLeft(LAMBDA s, n : Put(s, n, inHistory), Nothing, list))

(* append_message(): results first, as messages of their own.              *)
Chat(list) == [i \in DOMAIN list |-> [role |-> IF list[i].kind = "result" THEN "tool" ELSE Role(list[i]),
                                        blocks |-> <<list[i].kind>>, text |-> list[i].text]]

(* The prompt a model reads last.                                          *)
Effective(system, out) ==
    LET updates == SelectSeq(out, LAMBDA m : m.role = "system")
    IN  IF updates = << >> THEN system ELSE Last(updates).text

----------------------------------------------------------------------------
(* assemble(): sections are merged by name, the session's own over the     *)
(* global ones, a later registration over an earlier; a complete section   *)
(* is the whole prompt.                                                    *)
Merge(merged, s) == [n \in DOMAIN merged \cup {s.name} |-> IF n = s.name THEN s ELSE merged[n]]
(* Mutant of Merged: all in the order of their registration.               *)
MergedInOrder ==
    FoldLeft(Merge, << >>, SelectSeq(sections, LAMBDA s : s.scope \in {"all", "mine"}))

Merged ==
    LET Of(scope) == SelectSeq(sections, LAMBDA s : s.scope = scope)
    IN  FoldLeft(Merge, FoldLeft(Merge, << >>, Of("all")), Of("mine"))

Complete == {n \in DOMAIN Merged : Merged[n].complete}
Texts(names) == {Merged[n].text : n \in names} \ {Blank}
Assembles == \A m, n \in Complete : m = n
Prompt == IF Complete = {} THEN Texts(DOMAIN Merged) ELSE Texts(Complete)
Renders(prompt) == Unbound \notin prompt

(* instructions_for(): rendered again when a file's version has changed; a *)
(* file that cannot be read is left out, and remembered as such.           *)
Rendered == {file, 0}
Rendering == IF cache.made = file THEN {cache} ELSE {[made |-> file, text |-> v] : v \in Rendered}

(* injected_context(): nothing when it is what the producer said last.     *)
Said == SelectSeq(nodes, LAMBDA n : n.kind = "instructions")
Injected(text) ==
    IF text = 0 \/ (Said # << >> /\ Last(Said).text = text) THEN << >>
    ELSE <<[kind |-> "instructions", text |-> text]>>

(* pre_step(): the inbox is claimed, then the prompt assembled, which may  *)
(* throw and end the turn; then the listeners are asked.                   *)
PreStep(first, messages) ==
    /\ steps < MaxSteps
    /\ \E made \in IF first /\ Assembles THEN Rendering ELSE {cache} :
        /\ cache' = made
        /\ IF Assembles
           THEN /\ at' = "pre"
                /\ step' = [prompt |-> Prompt, tools |-> tools, first |-> first, stale |-> FALSE,
                            messages |-> (IF first THEN Injected(made.text) ELSE << >>) \o messages]
           ELSE at' = "idle" /\ step' = NoStep
    /\ UNCHANGED <<registry, surface, logged, header, series, spliced, steps, changes>>

User == <<[kind |-> "user", text |-> 0]>>
Ask == at = "idle" /\ asks < MaxAsks /\ asks' = asks + 1 /\ PreStep(TRUE, User)
Continue == at = "next" /\ UNCHANGED asks /\ PreStep(FALSE, << >>)
Steer == at = "next" /\ asks < MaxAsks /\ asks' = asks + 1 /\ PreStep(FALSE, User)

Reject ==
    /\ at = "pre" /\ at' = "idle" /\ step' = NoStep
    /\ UNCHANGED <<registry, cache, surface, logged, header, series, spliced, asks, steps, changes>>

----------------------------------------------------------------------------
(* commit_system_prompt(): the head is written once; a capable route that  *)
(* goes on gets a changed prompt at the end; any other case leaves one     *)
(* node, rewritten in place, or none.                                      *)
Heads(s) == {i \in DOMAIN s : s[i].kind = "system"}
First(S) == CHOOSE i \in S : \A j \in S : i <= j
Final(S) == CHOOSE i \in S : \A j \in S : j <= i
System(prompt) == [kind |-> "system", text |-> prompt]
Normal(s, prompt) ==
    LET head == First(Heads(s))
        kept == {i \in DOMAIN s : s[i].kind # "system" \/ (i = head /\ prompt # {})}
        new == [i \in DOMAIN s |-> IF i = head /\ prompt # {} THEN System(prompt) ELSE s[i]]
    IN  [i \in 1..Cardinality(kept) |->
            new[CHOOSE k \in kept : Cardinality({j \in kept : j <= k}) = i]]
Rewrites(s, prompt) ==
    Cardinality(Heads(s)) - (IF s[First(Heads(s))].text = prompt THEN 1 ELSE 0)

Committed(s, prompt, starts) ==
    CASE Heads(s) = {} -> IF prompt = {} THEN s ELSE Append(s, System(prompt))
      [] Heads(s) # {} /\ (~capable \/ starts \/ prompt = {}) -> Normal(s, prompt)
      [] OTHER -> IF s[Final(Heads(s))].text = prompt THEN s ELSE Append(s, System(prompt))

(* run_step() up to the stream: what starts a series, the prompt, the      *)
(* messages, the header and its mark in the log.                           *)
Starts(declared) == declared \/ logged.tools # step.tools \/ logged.generation # generation
Header == <<step.tools, capable>>

Send(declared) ==
    /\ at = "pre"
    /\ IF Renders(step.prompt)
       THEN LET starts == Starts(declared)
                normal == Heads(nodes) # {} /\ (~capable \/ starts \/ step.prompt = {})
            IN  /\ nodes' = Committed(nodes, step.prompt, starts) \o step.messages
                /\ generation' = generation + IF normal THEN Rewrites(nodes, step.prompt) ELSE 0
                /\ logged' = [tools |-> step.tools, generation |-> generation']
                /\ series' = IF header = << >> THEN "initial" ELSE IF starts THEN "starts" ELSE "goes on"
                /\ header' = Header /\ at' = "sent" /\ steps' = steps + 1 /\ UNCHANGED step
       ELSE at' = "idle" /\ step' = NoStep /\ UNCHANGED <<surface, logged, series, header, steps>>
    /\ UNCHANGED <<registry, cache, spliced, asks, changes>>

(* The stream: a failure may be retried, which sends the same request;     *)
(* what is delivered is committed, tool calls with their results; of one   *)
(* that was interrupted, what came of a tool call and no result.           *)
Says(kinds) == nodes' = nodes \o [i \in DOMAIN kinds |-> [kind |-> kinds[i], text |-> 0]] /\ UNCHANGED generation
Answer ==
    /\ at = "sent"
    /\ \/ at' = "idle" /\ (UNCHANGED surface \/ Says(<<"assistant">>)) /\ step' = NoStep
       \/ at' = "idle" /\ Says(<<"partial">>) /\ step' = NoStep
       \/ \E end \in {"idle", "next"} : at' = end /\ Says(<<"call", "result">>) /\ step' = NoStep
    /\ UNCHANGED <<registry, cache, logged, header, series, spliced, asks, steps, changes>>

----------------------------------------------------------------------------
Change ==
    /\ changes < MaxChanges /\ changes' = changes + 1
    /\ step' = [step EXCEPT !.stale = at = "pre"]
    /\ UNCHANGED <<logged, header, at, series, asks, steps>>
Register(s) ==
    /\ ~Contains(sections, s) /\ Len(sections) < MaxSections /\ sections' = Append(sections, s)
    /\ Change /\ UNCHANGED <<tools, capable, file, cache, surface, spliced>>
Unregister(s) ==
    /\ Contains(sections, s) /\ sections' = SelectSeq(sections, LAMBDA t : t # s)
    /\ Change /\ UNCHANGED <<tools, capable, file, cache, surface, spliced>>
Offer(t) == tools' = (tools \ {t}) \cup ({t} \ tools) /\ Change /\ UNCHANGED <<sections, capable, file, cache, surface, spliced>>
Switch == capable' = ~capable /\ Change /\ UNCHANGED <<sections, tools, file, cache, surface, spliced>>
Edit ==
    /\ file' \in {0, changes + 1} \ {file}
    /\ Change /\ UNCHANGED <<sections, tools, capable, cache, surface, spliced>>
(* A plugin splices the history between two requests.                      *)
Splice(i) ==
    /\ at \in {"idle", "next"} /\ i \in DOMAIN nodes
    /\ nodes' \in {[nodes EXCEPT ![i] = [kind |-> "user", text |-> 0]], RemoveAt(nodes, i)}
    /\ generation' = generation + 1 /\ spliced' = TRUE
    /\ Change /\ UNCHANGED <<registry, cache>>
(* The process is started again and the session restored from its log.     *)
Restart ==
    /\ at = "idle" /\ logged' = Fresh /\ cache' = [made |-> 0, text |-> 0]
    /\ changes < MaxChanges /\ changes' = changes + 1
    /\ UNCHANGED <<registry, surface, header, at, step, series, spliced, asks, steps>>

Next ==
    \/ Ask \/ Continue \/ Steer \/ Reject \/ Answer \/ Switch \/ Edit \/ Restart
    \/ \E declared \in BOOLEAN : Send(declared)
    \/ \E s \in Sections : Register(s) \/ Unregister(s)
    \/ \E t \in Tools : Offer(t)
    \/ \E i \in 1..Len(nodes) : Splice(i)

Spec == Init /\ [][Next]_vars

----------------------------------------------------------------------------
Sent == at = "pre" /\ at' = "sent"

(***************************************************************************)
(* A request is governed by what the loaded plugins say: of each name the  *)
(* session's own section if there is one, else the global one, the last    *)
(* registered of its kind; no other session's; alone if it is complete.    *)
(* It is the last prompt in the request, and the only one unless the route *)
(* takes more.  A turn begins under the instructions as the file has them. *)
(* And unless the log says that it starts a series, a request to a route   *)
(* that takes prompts in the history extends the one before it, with what  *)
(* was answered to it: no part of its prefix has changed                   *)
(* (commit_system_prompt, assemble, injected_context, instructions_for,    *)
(* run_step, append_request_header).                                       *)
(***************************************************************************)
Wins(i) ==
    /\ sections[i].scope # "others"
    /\ ~\E j \in DOMAIN sections :
           /\ sections[j].name = sections[i].name
           /\ \/ sections[j].scope = "mine" /\ sections[i].scope = "all"
              \/ sections[j].scope = sections[i].scope /\ j > i
Winners == {i \in DOMAIN sections : Wins(i)}
Wanted ==
    LET complete == {i \in Winners : sections[i].complete}
    IN  {sections[i].text : i \in IF complete = {} THEN Winners ELSE complete} \ {Blank}

Governed ==
    Sent =>
      LET heads == Heads(nodes')
          said == {i \in DOMAIN nodes' : nodes'[i].kind = "instructions"}
      IN  /\ ~step.stale => IF Wanted = {} THEN heads = {} ELSE heads # {} /\ nodes'[Final(heads)].text = Wanted
          /\ Cardinality(heads) > 1 => capable /\ series' = "goes on"
          /\ step.first /\ ~step.stale /\ file # 0 /\ cache.text # 0 =>
                said # {} /\ nodes'[Final(said)].text = file
          /\ series' = "goes on" /\ capable /\ step.prompt # {} => IsPrefix(nodes, nodes')

(***************************************************************************)
(* Either adapter can put the request into its protocol as long as no      *)
(* plugin has spliced the history and no answer broke off in a tool call:  *)
(* the turns alternate from the user's on, an update of the prompt stands  *)
(* between a user's turn and the next, every call is followed by its       *)
(* result, and the model reads the prompt of this step last                *)
(* (build_messages_request, append_message, commit_system_prompt).         *)
(***************************************************************************)
Paired(out) ==
    \A i \in DOMAIN out :
        Last(out[i].blocks) = "call" => i < Len(out) /\ Head(out[i + 1].blocks) = "result"
Alternates(out) ==
    /\ \A i \in 1..(Len(out) - 1) :
            <<out[i].role, out[i + 1].role>> \in
                {<<"user", "assistant">>, <<"assistant", "user">>, <<"user", "system">>, <<"system", "system">>,
                 <<"system", "assistant">>}
    /\ out # << >> => Head(out).role = "user"

Answerable ==
    Sent /\ ~spliced /\ (\A i \in DOMAIN nodes : nodes[i].kind # "partial") =>
      LET built == Messages(nodes', capable)
          chat == Chat(nodes')
      IN  /\ built.ok /\ Alternates(built.out) /\ Paired(built.out) /\ Paired(chat)
          /\ Effective(built.system, built.out) = step.prompt /\ Effective({}, chat) = step.prompt
===============================================================================
