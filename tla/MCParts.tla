-------------------------------- MODULE MCParts --------------------------------
(***************************************************************************)
(* Parts that share no state, checked side by side: those of Parts, and    *)
(* more in the same registers.                                             *)
(***************************************************************************)
EXTENDS Parts

CONSTANTS Configs, Realms, Default, Hosts, EmptyText, OpenText, Unreadable

Section(n, scope, text, complete) == [name |-> n, scope |-> scope, text |-> text, complete |-> complete]
Contributions ==
    {Section(1, "all", "a", FALSE), Section(1, "mine", "b", FALSE), Section(2, "mine", "c", TRUE),
     Section(3, "others", "d", FALSE), Section(4, "all", OpenText, FALSE)}

Components ==
    <<"llm", "llm-compat", "logger", "persistence", "session", "session-query", "session-query-sqlite", "timer">>
Doc(llm, query, off, knobs) == [llm |-> llm, query |-> query, off |-> off, knobs |-> knobs]
First == {Doc("file", "session-query-sqlite", << >>, "timer" :> "v1")}
Layered == First \cup
    {Doc(Nil, Nil, << >>, << >>), Doc(Nil, "session-query", "timer" :> TRUE, "logger" :> "v1"),
     Doc("inline", Nil, "timer" :> FALSE, "session-query" :> "v2" @@ "logger" :> "v2"),
     Doc(Nil, Nil, << >>, "logger" :> "malformed")}

Tree == {<<"a">>, <<"d", "/", "a">>, <<"d", "/", "b">>, <<"g", "/", "a">>}
One(c) == {<<c>>}
Globs ==      \* a, *, **/a, d/**, */{a,b} and ?/*
    {<<One("a")>>, <<One("*")>>, <<One("*"), One("*"), One("/"), One("a")>>, <<One("d"), One("/"), One("*"), One("*")>>,
     <<One("*"), One("/"), {<<"a">>, <<"b">>}>>, <<One("?"), One("/"), One("*")>>}

\* A provider, another, a consumer, an optional one, a self-provider, one that throws
Pool == {"P", "Q", "C", "O", "S", "B"}
Reads(S) == [c \in Pool |-> IF c \in S \ {"P", "Q"} THEN {1} ELSE {}]
Offers == [c \in Pool |-> IF c \in {"P", "Q", "S"} THEN {1} ELSE {}]

Line(key, value) == [key |-> key, value |-> value]
Skilled(name, flag, text) ==
    <<Line("---", ""), Line("name", name), Line("description", name), Line("disable-model-invocation", flag),
      Line("---", ""), Line("body", text)>>
Written ==
    {Skilled("a", "no", "first"), Skilled("a", "yes", "second"), Skilled("b", "no", "third"),
     Skilled("b", "maybe", "third"), SubSeq(Skilled("b", "no", "third"), 1, 4)}

Task(content, status) == [content |-> content, status |-> status]
Plans ==
    {<<Task("a", "in_progress"), Task("b", "in_progress")>>, <<Task("a", "completed")>>,
     <<Task("a", "pending"), Task("a", "pending")>>}

Html ==
    {<<"w">>, <<" ", "w", " ">>, <<"<b", ">">>, <<"<b">>, <<">">>, <<"<script", ">", "w">>, <<"</script", ">">>,
     <<"&", "amp", ";">>, <<"&", "w">>}

Run(text) == [does |-> "run", text |-> text]
Source(file) == [does |-> "source", text |-> file, file |-> file]
Twice(line) == [does |-> "repeat", text |-> "twice", times |-> 2, what |-> line]
Quit == [does |-> "quit", text |-> "quit"]
Typed == {Run("yes"), Source("f"), Twice(Source("h")), Quit, [does |-> "blank", text |-> ""]}
Includes ==
    [f |-> <<Run("a"), Source("g"), Run("b")>>, g |-> <<Source("f"), Twice(Run("yes")), Quit>>,
     h |-> <<Run("c"), Source("h")>>]
Both == <<[id |-> 1, options |-> {"yes", "no"}], [id |-> 2, options |-> {}]>>

A == INSTANCE Reconcile WITH
         Paths <- 1..2, MaxFiber <- 4, MaxCalls <- 2,
         fib <- r1, slot <- r2, reconciled <- r3, call <- r4, mounted <- r5, calls <- r6, last <- r7,
         crossed <- r8, adrift <- r9
R == INSTANCE Requests WITH
         Sections <- Contributions, Tools <- Offered, MaxSections <- 2, MaxAsks <- 2, MaxSteps <- 3,
         MaxChanges <- 2, Blank <- EmptyText, Unbound <- OpenText,
         sections <- r1, tools <- r2, capable <- r3, file <- r4, cache <- r5, nodes <- r6, generation <- r7,
         logged <- r8, header <- r9, at <- r10, step <- r11, series <- r12, spliced <- r13, asks <- r14,
         steps <- r15, changes <- r16
S == INSTANCE LlmStream WITH
         Wires <- {1, 2}, Reasons <- {"stop", "filtered"}, MaxEvents <- 5, MaxAttempts <- 2,
         protocol <- r1, at <- r2, told <- r3, t <- r4, pending <- r5, over <- r6, failure <- r7, sunk <- r8,
         acc <- r9, stop <- r10, attempts <- r11, outcome <- r12
Q == INSTANCE Query WITH
         MaxIds <- 3, Dirs <- {"d"}, Limit <- 1, MaxWork <- 4, None <- Nil,
         header <- r1, log <- r2, live <- r3, stored <- r4, opened <- r5, work <- r6
D == INSTANCE Diagnosis WITH
         Keys <- {1, 2}, MaxMounts <- 3,
         fibers <- r1, reported <- r2, mounts <- r3
C == INSTANCE Console WITH
         Layers <- 2, Names <- Components, Documents <- Layered, Given <- First, Flaky <- {"session"},
         Commanded <- {"logger", "session"}, MaxWork <- 3, None <- Nil,
         files <- r1, config <- r2, desired <- r3, running <- r4, born <- r5, spoiled <- r6, said <- r7,
         work <- r8
T == INSTANCE Feed WITH
         Ids <- {1, 2}, Models <- Offered, MaxLog <- 2, MaxWork <- 4, None <- Nil,
         logs <- r1, stored <- r2, current <- r3, route <- r4, engine <- r5, shown <- r6, doing <- r7,
         stream <- r8, looking <- r9, work <- r10
G == INSTANCE Listing WITH
         Paths <- Tree, Ignored <- {<<"d", "/", "b">>}, Patterns <- Globs,
         Contents <- {<<"hit">>, <<"hit", "miss", "hit">>}, GlobMax <- 1, GrepMax <- 2, Limit <- 2, Output <- 3,
         MaxWork <- 4,
         files <- r1, rg <- r2, answer <- r3, page <- r4, work <- r5
N == INSTANCE Conformance WITH
         Slots <- 1..2, Comp <- Pool, Keys <- {1}, Inject <- Reads(Pool), Required <- Reads({"C", "B"}),
         Provides <- Offers, Failing <- {"B"}, MaxFiber <- 4,
         next_id <- r1, fibers <- r2, rec <- r3, bindings <- r4, in_flight <- r5, host <- r6, posted <- r7,
         calls <- r8, machine <- r9
W == INSTANCE Archive WITH
         Ids <- 1..3, Clean <- <<1, 2, 2>>, Pictures <- 1..3, Format <- <<"png", "gif", "unknown">>, Width <- 8,
         MaxWork <- 6,
         parent <- r1, log <- r2, live <- r3, stored <- r4, media <- r5, work <- r6
Y == INSTANCE Web WITH
         Pieces <- Html, Caps <- {2, 20}, ErrorMax <- 5, Sources <- {<<1, 2, 3>>, <<2, 1>>, <<0, 3>>, <<2, 2>>},
         Asked <- {<< >>, <<"q", "p">>, <<"q", "q">>, <<"q", "p", "r">>}, MaxQueries <- 2, MaxResults <- 2,
         MaxPieces <- 4,
         provider <- r1, call <- r2, page <- r3, body <- r4, cut <- r5, answer <- r6
Z == INSTANCE Script WITH
         Scripts <- UNION {[1..n -> Typed] : n \in 0..3}, Files <- Includes, Requests <- {<< >>, Both},
         MaxDepth <- 2, MaxAsks <- 2,
         script <- r1, next <- r2, agenda <- r3, quitting <- r4, answerers <- r5, answered <- r6, ran <- r7,
         said <- r8, asks <- r9

OtherInit ==
    \/ part = "assembly" /\ A!Init /\ From10
    \/ part = "requests" /\ R!Init /\ From17
    \/ part = "stream" /\ S!Init /\ From13
    \/ part = "query" /\ Q!Init /\ From7
    \/ part = "diagnosis" /\ D!Init /\ From4
    \/ part = "console" /\ C!Init /\ From9
    \/ part = "feed" /\ T!Init /\ From11
    \/ part = "listing" /\ G!Init /\ From6
    \/ part = "conformance" /\ N!Init /\ From10
    \/ part = "archive" /\ W!Init /\ From7
    \/ part = "web" /\ Y!Init /\ From7
    \/ part = "script" /\ Z!Init /\ From10

OtherNext ==
    \/ part = "assembly" /\ A!Next /\ UNCHANGED Rest10
    \/ part = "requests" /\ R!Next /\ UNCHANGED Rest17
    \/ part = "stream" /\ S!Next /\ UNCHANGED Rest13
    \/ part = "query" /\ Q!Next /\ UNCHANGED Rest7
    \/ part = "diagnosis" /\ D!Next /\ UNCHANGED Rest4
    \/ part = "console" /\ C!Next /\ UNCHANGED Rest9
    \/ part = "feed" /\ T!Next /\ UNCHANGED Rest11
    \/ part = "listing" /\ G!Next /\ UNCHANGED Rest6
    \/ part = "conformance" /\ N!Next /\ UNCHANGED Rest10
    \/ part = "archive" /\ W!Next /\ UNCHANGED Rest7
    \/ part = "web" /\ Y!Next /\ UNCHANGED Rest7
    \/ part = "script" /\ Z!Next /\ UNCHANGED Rest10

AllInit == PartsInit \/ (Init /\ OtherInit)
AllNext == PartsNext \/ (part' = part /\ OtherNext /\ UNCHANGED vars)
AllSpec == AllInit /\ [][AllNext]_allVars

(* What settles is what the last document asks for (runtime.cpp,           *)
(* reconcile).                                                             *)
AsAssembled == part = "assembly" => A!AsAssembled

(* What a step asks the model is governed by the sections, tools and       *)
(* policies in force, and can be answered (agent.cpp, system_prompt.cpp).  *)
Governed == [][part = "requests" => R!Governed /\ R!Answerable]_allVars

(* What is passed on is what came in, in its order and once: the chunks of *)
(* an answer (llm-compat) and the lines of a script (run_main.cpp).        *)
Faithful == (part = "stream" => S!Faithful) /\ (part = "script" => Z!Performed)

(* What a query or an archive shows is what the caller may see of what was *)
(* stored (query.cpp, tool_session_query.cpp, export.cpp).                 *)
Truthful == (part = "query" => Q!Truthful) /\ (part = "archive" => W!Whole)

(* What a command of the console says was done is done, and nothing else   *)
(* (commands_components.cpp, app_core.cpp).                                *)
Obeyed == [][part = "console" => C!Obeyed]_allVars

(* What the display shows after a command is the log's (ui_fold, feed).    *)
Shows == [][part = "feed" => T!Shows]_allVars

(* A result that is cut says so, and one that says it is whole is whole    *)
(* (coreutil.cpp, web.cpp, tool_web.cpp); what diagnose() has reported are *)
(* the conflicts and cycles there are (runtime.cpp).                       *)
Told == [][/\ part = "listing" => G!Told
           /\ part = "web" => Y!Told
           /\ part = "diagnosis" => D!Reports]_allVars

(* The engine settles where the repository's oracle does (oracle.hpp).     *)
Conforms == part = "conformance" => N!Conforms
===============================================================================
