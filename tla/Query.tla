--------------------------------- MODULE Query ---------------------------------
(***************************************************************************)
(* What a model may learn about sessions: the queries of                   *)
(* plugins/session-query over the store and the files, and the tools of    *)
(* plugins/tool-session-query, which answer for a calling session and its  *)
(* workspace.  A tool changes nothing and runs to its end on the control   *)
(* strand: it is an operator on the state, the world has the actions.      *)
(* Text is what a search sees of it, how often the query occurs in it;     *)
(* equally frequent texts are equally long, and a later event is younger.  *)
(***************************************************************************)
EXTENDS Surface

CONSTANTS
    MaxIds,   \* bound: sessions, 1..MaxIds in the order they are created
    Dirs,     \* workspaces
    None,     \* no workspace
    Limit,    \* maxSearchResults
    MaxWork   \* bound: what happens

Ids == 1..MaxIds

VARIABLES
    header,   \* the sessions created: [cwd, parent], parent 0 for a root
    log,      \* their events: [seq, kind, from, upto, hits]
    live,     \* those in the store
    stored,   \* [session -> events in its file], of those that have one
    opened,   \* [session -> the number of its open step's first event, or None]
    work

vars == <<header, log, live, stored, opened, work>>

Init == header = << >> /\ log = << >> /\ live = {} /\ stored = << >> /\ opened = << >> /\ work = 0

Works == work < MaxWork /\ work' = work + 1
Create(cwd, parent) ==
    /\ Works /\ Len(header) < MaxIds
    /\ header' = Append(header, [cwd |-> cwd, parent |-> parent]) /\ log' = Append(log, << >>)
    /\ live' = live \cup {Len(header) + 1} /\ opened' = Append(opened, None) /\ UNCHANGED stored
Put(s, kind, hits, from, upto) ==
    /\ Works /\ s \in live
    /\ log' = [log EXCEPT ![s] = Append(@, [seq |-> Len(@), kind |-> kind, hits |-> hits, from |-> from, upto |-> upto])]
    /\ UNCHANGED <<header, live, stored>>
Say(s) ==
    /\ \E kind \in {"message", "other"}, hits \in 0..2 : Put(s, kind, hits, 0, 0)
    /\ UNCHANGED opened
Splice(s) ==
    /\ \E kind \in {"replace", "erase"}, from, upto \in 0..Len(log[s]) : from < upto /\ Put(s, kind, 0, from, upto)
    /\ UNCHANGED opened
StepStart(s) == Put(s, "other", 0, 0, 0) /\ opened' = [opened EXCEPT ![s] = Len(log[s])]
Flush(s) ==
    /\ Works /\ s \in live /\ stored' = [i \in DOMAIN stored \cup {s} |-> IF i = s THEN Len(log[s]) ELSE stored[i]]
    /\ UNCHANGED <<header, log, live, opened>>
Close(s) ==
    /\ Works /\ s \in live /\ live' = live \ {s} /\ opened' = [opened EXCEPT ![s] = None]
    /\ UNCHANGED <<header, log, stored>>

Next ==
    \/ \E cwd \in Dirs \cup {None}, parent \in 0..Len(header) : Create(cwd, parent)
    \/ \E s \in DOMAIN header : Say(s) \/ Splice(s) \/ StepStart(s) \/ Flush(s) \/ Close(s)

Spec == Init /\ [][Next]_vars

----------------------------------------------------------------------------
(* list_sessions(), read_session(): the store first, then the file.        *)
Known == live \cup DOMAIN stored
Source(s) == IF s \in live THEN log[s] ELSE SubSeq(log[s], 1, stored[s])

(* classify_surfaces().                                                    *)
Standing(events) ==
    LET current == Range(FoldLog(events))
        spanned == {e \in Events(events) : \E r \in Splices(events) : r.from <= e.seq /\ e.seq < r.upto}
    IN  [e \in Events(events) |->
            IF e.seq \in current THEN "current" ELSE IF e \in spanned THEN "shadowed" ELSE "log-only"]

(* rank_events(), better_event(): filters, then the best of them first.    *)
Filters == [upto : {None, 0, 2}, surfaces : {{"current"}, {"current", "shadowed", "log-only"}}]
Passes(standing, f) == {e \in DOMAIN standing : (f.upto = None \/ e.seq <= f.upto) /\ standing[e] \in f.surfaces}
Matching(events) == {e \in events : e.hits > 0}
Better(a, b) == a.hits > b.hits \/ (a.hits = b.hits /\ a.seq > b.seq)
Ranked(s, f) ==
    SetToSortSeq(Matching(Passes(Standing(Source(s)), f)), Better)
FirstOf(seq) == SubSeq(seq, 1, IF Len(seq) < Limit THEN Len(seq) ELSE Limit)
Capped(items) == Len(items) >= Limit

(* authorized(): the caller itself, and the sessions of its workspace.     *)
Authorized(caller, s) ==
    s = caller \/ (header[caller].cwd # None /\ header[s].cwd = header[caller].cwd)

(* session_search, search_sessions(), better_session(), parent_filter.     *)
BetterSession(a, b) == a.best.seq > b.best.seq \/ (a.best.seq = b.best.seq /\ a.id < b.id)
Hits(caller, f, parents) ==
    LET asked == {s \in Known : header[s].cwd = header[caller].cwd /\ header[s].parent \in parents}
        ranked == [s \in asked |-> Ranked(s, f)]
    IN  {[id |-> s, best |-> Head(ranked[s])] : s \in {s \in asked : ranked[s] # << >>}}
SessionPage(caller, f, parents) ==
    IF header[caller].cwd = None THEN << >> ELSE FirstOf(SetToSortSeq(Hits(caller, f, parents), BetterSession))
WithoutCaller(page, caller) == SelectSeq(page, LAMBDA h : h.id # caller)

(* Mutant of Clamped: the caller's own bound is left as it is.             *)
ClampedIfFree(caller, f) == IF f.upto = None THEN [f EXCEPT !.upto = opened[caller] - 1] ELSE f

(* session_event_search: of its own session a caller sees what is before   *)
(* the open step, and none of it without one.                              *)
Clamped(caller, f) ==
    IF f.upto = None \/ f.upto > opened[caller] - 1 THEN [f EXCEPT !.upto = opened[caller] - 1] ELSE f
EventSearch(caller, target, f) ==
    CASE ~(target \in Known /\ Authorized(caller, target)) -> << >>
      [] target = caller -> IF opened[caller] = None \/ opened[caller] = 0 THEN << >>
                            ELSE FirstOf(Ranked(caller, Clamped(caller, f)))
      [] OTHER -> FirstOf(Ranked(target, f))

(* session_trace, trace_session(): over the sessions that are known.       *)
ParentOf(s) == IF header[s].parent \in Known THEN {header[s].parent} ELSE {}
Ancestors(s) ==
    LET Up[n \in 0..MaxIds] == IF n = 0 THEN ParentOf(s) ELSE Up[n-1] \cup UNION {ParentOf(p) : p \in Up[n-1]}
    IN  Up[MaxIds]
Descendants(s) ==
    LET Down[n \in 1..MaxIds] ==
            LET above == IF n = 1 THEN {s} ELSE {d[1] : d \in Down[n-1]}
            IN  {<<c, n>> : c \in {c \in Known : header[c].parent \in above}}
    IN  UNION {Down[n] : n \in 1..MaxIds}
SessionTrace(caller, target) ==
    IF ~(target \in Known /\ Authorized(caller, target)) THEN [up |-> {}, down |-> {}]
    ELSE [up |-> {a \in Ancestors(target) : Authorized(caller, a)},
          down |-> {d \in Descendants(target) : Authorized(caller, d[1])}]

(* session_event_trace, trace_event(): every splice over the number.       *)
Covering(events, e) == {r.seq : r \in {r \in Splices(events) : r.from <= e.seq /\ e.seq < r.upto}}
Covered(events, e) ==
    IF e.kind \in {"replace", "erase"} THEN {d.seq : d \in {d \in Events(events) : e.from <= d.seq /\ d.seq < e.upto}}
    ELSE {}

----------------------------------------------------------------------------
(***************************************************************************)
(* A caller's search of its own session never shows what its open step has *)
(* brought about (tool_session_query.cpp, the clamp).                      *)
(***************************************************************************)
OwnPast ==
    \A s \in live, f \in Filters :
        \A e \in Range(EventSearch(s, s, f)) : opened[s] # None /\ e.seq < opened[s]

(***************************************************************************)
(* A session search that does not say it stopped at its cap has shown all  *)
(* prior sessions of the workspace with a match, each by its best match;   *)
(* except when the caller's own session took a place and was left out.     *)
(***************************************************************************)
NothingMissed ==
    \A caller \in live, f \in Filters, parents \in {0..MaxIds, {1}} :
      LET page == SessionPage(caller, f, parents)
          items == WithoutCaller(page, caller)
          shown == {items[i].id : i \in DOMAIN items}
      IN  /\ \A s \in shown : s # caller /\ Authorized(caller, s)
          /\ ~Capped(items) /\ items = page =>
                \A s \in Known \ {caller} :
                    /\ header[caller].cwd # None /\ Authorized(caller, s) /\ header[s].parent \in parents
                    /\ Matching(Passes(Standing(Source(s)), f)) # {}
                    => s \in shown

(***************************************************************************)
(* A trace shows of the caller's workspace every session the target comes  *)
(* from or that comes from it through sessions still known, at its depth;  *)
(* of other workspaces none (trace_session, the erase_if of the tool).     *)
(***************************************************************************)
Path(s, d) == {p \in UNION {[1..n -> Known] : n \in 1..MaxIds} :
                  p[1] = s /\ p[Len(p)] = d /\ \A i \in 1..(Len(p) - 1) : header[p[i + 1]].parent = p[i]}
Lineage ==
    \A caller \in live, target \in Known :
      LET trace == SessionTrace(caller, target)
      IN  /\ \A s \in trace.up \cup {d[1] : d \in trace.down} : Authorized(caller, s)
          /\ Authorized(caller, target) =>
                \A s \in Known \ {target} : Authorized(caller, s) =>
                    /\ s \in trace.up <=> Path(s, target) # {}
                    /\ {d[2] : d \in {d \in trace.down : d[1] = s}} = {Len(p) - 1 : p \in Path(target, s)}

(***************************************************************************)
(* What a trace says of an event agrees with the surface: a message is in  *)
(* the history the model reads unless the trace names what replaced it,    *)
(* and what an event replaced names the event in turn (trace_event,        *)
(* classify_surfaces against the fold of session::surface).                *)
(***************************************************************************)
Relations ==
    \A s \in Known : \A e \in Events(Source(s)) :
      LET events == Source(s)
      IN  /\ e \in Speaking(events) =>
                /\ (e \in Visible(events)) <=> Covering(events, e) = {}
                /\ (e \in Visible(events)) <=> Standing(events)[e] = "current"
          /\ \A d \in Events(events) : d.seq \in Covered(events, e) <=> e.seq \in Covering(events, d)

Truthful == OwnPast /\ NothingMissed /\ Lineage /\ Relations
===============================================================================
