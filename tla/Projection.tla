------------------------------ MODULE Projection ------------------------------
(***************************************************************************)
(* State folded from a session's log and kept beside it (projection.hpp,   *)
(* store.hpp, store.cpp), with the projection of tool-todo: the task list  *)
(* a model writes whole, which the next turn clears.                       *)
(***************************************************************************)
EXTENDS Integers, SequencesExt, FiniteSetsExt

CONSTANTS
    Sessions,      \* ids
    Lists,         \* what the model may send: sequences of [content, status]
    MaxLog,        \* bound: the events of a log
    MaxWork        \* bound: what happens

VARIABLES
    logs,          \* [session -> its events: [seq, type, todos]], of those entered
    next_seq,      \* [session -> the number the next event gets], of the same
    kept,          \* [session -> its events], of those on disk
    parallel,      \* whether the plugin in place allows several tasks in progress
    registered,    \* whether the projection is registered
    cells,         \* [session -> its state], of those that have a cell
    early,         \* sessions entered before the projection was registered
    work

vars == <<logs, next_seq, kept, parallel, registered, cells, early, work>>

\* No list was written since the turn began.
NoList == <<[content |-> "none", status |-> "none"]>>

Init ==
    /\ logs = << >> /\ next_seq = << >> /\ kept = << >> /\ parallel = TRUE
    /\ registered = FALSE /\ cells = << >> /\ early = {} /\ work = 0

Works == work < MaxWork /\ work' = work + 1
Entered == DOMAIN logs

(* canonicalize(): what the tool refuses.                                  *)
Status == {"pending", "in_progress", "completed"}
Active(list) == Cardinality({i \in DOMAIN list : list[i].status = "in_progress"})
Canonical(list) ==
    /\ \A i \in DOMAIN list : list[i].content # "" /\ list[i].status \in Status
    /\ \A i, j \in DOMAIN list : list[i].content = list[j].content => i = j
    /\ parallel \/ Active(list) <= 1

(* The projection's apply, and the cell it is called for.                  *)
Applied(state, ev) ==
    CASE ev.type = "turn/start" -> NoList
      [] ev.type = "todo/write" -> ev.todos
      [] OTHER -> state
Driven(s, ev) == IF s \in DOMAIN cells THEN [cells EXCEPT ![s] = Applied(@, ev)] ELSE cells

(* A seed is read from its first event on, and a cell that is there        *)
(* already is not begun anew.                                              *)
Folded(start, log) ==
    LET read[n \in 0..Len(log)] == IF n = 0 THEN start ELSE Applied(read[n - 1], log[n]) IN read[Len(log)]
Seeded(s, log) ==
    IF ~registered THEN cells
    ELSE LET start == IF s \in DOMAIN cells THEN cells[s] ELSE NoList
         IN  [i \in DOMAIN cells \cup {s} |-> IF i = s THEN Folded(start, log) ELSE cells[i]]
Dropped(s) == Restrict(cells, DOMAIN cells \ {s})

Event(n, type, todos) == [seq |-> n, type |-> type, todos |-> todos]

(* prepare(), enter(), announce(): a seed whose numbers do not run from 0  *)
(* is refused, and one that was inherited is given a mark.  The closers of *)
(* unanswered calls, of a type of their own, are left out.                 *)
Sound(seed) == \A i \in DOMAIN seed : seed[i].seq = i - 1
Prepared(seed, inherited) ==
    IF inherited /\ seed # << >> THEN Append(seed, Event(Len(seed), "session/end-seed", NoList)) ELSE seed
Enter(s, log) ==
    /\ logs' = [i \in Entered \cup {s} |-> IF i = s THEN log ELSE logs[i]]
    /\ next_seq' = [i \in Entered \cup {s} |-> IF i = s THEN Len(log) ELSE next_seq[i]]
    /\ cells' = Seeded(s, log)
    /\ early' = IF registered THEN early \ {s} ELSE early \cup {s}

Create(s) ==
    /\ Works /\ s \notin Entered
    /\ Enter(s, << >>)
    /\ UNCHANGED <<kept, parallel, registered>>
Restore(s) ==
    /\ Works /\ s \notin Entered /\ s \in DOMAIN kept /\ Sound(kept[s])
    /\ Enter(s, Prepared(kept[s], FALSE))
    /\ UNCHANGED <<kept, parallel, registered>>
Fork(p, s) ==
    /\ Works /\ s \notin Entered
    /\ \E cut \in 0..Len(logs[p]) :
        LET seed == SubSeq(logs[p], 1, cut) IN Sound(seed) /\ Enter(s, Prepared(seed, TRUE))
    /\ UNCHANGED <<kept, parallel, registered>>

(* append() and publish(): the cells are driven before the event is put    *)
(* into the log; an event that is not valid keeps its number.              *)
Append_(s, type, todos) ==
    LET ev == Event(next_seq[s], type, todos)
    IN  /\ Len(logs[s]) < MaxLog
        /\ logs' = [logs EXCEPT ![s] = Append(@, ev)] /\ next_seq' = [next_seq EXCEPT ![s] = @ + 1]
        /\ cells' = Driven(s, ev)
        /\ UNCHANGED <<kept, parallel, registered, early>>
Turn(s) == Works /\ \E type \in {"turn/start", "turn/end"} : Append_(s, type, NoList)
Write(s) == Works /\ registered /\ \E list \in Lists : Canonical(list) /\ Append_(s, "todo/write", list)
Invalid(s) ==
    /\ Works /\ next_seq' = [next_seq EXCEPT ![s] = @ + 1]
    /\ UNCHANGED <<logs, kept, parallel, registered, cells, early>>

Save(s) ==
    /\ Works /\ kept' = [i \in DOMAIN kept \cup {s} |-> IF i = s THEN logs[s] ELSE kept[i]]
    /\ UNCHANGED <<logs, next_seq, parallel, registered, cells, early>>
Dispose(s) ==
    /\ Works
    /\ logs' = Restrict(logs, Entered \ {s}) /\ next_seq' = Restrict(next_seq, Entered \ {s})
    /\ cells' = Dropped(s) /\ early' = early \ {s}
    /\ UNCHANGED <<kept, parallel, registered>>

(* The plugin comes and goes: a registration begins without any cell.      *)
Load ==
    /\ Works /\ ~registered /\ registered' = TRUE /\ parallel' \in BOOLEAN
    /\ early' = Entered
    /\ UNCHANGED <<logs, next_seq, kept, cells>>
Unload ==
    /\ Works /\ registered /\ registered' = FALSE /\ cells' = << >>
    /\ early' = Entered
    /\ UNCHANGED <<logs, next_seq, kept, parallel>>

Next ==
    \/ \E s \in Sessions : Create(s) \/ Restore(s) \/ \E p \in Entered : Fork(p, s)
    \/ \E s \in Entered : Turn(s) \/ Write(s) \/ Invalid(s) \/ Save(s) \/ Dispose(s)
    \/ Load \/ Unload
Spec == Init /\ [][Next]_vars

(* What the list should be, from the log alone.                            *)
Standing(log) ==
    LET writes == {i \in DOMAIN log : log[i].type = "todo/write"}
        turns == {i \in DOMAIN log : log[i].type = "turn/start"}
    IN  IF writes = {} \/ (turns # {} /\ Max(turns) > Max(writes)) THEN NoList ELSE log[Max(writes)].todos

(* While the projection is registered a session has a cell exactly if it   *)
(* was entered since, and the cell is what its log gives, however the log  *)
(* came to be: appended to, restored, inherited or begun again under an id *)
(* that was in use before.                                                 *)
Current ==
    /\ DOMAIN cells = IF registered THEN Entered \ early ELSE {}
    /\ \A s \in DOMAIN cells : cells[s] = Standing(logs[s])

(* And what it takes for it to stay so.                                    *)
Entries ==
    [seq : Nat, type : {"turn/start", "turn/end", "todo/write", "session/end-seed"}, todos : Lists \cup {NoList}]
Inv ==
    /\ Current
    /\ DOMAIN next_seq = Entered /\ \A s \in Entered : next_seq[s] \in Nat /\ logs[s] \in Seq(Entries)
    /\ \A s \in DOMAIN kept : kept[s] \in Seq(Entries)
===============================================================================
