------------------------------ MODULE SessionIndex ------------------------------
(***************************************************************************)
(* Session search: the full-text index of plugins/session-query-sqlite,    *)
(* reconciled with the sessions before every search, and the reads of      *)
(* plugins/session-query it is built from.  The index is a file: it        *)
(* outlives the process, and the sessions it describes may come back from  *)
(* a crash shorter than they were when it read them.                       *)
(*                                                                         *)
(* Every call runs to its end on the control strand; what is between two   *)
(* searches is everything else.  A page of hits is abstracted to the       *)
(* documents it is ranked from.                                            *)
(***************************************************************************)
EXTENDS Surface

CONSTANTS
    Ids,         \* session ids
    Persisted,   \* SUBSET Ids: those the persistence plugin writes
    Texts,       \* what an event may say
    None,        \* no row, no cursor
    MaxLog,      \* bound: events in a log
    MaxGen,      \* bound: generations of the index
    MaxCrashes   \* bound: how often the process dies

VARIABLES
    live,      \* SUBSET Ids: the store's sessions
    log,       \* [Ids -> Seq] session::log of those
    disk,      \* [Ids -> Seq] the events of a session's file
    stamp,     \* [Ids -> Nat] its modification time, 0 without a file
    torn,      \* SUBSET Ids: files read() refuses
    file,      \* the database: "absent", "ours" or "foreign"
    rows,      \* [Ids -> Row or None] indexed_sessions and documents
    gen,       \* search_state.generation
    opened,    \* opened_: "no", "yes", or "broken" when opening failed half way
    mem,       \* generation_
    cursor,    \* a cursor some caller holds, or None
    crashes,
    lost,      \* history: SUBSET Ids, indexed live, then cut short by a crash or begun anew
    failed     \* history: whether a commit has failed

world == <<live, log, disk, stamp, torn, crashes>>
vars == <<world, file, rows, gen, opened, mem, cursor, lost, failed>>

Init ==
    /\ live = {} /\ log = [i \in Ids |-> <<>>] /\ disk = [i \in Ids |-> <<>>]
    /\ stamp = [i \in Ids |-> 0] /\ torn = {} /\ crashes = 0
    /\ file \in {"absent", "foreign"} /\ rows = [i \in Ids |-> None] /\ gen = 0
    /\ opened = "no" /\ mem = 0 /\ cursor = None /\ lost = {} /\ failed = FALSE

----------------------------------------------------------------------------
(* extract_event_text: a splice says nothing, some log-only events do.     *)
Says(e) == e.kind \in {"message", "other"}

(* classify_surfaces: what the folded surface cites is current; any other  *)
(* number some splice spans is shadowed.                                   *)
Surfaces(s) ==
    LET current == Range(FoldLog(s))
    IN  [i \in DOMAIN s |->
           IF s[i].seq \in current THEN "current"
           ELSE IF \E r \in Splices(s) : r.from <= s[i].seq /\ s[i].seq < r.upto
           THEN "shadowed" ELSE "log-only"]

Documents(s) == {[seq |-> s[i].seq, text |-> s[i].text, surface |-> Surfaces(s)[i]] :
                    i \in {i \in DOMAIN s : Says(s[i])}}

(* session_surface::generation: the splices that changed something.        *)
Generation(s) ==
    Cardinality({i \in DOMAIN s : s[i].kind = "replace" \/
        (s[i].kind = "erase" /\ \E q \in Range(FoldLog(SubSeq(s, 1, i - 1))) : s[i].from <= q /\ q < s[i].upto)})

(* desired_sessions, read_session and source_of: the store first, then the *)
(* files; revision() asks for a file's time and size, not its contents.    *)
Desired == live \cup {i \in Ids : stamp[i] > 0}
Readable(id) == id \in live \/ (stamp[id] > 0 /\ id \notin torn)
Source(id) == IF id \in live THEN log[id] ELSE disk[id]

Revision(id) ==
    IF id \in live THEN <<"live", Len(log[id]), Generation(log[id])>>
    ELSE <<"file", stamp[id], Len(disk[id])>>

(* reconcile(): rows whose revision and liveness are the wanted ones stay. *)
Kept(id) == rows[id] # None /\ rows[id].revision = Revision(id) /\ rows[id].live = (id \in live)
Reconciled ==
    [i \in Ids |->
        IF i \notin Desired THEN None
        ELSE IF Kept(i) THEN rows[i]
        ELSE IF Readable(i)
        THEN [revision |-> Revision(i), live |-> i \in live, docs |-> Documents(Source(i))]
        ELSE None]

(* ensure_open(): the generation is read from the database once.           *)
Base == IF opened = "no" THEN gen ELSE mem

Opens == opened = "yes" \/ (opened = "no" /\ file # "foreign")

(* A search: open, reconcile in one transaction, check the cursor, read.   *)
Searched ==
    /\ Opens /\ opened' = "yes" /\ file' = "ours"
    /\ rows' = Reconciled
    /\ IF rows' = rows THEN gen' = gen /\ mem' = Base
       ELSE gen < MaxGen /\ gen' = gen + 1 /\ mem' = Base + 1
    /\ lost' = {i \in lost : rows[i] = rows'[i]}

Search ==
    /\ Searched
    /\ cursor' \in {cursor, [gen |-> mem', rows |-> rows']}
    /\ UNCHANGED <<world, failed>>

(* Mutant of decode_cursor: a cursor of any generation will do.            *)
AcceptsAny(c, generation) == c # None

Accepts(c, generation) == c # None /\ c.gen = generation

SearchOn ==
    /\ Searched /\ Accepts(cursor, mem') /\ UNCHANGED <<world, cursor, failed>>

(* "session history changed while paging"                                  *)
SearchStale ==
    /\ Searched /\ cursor # None /\ ~Accepts(cursor, mem') /\ cursor' = None
    /\ UNCHANGED <<world, failed>>

(* The transaction fails: before its end, or at COMMIT, after generation_  *)
(* was raised.  Everything is rolled back except generation_.              *)
SearchFails ==
    /\ Opens /\ opened' = "yes" /\ file' = "ours" /\ mem <= MaxGen
    /\ mem' \in {Base} \cup (IF Reconciled # rows THEN {Base + 1} ELSE {})
    /\ failed' = (failed \/ mem' # Base)
    /\ UNCHANGED <<world, rows, gen, cursor, lost>>

(* ensure_open() fails after opened_ was set: another application's file,  *)
(* or a statement that failed.  It is not tried again.                     *)
OpenFails ==
    /\ opened = "no" /\ opened' = "broken"
    /\ UNCHANGED <<world, file, rows, gen, mem, cursor, lost, failed>>

(* The plugin is loaded again.                                             *)
Reload ==
    /\ opened # "no" /\ opened' = "no" /\ mem' = 0
    /\ UNCHANGED <<world, file, rows, gen, cursor, lost, failed>>

----------------------------------------------------------------------------
(* What happens to the sessions in between (SessionLog, abstracted): a     *)
(* session is begun, appended to, flushed, closed and restored; the        *)
(* process dies and with it what was not flushed.                          *)
index == <<file, rows, gen, opened, mem, cursor, failed>>

Stored(id) ==
    /\ disk' = [disk EXCEPT ![id] = log[id]]
    /\ stamp' = [stamp EXCEPT ![id] = IF @ = 0 \/ disk[id] # log[id] THEN @ + 1 ELSE @]

Begin(id) ==
    /\ id \notin live /\ stamp[id] = 0 /\ live' = live \cup {id}
    /\ log' = [log EXCEPT ![id] = <<>>]
    /\ stamp' = [stamp EXCEPT ![id] = IF id \in Persisted THEN 1 ELSE 0]
    /\ lost' = IF rows[id] # None THEN lost \cup {id} ELSE lost
    /\ UNCHANGED <<disk, torn, crashes, index>>

AppendTo(id) ==
    /\ id \in live /\ Len(log[id]) < MaxLog
    /\ \E kind \in {"message", "replace", "erase", "other"}, text \in Texts, from, upto \in 0..MaxLog :
          /\ kind \in {"replace", "erase"} => from < upto /\ upto <= Len(log[id]) /\ text = CHOOSE t \in Texts : TRUE
          /\ kind \notin {"replace", "erase"} => from = 0 /\ upto = 0
          /\ log' = [log EXCEPT ![id] = Append(@, [seq |-> Len(log[id]), kind |-> kind, from |-> from,
                                                  upto |-> upto, text |-> text])]
    /\ UNCHANGED <<live, disk, stamp, torn, crashes, index, lost>>

FlushOf(id) ==
    /\ id \in live \cap Persisted /\ disk[id] # log[id] /\ Stored(id)
    /\ UNCHANGED <<live, log, torn, crashes, index, lost>>

Close(id) ==
    /\ id \in live /\ live' = live \ {id}
    /\ IF id \in Persisted THEN Stored(id) ELSE UNCHANGED <<disk, stamp>>
    /\ log' = [log EXCEPT ![id] = <<>>] /\ UNCHANGED <<torn, crashes, index, lost>>

Restore(id) ==
    /\ id \notin live /\ stamp[id] > 0 /\ id \notin torn
    /\ live' = live \cup {id} /\ log' = [log EXCEPT ![id] = disk[id]]
    /\ UNCHANGED <<disk, stamp, torn, crashes, index, lost>>

Crash ==
    /\ crashes < MaxCrashes /\ crashes' = crashes + 1
    /\ live' = {} /\ log' = [i \in Ids |-> <<>>]
    /\ \E t \in SUBSET {i \in live \cap Persisted : disk[i] # log[i]} :
          torn' = torn \cup t /\ stamp' = [i \in Ids |-> IF i \in t THEN stamp[i] + 1 ELSE stamp[i]]
    /\ lost' = lost \cup {i \in live : rows[i] # None /\ rows[i].live /\ disk[i] # log[i]}
    /\ opened' = "no" /\ mem' = 0
    /\ UNCHANGED <<disk, file, rows, gen, cursor, failed>>

Next ==
    \/ Search \/ SearchOn \/ SearchStale \/ SearchFails \/ OpenFails \/ Reload \/ Crash
    \/ \E id \in Ids : Begin(id) \/ AppendTo(id) \/ FlushOf(id) \/ Close(id) \/ Restore(id)

Spec == Init /\ [][Next]_vars

----------------------------------------------------------------------------
(* A search answers from the sessions as they are: every readable session  *)
(* is indexed, under its liveness, with exactly the documents its log now  *)
(* has, and nothing else is.  Excused is a session that was indexed live   *)
(* and then cut short by a crash, or closed without a file and begun anew  *)
(* under its id: its revision, a length and a count, can come back with    *)
(* other events behind it.  And the pages of one search are pages of one   *)
(* state of the index, whatever is appended, restored, reloaded or lost in *)
(* between, as long as no commit fails.  (reconcile, live_revision,        *)
(* encode_cursor, decode_cursor, generation_.)                             *)
IndexCurrent ==
    /\ Search \/ SearchOn =>
         \A i \in Ids \ lost :
            /\ (rows'[i] # None) = (i \in Desired /\ Readable(i))
            /\ rows'[i] # None => rows'[i].docs = Documents(Source(i)) /\ rows'[i].live = (i \in live)
    /\ SearchOn /\ ~failed => rows' = cursor.rows

(* And what it takes for it to stay so.  A row of a live session has the   *)
(* documents of a prefix of its log, or of its file since the session was  *)
(* closed, as long as its revision says; a row of a file has those of the  *)
(* file, which can be read, as long as its time has not changed.  And a    *)
(* cursor is of an earlier generation, or of the rows there are.           *)
Written ==
    [seq : Nat, kind : {"message", "replace", "erase", "other"}, from : Nat, upto : Nat, text : Texts]
Rows ==
    [revision : {"live", "file"} \X Nat \X Nat, live : BOOLEAN,
     docs : SUBSET [seq : Nat, text : Texts, surface : {"current", "shadowed", "log-only"}]]
Types ==
    /\ live \subseteq Ids /\ torn \subseteq Ids /\ lost \subseteq Ids
    /\ log \in [Ids -> Seq(Written)] /\ disk \in [Ids -> Seq(Written)] /\ stamp \in [Ids -> Nat]
    /\ \A id \in Ids \ Persisted : stamp[id] = 0
    /\ rows \in [Ids -> Rows \cup {None}] /\ gen \in Nat /\ mem \in Nat
    /\ opened \in {"no", "yes", "broken"} /\ failed \in BOOLEAN
RowKnown(id) ==
    /\ rows[id].live =>
         /\ rows[id].revision[2] \in 0..Len(Source(id))
         /\ rows[id].docs = Documents(SubSeq(Source(id), 1, rows[id].revision[2]))
    /\ ~rows[id].live =>
         /\ rows[id].revision[2] \in 0..stamp[id]
         /\ rows[id].revision[2] = stamp[id] => id \notin torn /\ rows[id].docs = Documents(disk[id])
Known == \A id \in Desired \ lost : rows[id] # None => RowKnown(id)
Paged ==
    ~failed =>
       /\ opened = "yes" => mem = gen
       /\ cursor # None => cursor.gen \in 0..gen /\ (cursor.gen = gen => cursor.rows = rows)
Inv == Types /\ Known /\ Paged
===============================================================================
