------------------------------ MODULE SessionLog ------------------------------
(***************************************************************************)
(* The session store (plugins/session) and the JSONL persistence plugin    *)
(* that listens to it (plugins/persistence), over crashes and restarts.    *)
(*                                                                         *)
(* Everything runs on the control strand and nothing here awaits: an       *)
(* append folds, publishes, and is in the writer's buffer when it returns. *)
(* (Were the listeners posted rather than run in place, they would see the *)
(* same events in the same order; the queue before them is part of what a  *)
(* crash loses, as the buffer is.)  What is not atomic is the file: the    *)
(* process can die between any two bytes of a write, and a power cut takes *)
(* any suffix no fsync has covered.                                        *)
(***************************************************************************)
EXTENDS Surface

CONSTANTS
    Ids,          \* session ids
    AppendKinds,  \* [Ids -> SUBSET Kinds] the kinds of events appended to a live session
    Roots,        \* SUBSET Ids: those created empty; the others only begin as forks
    Forks,        \* whether sessions are forked
    Reuse,        \* SUBSET Ids: those that may be chosen although they are on disk
    Threshold,    \* events in the buffer that make append() drain (64 KiB)
    MaxLog,       \* bound: events in a log, and in a file
    MaxCrashes    \* bound: how often the process dies

Kinds == {"message", "call", "result", "replace", "erase", "other", "malformed", "marker"}
ASSUME SessionAssumption ==
    /\ AppendKinds \in [Ids -> SUBSET (Kinds \ {"marker"})] /\ Roots \subseteq Ids /\ Forks \in BOOLEAN /\ Reuse \subseteq Ids
    /\ Threshold \in Nat \ {0} /\ MaxLog \in Nat /\ MaxCrashes \in Nat

Header == [seq |-> 0, kind |-> "session", from |-> 0, upto |-> 0]
Fragment == [seq |-> 0, kind |-> "fragment", from |-> 0, upto |-> 0]   \* bytes no parser accepts
Nothing == [seq |-> 0, kind |-> "nothing", from |-> 0, upto |-> 0]
Event == [seq : Nat, kind : Kinds, from : Nat, upto : Nat]
Record == Event \cup {Header}

VARIABLES
    entered,   \* SUBSET Ids: store_
    log,       \* [Ids -> Seq(Event)] log_ of the entered sessions
    next,      \* [Ids -> Nat] next_seq_
    built,     \* [Ids -> Nat] length of the construction input
    surface,   \* [Ids -> Seq(Nat)] surface_
    attached,  \* SUBSET Ids: writers_
    buffer,    \* [Ids -> Seq(Event)] writer_state::buffer
    present,   \* SUBSET Ids: the files
    lines,     \* [Ids -> Seq(Record)] the lines of the file
    tail,      \* [Ids -> Record or Fragment or Nothing] what follows the last newline
    synced,    \* [Ids -> Nat] how many lines an fsync has covered
    crashes,   \* how often the process has died
    base,      \* [Ids -> Nat] history: the lines the file had when it was attached
    sound      \* [Ids -> BOOLEAN] history: see Unsound below

memory == <<entered, log, next, built, surface>>
disk == <<present, lines, tail, synced>>
vars == <<memory, attached, buffer, disk, crashes, base, sound>>

Init ==
    /\ entered = {} /\ log = [i \in Ids |-> <<>>] /\ next = [i \in Ids |-> 0]
    /\ built = [i \in Ids |-> 0] /\ surface = [i \in Ids |-> <<>>]
    /\ attached = {} /\ buffer = [i \in Ids |-> <<>>]
    /\ present = {} /\ lines = [i \in Ids |-> <<>>] /\ tail = [i \in Ids |-> Nothing]
    /\ synced = [i \in Ids |-> 0] /\ crashes = 0
    /\ base = [i \in Ids |-> 0] /\ sound = [i \in Ids |-> TRUE]

----------------------------------------------------------------------------
(* repair_interrupted_turns: an unanswered call gets a closer; the closers *)
(* follow in the order of the calls' names.  A call is known by the nested *)
(* shape {"tool_call": {"id": ...}} of a content block.                    *)
Calls(s) == {s[i].seq : i \in {i \in DOMAIN s : s[i].kind = "call"}}
Answered(s) == {s[i].from : i \in {i \in DOMAIN s : s[i].kind = "result"}}
Open(s) == Calls(s) \ Answered(s)
ByName(S) == CHOOSE f \in [1..Cardinality(S) -> S] : \A x \in S : \E i \in 1..Cardinality(S) : f[i] = x
Repaired(s) ==
    s \o [i \in 1..Cardinality(Open(s)) |->
            [seq |-> Len(s) + i - 1, kind |-> "result", from |-> ByName(Open(s))[i], upto |-> 0]]

(* validate_event: the shapes of the built-in types, and of a splice.      *)
Valid(e) ==
    /\ e.kind # "malformed"
    /\ e.kind \in {"replace", "erase"} => e.from < e.upto /\ e.upto <= e.seq

(* prepare(): the seed numbers its events from 0.                          *)
Contiguous(s) == \A i \in DOMAIN s : s[i].seq = i - 1
Seedable(s) == Contiguous(s) /\ \A i \in DOMAIN s : Valid(s[i])
Marked(s) == Append(s, [seq |-> Len(s), kind |-> "marker", from |-> 0, upto |-> 0])

(* Mutant of prepare(): a restored log is marked like a seeded one.        *)
MarkedAlways(seed, seeded) ==
    IF seed # <<>> THEN Marked(Repaired(seed)) ELSE Repaired(seed)

Constructed(seed, seeded) ==
    IF seeded /\ seed # <<>> THEN Marked(Repaired(seed)) ELSE Repaired(seed)

(* prepare() and enter(): the session's constructor refolds its input.     *)
Enter(id, input) ==
    /\ id \notin entered /\ entered' = entered \cup {id}
    /\ log' = [log EXCEPT ![id] = input] /\ next' = [next EXCEPT ![id] = Len(input)]
    /\ built' = [built EXCEPT ![id] = Len(input)]
    /\ surface' = [surface EXCEPT ![id] = FoldLog(input)]

(* attach(), on 'session/created': create the file with its header, or     *)
(* drop what follows the last newline by rewriting the file, unsynced.     *)
Attach(id) ==
    /\ present' = present \cup {id} /\ attached' = attached \cup {id}
    /\ lines' = [lines EXCEPT ![id] = IF id \in present THEN @ ELSE <<Header>>]
    /\ tail' = [tail EXCEPT ![id] = Nothing]
    /\ synced' = [synced EXCEPT ![id] = IF id \in present /\ tail[id] = Nothing THEN @ ELSE 0]
    /\ buffer' = [buffer EXCEPT ![id] = <<>>]
    /\ base' = [base EXCEPT ![id] = Len(lines'[id])]

(* The ways a stored log stops being the session's events from 0 on: part  *)
(* of the session was never published, a number was spent on an event that *)
(* was refused, the file was there before, or a crash left its mark.       *)
Damaged(id) == tail[id] # Nothing \/ (id \in present /\ (lines[id] = <<>> \/ lines[id][1] # Header))
Unsound(id, published) ==
    sound' = [sound EXCEPT ![id] = @ /\ published /\ ~Damaged(id)]

(* '/session new', and agents' sessions: a fresh id, or a chosen one.      *)
Create(id) ==
    /\ id \in Roots /\ (id \in Reuse \/ id \notin present)
    /\ Enter(id, <<>>) /\ Attach(id) /\ Unsound(id, Len(lines[id]) <= 1)
    /\ UNCHANGED crashes

(* fork(): the prefix of the parent's log up to the cut is the seed.       *)
Fork(parent, id, cut) ==
    /\ Forks /\ parent \in entered /\ cut <= Len(log[parent])
    /\ id \in Reuse \/ id \notin present
    /\ LET seed == SubSeq(log[parent], 1, cut)
       IN  /\ Seedable(seed) /\ Len(Constructed(seed, TRUE)) <= MaxLog
           /\ Enter(id, Constructed(seed, TRUE))
    /\ Attach(id) /\ Unsound(id, cut = 0 /\ Len(lines[id]) <= 1)
    /\ UNCHANGED crashes

(* read(): the header first and once, every line parses, and so does what  *)
(* follows the last newline, if anything does.                             *)
Whole(id) == IF tail[id] = Nothing THEN lines[id] ELSE Append(lines[id], tail[id])
Readable(id) ==
    /\ id \in present /\ Whole(id) # <<>> /\ Whole(id)[1] = Header
    /\ \A i \in 2..Len(Whole(id)) : Whole(id)[i] \in Event
Stored(id) == Tail(Whole(id))

(* load_stored(): '/session load' and '/session restore'.                  *)
Load(id) ==
    /\ Readable(id) /\ Seedable(Stored(id)) /\ Len(Repaired(Stored(id))) <= MaxLog
    /\ Enter(id, Constructed(Stored(id), FALSE)) /\ Attach(id)
    /\ Unsound(id, Open(Stored(id)) = {})
    /\ UNCHANGED crashes

----------------------------------------------------------------------------
(* session::append and publish(): the number is taken before the event is  *)
(* validated.  The writer buffers what is published, and drains a full     *)
(* buffer; a session without a writer is not persisted.                    *)
Candidates(id, n) ==
    {[seq |-> n, kind |-> k, from |-> f, upto |-> u] :
        k \in AppendKinds[id], f \in 0..n, u \in 0..n + 1}
Proper(id, e) ==   \* the fields a kind of event does not have are 0
    /\ e.kind \in {"replace", "erase"} \/ e.upto = 0
    /\ e.kind \in {"replace", "erase", "result"} \/ e.from = 0
    /\ e.kind = "result" => e.from \in Open(log[id])

(* Mutant of drain(): the buffer is written but not cleared.               *)
BufferedKept(id, e) ==
    LET filled == Append(buffer[id], e)
    IN  IF id \notin attached THEN UNCHANGED <<buffer, lines>>
        ELSE /\ lines' = [lines EXCEPT ![id] = IF Len(filled) < Threshold THEN @ ELSE @ \o filled]
             /\ buffer' = [buffer EXCEPT ![id] = filled]

Buffered(id, e) ==
    LET filled == Append(buffer[id], e)
    IN  IF id \notin attached THEN UNCHANGED <<buffer, lines>>
        ELSE IF Len(filled) < Threshold
        THEN buffer' = [buffer EXCEPT ![id] = filled] /\ UNCHANGED lines
        ELSE /\ lines' = [lines EXCEPT ![id] = @ \o filled]
             /\ buffer' = [buffer EXCEPT ![id] = <<>>]

AppendEvent(id) ==
    /\ id \in entered /\ Len(log[id]) < MaxLog /\ next[id] < MaxLog
    /\ Len(lines[id]) + Len(buffer[id]) <= MaxLog
    /\ \E e \in Candidates(id, next[id]) :
          /\ Proper(id, e)
          /\ next' = [next EXCEPT ![id] = @ + 1]
          /\ IF Valid(e)
             THEN /\ log' = [log EXCEPT ![id] = Append(@, e)]
                  /\ surface' = [surface EXCEPT ![id] = Fold(@, e)]
                  /\ Buffered(id, e) /\ UNCHANGED sound
             ELSE sound' = [sound EXCEPT ![id] = FALSE] /\ UNCHANGED <<log, surface, buffer, lines>>
    /\ UNCHANGED <<entered, built, attached, present, tail, synced, crashes, base>>

(* Mutant of flush(): the fsync comes before the drain.                    *)
FlushedFirst(S) ==
    /\ lines' = [i \in Ids |-> IF i \in S THEN lines[i] \o buffer[i] ELSE lines[i]]
    /\ synced' = [i \in Ids |-> IF i \in S THEN Len(lines[i]) ELSE synced[i]]
    /\ buffer' = [i \in Ids |-> IF i \in S THEN <<>> ELSE buffer[i]]

(* flush(): drain and fsync.                                               *)
Flushed(S) ==
    /\ lines' = [i \in Ids |-> IF i \in S THEN lines[i] \o buffer[i] ELSE lines[i]]
    /\ synced' = [i \in Ids |-> IF i \in S THEN Len(lines'[i]) ELSE synced[i]]
    /\ buffer' = [i \in Ids |-> IF i \in S THEN <<>> ELSE buffer[i]]

(* session::flush, '/session save': the 'session/flush' barrier.           *)
Flush(id) ==
    /\ id \in entered /\ id \in attached /\ Flushed({id})
    /\ UNCHANGED <<memory, attached, present, tail, crashes, base, sound>>

(* dispose(), '/session close', the unloading of the owner: the writer     *)
(* flushes and lets go of the file.  What is left of the session is gone.  *)
Dispose(id) ==
    /\ id \in entered /\ entered' = entered \ {id}
    /\ Flushed({id} \cap attached) /\ attached' = attached \ {id}
    /\ log' = [log EXCEPT ![id] = <<>>] /\ next' = [next EXCEPT ![id] = 0]
    /\ built' = [built EXCEPT ![id] = 0] /\ surface' = [surface EXCEPT ![id] = <<>>]
    /\ base' = [base EXCEPT ![id] = 0]
    /\ UNCHANGED <<present, tail, crashes, sound>>

(* The persistence component is reloaded: ~jsonl_backend detaches every    *)
(* session, and the new backend covers only sessions created from then on. *)
Remount ==
    /\ attached # {} /\ Flushed(attached) /\ attached' = {}
    /\ base' = [i \in Ids |-> 0]
    /\ UNCHANGED <<memory, present, tail, crashes, sound>>

----------------------------------------------------------------------------
(* What is left of the records s when the first n are whole and a byte or  *)
(* more of the next one may be.                                            *)
Image(s, n, t) ==
    [lines |-> SubSeq(s, 1, n),
     tail |-> CASE t = "whole" /\ n < Len(s) -> s[n + 1]
                [] t = "part" /\ n < Len(s) -> Fragment
                [] OTHER -> Nothing]
Images(s, least) == {Image(s, n, t) : n \in least..Len(s), t \in {"none", "part", "whole"}}
AsIs(id) == [lines |-> lines[id], tail |-> tail[id]]

(* What a crash leaves of id's file, if it struck while id's buffer was    *)
(* written (writing), and if it took the power (power).                    *)
Remains(id, writing, power) ==
    LET least == IF power THEN synced[id] ELSE Len(lines[id])
        reached == IF writing THEN lines[id] \o buffer[id] ELSE lines[id]
    IN  IF writing \/ power THEN Images(reached, least) \cup {AsIs(id)} ELSE {AsIs(id)}

(* ... while attach() was creating it, or rewriting it without its tail.   *)
Opening(id) == id \notin attached /\ (id \notin present \/ tail[id] # Nothing)
RemainsOpening(id) ==
    Images(IF id \in present THEN lines[id] ELSE <<Header>>, 0)

Restarted ==
    /\ entered' = {} /\ attached' = {}
    /\ log' = [i \in Ids |-> <<>>] /\ next' = [i \in Ids |-> 0] /\ built' = [i \in Ids |-> 0]
    /\ surface' = [i \in Ids |-> <<>>] /\ buffer' = [i \in Ids |-> <<>>] /\ base' = [i \in Ids |-> 0]
    /\ crashes < MaxCrashes /\ crashes' = crashes + 1

(* The process dies: idle, or in the middle of draining one buffer; the    *)
(* power may go with it, and then every file keeps what was synced.        *)
Crash(power, busy) ==
    /\ Restarted
    /\ \E left \in [Ids -> UNION {Remains(i, i \in busy, power) : i \in Ids}] :
          /\ \A i \in Ids : left[i] \in Remains(i, i \in busy, power)
          /\ lines' = [i \in Ids |-> left[i].lines] /\ tail' = [i \in Ids |-> left[i].tail]
    /\ synced' = [i \in Ids |-> IF power THEN Len(lines'[i]) ELSE synced[i]]
    /\ \E lost \in SUBSET {i \in present : power /\ synced[i] = 0 /\ lines'[i] = <<>> /\ tail'[i] = Nothing} :
          present' = present \ lost
    /\ sound' = [i \in Ids |-> sound[i] \/ i \notin present']

(* The process dies inside attach(): id's file is half created, or half    *)
(* rewritten.                                                              *)
CrashOpening(id) ==
    /\ id \notin entered /\ Opening(id) /\ (id \in Reuse \/ id \notin present \/ Readable(id))
    /\ Restarted
    /\ \E left \in RemainsOpening(id) :
          /\ lines' = [lines EXCEPT ![id] = left.lines]
          /\ tail' = [tail EXCEPT ![id] = left.tail]
    /\ synced' = [synced EXCEPT ![id] = 0]
    /\ present' = present \cup {id} /\ UNCHANGED sound

Next ==
    \/ \E id \in Ids : Create(id)
    \/ \E id, parent \in Ids, cut \in 0..MaxLog : Fork(parent, id, cut)
    \/ \E id \in Ids : Load(id)
    \/ \E id \in Ids : AppendEvent(id)
    \/ \E id \in Ids : Flush(id)
    \/ \E id \in Ids : Dispose(id)
    \/ Remount
    \/ \E power \in BOOLEAN, busy \in {{}} \cup {{i} : i \in attached} : Crash(power, busy)
    \/ \E id \in Ids : CrashOpening(id)

Spec == Init /\ [][Next]_vars

----------------------------------------------------------------------------
Tails == Record \cup {Fragment, Nothing}
TypeOK ==
    /\ entered \subseteq Ids /\ attached \subseteq entered /\ attached \subseteq present
    /\ present \subseteq Ids
    /\ log \in [Ids -> Seq(Event)] /\ next \in [Ids -> Nat] /\ built \in [Ids -> Nat]
    /\ buffer \in [Ids -> Seq(Event)]
    /\ lines \in [Ids -> Seq(Record)] /\ tail \in [Ids -> Tails]
    /\ synced \in [Ids -> Nat] /\ crashes \in Nat
    /\ base \in [Ids -> Nat] /\ sound \in [Ids -> BOOLEAN]

(* The file and the buffer of an attached session together hold exactly    *)
(* what it has published since it was attached: the events of its log      *)
(* after the construction input, in order, none twice, none missing.       *)
(* (session_appended_msg to jsonl_backend::append, drain and flush.)       *)
WriterTracksLog ==
    \A id \in attached :
       SubSeq(lines[id], base[id] + 1, Len(lines[id])) \o buffer[id]
          = SubSeq(log[id], built[id] + 1, Len(log[id]))

(* A stored log is the events 0..n-1 behind one header, as stored_session  *)
(* (persistence.hpp:30) has it, unless one of the events Unsound names     *)
(* happened: these are the only ways to lose it, whatever else crashes,    *)
(* restarts, reloads and disposals do.                                     *)
SoundStored ==
    \A id \in present : (sound[id] /\ lines[id] # <<>>) =>
       lines[id][1] = Header /\ Contiguous(Tail(lines[id]))

(* The surface kept incrementally, and refolded on construction, shows the *)
(* visible events, each once, a replacement in place of what it replaced.  *)
SurfaceShows == \A id \in entered : Shows(surface[id], log[id])

(* The plugin implements the durable log: what is kept are the whole lines *)
(* of the files, what is pending the buffers of the writers.               *)
Durable == INSTANCE DurableLog WITH
    Log <- Ids, pending <- buffer, kept <- lines, sure <- synced,
    torn <- [i \in Ids |-> tail[i] # Nothing]
DurablePromise == Durable!DurableSpec
===============================================================================
