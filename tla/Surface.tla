-------------------------------- MODULE Surface --------------------------------
(***************************************************************************)
(* The surface of a session (surface.cpp): the message history the model   *)
(* is shown, folded from the log one event at a time, and what the fold is *)
(* meant to compute.  A node of the surface is the sequence number of the  *)
(* event that speaks for it (source_seqs_); its message is data.           *)
(***************************************************************************)
EXTENDS Integers, Sequences, FiniteSets, SequencesExt

(* push(): a message event goes to the tail.                               *)
Push(surface, seq) == Append(surface, seq)

(* Mutant of replace(): the replacement goes to the tail.                  *)
ReplacedAtTail(surface, from, upto, seq, speaks) ==
    LET rest == SelectSeq(surface, LAMBDA s : s < from \/ s >= upto)
    IN  IF speaks THEN Append(rest, seq) ELSE rest

(* replace(): one pass writes the survivors back over the nodes of the     *)
(* span and remembers where the first of those was; the replacement, if    *)
(* the event carries one, is inserted there, or at the tail.               *)
Passed(acc, s, from, upto) ==
    IF s >= from /\ s < upto
    THEN [acc EXCEPT !.at = IF @ = 0 THEN Len(acc.kept) + 1 ELSE @]
    ELSE [acc EXCEPT !.kept = Append(@, s)]
Pass(surface, from, upto) ==
    LET P[n \in 0..Len(surface)] ==
          IF n = 0 THEN [kept |-> <<>>, at |-> 0] ELSE Passed(P[n-1], surface[n], from, upto)
    IN  P[Len(surface)]
Replaced(surface, from, upto, seq, speaks) ==
    LET pass == Pass(surface, from, upto)
        at == IF pass.at = 0 THEN Len(pass.kept) + 1 ELSE pass.at
    IN  IF speaks THEN InsertAt(pass.kept, at, seq) ELSE pass.kept

(* fold_event() and session::fold().                                       *)
Fold(surface, e) ==
    CASE e.kind \in {"message", "call", "result"} -> Push(surface, e.seq)
      [] e.kind \in {"replace", "erase"} ->
            Replaced(surface, e.from, e.upto, e.seq, e.kind = "replace")
      [] OTHER -> surface

FoldLog(log) ==
    LET F[n \in 0..Len(log)] == IF n = 0 THEN <<>> ELSE Fold(F[n-1], log[n])
    IN  F[Len(log)]

----------------------------------------------------------------------------
(* The reference: which events are visible, and in which order.            *)
(* An event shows a node unless a later splice covers its number.          *)
Events(log) == {log[i] : i \in DOMAIN log}
Splices(log) == {e \in Events(log) : e.kind \in {"replace", "erase"}}
Speaking(log) == {e \in Events(log) : e.kind \in {"message", "call", "result", "replace"}}
Covers(r, e) == r.seq > e.seq /\ r.from <= e.seq /\ e.seq < r.upto
Removed(log, e) == {r \in Splices(log) : Covers(r, e)}
Visible(log) == {e \in Speaking(log) : Removed(log, e) = {}}

(* A node that replaces others stands where the first of them stood.       *)
Before(log, r) == {e \in Speaking(log) :
                      Covers(r, e) /\ \A q \in Removed(log, e) : q.seq >= r.seq}
Least(S) == CHOOSE n \in S : \A k \in S : n <= k
Placed(places, log, e) ==
    LET gone == IF e.kind = "replace" THEN Before(log, e) ELSE {}
    IN  [q \in DOMAIN places \cup {e.seq} |->
           IF q # e.seq THEN places[q]
           ELSE IF gone = {} THEN e.seq ELSE Least({places[g.seq] : g \in gone})]
Place(log) ==
    LET P[n \in 0..Len(log)] ==   \* the places of the first n events, by number
          IF n = 0 THEN [q \in {} |-> 0] ELSE Placed(P[n-1], log, log[n])
    IN  P[Len(log)]

(* surface is the visible events, each once, in the order of their places. *)
Shows(surface, log) ==
    /\ {surface[i] : i \in DOMAIN surface} = {e.seq : e \in Visible(log)}
    /\ \A i, j \in DOMAIN surface : i < j => Place(log)[surface[i]] < Place(log)[surface[j]]
===============================================================================
