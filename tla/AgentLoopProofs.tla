--------------------------- MODULE AgentLoopProofs ---------------------------
(***************************************************************************)
(* What the agent loop never does, for any callers, calls, goals, limits   *)
(* and bounds.  AgentInv is inductive.  It adds to the types: where the    *)
(* drive and its callers stand (Control), where every message is (Books),  *)
(* what an idle driver's inbox holds (Drained), which rounds were admitted *)
(* and which of the queued ones may still be (Rounds), and that the input  *)
(* of a run waits only for the first step of the drive it started          *)
(* (Seeded).  Delivery, RoundsAdmitted and CallersServed follow.  Each     *)
(* part is kept by every action, given the others.                         *)
(*                                                                         *)
(* The first lemmas say what the operators of the inbox and of the goal's  *)
(* projection come to: an enqueued message goes to the end of its queue,   *)
(* unless its id is queued already; a claim empties a queue, or takes its  *)
(* head; of the admitted messages only the round among them counts.        *)
(***************************************************************************)
EXTENDS AgentLoop, FiniteSetTheorems, SequenceTheorems, WellFoundedInduction, TLAPS

----------------------------------------------------------------------------
(* Queues, claims and the reading of rounds *)

(* Cuts at the ends of a queue.                                            *)
LEMMA Cuts ==
    ASSUME NEW M, NEW q \in Seq(M)
    PROVE  /\ Len(q) \in Nat
           /\ SubSeq(q, 1, Len(q)) = q /\ SubSeq(q, 1, 0) = <<>> /\ SubSeq(q, Len(q) + 1, Len(q)) = <<>>
           /\ q \o <<>> = q /\ <<>> \o q = q
           /\ Len(q) >= 1 => SubSeq(q, 1, 1) = <<q[1]>> /\ q[1] \in M
<1>1. Len(q) \in Nat
  OBVIOUS
<1>2. SubSeq(q, 1, Len(q)) = q
  BY SubSeqFull
<1>3. SubSeq(q, 1, 0) = <<>> /\ SubSeq(q, Len(q) + 1, Len(q)) = <<>>
  BY <1>1, SubSeqEmpty
<1>4. q \o <<>> = q /\ <<>> \o q = q
  BY ConcatEmptySeq
<1>5. ASSUME Len(q) >= 1 PROVE SubSeq(q, 1, 1) = <<q[1]>> /\ q[1] \in M
  <2>1. q[1] \in M
    BY <1>5
  <2>2. SubSeq(q, 1, 1) = SubSeq(q, 1, 1 - 1) \o <<q[1]>>
    BY <1>1, <1>5, SubSeqRecursiveSecond
  <2>3. <<q[1]>> \in Seq(M)
    BY <2>1
  <2>4. <<>> \o <<q[1]>> = <<q[1]>>
    BY <2>3, ConcatEmptySeq
  <2>5. SubSeq(q, 1, 1 - 1) = <<>>
    BY <1>3
  <2>. QED  BY <2>1, <2>2, <2>4, <2>5
<1>. QED  BY <1>1, <1>2, <1>3, <1>4, <1>5

(* The elements of a sequence, as a set.                                   *)
LEMMA Elements ==
    ASSUME NEW M, NEW s \in Seq(M)
    PROVE  ToSet(s) \subseteq M /\ \A m : m \in ToSet(s) <=> \E i \in DOMAIN s : s[i] = m
BY DEF ToSet

(* A concatenation, element by element.                                    *)
LEMMA Joined ==
    ASSUME NEW M, NEW a \in Seq(M), NEW b \in Seq(M)
    PROVE  /\ Len(a \o b) = Len(a) + Len(b) /\ a \o b \in Seq(M)
           /\ DOMAIN (a \o b) = 1 .. (Len(a) + Len(b)) /\ Len(a) \in Nat /\ Len(b) \in Nat
           /\ \A i \in 1 .. Len(a) + Len(b) : (a \o b)[i] = IF i <= Len(a) THEN a[i] ELSE b[i - Len(a)]
<1>1. /\ Len(a \o b) = Len(a) + Len(b) /\ a \o b \in Seq(M)
      /\ DOMAIN (a \o b) = 1 .. (Len(a) + Len(b)) /\ Len(a) \in Nat /\ Len(b) \in Nat
  OBVIOUS
<1>2. \A i \in 1 .. Len(a) + Len(b) : (a \o b)[i] = IF i <= Len(a) THEN a[i] ELSE b[i - Len(a)]
  BY ConcatProperties
<1>. QED  BY <1>1, <1>2

(* Whether, and whether only once, a message is in a sequence; what an     *)
(* append, a concatenation and a claimed head change.                      *)
In(seq, m) == \E i \in DOMAIN seq : seq[i] = m
Alone(seq, m) == \A i, j \in DOMAIN seq : seq[i] = m /\ seq[j] = m => i = j

LEMMA InSet == ASSUME NEW s, NEW m PROVE m \in ToSet(s) <=> In(s, m)
BY DEF ToSet, In

LEMMA InEmpty == ASSUME NEW m PROVE ~In(<<>>, m) /\ Alone(<<>>, m)
BY DEF In, Alone

LEMMA InSingle == ASSUME NEW x, NEW m PROVE (In(<<x>>, m) <=> x = m) /\ Alone(<<x>>, m)
BY DEF In, Alone

LEMMA InAppend ==
    ASSUME NEW M, NEW s \in Seq(M), NEW x \in M, NEW m
    PROVE  /\ In(Append(s, x), m) <=> In(s, m) \/ x = m
           /\ Alone(s, m) /\ (x # m \/ ~In(s, m)) => Alone(Append(s, x), m)
<1>1. /\ Len(s) \in Nat /\ DOMAIN s = 1..Len(s) /\ DOMAIN Append(s, x) = 1..(Len(s) + 1)
      /\ \A i \in 1..Len(s) : Append(s, x)[i] = s[i]
      /\ Append(s, x)[Len(s) + 1] = x
  BY AppendProperties
<1>. DEFINE a == Append(s, x)
<1>. HIDE DEF a
<1>2. DOMAIN a = 1..(Len(s) + 1) /\ (\A i \in 1..Len(s) : a[i] = s[i]) /\ a[Len(s) + 1] = x
  BY <1>1 DEF a
<1>3. In(a, m) <=> In(s, m) \/ x = m
  BY <1>1, <1>2 DEF In
<1>4. Alone(s, m) /\ (x # m \/ ~In(s, m)) => Alone(a, m)
  BY <1>1, <1>2 DEF In, Alone
<1>. QED  BY <1>3, <1>4 DEF a

LEMMA InJoined ==
    ASSUME NEW M, NEW a \in Seq(M), NEW b \in Seq(M), NEW m
    PROVE  In(a \o b, m) <=> In(a, m) \/ In(b, m)
<1>. DEFINE c == a \o b
<1>1. /\ DOMAIN c = 1 .. (Len(a) + Len(b)) /\ Len(a) \in Nat /\ Len(b) \in Nat
      /\ \A i \in 1 .. Len(a) + Len(b) : c[i] = IF i <= Len(a) THEN a[i] ELSE b[i - Len(a)]
      /\ DOMAIN a = 1..Len(a) /\ DOMAIN b = 1..Len(b)
  BY Joined
<1>. HIDE DEF c
<1>2. ASSUME NEW i \in DOMAIN b, b[i] = m PROVE In(c, m)
  <2>1. Len(a) + i \in DOMAIN c /\ c[Len(a) + i] = b[i]
    BY <1>1
  <2>. QED  BY <1>2, <2>1 DEF In
<1>3. ASSUME NEW i \in DOMAIN a, a[i] = m PROVE In(c, m)
  BY <1>1, <1>3 DEF In
<1>4. ASSUME NEW i \in DOMAIN c, c[i] = m PROVE In(a, m) \/ In(b, m)
  BY <1>1, <1>4, SMTT(40) DEF In
<1>5. In(c, m) <=> In(a, m) \/ In(b, m)
  BY <1>2, <1>3, <1>4 DEF In
<1>. QED  BY <1>5 DEF c

LEMMA InTail ==
    ASSUME NEW M, NEW s \in Seq(M), s # <<>>, NEW m
    PROVE  /\ In(s, m) <=> s[1] = m \/ In(Tail(s), m)
           /\ Alone(s, m) => Alone(Tail(s), m) /\ ~(s[1] = m /\ In(Tail(s), m))
<1>. DEFINE t == Tail(s)
<1>1. /\ Len(s) \in Nat \ {0} /\ DOMAIN s = 1..Len(s) /\ DOMAIN t = 1..(Len(s) - 1)
      /\ \A i \in 1..(Len(s) - 1) : t[i] = s[i + 1]
  BY HeadTailProperties
<1>. HIDE DEF t
<1>2. ASSUME NEW i \in DOMAIN s, s[i] = m PROVE s[1] = m \/ In(t, m)
  <2>1. CASE i = 1
    BY <1>2, <2>1
  <2>2. CASE i # 1
    <3>1. i - 1 \in DOMAIN t /\ t[i - 1] = s[i]
      BY <1>1, <2>2
    <3>. QED  BY <1>2, <3>1 DEF In
  <2>. QED  BY <2>1, <2>2
<1>3. s[1] = m \/ In(t, m) => In(s, m)
  BY <1>1 DEF In
<1>4. ASSUME Alone(s, m) PROVE Alone(t, m) /\ ~(s[1] = m /\ In(t, m))
  <2>1. \A i \in DOMAIN t : i + 1 \in DOMAIN s /\ i + 1 # 1 /\ t[i] = s[i + 1]
    BY <1>1
  <2>2. 1 \in DOMAIN s
    BY <1>1
  <2>3. ~(s[1] = m /\ In(t, m))
    BY <1>4, <2>1, <2>2 DEF In, Alone
  <2>4. ASSUME NEW i \in DOMAIN t, NEW j \in DOMAIN t, t[i] = m, t[j] = m PROVE i = j
    <3>1. i + 1 = j + 1
      BY <1>4, <2>1, <2>4 DEF Alone
    <3>. QED  BY <1>1, <3>1
  <2>. QED  BY <2>3, <2>4 DEF Alone
<1>5. In(s, m) <=> s[1] = m \/ In(t, m)
  BY <1>2, <1>3 DEF In
<1>. QED  BY <1>4, <1>5 DEF t

(* What a splice inserts, of what it is given.                             *)
Fresh(kept, inserted) ==
    LET fresh[i \in 0..Len(inserted)] ==
            IF i = 0 THEN <<>>
            ELSE IF inserted[i].id \in QueuedIds(kept) \cup {n.id : n \in ToSet(fresh[i - 1])}
            THEN fresh[i - 1] ELSE Append(fresh[i - 1], inserted[i])
    IN  fresh[Len(inserted)]

LEMMA FreshNone == ASSUME NEW kept PROVE Fresh(kept, <<>>) = <<>>
<1>. DEFINE Eq(f) == f = [i \in 0..Len(<<>>) |->
            IF i = 0 THEN <<>>
            ELSE IF <<>>[i].id \in QueuedIds(kept) \cup {n.id : n \in ToSet(f[i - 1])}
            THEN f[i - 1] ELSE Append(f[i - 1], <<>>[i])]
            c == CHOOSE f : Eq(f)
<1>1. Eq([i \in {0} |-> <<>>])
  OBVIOUS
<1>2. Eq(c)
  BY <1>1
<1>3. c[0] = <<>>
  BY <1>2
<1>4. Fresh(kept, <<>>) = c[Len(<<>>)]
  BY DEF Fresh
<1>. QED  BY <1>3, <1>4

LEMMA FreshOne ==
    ASSUME NEW kept, NEW m
    PROVE  Fresh(kept, <<m>>) = IF m.id \in QueuedIds(kept) THEN <<>> ELSE <<m>>
<1>. DEFINE Eq(f) == f = [i \in 0..Len(<<m>>) |->
            IF i = 0 THEN <<>>
            ELSE IF <<m>>[i].id \in QueuedIds(kept) \cup {n.id : n \in ToSet(f[i - 1])}
            THEN f[i - 1] ELSE Append(f[i - 1], <<m>>[i])]
            one == IF m.id \in QueuedIds(kept) THEN <<>> ELSE <<m>>
            w == [i \in 0..1 |-> IF i = 0 THEN <<>> ELSE one]
            c == CHOOSE f : Eq(f)
<1>1. 0..Len(<<m>>) = 0..1 /\ <<m>>[1] = m /\ Append(<<>>, m) = <<m>>
  OBVIOUS
<1>2. QueuedIds(kept) \cup {n.id : n \in ToSet(<<>>)} = QueuedIds(kept)
  <2>1. ToSet(<<>>) = {}
    BY DEF ToSet
  <2>. QED  BY <2>1
<1>3. ASSUME NEW f, f[0] = <<>>
      PROVE  [i \in 0..Len(<<m>>) |->
            IF i = 0 THEN <<>>
            ELSE IF <<m>>[i].id \in QueuedIds(kept) \cup {n.id : n \in ToSet(f[i - 1])}
            THEN f[i - 1] ELSE Append(f[i - 1], <<m>>[i])] = w
  <2>1. \A i \in 0..1 : i = 0 \/ i = 1 
    OBVIOUS
  <2>2. (IF <<m>>[1].id \in QueuedIds(kept) \cup {n.id : n \in ToSet(f[1 - 1])}
        THEN f[1 - 1] ELSE Append(f[1 - 1], <<m>>[1])) = one
    <3>1. f[1 - 1] = <<>>
      BY <1>3
    <3>. QED  BY <1>1, <1>2, <3>1
  <2>. QED  BY <1>1, <2>1, <2>2
<1>4. Eq(w)
  <2>1. w[0] = <<>>
    OBVIOUS
  <2>. HIDE DEF w
  <2>. QED  BY <1>3, <2>1
<1>5. Eq(c)
  <2>. HIDE DEF Eq, w
  <2>. QED  BY <1>4
<1>6. c[0] = <<>>
  <2>. HIDE DEF c
  <2>1. c = [i \in 0..1 |->
            IF i = 0 THEN <<>>
            ELSE IF <<m>>[i].id \in QueuedIds(kept) \cup {n.id : n \in ToSet(c[i - 1])}
            THEN c[i - 1] ELSE Append(c[i - 1], <<m>>[i])]
    BY <1>1, <1>5
  <2>. QED  BY <2>1
<1>7. c = w
  <2>. HIDE DEF w, c
  <2>. QED  BY <1>3, <1>5, <1>6
<1>8. Fresh(kept, <<m>>) = c[Len(<<m>>)]
  BY DEF Fresh
<1>9. w[1] = one
  OBVIOUS
<1>. HIDE DEF c, w, one
<1>10. Fresh(kept, <<m>>) = one
  BY <1>7, <1>8, <1>9
<1>. QED  BY <1>10 DEF one

LEMMA SplicedIs ==
    ASSUME NEW queues, NEW target, NEW start, NEW count, NEW inserted
    PROVE  LET queue == queues[target]
               s == Start(Len(queue), start)
               rest == SubSeq(queue, s + Count(Len(queue), s, count) + 1, Len(queue))
               kept == [queues EXCEPT ![target] = SubSeq(queue, 1, s) \o rest]
           IN  Spliced(queues, target, start, count, inserted)
                  = [queues EXCEPT ![target] = SubSeq(queue, 1, s) \o Fresh(kept, inserted) \o rest]
BY DEF Spliced, Fresh

(* enqueue appends, and refuses an id that is queued in either queue.      *)
LEMMA EnqueuedIs ==
    ASSUME NEW M, NEW queues \in [Targets -> Seq(M)], NEW target \in Targets, NEW m \in M
    PROVE  Enqueued(queues, target, m) =
              IF m.id \in QueuedIds(queues) THEN queues
              ELSE [queues EXCEPT ![target] = Append(queues[target], m)]
<1>. DEFINE q == queues[target]
            n == Len(q)
            s == Start(n, n)
            rest == SubSeq(q, s + Count(n, s, 0) + 1, n)
            kept == [queues EXCEPT ![target] = SubSeq(q, 1, s) \o rest]
<1>1. q \in Seq(M) /\ n \in Nat
  OBVIOUS
<1>2. s = n /\ Count(n, n, 0) = 0
  BY <1>1 DEF Start, Count
<1>3. SubSeq(q, 1, s) = q
  BY <1>1, <1>2, Cuts
<1>4. rest = <<>>
  <2>1. s + Count(n, s, 0) + 1 = n + 1
    BY <1>1, <1>2
  <2>. QED  BY <1>1, <2>1, Cuts
<1>5. Enqueued(queues, target, m) = [queues EXCEPT ![target] = SubSeq(q, 1, s) \o Fresh(kept, <<m>>) \o rest]
  BY SplicedIs DEF Enqueued
<1>6. kept = queues
  <2>1. SubSeq(q, 1, s) \o rest = q
    BY <1>1, <1>3, <1>4, Cuts
  <2>. HIDE DEF s, n, rest
  <2>. QED  BY <2>1
<1>. HIDE DEF kept, rest, s, n, q
<1>7. Enqueued(queues, target, m) = [queues EXCEPT ![target] = q \o Fresh(queues, <<m>>) \o <<>>]
  BY <1>3, <1>4, <1>5, <1>6
<1>8. CASE m.id \in QueuedIds(queues)
  <2>1. q \o Fresh(queues, <<m>>) \o <<>> = q
    BY <1>1, <1>8, FreshOne, Cuts
  <2>. QED  BY <1>7, <1>8, <2>1 DEF q
<1>9. CASE m.id \notin QueuedIds(queues)
  <2>1. q \o <<m>> = Append(q, m) /\ Append(q, m) \in Seq(M)
    BY <1>1
  <2>2. q \o Fresh(queues, <<m>>) \o <<>> = Append(q, m)
    BY <1>9, <2>1, FreshOne, Cuts
  <2>. QED  BY <1>7, <1>9, <2>2 DEF q
<1>. QED  BY <1>8, <1>9

(* Claiming a whole queue, or its head.                                    *)
LEMMA ClaimedAll ==
    ASSUME NEW M, NEW queues \in [Targets -> Seq(M)], NEW target \in Targets
    PROVE  Spliced(queues, target, 0, Len(queues[target]), <<>>) = [queues EXCEPT ![target] = <<>>]
<1>. DEFINE q == queues[target]
            n == Len(q)
            s == Start(n, 0)
            rest == SubSeq(q, s + Count(n, s, n) + 1, n)
            kept == [queues EXCEPT ![target] = SubSeq(q, 1, s) \o rest]
<1>1. q \in Seq(M) /\ n \in Nat
  OBVIOUS
<1>2. s = 0 /\ Count(n, 0, n) = n
  BY <1>1 DEF Start, Count
<1>3. SubSeq(q, 1, s) = <<>> /\ rest = <<>>
  BY <1>1, <1>2, Cuts
<1>4. Spliced(queues, target, 0, n, <<>>) = [queues EXCEPT ![target] = SubSeq(q, 1, s) \o Fresh(kept, <<>>) \o rest]
  BY SplicedIs
<1>. HIDE DEF kept, rest, s, n
<1>5. SubSeq(q, 1, s) \o Fresh(kept, <<>>) \o rest = <<>>
  BY <1>3, FreshNone, ConcatEmptySeq
<1>. QED  BY <1>4, <1>5 DEF n

LEMMA ClaimedHead ==
    ASSUME NEW M, NEW queues \in [Targets -> Seq(M)], NEW target \in Targets
    PROVE  /\ Taken(queues[target], 0, 1) = IF queues[target] = <<>> THEN <<>> ELSE <<queues[target][1]>>
           /\ Spliced(queues, target, 0, 1, <<>>) =
                 [queues EXCEPT ![target] = IF queues[target] = <<>> THEN <<>> ELSE Tail(queues[target])]
<1>. DEFINE q == queues[target]
            n == Len(q)
            s == Start(n, 0)
            k == Count(n, s, 1)
            rest == SubSeq(q, s + k + 1, n)
            kept == [queues EXCEPT ![target] = SubSeq(q, 1, s) \o rest]
<1>1. q \in Seq(M) /\ n \in Nat /\ (n = 0 <=> q = <<>>)
  OBVIOUS
<1>2. s = 0 /\ k = IF n = 0 THEN 0 ELSE 1
  BY <1>1 DEF Start, Count
<1>3. SubSeq(q, 1, s) = <<>>
  BY <1>1, <1>2, Cuts
<1>4. rest = IF q = <<>> THEN <<>> ELSE Tail(q)
  <2>1. CASE q = <<>>
    <3>1. s + k + 1 = n + 1
      BY <1>1, <1>2, <2>1
    <3>. QED  BY <1>1, <2>1, <3>1, Cuts
  <2>2. CASE q # <<>>
    <3>1. s + k + 1 = 2
      BY <1>1, <1>2, <2>2
    <3>. QED  BY <1>1, <2>2, <3>1, TailIsSubSeq
  <2>. QED  BY <2>1, <2>2
<1>5. Taken(q, 0, 1) = SubSeq(q, s + 1, s + k)
  BY DEF Taken
<1>6. Taken(q, 0, 1) = IF q = <<>> THEN <<>> ELSE <<q[1]>>
  <2>1. CASE q = <<>>
    <3>1. s + 1 = n + 1 /\ s + k = n
      BY <1>1, <1>2, <2>1
    <3>. QED  BY <1>1, <1>5, <2>1, <3>1, Cuts
  <2>2. CASE q # <<>>
    <3>1. s + 1 = 1 /\ s + k = 1 /\ Len(q) >= 1
      BY <1>1, <1>2, <2>2
    <3>. QED  BY <1>1, <1>5, <2>2, <3>1, Cuts
  <2>. QED  BY <2>1, <2>2
<1>7. Spliced(queues, target, 0, 1, <<>>) = [queues EXCEPT ![target] = SubSeq(q, 1, s) \o Fresh(kept, <<>>) \o rest]
  BY SplicedIs
<1>8. rest \in Seq(M)
  BY <1>1, <1>4, HeadTailProperties
<1>. HIDE DEF kept, rest, s, k, n, q
<1>9. SubSeq(q, 1, s) \o Fresh(kept, <<>>) \o rest = rest
  <2>1. Fresh(kept, <<>>) = <<>> /\ <<>> \o <<>> = <<>> /\ <<>> \o rest = rest
    BY <1>8, FreshNone, ConcatEmptySeq
  <2>. QED  BY <1>3, <2>1
<1>. QED  BY <1>4, <1>6, <1>7, <1>9 DEF q

----------------------------------------------------------------------------
(* Every non-empty set of numbers has a least one.                         *)
LEMMA Least ==
    ASSUME NEW T \in SUBSET Nat, T # {}
    PROVE  \E n \in T : \A k \in T : n <= k
<1>. DEFINE R == OpToRel(<, Nat)
<1>1. IsWellFoundedOn(R, Nat)
  BY NatLessThanWellFounded
<1>2. \A j, k \in Nat : <<j, k>> \in R <=> j < k
  BY DEF OpToRel
<1>. HIDE DEF R
<1>3. PICK n \in T : \A k \in T : <<k, n>> \notin R
  BY <1>1, WFMin
<1>4. \A k \in T : ~(k < n)
  BY <1>2, <1>3
<1>. QED  BY <1>3, <1>4

(* Reading is what any function that obeys its equation says it is.        *)
LEMMA ReadUnique ==
    ASSUME NEW ms, NEW n \in Nat, Len(ms) = n, NEW g, NEW w,
           w = [i \in 0..n |-> IF i = 0 THEN g ELSE RoundRead(w[i - 1], ms[i])]
    PROVE  RoundsRead(g, ms) = w[n]
<1>. DEFINE Eq(f) == f = [i \in 0..Len(ms) |-> IF i = 0 THEN g ELSE RoundRead(f[i - 1], ms[i])]
            c == CHOOSE f : Eq(f)
<1>1. Eq(c)
  <2>1. Eq(w)
    OBVIOUS
  <2>. HIDE DEF Eq
  <2>. QED  BY <2>1
<1>2. RoundsRead(g, ms) = c[n]
  BY DEF RoundsRead
<1>3. c = [i \in 0..n |-> IF i = 0 THEN g ELSE RoundRead(c[i - 1], ms[i])]
  <2>. HIDE DEF c
  <2>. QED  BY <1>1
<1>. HIDE DEF c
<1>. DEFINE T == {i \in 0..n : c[i] # w[i]}
<1>4. ASSUME T # {} PROVE FALSE
  <2>0. T \in SUBSET Nat
    OBVIOUS
  <2>1. PICK i \in T : \A k \in T : i <= k
    BY <1>4, <2>0, Least
  <2>2. i \in 0..n /\ i # 0
    BY <1>3, <2>1
  <2>3. i - 1 \in 0..n /\ i - 1 \notin T
    BY <2>1, <2>2
  <2>4. c[i - 1] = w[i - 1]
    BY <2>3
  <2>5. c[i] = RoundRead(c[i - 1], ms[i])
    BY <1>3, <2>2
  <2>6. w[i] = RoundRead(w[i - 1], ms[i])
    BY <2>2
  <2>. QED  BY <2>1, <2>4, <2>5, <2>6
<1>5. c[n] = w[n]
  BY <1>4
<1>. QED  BY <1>2, <1>5

(* Reading messages of which at most the k-th carries a round.             *)
LEMMA ReadsOne ==
    ASSUME NEW M, NEW ms \in Seq(M), NEW g, NEW k \in DOMAIN ms,
           \A i \in DOMAIN ms : i # k => ms[i].goal = 0
    PROVE  RoundsRead(g, ms) = RoundRead(g, ms[k])
<1>. DEFINE n == Len(ms)
            h == RoundRead(g, ms[k])
            w == [i \in 0..n |-> IF i < k THEN g ELSE h]
<1>1. n \in Nat /\ DOMAIN ms = 1..n /\ k \in 1..n
  OBVIOUS
<1>2. ASSUME NEW i \in 0..n
      PROVE  w[i] = IF i = 0 THEN g ELSE RoundRead(w[i - 1], ms[i])
  <2>1. CASE i < k
    <3>1. i # 0 => w[i - 1] = g /\ ms[i].goal = 0
      BY <1>1, <2>1
    <3>. QED  BY <1>1, <2>1, <3>1 DEF RoundRead
  <2>2. CASE i = k
    BY <1>1, <2>2
  <2>3. CASE i > k
    <3>1. w[i - 1] = h /\ ms[i].goal = 0 /\ i # 0 /\ w[i] = h
      BY <1>1, <2>3
    <3>. HIDE DEF w, h
    <3>. QED  BY <3>1 DEF RoundRead
  <2>. QED  BY <1>1, <2>1, <2>2, <2>3
<1>3. w = [i \in 0..n |-> IF i = 0 THEN g ELSE RoundRead(w[i - 1], ms[i])]
  BY <1>2
<1>4. w[n] = h
  BY <1>1
<1>. HIDE DEF w, h
<1>5. RoundsRead(g, ms) = w[n]
  BY <1>1, <1>3, ReadUnique, SMTT(40)
<1>. QED  BY <1>4, <1>5 DEF h

LEMMA ReadsNone ==
    ASSUME NEW M, NEW ms \in Seq(M), NEW g, \A i \in DOMAIN ms : ms[i].goal = 0
    PROVE  RoundsRead(g, ms) = g
<1>. DEFINE n == Len(ms)
            w == [i \in 0..n |-> g]
<1>1. n \in Nat /\ DOMAIN ms = 1..n
  OBVIOUS
<1>2. w = [i \in 0..n |-> IF i = 0 THEN g ELSE RoundRead(w[i - 1], ms[i])]
  BY <1>1 DEF RoundRead
<1>3. w[n] = g
  BY <1>1
<1>. HIDE DEF w
<1>. QED  BY <1>1, <1>2, <1>3, ReadUnique

----------------------------------------------------------------------------
(* The invariant *)

(* What the drive and its callers hold: a turn's first step is its step 0,  *)
(* a back-off has retries left; an idle driver keeps no caller's token or   *)
(* sink; and only who has made a call waits, is answered or has fired.      *)
Locals ==
    /\ (at = "step" /\ first) => step = 0
    /\ at = "backoff" => attempt < MaxRetries
    /\ at = "stopping" => ~first
Control ==
    /\ ~running => ~stop /\ callerStop = Nobody /\ sink = Nobody
    /\ Locals
    /\ waiting \cup resumed \cup answered \cup fired \subseteq {c \in Callers : how[c] # "none"}

(* A message is in one place, and once.                                    *)
Nowhere(m) ==
    /\ ~In(inbox.next_turn, m) /\ ~In(inbox.next_step, m) /\ ~In(seed, m)
    /\ m \notin admitted /\ m \notin gone
Somewhere(m) ==
    \/ /\ In(inbox.next_turn, m) /\ ~In(inbox.next_step, m) /\ ~In(seed, m) /\ m \notin admitted /\ m \notin gone
    \/ /\ ~In(inbox.next_turn, m) /\ In(inbox.next_step, m) /\ ~In(seed, m) /\ m \notin admitted /\ m \notin gone
    \/ /\ ~In(inbox.next_turn, m) /\ ~In(inbox.next_step, m) /\ In(seed, m) /\ m \notin admitted /\ m \notin gone
    \/ /\ ~In(inbox.next_turn, m) /\ ~In(inbox.next_step, m) /\ ~In(seed, m) /\ m \in admitted /\ m \notin gone
    \/ /\ ~In(inbox.next_turn, m) /\ ~In(inbox.next_step, m) /\ ~In(seed, m) /\ m \notin admitted /\ m \in gone
Kept(c) ==
    /\ how[c] = "none" => Nowhere(Said(c))
    /\ how[c] # "none" => Somewhere(Said(c))
    /\ Alone(inbox.next_turn, Said(c)) /\ Alone(inbox.next_step, Said(c))
Books == Len(seed) <= 1 /\ \A c \in Callers : Kept(c)

(* A drive that comes to its own end has emptied the inbox; after it only  *)
(* injected messages are there.                                            *)
Drained ==
    /\ live /\ at = "ended" /\ switched /\ ~stop /\ ~failed => ~Pending(inbox)
    /\ live /\ ~running /\ left = "drained" =>
          \A m \in Queued(inbox) : Human(m) /\ m.id \in Callers /\ how[m.id] = "inject"

(* The goal is readable and its rounds are counted.                        *)
Counted ==
    /\ ~goal.failed /\ goal.current.id <= goal.seen
    /\ \A g \in 1..goal.seen : AdmittedRounds(g) = 1..Cardinality(AdmittedRounds(g))
    /\ HasGoal(goal) => AdmittedRounds(goal.current.id) = 1..goal.rounds
    /\ \A m \in admitted : m.goal <= goal.seen

(* A queued round that is still current is within the limit it was queued  *)
(* under; rounds are queued for a turn, never for a step.                  *)
Fits(m, g) ==
    Human(m) \/ /\ m.goal <= g.seen
                /\ m.goal = g.current.id => /\ m.rev <= g.current.rev
                                            /\ m.rev = g.current.rev => m.round <= g.current.max
Fitting ==
    /\ \A i \in DOMAIN inbox.next_turn : Fits(inbox.next_turn[i], goal)
    /\ \A i \in DOMAIN inbox.next_step : Human(inbox.next_step[i])
    /\ \A i \in DOMAIN seed : Human(seed[i])
Rounds == Counted /\ Fitting

(* The input of a run that was not stopped is claimed by the first step of *)
(* the drive it started.                                                   *)
Uncut == \E i \in DOMAIN seed : seed[i].id \in Callers \ cut
Seeded == Uncut => live /\ ~stop /\ (at = "start" \/ (at = "step" /\ first))

AgentInv == TypeOK /\ Control /\ Books /\ Drained /\ Rounds /\ Seeded /\ CallersServed

----------------------------------------------------------------------------
(* A caller's message.                                                     *)
LEMMA SaidFacts ==
    ASSUME NEW c \in Callers
    PROVE  /\ Said(c) \in Message /\ Said(c).id = c /\ Human(Said(c))
BY DEF Said, Message, Human

(* The goal's projection keeps its type.                                   *)
LEMMA GoalTypes ==
    ASSUME NEW g \in GoalState, NEW op \in Operations, NEW max \in Nat
    PROVE  /\ Logged(g, op, max) \in Snapshot
           /\ Changed(g, op, Logged(g, op, max)) \in GoalState
<1>1. Logged(g, op, max) \in Snapshot
  BY DEF Logged, Snapshot, GoalState, PhaseAfter, Phases, Operations
<1>. DEFINE new == Logged(g, op, max)
<1>2. new \in Snapshot
  BY <1>1
<1>3. None \in Snapshot
  BY DEF None, Snapshot, Phases
<1>. HIDE DEF new
<1>4. Changed(g, op, new) \in GoalState
  BY <1>2, <1>3 DEF Changed, GoalState, Snapshot
<1>. QED  BY <1>1, <1>4 DEF new

(* Reading a round does.                                                   *)
LEMMA ReadTypes ==
    ASSUME NEW g \in GoalState, NEW m \in Message
    PROVE  RoundRead(g, m) \in GoalState
<1>1. CASE RoundFollows(g, m)
  <2>1. m.round \in Nat
    BY <1>1 DEF RoundFollows, GoalState
  <2>. QED  BY <2>1 DEF RoundRead, GoalState
<1>2. CASE ~RoundFollows(g, m)
  BY <1>2 DEF RoundRead, GoalState
<1>. QED  BY <1>1, <1>2

(* Queued ids, by place.                                                   *)
LEMMA QueuedPlaces ==
    ASSUME NEW M, NEW box \in [Targets -> Seq(M)]
    PROVE  /\ \A m : m \in Queued(box) <=> \E t \in Targets : \E i \in DOMAIN box[t] : box[t][i] = m
           /\ \A x : x \in QueuedIds(box) <=> \E t \in Targets : \E i \in DOMAIN box[t] : box[t][i].id = x
           /\ Pending(box) <=> \E t \in Targets : box[t] # <<>>
BY DEF Queued, QueuedIds, ToSet, Pending

(* An id that is queued is not queued again.                               *)
LEMMA EnqueueFacts ==
    ASSUME TypeOK, NEW t \in Targets, NEW m \in Message, Enqueue(t, m)
    PROVE  /\ inbox' \in [Targets -> Seq(Message)]
           /\ m.id \in QueuedIds(inbox) => inbox' = inbox
           /\ m.id \notin QueuedIds(inbox) => inbox' = [inbox EXCEPT ![t] = Append(inbox[t], m)]
<1>1. inbox \in [Targets -> Seq(Message)]
  BY DEF TypeOK
<1>2. inbox' = IF m.id \in QueuedIds(inbox) THEN inbox
               ELSE [inbox EXCEPT ![t] = Append(inbox[t], m)]
  BY <1>1, EnqueuedIs DEF Enqueue
<1>3. Append(inbox[t], m) \in Seq(Message)
  BY <1>1
<1>. QED  BY <1>1, <1>2, <1>3

(* A claim empties next_step, and on a first step takes next_turn's head.  *)
LEMMA ClaimFacts ==
    ASSUME TypeOK
    PROVE  /\ AfterClaim \in [Targets -> Seq(Message)] /\ Claimed \in Seq(Message)
           /\ AfterClaim.next_step = <<>>
           /\ AfterClaim.next_turn = IF ~first \/ inbox.next_turn = <<>> THEN inbox.next_turn
                                     ELSE Tail(inbox.next_turn)
           /\ Claimed = inbox.next_step \o
                 (IF first THEN (IF inbox.next_turn = <<>> THEN <<>> ELSE <<inbox.next_turn[1]>>) \o seed
                  ELSE <<>>)
<1>. DEFINE q == inbox.next_turn
            steered == [inbox EXCEPT !["next_step"] = <<>>]
            head == IF q = <<>> THEN <<>> ELSE <<q[1]>>
            rest == IF q = <<>> THEN <<>> ELSE Tail(q)
<1>1. /\ inbox \in [Targets -> Seq(Message)] /\ "next_turn" \in Targets /\ "next_step" \in Targets
      /\ q \in Seq(Message) /\ inbox.next_step \in Seq(Message) /\ seed \in Seq(Message)
  BY DEF TypeOK, Targets
<1>2. /\ steered \in [Targets -> Seq(Message)] /\ steered["next_turn"] = q /\ steered["next_step"] = <<>>
  BY <1>1
<1>3. Spliced(inbox, "next_step", 0, Len(inbox.next_step), <<>>) = steered
  BY <1>1, ClaimedAll
<1>4. Taken(q, 0, 1) = head
  BY <1>1, ClaimedHead
<1>5. Spliced(steered, "next_turn", 0, 1, <<>>) = [steered EXCEPT !["next_turn"] = rest]
  BY <1>1, <1>2, ClaimedHead
<1>6. rest \in Seq(Message) /\ head \in Seq(Message)
  <2>1. CASE q = <<>>
    BY <2>1
  <2>2. CASE q # <<>>
    BY <1>1, <2>2, HeadTailProperties
  <2>. QED  BY <2>1, <2>2
<1>7. AfterClaim = IF first THEN [steered EXCEPT !["next_turn"] = rest] ELSE steered
  BY <1>3, <1>5 DEF AfterClaim
<1>8. Claimed = inbox.next_step \o (IF first THEN head \o seed ELSE <<>>)
  BY <1>4 DEF Claimed
<1>. HIDE DEF steered, head
<1>9. Claimed \in Seq(Message)
  BY <1>1, <1>6, <1>8
<1>10. /\ AfterClaim \in [Targets -> Seq(Message)] /\ AfterClaim["next_step"] = <<>>
       /\ AfterClaim["next_turn"] = IF first THEN rest ELSE q
  <2>. HIDE DEF rest, q
  <2>. QED  BY <1>1, <1>2, <1>6, <1>7
<1>. QED  BY <1>8, <1>9, <1>10 DEF head

----------------------------------------------------------------------------
(* Types, in three parts.                                                  *)
Flags ==
    /\ live \in BOOLEAN /\ running \in BOOLEAN /\ stop \in BOOLEAN /\ wake \in BOOLEAN /\ winding \in BOOLEAN
    /\ first \in BOOLEAN /\ concluded \in BOOLEAN /\ failed \in BOOLEAN /\ switched \in BOOLEAN
    /\ armed \in BOOLEAN /\ requested \in BOOLEAN /\ competing \in BOOLEAN
Data ==
    /\ inbox \in [Targets -> Seq(Message)] /\ seed \in Seq(Message) /\ admitted \subseteq Message
    /\ callerStop \in Callers \cup {Nobody} /\ bridged \in Callers \cup {Nobody} /\ sink \in Callers \cup {Nobody}
    /\ waiting \subseteq Callers /\ resumed \subseteq Callers /\ waiting \cap resumed = {}
    /\ at \in Places /\ ended \in Statuses \cup {"none"}
    /\ step \in 0..MaxSteps /\ calls \in 0..MaxCalls /\ attempt \in 0..MaxRetries
    /\ goal \in GoalState /\ fired \subseteq Callers /\ cut \subseteq Callers
    /\ how \in [Callers -> Calls \cup {"none"}] /\ answered \subseteq Callers /\ gone \subseteq Message
Placed == running <=> at # "off"

(* The parts make the whole, now and in the next state.                    *)
LEMMA TypeSplit == TypeOK <=> Flags /\ Data /\ Placed
BY DEF TypeOK, Flags, Data, Placed
LEMMA TypeSplitNext == Flags' /\ Data' /\ Placed' => TypeOK'
BY DEF TypeOK, Flags, Data, Placed

(* A kick starts an idle driver, and one that is not stopped unless its    *)
(* token has fired.                                                        *)
LEMMA KickFacts ==
    ASSUME TypeOK, NEW token \in Callers \cup {Nobody}, Kick(token)
    PROVE  /\ running' = TRUE /\ stop' \in BOOLEAN /\ failed' \in BOOLEAN /\ switched' \in BOOLEAN
           /\ bridged' \in Callers \cup {Nobody} /\ at' \in Places /\ at' # "off"
           /\ running => UNCHANGED <<stop, bridged, at, failed, switched>>
           /\ ~running => at' = "start" /\ ~failed' /\ ~switched' /\ (stop' <=> token \in fired)
<1>. USE TypeSplit
<1>1. CASE running = TRUE
  <2>1. UNCHANGED <<running, stop, bridged, at, failed, switched>>
    BY <1>1 DEF Kick
  <2>. QED  BY <1>1, <2>1 DEF Flags, Data, Placed
<1>2. CASE running = FALSE
  <2>1. /\ running' = TRUE /\ at' = "start" /\ failed' = FALSE /\ switched' = FALSE
        /\ bridged' = token /\ stop' = (token \in fired)
    BY <1>2 DEF Kick
  <2>2. stop' \in BOOLEAN /\ (stop' <=> token \in fired)
    <3>1. CASE token \in fired
      BY <2>1, <3>1
    <3>2. CASE token \notin fired
      <4>1. (token \in fired) = FALSE
        BY <3>2
      <4>. QED  BY <2>1, <4>1
    <3>. QED  BY <3>1, <3>2
  <2>. QED  BY <1>2, <2>1, <2>2 DEF Places
<1>. QED  BY <1>1, <1>2 DEF Flags


(* What winds down, what the goal service does, and nothing at all.        *)
LEMMA RestTypes ==
    ASSUME TypeOK, Control,
           \/ \E c \in Callers : Resume(c)
           \/ WindUp \/ Disarm \/ GoalPass
           \/ \E op \in Operations, max \in GoalMax : GoalOp(op, max)
           \/ UNCHANGED vars
    PROVE  TypeOK'
<1>. USE TypeSplit, TypeSplitNext
<1>1. ASSUME NEW c \in Callers, Resume(c) PROVE TypeOK'
  <2>1. Flags' /\ Placed'
    BY <1>1 DEF Resume, Flags, Placed, drive, rounds, world
  <2>2. waiting' \subseteq Callers /\ resumed' \subseteq Callers /\ waiting' \cap resumed' = {} /\ answered' \subseteq Callers
    BY <1>1 DEF Resume, Data
  <2>3. Data'
    BY <1>1, <2>2 DEF Resume, Data, drive, rounds, world
  <2>. QED  BY <2>1, <2>3
<1>2. ASSUME WindUp PROVE TypeOK'
  <2>1. Flags'
    <3>1. stop' \in BOOLEAN /\ running' \in BOOLEAN /\ failed' \in BOOLEAN /\ switched' \in BOOLEAN
      <4>1. CASE Kick(callerStop)
        BY <4>1, KickFacts DEF Data
      <4>2. CASE UNCHANGED <<running, stop, bridged, at, failed, switched>>
        BY <4>2 DEF Flags
      <4>. QED  BY <1>2, <4>1, <4>2 DEF WindUp
    <3>. QED  BY <1>2, <3>1 DEF WindUp, Flags, rounds, world, history
  <2>2. Data'
    BY <1>2 DEF WindUp, Kick, Data, rounds, world, history, Places
  <2>3. Placed'
    BY <1>2 DEF WindUp, Kick, Placed, agent, drive, history
  <2>. QED  BY <2>1, <2>2, <2>3
<1>3. ASSUME Disarm PROVE TypeOK'
  <2>1. Flags'
    BY <1>3 DEF Disarm, Flags, agent, drive, history
  <2>2. Data'
    BY <1>3 DEF Disarm, Data, agent, drive, history
  <2>3. Placed'
    BY <1>3 DEF Disarm, Placed, agent, drive, history
  <2>. QED  BY <2>1, <2>2, <2>3
<1>4. ASSUME NEW op \in Operations, NEW max \in GoalMax, GoalOp(op, max) PROVE TypeOK'
  <2>1. armed' \in BOOLEAN
    BY <1>4 DEF GoalOp, ArmedAfter, Flags, Operations
  <2>2. Flags'
    BY <1>4, <2>1 DEF GoalOp, Flags, agent, drive, history
  <2>3. goal' \in GoalState
    <3>1. max \in Nat /\ goal \in GoalState
      BY AgentAssumption DEF Data
    <3>. QED  BY <1>4, <3>1, GoalTypes DEF GoalOp
  <2>4. Data'
    BY <1>4, <2>3 DEF GoalOp, Data, agent, drive, history
  <2>5. Placed'
    BY <1>4 DEF GoalOp, Placed, agent, drive
  <2>. QED  BY <2>2, <2>4, <2>5
<1>5. ASSUME GoalPass PROVE TypeOK'
  <2>0. goal \in GoalState
    BY DEF Data
  <2>1. CASE /\ requested' = FALSE
             /\ UNCHANGED <<inbox, competing, goal, armed, running, stop, bridged, at, failed, switched>>
    <3>1. Flags'
      BY <1>5, <2>1 DEF GoalPass, Flags, world, history
    <3>2. Data' /\ Placed'
      BY <1>5, <2>1 DEF GoalPass, Data, Placed, world, history
    <3>. QED  BY <3>1, <3>2
  <2>2. CASE /\ goal' = Changed(goal, "block", Logged(goal, "block", 0)) /\ armed' = FALSE
             /\ UNCHANGED <<requested, inbox, competing, running, stop, bridged, at, failed, switched>>
    <3>1. Flags'
      BY <1>5, <2>2 DEF GoalPass, Flags, world, history
    <3>2. goal' \in GoalState
      <4>1. "block" \in Operations /\ 0 \in Nat
        BY DEF Operations
      <4>. QED  BY <2>0, <2>2, <4>1, GoalTypes
    <3>3. Data' /\ Placed'
      BY <1>5, <2>2, <3>2 DEF GoalPass, Data, Placed, world, history
    <3>. QED  BY <3>1, <3>3
  <2>3. CASE /\ requested' = FALSE /\ Enqueue("next_turn", Round) /\ Kick(callerStop)
             /\ UNCHANGED <<goal, armed>>
    <3>1. Round \in Message
      BY <2>0 DEF Round, Message, GoalState, Snapshot
    <3>2. inbox' \in [Targets -> Seq(Message)]
      BY <2>3, <3>1, EnqueueFacts DEF Targets
    <3>3. competing' \in BOOLEAN
      BY <2>3 DEF Enqueue, Flags
    <3>4. callerStop \in Callers \cup {Nobody}
      BY DEF Data
    <3>5. Flags'
      BY <1>5, <2>3, <3>3, <3>4, KickFacts DEF GoalPass, Flags, world, history
    <3>6. at' \in Places /\ bridged' \in Callers \cup {Nobody} /\ running' = TRUE /\ at' # "off"
      BY <2>3, <3>4, KickFacts
    <3>7. Data' /\ Placed'
      BY <1>5, <2>3, <3>2, <3>6 DEF GoalPass, Data, Placed, world, history
    <3>. QED  BY <3>5, <3>7
  <2>. QED  BY <1>5, <2>1, <2>2, <2>3 DEF GoalPass
<1>6. ASSUME UNCHANGED vars PROVE TypeOK'
  BY <1>6 DEF vars, agent, drive, rounds, world, history, Flags, Data, Placed
<1>. QED  BY <1>1, <1>2, <1>3, <1>4, <1>5, <1>6

(* What is called from outside.                                            *)
LEMMA CallTypes ==
    ASSUME TypeOK, Control,
           \/ \E c \in Callers : Run(c) \/ Ask(c) \/ Followup(c) \/ Steer(c) \/ Inject(c) \/ Fire(c)
           \/ \E keep \in BOOLEAN : Cancel(keep)
           \/ Dispose
    PROVE  TypeOK'
<1>. USE TypeSplit, TypeSplitNext
<1>1. ASSUME NEW c \in Callers, NEW call \in Calls, Calling(c, call),
             NEW t \in Targets, Enqueue(t, Said(c)), Kick(callerStop) \/ Kick(c)
                                                    \/ UNCHANGED <<running, stop, bridged, at, failed, switched>>
      PROVE  /\ inbox' \in [Targets -> Seq(Message)] /\ competing' \in BOOLEAN
             /\ running' \in BOOLEAN /\ stop' \in BOOLEAN /\ failed' \in BOOLEAN /\ switched' \in BOOLEAN
             /\ at' \in Places /\ bridged' \in Callers \cup {Nobody} /\ Placed'
  <2>1. inbox' \in [Targets -> Seq(Message)]
    BY <1>1, SaidFacts, EnqueueFacts
  <2>2. competing' \in BOOLEAN
    BY <1>1 DEF Enqueue, Flags
  <2>3. CASE UNCHANGED <<running, stop, bridged, at, failed, switched>>
    BY <2>1, <2>2, <2>3 DEF Flags, Data, Placed
  <2>4. CASE Kick(c) \/ Kick(callerStop)
    <3>1. callerStop \in Callers \cup {Nobody}
      BY DEF Data
    <3>2. /\ running' = TRUE /\ stop' \in BOOLEAN /\ failed' \in BOOLEAN /\ switched' \in BOOLEAN
          /\ bridged' \in Callers \cup {Nobody} /\ at' \in Places /\ at' # "off"
      BY <2>4, <3>1, KickFacts
    <3>. QED  BY <2>1, <2>2, <3>2 DEF Placed
  <2>. QED  BY <1>1, <2>3, <2>4
<1>2. ASSUME NEW c \in Callers, NEW call \in Calls, Calling(c, call)
      PROVE  how' \in [Callers -> Calls \cup {"none"}]
  BY <1>2 DEF Calling, Data
<1>3. ASSUME NEW c \in Callers, NEW call \in Calls, Calling(c, call), waiting' \in {waiting, waiting \cup {c}}
      PROVE  waiting' \subseteq Callers /\ resumed' \subseteq Callers /\ waiting' \cap resumed' = {}
  <2>1. c \notin resumed /\ resumed' = resumed
    BY <1>3 DEF Control, Calling, Calls
  <2>. QED  BY <1>3, <2>1 DEF Data
<1>. USE DEF Calls, Targets
<1>4. ASSUME NEW c \in Callers, Run(c), running PROVE TypeOK'
  <2>1. /\ Calling(c, "run") /\ Enqueue("next_turn", Said(c)) /\ Kick(c) /\ wake' = TRUE
        /\ UNCHANGED <<seed, gone>> /\ sink' = c /\ callerStop' = c /\ waiting' = waiting \cup {c}
    BY <1>4 DEF Run
  <2>2. /\ inbox' \in [Targets -> Seq(Message)] /\ competing' \in BOOLEAN
        /\ running' \in BOOLEAN /\ stop' \in BOOLEAN /\ failed' \in BOOLEAN /\ switched' \in BOOLEAN
        /\ at' \in Places /\ bridged' \in Callers \cup {Nobody} /\ Placed'
    BY <1>1, <2>1
  <2>3. Flags'
    BY <2>1, <2>2 DEF Flags, Calling, world
  <2>4. Data'
    <3>. HIDE DEF Targets, Calls
    <3>1. how' \in [Callers -> Calls \cup {"none"}]
      BY <1>2, <2>1 DEF Calls
    <3>2. waiting' \subseteq Callers /\ resumed' \subseteq Callers /\ waiting' \cap resumed' = {}
      BY <1>3, <2>1 DEF Calls
    <3>. QED  BY <2>1, <2>2, <3>1, <3>2 DEF Data, Calling, world
  <2>. QED  BY <2>2, <2>3, <2>4
<1>5. ASSUME NEW c \in Callers, Run(c), ~running PROVE TypeOK'
  <2>1. /\ Calling(c, "run") /\ seed' = <<Said(c)>> /\ gone' = gone \cup ToSet(seed) /\ Kick(c)
        /\ UNCHANGED <<wake, inbox, competing>> /\ sink' = c /\ callerStop' = c /\ waiting' = waiting \cup {c}
    BY <1>5 DEF Run
  <2>2. seed' \in Seq(Message)
    <3>1. Said(c) \in Message
      BY SaidFacts
    <3>. QED  BY <2>1, <3>1
  <2>3. ToSet(seed) \subseteq Message
    BY DEF Data, ToSet
  <2>4. /\ running' \in BOOLEAN /\ stop' \in BOOLEAN /\ failed' \in BOOLEAN /\ switched' \in BOOLEAN
        /\ at' \in Places /\ bridged' \in Callers \cup {Nobody} /\ Placed'
    BY <2>1, KickFacts DEF Placed
  <2>5. Flags'
    BY <2>1, <2>4 DEF Flags, Calling, world
  <2>6. Data'
    <3>. HIDE DEF Targets, Calls
    <3>1. how' \in [Callers -> Calls \cup {"none"}]
      BY <1>2, <2>1 DEF Calls
    <3>2. waiting' \subseteq Callers /\ resumed' \subseteq Callers /\ waiting' \cap resumed' = {}
      BY <1>3, <2>1 DEF Calls
    <3>. QED  BY <2>1, <2>2, <2>3, <2>4, <3>1, <3>2 DEF Data, Calling, world
  <2>. QED  BY <2>4, <2>5, <2>6
<1>6. ASSUME NEW c \in Callers, Ask(c) PROVE TypeOK'
  <2>1. /\ inbox' \in [Targets -> Seq(Message)] /\ competing' \in BOOLEAN
        /\ running' \in BOOLEAN /\ stop' \in BOOLEAN /\ failed' \in BOOLEAN /\ switched' \in BOOLEAN
        /\ at' \in Places /\ bridged' \in Callers \cup {Nobody} /\ Placed'
    BY <1>1, <1>6 DEF Ask
  <2>2. Flags'
    BY <1>6, <2>1 DEF Flags, Ask, Calling, world
  <2>3. Data'
    <3>. HIDE DEF Targets, Calls
    <3>1. how' \in [Callers -> Calls \cup {"none"}]
      BY <1>2, <1>6 DEF Ask, Calls
    <3>2. waiting' \subseteq Callers /\ resumed' \subseteq Callers /\ waiting' \cap resumed' = {}
      BY <1>3, <1>6 DEF Ask, Calls
    <3>. QED  BY <1>6, <2>1, <3>1, <3>2 DEF Data, Ask, Calling, world
  <2>. QED  BY <2>1, <2>2, <2>3
<1>7. ASSUME NEW c \in Callers, Followup(c) \/ Steer(c) \/ Inject(c) PROVE TypeOK'
  <2>0. PICK call \in Calls, t \in Targets :
            /\ Calling(c, call) /\ Enqueue(t, Said(c))
            /\ Kick(callerStop) \/ UNCHANGED <<running, stop, bridged, at, failed, switched>>
            /\ UNCHANGED <<wake, seed, callerStop, sink, waiting, gone>>
    BY <1>7 DEF Followup, Steer, Inject
  <2>1. /\ inbox' \in [Targets -> Seq(Message)] /\ competing' \in BOOLEAN
        /\ running' \in BOOLEAN /\ stop' \in BOOLEAN /\ failed' \in BOOLEAN /\ switched' \in BOOLEAN
        /\ at' \in Places /\ bridged' \in Callers \cup {Nobody} /\ Placed'
    BY <1>1, <2>0
  <2>2. Flags'
    BY <2>0, <2>1 DEF Flags, Calling, world
  <2>3. Data'
    <3>. HIDE DEF Targets, Calls
    <3>1. how' \in [Callers -> Calls \cup {"none"}]
      BY <1>2, <2>0
    <3>2. waiting' \subseteq Callers /\ resumed' \subseteq Callers /\ waiting' \cap resumed' = {}
      BY <1>3, <2>0
    <3>. QED  BY <2>0, <2>1, <3>1, <3>2 DEF Data, Calling, world
  <2>. QED  BY <2>1, <2>2, <2>3
<1>. HIDE DEF Targets, Calls
<1>8. ASSUME NEW c \in Callers, Fire(c) PROVE TypeOK'
  <2>1. Flags' /\ Placed'
    BY <1>8 DEF Fire, Flags, Placed, drive, rounds
  <2>2. Data'
    <3>1. cut' \subseteq Callers /\ fired' \subseteq Callers
      BY <1>8 DEF Fire, Outstanding, Data
    <3>. QED  BY <1>8, <3>1 DEF Fire, Data, drive, rounds
  <2>. QED  BY <2>1, <2>2
<1>9. ASSUME inbox' = EmptyInbox, gone' = gone \cup Queued(inbox)
      PROVE  inbox' \in [Targets -> Seq(Message)] /\ gone' \subseteq Message
  <2>1. Queued(inbox) \subseteq Message
    <3>1. inbox \in [Targets -> Seq(Message)]
      BY DEF Data
    <3>. QED  BY <3>1, QueuedPlaces
  <2>2. EmptyInbox \in [Targets -> Seq(Message)]
    BY DEF EmptyInbox
  <2>. QED  BY <1>9, <2>1, <2>2 DEF Data
<1>10. ASSUME NEW keep \in BOOLEAN, Cancel(keep) PROVE TypeOK'
  <2>1. Flags' /\ Placed'
    BY <1>10 DEF Cancel, Flags, Placed, drive, rounds
  <2>2. Data'
    <3>1. cut' \subseteq Callers
      BY <1>10 DEF Cancel, Outstanding, Data
    <3>2. inbox' \in [Targets -> Seq(Message)] /\ gone' \subseteq Message
      BY <1>9, <1>10 DEF Cancel, Data
    <3>. QED  BY <1>10, <3>1, <3>2 DEF Cancel, Data, drive, rounds
  <2>. QED  BY <2>1, <2>2
<1>11. ASSUME Dispose PROVE TypeOK'
  <2>1. Flags' /\ Placed'
    BY <1>11 DEF Dispose, Flags, Placed, drive, rounds
  <2>2. Data'
    <3>1. cut' \subseteq Callers /\ answered' \subseteq Callers
      BY <1>11 DEF Dispose, Outstanding, Data
    <3>2. inbox' \in [Targets -> Seq(Message)] /\ gone' \subseteq Message
      BY <1>9, <1>11 DEF Dispose
    <3>. QED  BY <1>11, <3>1, <3>2 DEF Dispose, Data, drive, rounds
  <2>. QED  BY <2>1, <2>2
<1>. QED  BY <1>4, <1>5, <1>6, <1>7, <1>8, <1>10, <1>11

----------------------------------------------------------------------------
(* Of what a step claims, only the head of next_turn can be a round.       *)
LEMMA OneRound ==
    ASSUME TypeOK, Rounds
    PROVE  \/ \A i \in DOMAIN Claimed : Human(Claimed[i])
           \/ /\ first /\ inbox.next_turn # <<>> /\ ~Human(inbox.next_turn[1])
              /\ \E k \in DOMAIN Claimed :
                    /\ Claimed[k] = inbox.next_turn[1]
                    /\ \A i \in DOMAIN Claimed : i # k => Human(Claimed[i])
<1>. DEFINE a == inbox.next_step
            q == inbox.next_turn
            p == Len(a)
<1>1. a \in Seq(Message) /\ q \in Seq(Message) /\ seed \in Seq(Message) /\ p \in Nat /\ DOMAIN a = 1..p
  BY DEF TypeOK, Targets
<1>2. \A i \in DOMAIN a : Human(a[i])
  BY DEF Rounds, Fitting
<1>3. \A i \in DOMAIN seed : Human(seed[i])
  BY DEF Rounds, Fitting
<1>4. Claimed = a \o (IF first THEN (IF q = <<>> THEN <<>> ELSE <<q[1]>>) \o seed ELSE <<>>)
  BY ClaimFacts
<1>. HIDE DEF a, q
<1>5. CASE ~first
  <2>1. Claimed = a
    BY <1>1, <1>4, <1>5, ConcatEmptySeq
  <2>. QED  BY <1>2, <2>1
<1>6. CASE first /\ q = <<>>
  <2>1. <<>> \o seed = seed
    BY <1>1, ConcatEmptySeq
  <2>2. Claimed = a \o seed
    BY <1>4, <1>6, <2>1
  <2>3. \A i \in DOMAIN (a \o seed) : (a \o seed)[i] = IF i <= p THEN a[i] ELSE seed[i - p]
    BY <1>1
  <2>4. \A i \in DOMAIN (a \o seed) : (i <= p => i \in DOMAIN a) /\ (i > p => i - p \in DOMAIN seed)
    BY <1>1
  <2>5. ASSUME NEW i \in DOMAIN (a \o seed) PROVE Human((a \o seed)[i])
    <3>1. i \in Nat
      BY <1>1
    <3>. QED  BY <1>1, <1>2, <1>3, <2>3, <2>4, <3>1
  <2>. QED  BY <2>2, <2>5
<1>7. CASE first /\ q # <<>>
  <2>. DEFINE h == q[1]
              b == <<h>> \o seed
              k == p + 1
  <2>1. h \in Message /\ b \in Seq(Message) /\ Len(b) = 1 + Len(seed) /\ Len(seed) \in Nat
    BY <1>1, <1>7
  <2>2. b[1] = h /\ \A j \in DOMAIN b : j # 1 => b[j] = seed[j - 1] /\ j - 1 \in DOMAIN seed
    BY <1>1, <2>1
  <2>3. Claimed = a \o b
    BY <1>4, <1>7
  <2>. HIDE DEF h, b, p
  <2>4. /\ Len(Claimed) = p + Len(b) /\ DOMAIN Claimed = 1 .. (p + Len(b)) /\ DOMAIN b = 1..Len(b)
        /\ \A i \in DOMAIN Claimed : Claimed[i] = IF i <= p THEN a[i] ELSE b[i - p]
    <3>1. /\ Len(a \o b) = Len(a) + Len(b) /\ a \o b \in Seq(Message)
          /\ \A i \in 1 .. Len(a) + Len(b) : (a \o b)[i] = IF i <= Len(a) THEN a[i] ELSE b[i - Len(a)]
      <4>1. a \in Seq(Message) /\ b \in Seq(Message)
        BY <1>1, <2>1
      <4>. QED  BY <4>1, Joined, ZenonT(40)
    <3>2. DOMAIN (a \o b) = 1 .. Len(a \o b) /\ DOMAIN b = 1 .. Len(b)
      BY <2>1, <3>1
    <3>. QED  BY <2>3, <3>1, <3>2 DEF p
  <2>5. k \in DOMAIN Claimed /\ Claimed[k] = h
    BY <1>1, <2>1, <2>2, <2>4 DEF k
  <2>6. ASSUME NEW i \in DOMAIN Claimed, i # k PROVE Human(Claimed[i])
    <3>1. CASE i <= p
      BY <1>1, <1>2, <2>4, <3>1
    <3>2. CASE i > p
      <4>1. i - p \in DOMAIN b /\ i - p # 1
        BY <1>1, <2>1, <2>4, <2>6, <3>2
      <4>2. Claimed[i] = b[i - p]
        BY <1>1, <2>1, <2>4, <3>2
      <4>. QED  BY <1>3, <2>2, <4>1, <4>2
    <3>. QED  BY <1>1, <2>4, <3>1, <3>2
  <2>7. CASE Human(h)
    <3>1. \A i \in DOMAIN Claimed : Human(Claimed[i])
      BY <2>5, <2>6, <2>7
    <3>. QED  BY <3>1
  <2>8. CASE ~Human(h)
    BY <1>7, <2>5, <2>6, <2>8 DEF h, q
  <2>. QED  BY <2>7, <2>8
<1>. QED  BY <1>5, <1>6, <1>7

(* What admitting them makes of the goal: the round is the next one, or    *)
(* the step is rejected.                                                   *)
LEMMA ReadClaim ==
    ASSUME TypeOK, Rounds, ~Rejected
    PROVE  \/ (\A m \in ToSet(Claimed) : Human(m)) /\ RoundsRead(goal, Claimed) = goal
           \/ \E m \in ToSet(Claimed) :
                 /\ m = inbox.next_turn[1] /\ first /\ inbox.next_turn # <<>>
                 /\ m.goal = goal.current.id /\ m.round = goal.rounds + 1 /\ HasGoal(goal)
                 /\ \A n \in ToSet(Claimed) : n = m \/ Human(n)
                 /\ RoundsRead(goal, Claimed) = [goal EXCEPT !.rounds = goal.rounds + 1]
<1>1. Claimed \in Seq(Message)
  BY ClaimFacts
<1>2. \A m : m \in ToSet(Claimed) <=> \E i \in DOMAIN Claimed : Claimed[i] = m
  BY DEF ToSet
<1>3. CASE \A i \in DOMAIN Claimed : Human(Claimed[i])
  <2>1. \A i \in DOMAIN Claimed : Claimed[i].goal = 0
    BY <1>3 DEF Human
  <2>2. RoundsRead(goal, Claimed) = goal
    BY <1>1, <2>1, ReadsNone
  <2>. QED  BY <1>2, <1>3, <2>2
<1>4. CASE /\ first /\ inbox.next_turn # <<>> /\ ~Human(inbox.next_turn[1])
           /\ \E k \in DOMAIN Claimed :
                    /\ Claimed[k] = inbox.next_turn[1]
                    /\ \A i \in DOMAIN Claimed : i # k => Human(Claimed[i])
  <2>. DEFINE m == inbox.next_turn[1]
  <2>1. PICK k \in DOMAIN Claimed : Claimed[k] = m /\ \A i \in DOMAIN Claimed : i # k => Human(Claimed[i])
    BY <1>4
  <2>2. m \in ToSet(Claimed) /\ \A n \in ToSet(Claimed) : n = m \/ Human(n)
    BY <1>2, <2>1
  <2>3. Current(m)
    BY <1>4, <2>2 DEF Rejected
  <2>4. RoundsRead(goal, Claimed) = RoundRead(goal, m)
    <3>1. \A i \in DOMAIN Claimed : i # k => Claimed[i].goal = 0
      BY <2>1 DEF Human
    <3>2. RoundsRead(goal, Claimed) = RoundRead(goal, Claimed[k])
      BY <1>1, <3>1, ReadsOne
    <3>. QED  BY <2>1, <3>2
  <2>5. m.round <= goal.current.max
    <3>1. 1 \in DOMAIN inbox.next_turn
      <4>1. inbox.next_turn \in Seq(Message)
        BY DEF TypeOK, Targets
      <4>. QED  BY <1>4, <4>1
    <3>. QED  BY <1>4, <2>3, <3>1 DEF Rounds, Fitting, Fits, Current
  <2>6. RoundFollows(goal, m)
    BY <2>3, <2>5 DEF Current, RoundFollows
  <2>7. RoundRead(goal, m) = [goal EXCEPT !.rounds = goal.rounds + 1]
    BY <1>4, <2>3, <2>6 DEF RoundRead, Current, Human
  <2>. HIDE DEF m
  <2>8. m = inbox.next_turn[1]
    BY DEF m
  <2>. QED  BY <1>4, <2>2, <2>3, <2>4, <2>7, <2>8 DEF Current
<1>. QED  BY <1>3, <1>4, OneRound

(* The ends of a turn and of a step.                                       *)
LEMMA EndTurnFacts ==
    ASSUME TypeOK, NEW status, NEW box, EndTurn(status, box)
    PROVE  /\ armed' \in BOOLEAN /\ (armed' => armed)
           /\ at' = IF ~stop /\ Pending(box) THEN "start" ELSE "ended"
BY DEF EndTurn, TypeOK

LEMMA EndStepFacts ==
    ASSUME TypeOK, NEW exit \in Statuses \cup {"none"}, EndStep(exit)
    PROVE  /\ ended' \in Statuses \cup {"none"} /\ first' = FALSE
           /\ at' = "stopping" \/ at' = "step"
BY DEF EndStep, TypeOK

(* The drive.                                                              *)
LEMMA DriveTypes ==
    ASSUME TypeOK, Control, Rounds, Drive
    PROVE  TypeOK'
<1>. USE TypeSplit, TypeSplitNext
<1>1. ASSUME BeginTurn PROVE TypeOK'
  <2>1. Flags' /\ Placed'
    BY <1>1 DEF BeginTurn, Driving, Flags, Placed, rounds, world, history
  <2>2. Data'
    BY <1>1, AgentAssumption DEF BeginTurn, Data, rounds, world, history, Places, Statuses
  <2>. QED  BY <2>1, <2>2
<1>2. ASSUME Step PROVE TypeOK'
  <2>1. /\ Driving("step") /\ switched' = (switched \/ at' = "stream")
        /\ UNCHANGED <<live, running, stop, wake, callerStop, bridged, sink, waiting, resumed, first, ended,
                       calls, concluded, failed, winding, requested, competing, world, how, answered, cut, left>>
    BY <1>2 DEF Step
  <2>2. running /\ at' # "off" => Placed'
    BY <2>1 DEF Placed
  <2>3. running
    BY <2>1 DEF Placed, Driving
  <2>4. switched' \in BOOLEAN
    BY <2>1 DEF Flags
  <2>5. armed' \in BOOLEAN => Flags'
    BY <2>1, <2>4 DEF Flags, world
  <2>6. (/\ inbox' \in [Targets -> Seq(Message)] /\ seed' \in Seq(Message) /\ admitted' \subseteq Message
         /\ at' \in Places /\ step' \in 0..MaxSteps /\ goal' \in GoalState /\ gone' \subseteq Message) => Data'
    <3>1. attempt' \in 0..MaxRetries
      BY <1>2, AgentAssumption DEF Step
    <3>. QED  BY <2>1, <3>1 DEF Data, world
  <2>7. ToSet(Claimed) \subseteq Message
    BY ClaimFacts, Elements
  <2>8. ASSUME NEW status, NEW box, EndTurn(status, box)
        PROVE  armed' \in BOOLEAN /\ at' \in Places /\ at' # "off"
    BY <2>8, EndTurnFacts DEF Places
  <2>9. CASE (stop \/ step >= MaxSteps)
    <3>1. UNCHANGED <<seed, inbox, step, gone, admitted, goal>> /\ (EndTurn("aborted", inbox) \/ EndTurn("blocked", inbox))
      BY <1>2, <2>9 DEF Step
    <3>2. armed' \in BOOLEAN /\ at' \in Places /\ at' # "off"
      BY <2>8, <3>1
    <3>. QED  BY <2>2, <2>3, <2>5, <2>6, <3>1, <3>2 DEF Data
  <2>10. CASE ~(stop \/ step >= MaxSteps)
    <3>1. /\ step' = step + 1 /\ inbox' = AfterClaim /\ seed' = (IF first THEN <<>> ELSE seed)
          /\ CASE Rejected ->
                    /\ EndTurn("blocked", AfterClaim) /\ gone' = gone \cup ToSet(Claimed)
                    /\ UNCHANGED <<admitted, goal>>
               [] ~Rejected /\ Claimed = <<>> /\ (ended # "none" \/ first) ->
                    /\ EndTurn(IF ended # "none" THEN ended ELSE "completed", AfterClaim)
                    /\ UNCHANGED <<gone, admitted, goal>>
               [] OTHER ->
                    /\ admitted' = admitted \cup ToSet(Claimed) /\ goal' = RoundsRead(goal, Claimed)
                    /\ at' = "stream" /\ UNCHANGED <<armed, gone>>
      BY <1>2, <2>10 DEF Step
    <3>2. inbox' \in [Targets -> Seq(Message)] /\ seed' \in Seq(Message) /\ step' \in 0..MaxSteps
      <4>1. inbox' \in [Targets -> Seq(Message)]
        BY <3>1, ClaimFacts
      <4>2. seed' \in Seq(Message)
        BY <3>1 DEF Data
      <4>3. step' \in 0..MaxSteps
        BY <2>10, <3>1, AgentAssumption DEF Data
      <4>. QED  BY <4>1, <4>2, <4>3
    <3>3. CASE Rejected
      <4>1. EndTurn("blocked", AfterClaim) /\ gone' = gone \cup ToSet(Claimed) /\ UNCHANGED <<admitted, goal>>
        BY <3>1, <3>3
      <4>2. armed' \in BOOLEAN /\ at' \in Places /\ at' # "off"
        BY <2>8, <4>1
      <4>. QED  BY <2>2, <2>3, <2>5, <2>6, <2>7, <3>2, <4>1, <4>2 DEF Data
    <3>4. CASE ~Rejected /\ Claimed = <<>> /\ (ended # "none" \/ first)
      <4>1. EndTurn(IF ended # "none" THEN ended ELSE "completed", AfterClaim) /\ UNCHANGED <<gone, admitted, goal>>
        BY <3>1, <3>4
      <4>2. armed' \in BOOLEAN /\ at' \in Places /\ at' # "off"
        BY <2>8, <4>1
      <4>. QED  BY <2>2, <2>3, <2>5, <2>6, <2>7, <3>2, <4>1, <4>2 DEF Data
    <3>5. CASE ~Rejected /\ ~(Claimed = <<>> /\ (ended # "none" \/ first))
      <4>1. /\ admitted' = admitted \cup ToSet(Claimed) /\ goal' = RoundsRead(goal, Claimed)
            /\ at' = "stream" /\ UNCHANGED <<armed, gone>>
        BY <3>1, <3>5
      <4>2. goal' \in GoalState
        <5>1. goal \in GoalState
          BY DEF Data
        <5>2. [goal EXCEPT !.rounds = goal.rounds + 1] \in GoalState
          BY <5>1 DEF GoalState
        <5>. QED  BY <3>5, <4>1, <5>1, <5>2, ReadClaim
      <4>3. armed' \in BOOLEAN /\ at' \in Places /\ at' # "off"
        BY <4>1 DEF Places, Flags
      <4>. QED  BY <2>2, <2>3, <2>5, <2>6, <2>7, <3>2, <4>1, <4>2, <4>3 DEF Data
    <3>. QED  BY <3>3, <3>4, <3>5
  <2>. QED  BY <2>9, <2>10
<1>3. ASSUME Stream PROVE TypeOK'
  <2>1. /\ Driving("stream")
        /\ UNCHANGED <<live, running, stop, wake, seed, inbox, callerStop, bridged, sink, waiting, resumed,
                       step, attempt, switched, winding, goal, requested, competing, world, history>>
    BY <1>3 DEF Stream
  <2>2. running /\ (at' # "off" => Placed')
    BY <2>1 DEF Placed, Driving
  <2>3. ASSUME NEW exit \in Statuses \cup {"none"}, EndStep(exit)
        PROVE  ended' \in Statuses \cup {"none"} /\ first' \in BOOLEAN /\ at' \in Places /\ at' # "off"
    BY <2>3, EndStepFacts DEF Places
  <2>4. /\ ended' \in Statuses \cup {"none"} /\ first' \in BOOLEAN /\ at' \in Places /\ at' # "off"
        /\ calls' \in 0..MaxCalls /\ concluded' \in BOOLEAN /\ armed' \in BOOLEAN /\ failed' \in BOOLEAN
    <3>0. {"completed", "max_tokens", "aborted", "error"} \subseteq Statuses \cup {"none"}
      BY DEF Statuses
    <3>1. /\ ended \in Statuses \cup {"none"} /\ first \in BOOLEAN /\ calls \in 0..MaxCalls
          /\ concluded \in BOOLEAN /\ armed \in BOOLEAN /\ failed \in BOOLEAN
      BY DEF Flags, Data
    <3>2. CASE \E exit \in {"completed", "max_tokens", "aborted"} :
                  /\ exit = "aborted" => stop
                  /\ EndStep(exit) /\ UNCHANGED <<calls, concluded, armed, failed>>
      BY <2>3, <3>0, <3>1, <3>2
    <3>3. CASE /\ UNCHANGED <<calls, concluded, armed, failed>>
               /\ IF RetryAllowed THEN at' = "backoff" /\ UNCHANGED <<first, ended>>
                  ELSE EndStep("error")
      BY <2>3, <3>0, <3>1, <3>3 DEF Places
    <3>4. CASE /\ failed' = TRUE /\ at' = "ended"
               /\ armed' = (armed /\ (~live \/ ~HasGoal(goal)))
               /\ UNCHANGED <<calls, concluded, first, ended>>
      BY <3>1, <3>4 DEF Places
    <3>5. CASE /\ concluded' = FALSE /\ UNCHANGED <<armed, failed>>
               /\ IF stop THEN EndStep("aborted") /\ UNCHANGED calls
                  ELSE calls' \in 1..MaxCalls /\ at' = "tools" /\ UNCHANGED <<first, ended>>
      <4>1. CASE stop
        <5>1. concluded' = FALSE /\ UNCHANGED <<armed, failed, calls>> /\ EndStep("aborted")
          BY <3>5, <4>1
        <5>. QED  BY <2>3, <3>0, <3>1, <5>1
      <4>2. CASE ~stop
        <5>1. /\ concluded' = FALSE /\ UNCHANGED <<armed, failed>>
              /\ calls' \in 1..MaxCalls /\ at' = "tools" /\ UNCHANGED <<first, ended>>
          BY <3>5, <4>2
        <5>2. calls' \in 0..MaxCalls
          BY <5>1, AgentAssumption
        <5>. QED  BY <3>1, <5>1, <5>2 DEF Places
      <4>. QED  BY <4>1, <4>2
    <3>. QED  BY <1>3, <3>2, <3>3, <3>4, <3>5 DEF Stream
  <2>5. Flags'
    BY <2>1, <2>4 DEF Flags, world, history
  <2>6. Data'
    BY <2>1, <2>4 DEF Data, world, history
  <2>. QED  BY <2>2, <2>4, <2>5, <2>6
<1>4. ASSUME Backoff PROVE TypeOK'
  <2>1. running /\ (at' # "off" => Placed')
    BY <1>4 DEF Placed, Driving, Backoff, agent
  <2>2. /\ ended' \in Statuses \cup {"none"} /\ first' \in BOOLEAN /\ at' \in Places /\ at' # "off"
        /\ attempt' \in 0..MaxRetries
    <3>1. CASE stop
      <4>1. EndStep("error") /\ UNCHANGED attempt
        BY <1>4, <3>1 DEF Backoff
      <4>. QED  BY <4>1, EndStepFacts DEF Places, Statuses, Data
    <3>2. CASE ~stop
      <4>1. at' = "stream" /\ attempt' = attempt + 1 /\ UNCHANGED <<first, ended>>
        BY <1>4, <3>2 DEF Backoff
      <4>2. attempt \in 0..MaxRetries /\ attempt < MaxRetries
        BY <1>4 DEF Data, Control, Locals, Backoff, Driving
      <4>. QED  BY <4>1, <4>2, AgentAssumption DEF Places, Flags, Data
    <3>. QED  BY <3>1, <3>2
  <2>3. Flags'
    BY <1>4, <2>2 DEF Backoff, Flags, agent, rounds, world, history
  <2>4. Data'
    BY <1>4, <2>2 DEF Backoff, Data, agent, rounds, world, history
  <2>. QED  BY <2>1, <2>2, <2>3, <2>4
<1>5. ASSUME Tool PROVE TypeOK'
  <2>1. running /\ (at' # "off" => Placed')
    BY <1>5 DEF Placed, Driving, Tool, agent
  <2>2. concluded' \in BOOLEAN
    BY <1>5 DEF Tool, Flags
  <2>3. /\ ended' \in Statuses \cup {"none"} /\ first' \in BOOLEAN /\ at' \in Places /\ at' # "off"
        /\ calls' \in 0..MaxCalls
    <3>1. CASE calls > 1 /\ ~stop
      <4>1. calls' = calls - 1 /\ UNCHANGED <<at, first, ended>>
        BY <1>5, <3>1 DEF Tool
      <4>2. at = "tools"
        BY <1>5 DEF Tool, Driving
      <4>. QED  BY <3>1, <4>1, <4>2, AgentAssumption DEF Places, Flags, Data
    <3>2. CASE calls > 1 /\ stop
      <4>1. calls' = 0 /\ EndStep("aborted")
        BY <1>5, <3>2 DEF Tool
      <4>. QED  BY <4>1, EndStepFacts, AgentAssumption DEF Places, Statuses
    <3>3. CASE ~(calls > 1)
      <4>1. calls' = 0 /\ EndStep(IF concluded' THEN "completed" ELSE "none")
        BY <1>5, <3>3 DEF Tool
      <4>2. PICK exit \in Statuses \cup {"none"} : EndStep(exit)
        BY <4>1 DEF Statuses
      <4>3. 0 \in 0..MaxCalls
        BY AgentAssumption
      <4>4. ended' \in Statuses \cup {"none"} /\ first' = FALSE /\ (at' = "stopping" \/ at' = "step")
        BY <4>2, EndStepFacts
      <4>. QED  BY <4>1, <4>3, <4>4 DEF Places
    <3>. QED  BY <3>1, <3>2, <3>3
  <2>4. Flags'
    BY <1>5, <2>2, <2>3 DEF Tool, Flags, agent, rounds, world, history
  <2>5. Data'
    BY <1>5, <2>3 DEF Tool, Data, agent, rounds, world, history
  <2>. QED  BY <2>1, <2>3, <2>4, <2>5
<1>6. ASSUME Stopping PROVE TypeOK'
  <2>1. running /\ (at' # "off" => Placed')
    BY <1>6 DEF Placed, Driving, Stopping
  <2>2. armed' \in BOOLEAN /\ at' \in Places /\ at' # "off"
    <3>1. CASE inbox.next_step # <<>>
      BY <1>6, <3>1 DEF Stopping, Places, Flags
    <3>2. CASE inbox.next_step = <<>>
      BY <1>6, <3>2, EndTurnFacts DEF Stopping, Places
    <3>. QED  BY <3>1, <3>2
  <2>3. Flags'
    BY <1>6, <2>2 DEF Stopping, Flags, world, history
  <2>4. Data'
    BY <1>6, <2>2 DEF Stopping, Data, world, history
  <2>. QED  BY <2>1, <2>2, <2>3, <2>4
<1>7. ASSUME DriveDone PROVE TypeOK'
  <2>1. Flags' /\ Placed'
    BY <1>7 DEF DriveDone, Flags, Placed, world
  <2>2. Data'
    BY <1>7, AgentAssumption DEF DriveDone, Data, world, Places, Woken
  <2>. QED  BY <2>1, <2>2
<1>. QED  BY <1>1, <1>2, <1>3, <1>4, <1>5, <1>6, <1>7 DEF Drive

----------------------------------------------------------------------------
(* Control.                                                                *)
LEMMA ControlNext ==
    ASSUME TypeOK, Control, Next
    PROVE  Control'
<1>. DEFINE Made == {c \in Callers : how[c] # "none"}
<1>. USE TypeSplit
<1>1. ASSUME NEW c \in Callers, NEW call \in Calls, Calling(c, call),
             waiting' \in {waiting, waiting \cup {c}}, fired' = fired
      PROVE  waiting' \cup resumed' \cup answered' \cup fired' \subseteq Made'
  <2>1. how' = [how EXCEPT ![c] = call] /\ call # "none"
    BY <1>1 DEF Calling, Calls
  <2>2. how \in [Callers -> Calls \cup {"none"}]
    BY DEF Data
  <2>3. Made' = Made \cup {c}
    BY <2>1, <2>2
  <2>4. waiting \cup resumed \cup answered \cup fired \subseteq Made
    BY DEF Control, Locals
  <2>5. resumed' = resumed /\ answered' = answered
    BY <1>1 DEF Calling
  <2>. HIDE DEF Made
  <2>. QED  BY <1>1, <2>3, <2>4, <2>5
<1>2. ASSUME NEW token \in Callers \cup {Nobody}, Kick(token), step' = step, first' = first, attempt' = attempt
      PROVE  running' /\ Locals'
  BY <1>2, KickFacts DEF Control, Locals
<1>3. ASSUME UNCHANGED <<running, stop, callerStop, sink, at, first, step, attempt>>
      PROVE  /\ ~running' => ~stop' /\ callerStop' = Nobody /\ sink' = Nobody
             /\ Locals'
  BY <1>3 DEF Control, Locals
<1>. USE DEF Calls
<1>4. ASSUME NEW c \in Callers, Run(c) PROVE Control'
  <2>1. Kick(c) /\ step' = step /\ first' = first /\ attempt' = attempt
    BY <1>4 DEF Run, Calling
  <2>2. waiting' \cup resumed' \cup answered' \cup fired' \subseteq Made'
    BY <1>1, <1>4 DEF Run, Calling, world
  <2>. QED  BY <1>2, <2>1, <2>2 DEF Control, Locals
<1>5. ASSUME NEW c \in Callers, Ask(c) \/ Followup(c) \/ Steer(c) PROVE Control'
  <2>1. Kick(callerStop) /\ step' = step /\ first' = first /\ attempt' = attempt
    BY <1>5 DEF Ask, Followup, Steer, Calling
  <2>2. waiting' \cup resumed' \cup answered' \cup fired' \subseteq Made'
    <3>1. PICK call \in Calls : Calling(c, call) /\ waiting' \in {waiting, waiting \cup {c}}
      BY <1>5 DEF Ask, Followup, Steer
    <3>2. fired' = fired
      BY <3>1 DEF Calling, world
    <3>. QED  BY <1>1, <3>1, <3>2
  <2>3. callerStop \in Callers \cup {Nobody}
    BY DEF Data
  <2>. QED  BY <1>2, <2>1, <2>2, <2>3 DEF Control, Locals
<1>6. ASSUME NEW c \in Callers, Inject(c) PROVE Control'
  <2>1. UNCHANGED <<running, stop, callerStop, sink, at, first, step, attempt>>
    BY <1>6 DEF Inject, Calling
  <2>2. waiting' \cup resumed' \cup answered' \cup fired' \subseteq Made'
    BY <1>1, <1>6 DEF Inject, Calling, world
  <2>. QED  BY <1>3, <2>1, <2>2 DEF Control, Locals
<1>7. ASSUME NEW c \in Callers, Fire(c) PROVE Control'
  <2>1. /\ how[c] = "run" /\ fired' = fired \cup {c} /\ stop' = (stop \/ (running /\ bridged = c))
        /\ UNCHANGED <<running, callerStop, sink, at, first, step, attempt, waiting, resumed, answered, how>>
    BY <1>7 DEF Fire, drive
  <2>. QED  BY <2>1 DEF Control, Locals, Flags
<1>8. ASSUME NEW keep \in BOOLEAN, Cancel(keep) PROVE Control'
  <2>1. /\ stop' = (stop \/ running)
        /\ UNCHANGED <<running, callerStop, sink, at, first, step, attempt, waiting, resumed, answered, how, fired>>
    BY <1>8 DEF Cancel, drive
  <2>. QED  BY <2>1 DEF Control, Locals, Flags
<1>9. ASSUME Dispose PROVE Control'
  <2>1. /\ stop' = (stop \/ running) /\ answered' = answered \cup waiting /\ waiting' = {}
        /\ UNCHANGED <<running, callerStop, sink, at, first, step, attempt, resumed, how, fired>>
    BY <1>9 DEF Dispose, drive
  <2>. QED  BY <2>1 DEF Control, Locals, Flags
<1>10. ASSUME UNCHANGED <<running, stop, callerStop, sink, waiting, resumed, answered, fired, how>>, running
       PROVE  Locals' => Control'
  BY <1>10 DEF Control, Locals
<1>11. ASSUME Drive, ~DriveDone
       PROVE  UNCHANGED <<running, stop, callerStop, sink, waiting, resumed, answered, fired, how>> /\ running
  <2>1. UNCHANGED <<running, stop, callerStop, sink, waiting, resumed, answered, fired, how>>
    BY <1>11 DEF Drive, BeginTurn, Step, Stream, Backoff, Tool, Stopping, agent, world, history
  <2>2. at # "off"
    BY <1>11 DEF Drive, BeginTurn, Step, Stream, Backoff, Tool, Stopping, Driving
  <2>. QED  BY <2>1, <2>2 DEF Placed
<1>12. ASSUME NEW exit \in Statuses \cup {"none"}, EndStep(exit)
       PROVE  Locals'
  BY <1>12, EndStepFacts DEF Locals
<1>13. ASSUME NEW status, NEW box, EndTurn(status, box)
       PROVE  Locals'
  BY <1>13 DEF EndTurn, Locals
<1>. USE DEF Statuses
<1>14. CASE BeginTurn
  <2>1. Locals'
    BY <1>14 DEF BeginTurn, Locals
  <2>2. Drive /\ ~DriveDone
    BY <1>14 DEF Drive, BeginTurn, DriveDone, Driving
  <2>. QED  BY <1>10, <1>11, <2>1, <2>2
<1>15. CASE Step
  <2>1. Locals'
    BY <1>15, <1>13 DEF Step, Locals
  <2>2. Drive /\ ~DriveDone
    BY <1>15 DEF Drive, Step, DriveDone, Driving
  <2>. QED  BY <1>10, <1>11, <2>1, <2>2
<1>16. CASE Stream
  <2>1. Locals'
    BY <1>16, <1>12 DEF Stream, RetryAllowed, Locals
  <2>2. Drive /\ ~DriveDone
    BY <1>16 DEF Drive, Stream, DriveDone, Driving
  <2>. QED  BY <1>10, <1>11, <2>1, <2>2
<1>17. CASE Backoff
  <2>1. Locals'
    BY <1>17, <1>12 DEF Backoff, Locals
  <2>2. Drive /\ ~DriveDone
    BY <1>17 DEF Drive, Backoff, DriveDone, Driving
  <2>. QED  BY <1>10, <1>11, <2>1, <2>2
<1>18. CASE Tool
  <2>1. Locals'
    BY <1>18, <1>12 DEF Tool, Driving, Locals
  <2>2. Drive /\ ~DriveDone
    BY <1>18 DEF Drive, Tool, DriveDone, Driving
  <2>. QED  BY <1>10, <1>11, <2>1, <2>2
<1>19. CASE Stopping
  <2>1. first = FALSE
    BY <1>19 DEF Locals, Control, Stopping, Driving, Flags
  <2>2. Locals'
    BY <1>19, <1>13, <2>1 DEF Stopping, Locals
  <2>3. Drive /\ ~DriveDone
    BY <1>19 DEF Drive, Stopping, DriveDone, Driving
  <2>. QED  BY <1>10, <1>11, <2>2, <2>3
<1>20. CASE DriveDone
  <2>1. /\ running' = FALSE /\ at' = "off" /\ callerStop' = Nobody /\ sink' = Nobody
        /\ resumed' = waiting /\ waiting' = {} /\ stop' = FALSE /\ UNCHANGED <<answered, fired, how>>
    BY <1>20 DEF DriveDone, Woken, world
  <2>. QED  BY <2>1 DEF Control, Locals
<1>21. ASSUME NEW c \in Callers, Resume(c) PROVE Control'
  <2>1. UNCHANGED <<running, stop, callerStop, sink, at, first, step, attempt, fired, how>>
    BY <1>21 DEF Resume, drive, world
  <2>2. c \in resumed /\ resumed' = resumed \ {c} /\ waiting' \subseteq waiting \cup {c} /\ answered' \subseteq answered \cup {c}
    BY <1>21 DEF Resume
  <2>. QED  BY <2>1, <2>2 DEF Control, Locals
<1>22. CASE WindUp
  <2>1. UNCHANGED <<callerStop, sink, waiting, resumed, answered, fired, how, step, first, attempt>>
    BY <1>22 DEF WindUp, world, history
  <2>2. CASE Kick(callerStop)
    <3>1. callerStop \in Callers \cup {Nobody}
      BY DEF Data
    <3>. QED  BY <1>2, <2>1, <2>2, <3>1 DEF Control, Locals
  <2>3. CASE UNCHANGED <<running, stop, bridged, at, failed, switched>>
    BY <2>1, <2>3 DEF Control, Locals
  <2>. QED  BY <1>22, <2>2, <2>3 DEF WindUp
<1>23. CASE GoalPass
  <2>1. UNCHANGED <<callerStop, sink, waiting, resumed, answered, fired, how, step, first, attempt>>
    BY <1>23 DEF GoalPass, world, history
  <2>2. CASE Kick(callerStop)
    <3>1. callerStop \in Callers \cup {Nobody}
      BY DEF Data
    <3>. QED  BY <1>2, <2>1, <2>2, <3>1 DEF Control, Locals
  <2>3. CASE UNCHANGED <<running, stop, bridged, at, failed, switched>>
    BY <2>1, <2>3 DEF Control, Locals
  <2>. QED  BY <1>23, <2>2, <2>3 DEF GoalPass
<1>24. CASE Disarm \/ \E op \in Operations, max \in GoalMax : GoalOp(op, max)
  BY <1>24 DEF Disarm, GoalOp, Control, Locals, agent, drive, history
<1>. QED  BY <1>4, <1>5, <1>6, <1>7, <1>8, <1>9, <1>14, <1>15, <1>16, <1>17, <1>18, <1>19, <1>20, <1>21,
             <1>22, <1>23, <1>24 DEF Next

----------------------------------------------------------------------------
(* A caller's message is known by its id; a round is nobody's message.     *)
LEMMA SaidUnique ==
    ASSUME NEW c \in Callers
    PROVE  /\ \A m \in Message : m.id = c <=> m = Said(c)
           /\ \A d \in Callers : Said(d) = Said(c) <=> d = c
<1>1. ASSUME NEW m \in Message, m.id = c PROVE m = Said(c)
  <2>1. CASE m \in [id : Nat, goal : Nat, rev : Nat, round : Nat]
    BY <1>1, <2>1, IdAssumption
  <2>2. CASE m \in {Said(d) : d \in Callers}
    BY <1>1, <2>2 DEF Said
  <2>. QED  BY <1>1, <2>1, <2>2 DEF Message
<1>2. \A d \in Callers : Said(d).id = d
  BY DEF Said
<1>. QED  BY <1>1, <1>2

(* Where a step's claim takes each message.                                *)
LEMMA ClaimMoves ==
    ASSUME TypeOK, NEW m, Alone(inbox.next_turn, m)
    PROVE  /\ ~In(AfterClaim.next_step, m) /\ Alone(AfterClaim.next_step, m) /\ Alone(AfterClaim.next_turn, m)
           /\ ~first => /\ m \in ToSet(Claimed) <=> In(inbox.next_step, m)
                        /\ AfterClaim.next_turn = inbox.next_turn
           /\ first => \E head \in BOOLEAN :
                        /\ m \in ToSet(Claimed) <=> In(inbox.next_step, m) \/ head \/ In(seed, m)
                        /\ In(inbox.next_turn, m) <=> head \/ In(AfterClaim.next_turn, m)
                        /\ ~(head /\ In(AfterClaim.next_turn, m))
<1>. DEFINE q == inbox.next_turn
            a == inbox.next_step
            h == IF q = <<>> THEN <<>> ELSE <<q[1]>>
<1>1. q \in Seq(Message) /\ a \in Seq(Message) /\ seed \in Seq(Message)
  BY DEF TypeOK, Targets
<1>2. ~In(AfterClaim.next_step, m) /\ Alone(AfterClaim.next_step, m)
  BY ClaimFacts, InEmpty
<1>3. m \in ToSet(Claimed) <=> In(Claimed, m)
  BY InSet
<1>4. CASE ~first
  <2>1. Claimed = a \o <<>> /\ AfterClaim.next_turn = q
    BY <1>4, ClaimFacts
  <2>2. Claimed = a
    BY <1>1, <2>1, ConcatEmptySeq
  <2>. QED  BY <1>2, <1>3, <1>4, <2>1, <2>2
<1>5. CASE first
  <2>1. Claimed = a \o (h \o seed)
    BY <1>5, ClaimFacts
  <2>2. h \in Seq(Message)
    BY <1>1
  <2>. DEFINE head == q # <<>> /\ q[1] = m
  <2>3. In(h, m) <=> head
    BY InEmpty, InSingle
  <2>4. AfterClaim.next_turn = IF q = <<>> THEN <<>> ELSE Tail(q)
    BY <1>5, ClaimFacts
  <2>5. /\ In(q, m) <=> head \/ In(AfterClaim.next_turn, m)
        /\ ~(head /\ In(AfterClaim.next_turn, m)) /\ Alone(AfterClaim.next_turn, m)
    <3>1. CASE q = <<>>
      BY <2>4, <3>1, InEmpty
    <3>2. CASE q # <<>>
      BY <1>1, <2>4, <3>2, InTail
    <3>. QED  BY <3>1, <3>2
  <2>. HIDE DEF h, head
  <2>6. In(Claimed, m) <=> In(a, m) \/ (head \/ In(seed, m))
    <3>1. h \o seed \in Seq(Message)
      BY <1>1, <2>2
    <3>2. In(h \o seed, m) <=> head \/ In(seed, m)
      BY <1>1, <2>2, <2>3, InJoined
    <3>3. In(a \o (h \o seed), m) <=> In(a, m) \/ In(h \o seed, m)
      BY <1>1, <3>1, InJoined
    <3>. QED  BY <2>1, <3>2, <3>3
  <2>7. head \in BOOLEAN
    BY DEF head
  <2>. QED  BY <1>2, <1>3, <1>5, <2>5, <2>6, <2>7
<1>. QED  BY <1>4, <1>5

----------------------------------------------------------------------------
(* Books.                                                                  *)
LEMMA BooksStay ==
    ASSUME Books, UNCHANGED <<inbox, seed, how, admitted, gone>>
    PROVE  Books'
BY DEF Books, Kept, Nowhere, Somewhere, Said

(* A caller's message is queued, at the end of one queue.                  *)
LEMMA BooksQueue ==
    ASSUME TypeOK, Books, NEW c \in Callers, NEW call \in Calls, Calling(c, call),
           NEW t \in Targets, Enqueue(t, Said(c)), UNCHANGED <<seed, gone>>
    PROVE  Books'
<1>1. /\ how[c] = "none" /\ how' = [how EXCEPT ![c] = call] /\ call # "none" /\ admitted' = admitted
      /\ how \in [Callers -> Calls \cup {"none"}]
  BY DEF Calling, Calls, TypeOK
<1>2. Nowhere(Said(c))
  BY <1>1 DEF Books, Kept
<1>3. inbox.next_turn \in Seq(Message) /\ inbox.next_step \in Seq(Message) /\ Said(c) \in Message /\ Said(c).id = c
  BY SaidFacts DEF TypeOK, Targets
<1>4. c \notin QueuedIds(inbox)
  <2>1. ASSUME NEW u \in Targets, NEW i \in DOMAIN inbox[u] PROVE inbox[u][i].id # c
    <3>1. inbox[u] \in Seq(Message)
      BY DEF TypeOK
    <3>2. inbox[u][i] \in Message
      BY <3>1
    <3>3. inbox[u][i] # Said(c)
      BY <1>2 DEF Nowhere, In, Targets
    <3>. QED  BY <3>2, <3>3, SaidUnique
  <2>2. inbox \in [Targets -> Seq(Message)]
    BY DEF TypeOK
  <2>. QED  BY <2>1, <2>2, QueuedPlaces
<1>5. inbox' = [inbox EXCEPT ![t] = Append(inbox[t], Said(c))]
  BY <1>3, <1>4, EnqueueFacts
<1>6. inbox \in [Targets -> Seq(Message)]
  BY DEF TypeOK
<1>7. ASSUME NEW d \in Callers PROVE Kept(d)'
  <2>1. \A u \in Targets : /\ In(inbox'[u], Said(d)) <=> In(inbox[u], Said(d)) \/ (u = t /\ d = c)
                           /\ Alone(inbox'[u], Said(d))
    <3>1. ASSUME NEW u \in Targets, u # t
          PROVE  /\ In(inbox'[u], Said(d)) <=> In(inbox[u], Said(d)) \/ (u = t /\ d = c)
                 /\ Alone(inbox'[u], Said(d))
      <4>1. inbox'[u] = inbox[u]
        BY <1>5, <1>6, <3>1
      <4>2. Alone(inbox[u], Said(d))
        BY DEF Books, Kept, Targets
      <4>. QED  BY <3>1, <4>1, <4>2
    <3>2. /\ In(inbox'[t], Said(d)) <=> In(inbox[t], Said(d)) \/ d = c
          /\ Alone(inbox'[t], Said(d))
      <4>1. inbox'[t] = Append(inbox[t], Said(c)) /\ inbox[t] \in Seq(Message)
        BY <1>5, <1>6
      <4>2. Alone(inbox[t], Said(d))
        BY DEF Books, Kept, Targets
      <4>3. Said(c) = Said(d) <=> c = d
        BY SaidUnique
      <4>4. d = c => ~In(inbox[t], Said(d))
        BY <1>2 DEF Nowhere, Targets
      <4>. QED  BY <1>3, <4>1, <4>2, <4>3, <4>4, InAppend
    <3>. QED  BY <3>1, <3>2
  <2>2. "next_turn" \in Targets /\ "next_step" \in Targets /\ (t = "next_turn" \/ t = "next_step")
    BY DEF Targets
  <2>3. Kept(d)
    BY DEF Books
  <2>4. how'[d] = IF d = c THEN call ELSE how[d]
    BY <1>1
  <2>5. Said(d)' = Said(d)
    BY DEF Said
  <2>. DEFINE m == Said(d)
  <2>6. /\ In(inbox'.next_turn, m) <=> In(inbox.next_turn, m) \/ ("next_turn" = t /\ d = c)
        /\ In(inbox'.next_step, m) <=> In(inbox.next_step, m) \/ ("next_step" = t /\ d = c)
        /\ Alone(inbox'.next_turn, m) /\ Alone(inbox'.next_step, m)
    BY <2>1, <2>2
  <2>7. how'[d] = "none" => Nowhere(m)'
    BY <1>1, <2>3, <2>4, <2>6 DEF Kept, Nowhere
  <2>8. how'[d] # "none" => Somewhere(m)'
    <3>1. CASE d = c
      BY <1>1, <1>2, <2>2, <2>6, <3>1 DEF Nowhere, Somewhere
    <3>2. CASE d # c
      BY <1>1, <2>3, <2>4, <2>6, <3>2 DEF Kept, Somewhere
    <3>. QED  BY <3>1, <3>2
  <2>. QED  BY <2>5, <2>6, <2>7, <2>8 DEF Kept
<1>. QED  BY <1>7 DEF Books

(* A round is queued: no caller's message moves.                           *)
LEMMA BooksRound ==
    ASSUME TypeOK, Books, Enqueue("next_turn", Round), Round \in Message, Round.id \in Nat,
           UNCHANGED <<seed, how, admitted, gone>>
    PROVE  Books'
<1>1. inbox \in [Targets -> Seq(Message)] /\ "next_turn" \in Targets
  BY DEF TypeOK, Targets
<1>2. CASE inbox' = inbox
  BY <1>2, BooksStay
<1>3. CASE inbox' = [inbox EXCEPT !["next_turn"] = Append(inbox["next_turn"], Round)]
  <2>1. inbox'.next_turn = Append(inbox.next_turn, Round) /\ inbox'.next_step = inbox.next_step
    BY <1>1, <1>3 DEF Targets
  <2>2. ASSUME NEW d \in Callers PROVE Kept(d)'
    <3>1. Round # Said(d)
      BY IdAssumption DEF Said
    <3>2. Kept(d)
      BY DEF Books
    <3>3. inbox.next_turn \in Seq(Message)
      BY <1>1
    <3>4. /\ In(inbox'.next_turn, Said(d)) <=> In(inbox.next_turn, Said(d))
          /\ Alone(inbox'.next_turn, Said(d))
      BY <2>1, <3>1, <3>2, <3>3, InAppend DEF Kept
    <3>5. Said(d)' = Said(d)
      BY DEF Said
    <3>. QED  BY <2>1, <3>2, <3>4, <3>5 DEF Kept, Nowhere, Somewhere
  <2>. QED  BY <2>2 DEF Books
<1>. QED  BY <1>1, <1>2, <1>3, EnqueueFacts

(* A run starts a drive with its message; an unused seed is dropped.       *)
LEMMA BooksSeed ==
    ASSUME TypeOK, Books, NEW c \in Callers, Calling(c, "run"), seed' = <<Said(c)>>,
           gone' = gone \cup ToSet(seed), inbox' = inbox
    PROVE  Books'
<1>1. /\ how[c] = "none" /\ how' = [how EXCEPT ![c] = "run"] /\ admitted' = admitted
      /\ how \in [Callers -> Calls \cup {"none"}]
  BY DEF Calling, TypeOK
<1>2. ASSUME NEW d \in Callers PROVE Kept(d)'
  <2>1. Kept(d)
    BY DEF Books
  <2>2. how'[d] = IF d = c THEN "run" ELSE how[d]
    BY <1>1
  <2>3. In(seed', Said(d)) <=> d = c
    BY SaidUnique, InSingle
  <2>4. Said(d) \in gone' <=> Said(d) \in gone \/ In(seed, Said(d))
    BY InSet
  <2>5. Said(d)' = Said(d)
    BY DEF Said
  <2>6. CASE d = c
    BY <1>1, <2>1, <2>2, <2>3, <2>4, <2>5, <2>6 DEF Kept, Nowhere, Somewhere
  <2>7. CASE d # c
    BY <1>1, <2>1, <2>2, <2>3, <2>4, <2>5, <2>7 DEF Kept, Nowhere, Somewhere
  <2>. QED  BY <2>6, <2>7
<1>3. Len(seed') <= 1
  OBVIOUS
<1>. QED  BY <1>2, <1>3 DEF Books

(* The inbox is cleared.                                                   *)
LEMMA BooksClear ==
    ASSUME TypeOK, Books, inbox' = EmptyInbox, gone' = gone \cup Queued(inbox),
           UNCHANGED <<seed, how, admitted>>
    PROVE  Books'
<1>1. inbox'.next_turn = <<>> /\ inbox'.next_step = <<>>
  BY DEF EmptyInbox, Targets
<1>2. ASSUME NEW d \in Callers PROVE Kept(d)'
  <2>1. Kept(d)
    BY DEF Books
  <2>2. Said(d) \in gone' <=> Said(d) \in gone \/ In(inbox.next_turn, Said(d)) \/ In(inbox.next_step, Said(d))
    <3>1. inbox \in [Targets -> Seq(Message)]
      BY DEF TypeOK
    <3>2. Said(d) \in Queued(inbox) <=> In(inbox.next_turn, Said(d)) \/ In(inbox.next_step, Said(d))
      BY <3>1, QueuedPlaces DEF In, Targets
    <3>. QED  BY <3>2
  <2>3. /\ ~In(inbox'.next_turn, Said(d)) /\ ~In(inbox'.next_step, Said(d))
        /\ Alone(inbox'.next_turn, Said(d)) /\ Alone(inbox'.next_step, Said(d))
    BY <1>1, InEmpty
  <2>4. Said(d)' = Said(d)
    BY DEF Said
  <2>. QED  BY <2>1, <2>2, <2>3, <2>4 DEF Kept, Nowhere, Somewhere
<1>. QED  BY <1>2 DEF Books

(* What a step claims goes to the log, or is dropped with it.              *)
LEMMA BooksStep ==
    ASSUME TypeOK, Books, Step
    PROVE  Books'
<1>1. how' = how
  BY DEF Step
<1>2. CASE UNCHANGED <<seed, inbox, gone, admitted>>
  BY <1>1, <1>2, BooksStay
<1>3. CASE /\ inbox' = AfterClaim /\ seed' = (IF first THEN <<>> ELSE seed)
           /\ \/ gone' = gone \cup ToSet(Claimed) /\ admitted' = admitted
              \/ admitted' = admitted \cup ToSet(Claimed) /\ gone' = gone
  <2>1. ASSUME NEW d \in Callers PROVE Kept(d)'
    <3>. DEFINE m == Said(d)
    <3>1. Kept(d)
      BY DEF Books
    <3>2. Said(d)' = Said(d)
      BY DEF Said
    <3>3. /\ ~In(inbox'.next_step, m) /\ Alone(inbox'.next_step, m) /\ Alone(inbox'.next_turn, m)
      BY <1>3, <3>1, ClaimMoves DEF Kept
    <3>. HIDE DEF m
    <3>4. how[d] = "none" => Nowhere(m)
      BY <3>1 DEF Kept, m
    <3>5. how[d] # "none" => Somewhere(m)
      BY <3>1 DEF Kept, m
    <3>6. CASE ~first
      <4>1. (m \in ToSet(Claimed) <=> In(inbox.next_step, m)) /\ inbox'.next_turn = inbox.next_turn /\ seed' = seed
        BY <1>3, <3>1, <3>6, ClaimMoves DEF Kept, m
      <4>2. how[d] = "none" => Nowhere(m)'
        BY <1>3, <3>3, <3>4, <4>1 DEF Nowhere, m
      <4>3. how[d] # "none" => Somewhere(m)'
        BY <1>3, <3>3, <3>5, <4>1 DEF Somewhere, m
      <4>. QED  BY <1>1, <3>2, <3>3, <4>2, <4>3 DEF Kept, m
    <3>7. CASE first
      <4>1. PICK head \in BOOLEAN :
               /\ m \in ToSet(Claimed) <=> In(inbox.next_step, m) \/ head \/ In(seed, m)
               /\ In(inbox.next_turn, m) <=> head \/ In(inbox'.next_turn, m)
               /\ ~(head /\ In(inbox'.next_turn, m))
        BY <1>3, <3>1, <3>7, ClaimMoves DEF Kept, m
      <4>2. ~In(seed', m)
        BY <1>3, <3>7, InEmpty
      <4>3. how[d] = "none" => Nowhere(m)'
        BY <1>3, <3>3, <3>4, <4>1, <4>2 DEF Nowhere, m
      <4>4. how[d] # "none" => Somewhere(m)'
        BY <1>3, <3>3, <3>5, <4>1, <4>2 DEF Somewhere, m
      <4>. QED  BY <1>1, <3>2, <3>3, <4>3, <4>4 DEF Kept, m
    <3>. QED  BY <3>6, <3>7 DEF TypeOK
  <2>2. Len(seed') <= 1
    BY <1>3 DEF Books
  <2>. QED  BY <2>1, <2>2 DEF Books
<1>4. ToSet(<<>>) = {}
  BY DEF ToSet
<1>. QED  BY <1>2, <1>3, <1>4 DEF Step

(* No other action moves a message.                                        *)
LEMMA BooksNext ==
    ASSUME TypeOK, Books, Next
    PROVE  Books'
<1>1. ASSUME NEW c \in Callers, Run(c) PROVE Books'
  <2>1. CASE running
    <3>1. Calling(c, "run") /\ Enqueue("next_turn", Said(c)) /\ UNCHANGED <<seed, gone>>
      BY <1>1, <2>1 DEF Run
    <3>. QED  BY <3>1, BooksQueue DEF Calls, Targets
  <2>2. CASE ~running
    BY <1>1, <2>2, BooksSeed DEF Run
  <2>. QED  BY <2>1, <2>2
<1>2. ASSUME NEW c \in Callers, Ask(c) \/ Followup(c) \/ Steer(c) \/ Inject(c) PROVE Books'
  <2>1. PICK call \in Calls, t \in Targets : Calling(c, call) /\ Enqueue(t, Said(c)) /\ UNCHANGED <<seed, gone>>
    BY <1>2 DEF Ask, Followup, Steer, Inject, Calls, Targets
  <2>. QED  BY <2>1, BooksQueue
<1>3. ASSUME NEW c \in Callers, Fire(c) \/ Resume(c) PROVE Books'
  BY <1>3, BooksStay DEF Fire, Resume
<1>4. ASSUME NEW keep \in BOOLEAN, Cancel(keep) PROVE Books'
  BY <1>4, BooksStay, BooksClear DEF Cancel
<1>5. CASE Dispose
  BY <1>5, BooksClear DEF Dispose
<1>6. CASE Step
  BY <1>6, BooksStep
<1>7. CASE BeginTurn \/ Stream \/ Backoff \/ Tool \/ Stopping \/ DriveDone
  BY <1>7, BooksStay DEF BeginTurn, Stream, Backoff, Tool, Stopping, DriveDone, agent, history
<1>8. CASE WindUp \/ Disarm \/ \E op \in Operations, max \in GoalMax : GoalOp(op, max)
  BY <1>8, BooksStay DEF WindUp, Disarm, GoalOp, agent, history
<1>9. CASE GoalPass
  <2>1. UNCHANGED <<seed, how, admitted, gone>>
    BY <1>9 DEF GoalPass, history
  <2>2. CASE inbox' = inbox
    BY <2>1, <2>2, BooksStay
  <2>3. CASE Enqueue("next_turn", Round)
    <3>1. Round \in Message /\ Round.id \in Nat
      BY DEF Round, Message, GoalState, Snapshot, TypeOK
    <3>. QED  BY <2>1, <2>3, <3>1, BooksRound
  <2>. QED  BY <1>9, <2>2, <2>3 DEF GoalPass
<1>. QED  BY <1>1, <1>2, <1>3, <1>4, <1>5, <1>6, <1>7, <1>8, <1>9 DEF Next

(* Counting in a queue in which m is alone.                                *)
LEMMA CountAlone ==
    ASSUME NEW s, NEW m, Alone(s, m)
    PROVE  Count1(s, m) = IF In(s, m) THEN 1 ELSE 0
<1>1. CASE In(s, m)
  <2>1. PICK i \in DOMAIN s : s[i] = m
    BY <1>1 DEF In
  <2>2. {j \in DOMAIN s : s[j] = m} = {i}
    BY <2>1 DEF Alone
  <2>3. Cardinality({i}) = 1
    BY FS_Singleton, Zenon
  <2>. QED  BY <1>1, <2>2, <2>3 DEF Count1
<1>2. CASE ~In(s, m)
  <2>1. {j \in DOMAIN s : s[j] = m} = {}
    BY <1>2 DEF In
  <2>2. Cardinality({}) = 0
    BY FS_EmptySet, Zenon
  <2>. QED  BY <1>2, <2>1, <2>2 DEF Count1
<1>. QED  BY <1>1, <1>2

(* With the books kept and the inbox drained, messages are delivered.      *)
LEMMA DeliveredFrom ==
    ASSUME TypeOK, Books, Drained
    PROVE  Delivery
<1>1. ASSUME NEW c \in Callers PROVE Found(Said(c)) = IF how[c] = "none" THEN 0 ELSE 1
  <2>. DEFINE m == Said(c)
  <2>1. Alone(inbox.next_turn, m) /\ Alone(inbox.next_step, m) /\ Kept(c)
    BY DEF Books, Kept
  <2>2. Alone(seed, m)
    <3>1. seed \in Seq(Message) /\ Len(seed) <= 1
      BY DEF Books, TypeOK
    <3>2. \A i, j \in DOMAIN seed : i = j
      BY <3>1
    <3>. QED  BY <3>2 DEF Alone
  <2>. HIDE DEF m
  <2>3. /\ Count1(inbox.next_turn, m) = IF In(inbox.next_turn, m) THEN 1 ELSE 0
        /\ Count1(inbox.next_step, m) = IF In(inbox.next_step, m) THEN 1 ELSE 0
        /\ Count1(seed, m) = IF In(seed, m) THEN 1 ELSE 0
    BY <2>1, <2>2, CountAlone
  <2>4. how[c] = "none" => Nowhere(m)
    BY <2>1 DEF Kept, m
  <2>5. how[c] # "none" => Somewhere(m)
    BY <2>1 DEF Kept, m
  <2>6. Found(m) = IF how[c] = "none" THEN 0 ELSE 1
    BY <2>3, <2>4, <2>5 DEF Found, Nowhere, Somewhere
  <2>. QED  BY <2>6 DEF m
<1>2. (live /\ ~running /\ ~winding /\ left = "drained") =>
          \A m \in Queued(inbox) : Human(m) /\ how[m.id] = "inject"
  BY DEF Drained
<1>. QED  BY <1>1, <1>2 DEF Delivery

----------------------------------------------------------------------------
(* Drained.                                                                *)
LEMMA DrainedStays ==
    ASSUME Drained, UNCHANGED <<live, running, stop, inbox, at, failed, switched, how, left>>
    PROVE  Drained'
BY DEF Drained, Human

(* A drive that goes on, or that ends stopped or failed.                   *)
LEMMA DrainedRunning ==
    ASSUME running', at' = "ended" => ~switched' \/ stop' \/ failed' \/ ~live' \/ ~Pending(inbox)'
    PROVE  Drained'
BY DEF Drained

(* A cleared inbox.                                                        *)
LEMMA EmptyQueued == Queued(EmptyInbox) = {} /\ ~Pending(EmptyInbox)
BY DEF Queued, Pending, EmptyInbox, ToSet

(* A call kicks the driver, but for inject.                                *)
LEMMA DrainedCall ==
    ASSUME TypeOK, Books, Drained,
           \E c \in Callers : Run(c) \/ Ask(c) \/ Followup(c) \/ Steer(c) \/ Inject(c)
    PROVE  Drained'
<1>1. ASSUME NEW c \in Callers, StrandFree, Kick(c) \/ Kick(callerStop) PROVE Drained'
  <2>1. callerStop \in Callers \cup {Nobody}
    BY DEF TypeOK
  <2>2. PICK token \in Callers \cup {Nobody} : Kick(token)
    BY <1>1, <2>1
  <2>3. running' = TRUE
    BY <2>2, KickFacts
  <2>4. at' = "ended" => ~switched'
    <3>1. CASE running
      BY <1>1, <2>2, <3>1, KickFacts DEF StrandFree
    <3>2. CASE ~running
      BY <2>2, <3>2, KickFacts
    <3>. QED  BY <3>1, <3>2
  <2>. QED  BY <2>3, <2>4, DrainedRunning
<1>2. ASSUME NEW c \in Callers, Run(c) \/ Ask(c) \/ Followup(c) \/ Steer(c) PROVE Drained'
  BY <1>1, <1>2 DEF Run, Ask, Followup, Steer, Calling
<1>3. ASSUME NEW c \in Callers, Inject(c) PROVE Drained'
  <2>1. /\ Calling(c, "inject") /\ Enqueue("next_step", Said(c)) /\ UNCHANGED <<running, stop, at, failed, switched>>
    BY <1>3 DEF Inject
  <2>2. StrandFree /\ how[c] = "none" /\ how' = [how EXCEPT ![c] = "inject"] /\ UNCHANGED <<live, left>>
    BY <2>1 DEF Calling
  <2>3. Said(c) \in Message /\ "next_step" \in Targets /\ inbox \in [Targets -> Seq(Message)]
        /\ how \in [Callers -> Calls \cup {"none"}]
    BY SaidFacts DEF Targets, TypeOK
  <2>4. ASSUME NEW m \in Queued(inbox)' PROVE m \in Queued(inbox) \/ m = Said(c)
    <3>1. CASE inbox' = inbox
      BY <2>4, <3>1
    <3>2. CASE inbox' = [inbox EXCEPT !["next_step"] = Append(inbox["next_step"], Said(c))]
      <4>1. inbox' \in [Targets -> Seq(Message)]
        BY <2>1, <2>3, EnqueueFacts
      <4>2. PICK t \in Targets : In(inbox'[t], m)
        <5>1. PICK t \in Targets : \E i \in DOMAIN inbox'[t] : inbox'[t][i] = m
          BY <2>4, <4>1, QueuedPlaces
        <5>. QED  BY <5>1 DEF In
      <4>3. In(inbox[t], m) => m \in Queued(inbox)
        BY <2>3, QueuedPlaces DEF In
      <4>4. CASE t = "next_step"
        <5>1. inbox'[t] = Append(inbox[t], Said(c)) /\ inbox[t] \in Seq(Message)
          BY <2>3, <3>2, <4>4
        <5>. QED  BY <2>3, <4>2, <4>3, <5>1, InAppend
      <4>5. CASE t # "next_step"
        BY <2>3, <3>2, <4>2, <4>3, <4>5
      <4>. QED  BY <4>4, <4>5
    <3>. QED  BY <2>1, <2>3, <3>1, <3>2, EnqueueFacts
  <2>5. \A m \in Queued(inbox) : m.id # c
    <3>1. ASSUME NEW m \in Queued(inbox), m.id = c PROVE FALSE
      <4>1. PICK t \in Targets : \E i \in DOMAIN inbox[t] : inbox[t][i] = m
        BY <2>3, <3>1, QueuedPlaces
      <4>2. m \in Message
        BY <2>3, <4>1
      <4>3. m = Said(c)
        BY <3>1, <4>2, SaidUnique
      <4>4. Nowhere(Said(c))
        BY <2>2 DEF Books, Kept
      <4>. QED  BY <4>1, <4>3, <4>4 DEF Nowhere, In, Targets
    <3>. QED  BY <3>1
  <2>6. ASSUME live', ~running', left' = "drained", NEW m \in Queued(inbox)'
        PROVE  Human(m) /\ m.id \in Callers /\ how'[m.id] = "inject"
    <3>1. CASE m = Said(c)
      BY <2>2, <2>3, <3>1, SaidFacts
    <3>2. CASE m \in Queued(inbox)
      <4>1. Human(m) /\ m.id \in Callers /\ how[m.id] = "inject"
        BY <2>1, <2>2, <2>6, <3>2 DEF Drained
      <4>. QED  BY <2>2, <2>3, <2>5, <3>2, <4>1
    <3>. QED  BY <2>4, <2>6, <3>1, <3>2
  <2>. QED  BY <2>1, <2>2, <2>6 DEF Drained, StrandFree, Human
<1>. QED  BY <1>2, <1>3

(* A drive ends by itself when it finds the inbox empty.                   *)
LEMMA DrainedNext ==
    ASSUME TypeOK, Books, Drained, Next
    PROVE  Drained'
<1>1. CASE \E c \in Callers : Run(c) \/ Ask(c) \/ Followup(c) \/ Steer(c) \/ Inject(c)
  BY <1>1, DrainedCall
<1>2. ASSUME NEW c \in Callers, Fire(c) PROVE Drained'
  <2>1. /\ UNCHANGED <<live, running, inbox, at, failed, switched, how, left>> /\ (stop => stop')
    BY <1>2 DEF Fire, drive
  <2>. QED  BY <2>1 DEF Drained, Human
<1>3. ASSUME NEW keep \in BOOLEAN, Cancel(keep) PROVE Drained'
  <2>1. /\ UNCHANGED <<live, running, at, failed, switched, how, left>> /\ (stop => stop')
        /\ inbox' = inbox \/ inbox' = EmptyInbox
    BY <1>3 DEF Cancel, drive
  <2>. QED  BY <2>1, EmptyQueued DEF Drained, Human
<1>4. CASE Dispose
  BY <1>4 DEF Dispose, Drained
<1>5. ASSUME NEW c \in Callers, Resume(c) PROVE Drained'
  BY <1>5, DrainedStays DEF Resume, drive
<1>6. CASE Disarm \/ \E op \in Operations, max \in GoalMax : GoalOp(op, max)
  BY <1>6, DrainedStays DEF Disarm, GoalOp, agent, drive, history
<1>7. CASE WindUp
  <2>1. CASE Kick(callerStop)
    <3>1. callerStop \in Callers \cup {Nobody}
      BY DEF TypeOK
    <3>2. CASE running
      BY <1>7, <2>1, <3>1, <3>2, KickFacts, DrainedStays DEF WindUp, history
    <3>3. CASE ~running
      BY <2>1, <3>1, <3>3, KickFacts, DrainedRunning
    <3>. QED  BY <3>2, <3>3
  <2>2. CASE UNCHANGED <<running, stop, bridged, at, failed, switched>>
    BY <1>7, <2>2, DrainedStays DEF WindUp, history
  <2>. QED  BY <1>7, <2>1, <2>2 DEF WindUp
<1>8. CASE GoalPass
  <2>1. UNCHANGED <<live, how, left>> /\ StrandFree
    BY <1>8 DEF GoalPass, history
  <2>2. CASE UNCHANGED <<running, stop, inbox, at, failed, switched>>
    BY <2>1, <2>2, DrainedStays
  <2>3. CASE Kick(callerStop)
    <3>1. callerStop \in Callers \cup {Nobody}
      BY DEF TypeOK
    <3>2. CASE running
      BY <2>1, <2>3, <3>1, <3>2, KickFacts, DrainedRunning DEF StrandFree
    <3>3. CASE ~running
      BY <2>3, <3>1, <3>3, KickFacts, DrainedRunning
    <3>. QED  BY <3>2, <3>3
  <2>. QED  BY <1>8, <2>2, <2>3 DEF GoalPass
<1>9. ASSUME BeginTurn \/ Step \/ Stream \/ Backoff \/ Tool \/ Stopping PROVE running' /\ UNCHANGED <<stop, live>>
  BY <1>9 DEF BeginTurn, Step, Stream, Backoff, Tool, Stopping, Driving, agent, TypeOK
<1>10. CASE BeginTurn
  BY <1>9, <1>10, DrainedRunning DEF BeginTurn
<1>11. CASE Step
  <2>1. ASSUME NEW status, NEW box, EndTurn(status, box), inbox' = box PROVE Drained'
    <3>1. at' = "ended" => stop' \/ ~Pending(inbox)'
      <4>1. at' = "ended" => stop' \/ ~Pending(box)
        BY <1>9, <1>11, <2>1 DEF EndTurn
      <4>2. Pending(inbox)' <=> Pending(box)
        BY <2>1 DEF Pending
      <4>. QED  BY <4>1, <4>2
    <3>. QED  BY <1>9, <1>11, <3>1, DrainedRunning
  <2>2. CASE at' = "stream"
    BY <1>9, <1>11, <2>2, DrainedRunning
  <2>3. CASE at' # "stream"
    BY <1>11, <2>1, <2>3 DEF Step
  <2>. QED  BY <2>2, <2>3
<1>12. CASE Stream \/ Backoff \/ Tool
  <2>1. at' = "ended" => failed'
    BY <1>12 DEF Stream, Backoff, Tool, EndStep, Driving
  <2>. QED  BY <1>9, <1>12, <2>1, DrainedRunning
<1>13. CASE Stopping
  <2>1. at' = "ended" => stop' \/ ~Pending(inbox)'
    BY <1>9, <1>13 DEF Stopping, EndTurn, Pending
  <2>. QED  BY <1>9, <1>13, <2>1, DrainedRunning
<1>14. CASE DriveDone
  <2>1. /\ at = "ended" /\ at' = "off" /\ UNCHANGED <<live, inbox>>
        /\ left' = "drained" => ~stop /\ ~failed /\ switched
    BY <1>14 DEF DriveDone, Driving
  <2>2. ~Pending(inbox) => Queued(inbox) = {}
    BY DEF Pending, Queued, ToSet
  <2>3. Queued(inbox)' = Queued(inbox)
    BY <2>1
  <2>. QED  BY <2>1, <2>2, <2>3 DEF Drained
<1>. QED  BY <1>1, <1>2, <1>3, <1>4, <1>5, <1>6, <1>7, <1>8, <1>10, <1>11, <1>12, <1>13, <1>14 DEF Next, Drive

----------------------------------------------------------------------------
(* Rounds.                                                                 *)
(* How many rounds 1, 2 .. n are.                                          *)
LEMMA CardTo == ASSUME NEW n \in Nat PROVE Cardinality(1..n) = n
<1>1. Cardinality(1..n) = IF 1 > n THEN 0 ELSE n - 1 + 1
  BY FS_Interval
<1>. QED  BY <1>1

(* Only admissions and the goal's own changes are counted.                 *)
LEMMA CountedStays ==
    ASSUME Counted, UNCHANGED <<goal, admitted>>
    PROVE  Counted'
BY DEF Counted, AdmittedRounds

(* An accepted operation is one the projection follows.                    *)
LEMMA Readable ==
    ASSUME NEW g \in GoalState, NEW op \in Operations, NEW max \in Nat, NEW ready \in BOOLEAN, Accepted(g, ready, op)
    PROVE  /\ Follows(g, op, Logged(g, op, max)) /\ ~g.failed
           /\ op = "create" => Logged(g, op, max).id = g.seen + 1
           /\ op # "create" => /\ Logged(g, op, max).id = g.current.id /\ HasGoal(g)
                               /\ Logged(g, op, max).rev = g.current.rev + 1
<1>1. g.seen \in Nat /\ g.current \in Snapshot /\ g.rounds \in Nat
  BY DEF GoalState
<1>2. CASE op = "create"
  BY <1>1, <1>2 DEF Accepted, Follows, Logged, Snapshot
<1>3. CASE op = "clear"
  BY <1>1, <1>3 DEF Accepted, Follows, Logged, Snapshot, HasGoal
<1>4. CASE op = "edit"
  BY <1>1, <1>4 DEF Accepted, Follows, Logged, Snapshot, HasGoal, PhaseAfter
<1>5. CASE op \in {"pause", "resume", "complete", "block"}
  BY <1>1, <1>5 DEF Accepted, Follows, Logged, Snapshot, HasGoal, PhaseAfter, SameDefinition
<1>. QED  BY <1>2, <1>3, <1>4, <1>5 DEF Operations

(* It changes what the goal is, and what still fits it.                    *)
LEMMA GoalChanges ==
    ASSUME TypeOK, Rounds, NEW op \in Operations, NEW max \in Nat, Accepted(goal, armed, op),
           goal' = Changed(goal, op, Logged(goal, op, max)), UNCHANGED <<admitted, inbox, seed>>
    PROVE  Rounds'
<1>. DEFINE new == Logged(goal, op, max)
<1>1. /\ goal \in GoalState /\ armed \in BOOLEAN /\ goal.seen \in Nat /\ goal.rounds \in Nat
      /\ goal.current.id \in Nat /\ goal.current.rev \in Nat
  BY DEF TypeOK, GoalState, Snapshot
<1>2. /\ Follows(goal, op, new) /\ ~goal.failed
      /\ op = "create" => new.id = goal.seen + 1
      /\ op # "create" => new.id = goal.current.id /\ HasGoal(goal) /\ new.rev = goal.current.rev + 1
  BY <1>1, Readable
<1>. HIDE DEF new
<1>3. goal' = CASE op = "create" -> [goal EXCEPT !.current = new, !.seen = new.id, !.rounds = 0]
                [] op = "clear" -> [goal EXCEPT !.current = None, !.rounds = 0]
                [] OTHER -> [goal EXCEPT !.current = new]
  BY <1>2 DEF Changed, new
<1>4. \A m : Human(m)' <=> Human(m)
  BY DEF Human
<1>5. admitted \subseteq Message /\ \A m \in Message : m.goal \in Nat
  BY DEF TypeOK, Message, Said
<1>6. \A g : AdmittedRounds(g)' = AdmittedRounds(g)
  BY DEF AdmittedRounds
<1>7. ASSUME goal' = [goal EXCEPT !.current = goal'.current, !.seen = goal'.seen, !.rounds = goal'.rounds],
             \A m \in Message : Fits(m, goal) => Fits(m, goal)'
      PROVE  Fitting'
  <2>1. inbox.next_turn \in Seq(Message)
    BY DEF TypeOK, Targets
  <2>2. \A i \in DOMAIN inbox.next_turn : inbox.next_turn[i] \in Message
    BY <2>1
  <2>. QED  BY <1>4, <1>7, <2>2 DEF Rounds, Fitting
<1>8. CASE op = "create"
  <2>1. goal' = [goal EXCEPT !.current = new, !.seen = goal.seen + 1, !.rounds = 0] /\ new.id = goal.seen + 1
    BY <1>2, <1>3, <1>8
  <2>2. goal'.current = new /\ goal'.seen = goal.seen + 1 /\ goal'.rounds = 0 /\ goal'.failed = goal.failed
    BY <1>1, <2>1 DEF GoalState
  <2>3. AdmittedRounds(goal.seen + 1) = {}
    BY <1>1, <1>5 DEF Rounds, Counted, AdmittedRounds
  <2>4. 1..0 = {} /\ Cardinality({}) = 0
    <3>1. Cardinality({}) = 0
      BY FS_EmptySet, Zenon
    <3>. QED  BY <3>1
  <2>5. Counted'
    <3>1. ASSUME NEW g \in 1..goal'.seen PROVE AdmittedRounds(g) = 1..Cardinality(AdmittedRounds(g))
      <4>1. CASE g = goal.seen + 1
        BY <2>3, <2>4, <4>1
      <4>2. CASE g \in 1..goal.seen
        BY <4>2 DEF Rounds, Counted
      <4>. QED  BY <1>1, <2>2, <4>1, <4>2
    <3>2. \A m \in admitted : m.goal <= goal.seen + 1
      BY <1>1, <1>5 DEF Rounds, Counted
    <3>3. goal'.current.id = goal.seen + 1
      BY <2>1, <2>2
    <3>4. AdmittedRounds(goal'.current.id) = 1..goal'.rounds
      BY <2>2, <2>3, <2>4, <3>3
    <3>. QED  BY <1>1, <1>2, <1>6, <2>2, <3>1, <3>2, <3>3, <3>4 DEF Counted
  <2>6. ASSUME NEW m \in Message, Fits(m, goal) PROVE Fits(m, goal)'
    <3>1. m.goal \in Nat
      BY <1>5
    <3>. QED  BY <1>1, <1>4, <2>1, <2>2, <2>6, <3>1 DEF Fits
  <2>7. Fitting'
    <3>1. goal' = [goal EXCEPT !.current = goal'.current, !.seen = goal'.seen, !.rounds = goal'.rounds]
      BY <2>1, <2>2
    <3>. QED  BY <1>7, <2>6, <3>1
  <2>. QED  BY <2>5, <2>7 DEF Rounds
<1>9. CASE op = "clear"
  <2>1. goal' = [goal EXCEPT !.current = None, !.rounds = 0]
    BY <1>3, <1>9
  <2>2. goal'.current = None /\ goal'.seen = goal.seen /\ goal'.rounds = 0 /\ goal'.failed = goal.failed
        /\ goal'.current.id = 0
    BY <1>1, <2>1 DEF GoalState, None
  <2>3. Counted'
    BY <1>1, <1>2, <1>6, <2>2 DEF Rounds, Counted, HasGoal
  <2>4. ASSUME NEW m \in Message, Fits(m, goal) PROVE Fits(m, goal)'
    BY <1>4, <2>2, <2>4 DEF Fits, Human
  <2>5. Fitting'
    <3>1. goal' = [goal EXCEPT !.current = goal'.current, !.seen = goal'.seen, !.rounds = goal'.rounds]
      BY <1>1, <2>1, <2>2 DEF GoalState
    <3>. QED  BY <1>7, <2>4, <3>1
  <2>. QED  BY <2>3, <2>5 DEF Rounds
<1>10. CASE op \notin {"create", "clear"}
  <2>1. goal' = [goal EXCEPT !.current = new]
    BY <1>3, <1>10
  <2>2. /\ goal'.current = new /\ goal'.seen = goal.seen /\ goal'.rounds = goal.rounds /\ goal'.failed = goal.failed
        /\ goal'.current.id = goal.current.id /\ goal'.current.rev = goal.current.rev + 1
    BY <1>1, <1>2, <1>10, <2>1 DEF GoalState
  <2>3. Counted'
    BY <1>1, <1>2, <1>6, <2>2 DEF Rounds, Counted, HasGoal
  <2>4. ASSUME NEW m \in Message, Fits(m, goal) PROVE Fits(m, goal)'
    <3>1. ~Human(m) => m.rev \in Nat
      BY DEF Message, Said, Human
    <3>. QED  BY <1>1, <1>4, <2>2, <2>4, <3>1 DEF Fits
  <2>5. Fitting'
    <3>1. goal' = [goal EXCEPT !.current = goal'.current, !.seen = goal'.seen, !.rounds = goal'.rounds]
      BY <1>1, <2>1, <2>2 DEF GoalState
    <3>. QED  BY <1>7, <2>4, <3>1
  <2>. QED  BY <2>3, <2>5 DEF Rounds
<1>. QED  BY <1>8, <1>9, <1>10

(* What fits the goal goes on fitting it.                                  *)
LEMMA FittingStays ==
    ASSUME Fitting, UNCHANGED goal, UNCHANGED inbox \/ inbox' = EmptyInbox, UNCHANGED seed
    PROVE  Fitting'
<1>1. CASE UNCHANGED inbox
  BY <1>1 DEF Fitting, Fits, Human
<1>2. CASE inbox' = EmptyInbox
  <2>1. inbox'.next_turn = <<>> /\ inbox'.next_step = <<>>
    BY <1>2 DEF EmptyInbox, Targets
  <2>. QED  BY <2>1 DEF Fitting, Human
<1>. QED  BY <1>1, <1>2

(* What is enqueued fits.                                                  *)
LEMMA FittingQueue ==
    ASSUME TypeOK, Fitting, NEW t \in Targets, NEW m \in Message, Enqueue(t, m), UNCHANGED <<goal, seed>>,
           Human(m) \/ (t = "next_turn" /\ Fits(m, goal))
    PROVE  Fitting'
<1>1. inbox.next_turn \in Seq(Message) /\ inbox.next_step \in Seq(Message) /\ inbox \in [Targets -> Seq(Message)]
  BY DEF TypeOK, Targets
<1>2. CASE inbox' = inbox
  BY <1>2, FittingStays
<1>3. CASE inbox' = [inbox EXCEPT ![t] = Append(inbox[t], m)]
  <2>1. \A u \in Targets : inbox'[u] = IF u = t THEN Append(inbox[u], m) ELSE inbox[u]
    BY <1>1, <1>3
  <2>2. ASSUME NEW s \in Seq(Message), NEW i \in DOMAIN Append(s, m)
        PROVE  (i \in DOMAIN s /\ Append(s, m)[i] = s[i]) \/ Append(s, m)[i] = m
    BY AppendProperties
  <2>3. Fits(m, goal)
    BY DEF Fits
  <2>4. \A i \in DOMAIN inbox'.next_turn : Fits(inbox'.next_turn[i], goal)
    <3>1. CASE inbox'.next_turn = inbox.next_turn
      BY <3>1 DEF Fitting
    <3>2. CASE inbox'.next_turn = Append(inbox.next_turn, m)
      BY <1>1, <2>2, <2>3, <3>2 DEF Fitting
    <3>. QED  BY <2>1, <3>1, <3>2 DEF Targets
  <2>5. \A i \in DOMAIN inbox'.next_step : Human(inbox'.next_step[i])
    <3>1. CASE inbox'.next_step = inbox.next_step
      BY <3>1 DEF Fitting
    <3>2. CASE inbox'.next_step = Append(inbox.next_step, m) /\ t = "next_step"
      BY <1>1, <2>2, <3>2 DEF Fitting
    <3>. QED  BY <2>1, <3>1, <3>2 DEF Targets
  <2>6. \A x : (Fits(x, goal)' <=> Fits(x, goal)) /\ (Human(x)' <=> Human(x))
    BY DEF Fits, Human
  <2>. QED  BY <2>4, <2>5, <2>6 DEF Fitting
<1>. QED  BY <1>2, <1>3, EnqueueFacts

(* A claim leaves what fits, under the goal as the claimed messages make it.*)
LEMMA FittingClaim ==
    ASSUME TypeOK, Fitting, inbox' = AfterClaim, seed' = (IF first THEN <<>> ELSE seed),
           goal'.current = goal.current, goal'.seen = goal.seen
    PROVE  Fitting'
<1>1. inbox.next_turn \in Seq(Message)
  BY DEF TypeOK, Targets
<1>2. \A x : (Fits(x, goal)' <=> Fits(x, goal)) /\ (Human(x)' <=> Human(x))
  BY DEF Fits, Human
<1>3. ASSUME NEW i \in DOMAIN inbox'.next_turn PROVE Fits(inbox'.next_turn[i], goal)
  <2>1. CASE inbox'.next_turn = inbox.next_turn
    BY <1>3, <2>1 DEF Fitting
  <2>2. CASE inbox.next_turn # <<>> /\ inbox'.next_turn = Tail(inbox.next_turn)
    <3>1. i + 1 \in DOMAIN inbox.next_turn /\ inbox'.next_turn[i] = inbox.next_turn[i + 1]
      BY <1>1, <1>3, <2>2, HeadTailProperties
    <3>. QED  BY <3>1 DEF Fitting
  <2>. QED  BY <2>1, <2>2, ClaimFacts
<1>4. inbox'.next_step = <<>>
  BY ClaimFacts
<1>5. \A i \in DOMAIN seed' : Human(seed'[i])
  BY DEF Fitting
<1>. QED  BY <1>2, <1>3, <1>4, <1>5 DEF Fitting

(* The rounds admitted by a step.                                          *)
LEMMA CountedStep ==
    ASSUME TypeOK, Rounds, ~Rejected, admitted' = admitted \cup ToSet(Claimed), goal' = RoundsRead(goal, Claimed)
    PROVE  Counted' /\ goal'.current = goal.current /\ goal'.seen = goal.seen
<1>1. /\ goal \in GoalState /\ goal.seen \in Nat /\ goal.rounds \in Nat /\ goal.current.id \in Nat
  BY DEF TypeOK, GoalState, Snapshot
<1>2. CASE (\A m \in ToSet(Claimed) : Human(m)) /\ goal' = goal
  <2>1. \A g \in 1..goal.seen : AdmittedRounds(g)' = AdmittedRounds(g)
    BY <1>2 DEF AdmittedRounds, Human
  <2>2. HasGoal(goal) => goal.current.id \in 1..goal.seen
    BY <1>1 DEF Rounds, Counted, HasGoal
  <2>3. HasGoal(goal) => AdmittedRounds(goal.current.id)' = 1..goal.rounds
    <3>1. PICK c \in Nat : c = goal.current.id
      BY <1>1
    <3>2. HasGoal(goal) => AdmittedRounds(c)' = 1..goal.rounds
      BY <2>1, <2>2, <3>1 DEF Rounds, Counted
    <3>3. c = goal'.current.id
      BY <1>2, <3>1
    <3>. QED  BY <3>2, <3>3 DEF AdmittedRounds
  <2>4. \A m \in admitted' : m.goal <= goal.seen
    BY <1>1, <1>2 DEF Rounds, Counted, Human
  <2>5. \A g \in 1..goal.seen : AdmittedRounds(g)' = 1..Cardinality(AdmittedRounds(g)')
    BY <2>1 DEF Rounds, Counted
  <2>6. ~goal.failed /\ goal.current.id <= goal.seen
    BY DEF Rounds, Counted
  <2>. QED  BY <1>2, <2>3, <2>4, <2>5, <2>6 DEF Counted
<1>3. ASSUME NEW m \in ToSet(Claimed), m.goal = goal.current.id, m.round = goal.rounds + 1, HasGoal(goal),
             \A n \in ToSet(Claimed) : n = m \/ Human(n),
             goal' = [goal EXCEPT !.rounds = goal.rounds + 1]
      PROVE  Counted' /\ goal'.current = goal.current /\ goal'.seen = goal.seen
  <2>0. PICK c \in Nat : c = goal.current.id
    BY <1>1
  <2>1. c \in 1..goal.seen
    BY <1>1, <1>3, <2>0 DEF Rounds, Counted, HasGoal
  <2>2. AdmittedRounds(c) = 1..goal.rounds
    BY <1>3, <2>0 DEF Rounds, Counted
  <2>3. AdmittedRounds(c)' = AdmittedRounds(c) \cup {goal.rounds + 1}
    BY <1>3, <2>0, <2>1 DEF AdmittedRounds, Human
  <2>4. AdmittedRounds(c)' = 1..(goal.rounds + 1)
    BY <1>1, <2>2, <2>3
  <2>5. \A g \in 1..goal.seen : g # c => AdmittedRounds(g)' = AdmittedRounds(g)
    BY <1>3, <2>0 DEF AdmittedRounds, Human
  <2>6. goal'.rounds = goal.rounds + 1 /\ goal'.seen = goal.seen /\ goal'.current = goal.current /\ goal'.failed = goal.failed
    BY <1>1, <1>3 DEF GoalState
  <2>7. ASSUME NEW g \in 1..goal.seen PROVE AdmittedRounds(g)' = 1..Cardinality(AdmittedRounds(g)')
    <3>1. CASE g = c
      <4>1. Cardinality(1..(goal.rounds + 1)) = goal.rounds + 1
        BY <1>1, CardTo
      <4>. QED  BY <2>4, <3>1, <4>1
    <3>2. CASE g # c
      BY <2>5, <2>7, <3>2 DEF Rounds, Counted
    <3>. QED  BY <3>1, <3>2
  <2>8. \A n \in admitted' : n.goal <= goal.seen
    BY <1>1, <1>3, <2>0, <2>1 DEF Rounds, Counted, Human
  <2>9. ~goal.failed /\ goal.current.id <= goal.seen
    BY DEF Rounds, Counted
  <2>10. AdmittedRounds(goal.current.id)' = 1..goal'.rounds
    <3>1. c = goal'.current.id
      BY <2>0, <2>6
    <3>. QED  BY <2>4, <2>6, <3>1 DEF AdmittedRounds
  <2>. QED  BY <2>6, <2>7, <2>8, <2>9, <2>10 DEF Counted
<1>. QED  BY <1>2, <1>3, ReadClaim

(* Every step keeps the count and the fit.                                 *)
LEMMA RoundsNext ==
    ASSUME TypeOK, Rounds, Next
    PROVE  Rounds'
<1>. USE DEF Rounds
<1>1. ASSUME NEW c \in Callers, NEW call \in Calls, Calling(c, call), NEW t \in Targets, Enqueue(t, Said(c)), UNCHANGED seed
      PROVE  Rounds'
  <2>1. UNCHANGED <<goal, admitted>>
    BY <1>1 DEF Calling
  <2>. QED  BY <1>1, <2>1, SaidFacts, CountedStays, FittingQueue
<1>2. ASSUME NEW c \in Callers, Run(c) PROVE Rounds'
  <2>1. CASE running
    BY <1>1, <1>2, <2>1 DEF Run, Calls, Targets
  <2>2. CASE ~running
    <3>1. UNCHANGED <<goal, admitted, inbox>> /\ seed' = <<Said(c)>>
      BY <1>2, <2>2 DEF Run, Calling
    <3>2. Human(Said(c))
      BY SaidFacts
    <3>3. Fitting'
      BY <3>1, <3>2 DEF Fitting, Fits, Human
    <3>. QED  BY <3>1, <3>3, CountedStays
  <2>. QED  BY <2>1, <2>2
<1>3. ASSUME NEW c \in Callers, Ask(c) \/ Followup(c) \/ Steer(c) \/ Inject(c) PROVE Rounds'
  <2>1. PICK call \in Calls, t \in Targets : Calling(c, call) /\ Enqueue(t, Said(c)) /\ UNCHANGED seed
    BY <1>3 DEF Ask, Followup, Steer, Inject, Calls, Targets
  <2>. QED  BY <1>1, <2>1
<1>4. ASSUME UNCHANGED <<goal, admitted, seed>>, UNCHANGED inbox \/ inbox' = EmptyInbox PROVE Rounds'
  BY <1>4, CountedStays, FittingStays
<1>5. ASSUME NEW c \in Callers, Fire(c) \/ Resume(c) PROVE Rounds'
  BY <1>4, <1>5 DEF Fire, Resume, rounds
<1>6. ASSUME NEW keep \in BOOLEAN, Cancel(keep) PROVE Rounds'
  BY <1>4, <1>6 DEF Cancel, rounds
<1>7. CASE Dispose
  BY <1>4, <1>7 DEF Dispose, rounds
<1>8. CASE BeginTurn \/ Stream \/ Backoff \/ Tool \/ Stopping \/ DriveDone \/ WindUp \/ Disarm
  BY <1>4, <1>8 DEF BeginTurn, Stream, Backoff, Tool, Stopping, DriveDone, WindUp, Disarm, agent, rounds, history
<1>9. CASE Step
  <2>1. CASE UNCHANGED <<seed, inbox, admitted, goal>>
    BY <1>4, <2>1
  <2>2. CASE inbox' = AfterClaim /\ seed' = (IF first THEN <<>> ELSE seed) /\ UNCHANGED <<admitted, goal>>
    BY <2>2, CountedStays, FittingClaim
  <2>3. CASE /\ inbox' = AfterClaim /\ seed' = (IF first THEN <<>> ELSE seed) /\ ~Rejected
             /\ admitted' = admitted \cup ToSet(Claimed) /\ goal' = RoundsRead(goal, Claimed)
    <3>1. Counted' /\ goal'.current = goal.current /\ goal'.seen = goal.seen
      BY <2>3, CountedStep
    <3>. QED  BY <2>3, <3>1, FittingClaim
  <2>. QED  BY <1>9, <2>1, <2>2, <2>3 DEF Step
<1>10. ASSUME NEW op \in Operations, NEW max \in GoalMax, GoalOp(op, max) PROVE Rounds'
  <2>1. max \in Nat
    BY AgentAssumption
  <2>2. UNCHANGED <<admitted, inbox, seed>> /\ Accepted(goal, armed, op) /\ goal' = Changed(goal, op, Logged(goal, op, max))
    BY <1>10 DEF GoalOp, agent, history
  <2>. QED  BY <2>1, <2>2, GoalChanges
<1>11. CASE GoalPass
  <2>1. UNCHANGED <<admitted, seed>>
    BY <1>11 DEF GoalPass, history
  <2>2. CASE UNCHANGED <<inbox, goal>>
    BY <1>4, <2>1, <2>2
  <2>3. ASSUME ~(competing \/ (live /\ running) \/ ~live \/ goal.failed \/ ~HasGoal(goal)
               \/ goal.current.phase # "active" \/ ~armed), goal.rounds >= goal.current.max PROVE Rounds'
    <3>1. goal' = Changed(goal, "block", Logged(goal, "block", 0)) /\ UNCHANGED inbox
      BY <1>11, <2>3 DEF GoalPass
    <3>2. Accepted(goal, armed, "block")
      BY <2>3 DEF Accepted
    <3>3. "block" \in Operations /\ 0 \in Nat
      BY DEF Operations
    <3>. QED  BY <2>1, <3>1, <3>2, <3>3, GoalChanges
  <2>4. ASSUME ~(competing \/ (live /\ running) \/ ~live \/ goal.failed \/ ~HasGoal(goal)
               \/ goal.current.phase # "active" \/ ~armed), ~(goal.rounds >= goal.current.max) PROVE Rounds'
    <3>1. Enqueue("next_turn", Round) /\ UNCHANGED goal
      BY <1>11, <2>4 DEF GoalPass
    <3>2. Round \in Message /\ Fits(Round, goal)
      <4>1. /\ goal.seen \in Nat /\ goal.rounds \in Nat /\ goal.current.id \in Nat /\ goal.current.rev \in Nat
            /\ goal.current.max \in Nat /\ goal.current.id <= goal.seen
        BY DEF TypeOK, GoalState, Snapshot, Counted
      <4>2. /\ Round.goal = goal.current.id /\ Round.rev = goal.current.rev /\ Round.round = goal.rounds + 1
            /\ Round \in Message
        BY <4>1 DEF Round, Message
      <4>. QED  BY <2>4, <4>1, <4>2 DEF Fits
    <3>3. "next_turn" \in Targets
      BY DEF Targets
    <3>. QED  BY <2>1, <3>1, <3>2, <3>3, CountedStays, FittingQueue
  <2>. QED  BY <1>11, <2>2, <2>3, <2>4 DEF GoalPass
<1>. QED  BY <1>2, <1>3, <1>5, <1>6, <1>7, <1>8, <1>9, <1>10, <1>11 DEF Next

(* The property the runs check.                                            *)
LEMMA AdmittedFrom ==
    ASSUME TypeOK, Rounds
    PROVE  RoundsAdmitted
<1>1. goal.rounds \in Nat
  BY DEF TypeOK, GoalState
<1>2. ASSUME NEW g \in 1..goal.seen, g = goal.current.id PROVE Cardinality(AdmittedRounds(g)) = goal.rounds
  <2>1. AdmittedRounds(g) = 1..goal.rounds
    BY <1>2 DEF Rounds, Counted, HasGoal
  <2>2. Cardinality(1..goal.rounds) = goal.rounds
    BY <1>1, CardTo
  <2>. QED  BY <2>1, <2>2
<1>. QED  BY <1>2 DEF Rounds, Counted, RoundsAdmitted

----------------------------------------------------------------------------
(* Seeded, and callers served.                                             *)
LEMMA SeededStays ==
    ASSUME Seeded, UNCHANGED seed, cut \subseteq cut',
           ~Uncut \/ UNCHANGED <<live, stop, at, first>>
    PROVE  Seeded'
BY DEF Seeded, Uncut

(* Who has an input that waits for a turn, and was not cut, is outstanding.*)
LEMMA OwnersOutstanding ==
    ASSUME TypeOK, Books, CallersServed, NEW i \in DOMAIN seed, seed[i].id \in Callers \ cut
    PROVE  seed[i].id \in Outstanding
<1>. DEFINE c == seed[i].id
<1>1. seed \in Seq(Message) /\ how \in [Callers -> Calls \cup {"none"}]
  BY DEF TypeOK
<1>2. seed[i] \in Message
  BY <1>1
<1>3. seed[i] = Said(c)
  BY <1>2, SaidUnique
<1>4. In(seed, Said(c))
  BY <1>3 DEF In
<1>5. how[c] # "none"
  BY <1>4 DEF Books, Kept, Nowhere
<1>6. c \notin answered
  BY DEF CallersServed, ToSet
<1>. QED  BY <1>5, <1>6 DEF Outstanding

(* A kick leaves a running driver to its seed; an idle one has none left.  *)
LEMMA SeededKick ==
    ASSUME TypeOK, Seeded, NEW token \in Callers \cup {Nobody}, Kick(token), UNCHANGED <<seed, live, first, cut>>
    PROVE  Seeded'
<1>1. CASE running
  BY <1>1, KickFacts, SeededStays
<1>2. CASE ~running
  <2>1. at = "off"
    BY <1>2 DEF TypeOK
  <2>. QED  BY <2>1, SeededStays DEF Seeded
<1>. QED  BY <1>1, <1>2

(* A step claims the seed, a stop cuts its owner.                          *)
LEMMA SeededNext ==
    ASSUME TypeOK, Control, Books, Seeded, CallersServed, Next
    PROVE  Seeded'
<1>1. callerStop \in Callers \cup {Nobody}
  BY DEF TypeOK
<1>2. ASSUME NEW c \in Callers, Run(c) PROVE Seeded'
  <2>1. UNCHANGED <<live, first, cut>> /\ live /\ how[c] = "none" /\ Kick(c)
    BY <1>2 DEF Run, Calling
  <2>2. CASE running
    BY <1>2, <2>1, <2>2, SeededKick DEF Run
  <2>3. CASE ~running
    <3>1. c \notin fired
      BY <2>1 DEF Control
    <3>2. ~stop' /\ at' = "start"
      BY <2>1, <2>3, <3>1, KickFacts
    <3>. QED  BY <2>1, <3>2 DEF Seeded
  <2>. QED  BY <2>2, <2>3
<1>3. ASSUME NEW c \in Callers, Ask(c) \/ Followup(c) \/ Steer(c) PROVE Seeded'
  <2>1. UNCHANGED <<seed, live, first, cut>> /\ Kick(callerStop)
    BY <1>3 DEF Ask, Followup, Steer, Calling
  <2>. QED  BY <1>1, <2>1, SeededKick
<1>4. ASSUME NEW c \in Callers, Inject(c) \/ Resume(c) PROVE Seeded'
  BY <1>4, SeededStays DEF Inject, Calling, Resume, drive
<1>5. ASSUME UNCHANGED <<seed, live, at, first>>, cut \subseteq cut', stop' = stop \/ Outstanding \subseteq cut'
      PROVE  Seeded'
  <2>1. CASE stop' = stop
    BY <1>5, <2>1, SeededStays
  <2>2. CASE Outstanding \subseteq cut'
    <3>1. ~Uncut'
      BY <1>5, <2>2, OwnersOutstanding DEF Uncut
    <3>. QED  BY <3>1 DEF Seeded
  <2>. QED  BY <1>5, <2>1, <2>2
<1>6. ASSUME NEW c \in Callers, Fire(c) PROVE Seeded'
  <2>1. /\ stop' = (stop \/ (running /\ bridged = c)) /\ UNCHANGED <<seed, live, at, first>>
        /\ cut' = cut \cup (IF running /\ bridged = c THEN Outstanding ELSE {c})
    BY <1>6 DEF Fire, drive
  <2>2. stop \in BOOLEAN
    BY DEF TypeOK
  <2>3. CASE running /\ bridged = c
    BY <1>5, <2>1, <2>3
  <2>4. CASE ~(running /\ bridged = c)
    BY <1>5, <2>1, <2>2, <2>4
  <2>. QED  BY <2>3, <2>4
<1>7. ASSUME NEW keep \in BOOLEAN, Cancel(keep) PROVE Seeded'
  <2>1. /\ stop' = (stop \/ running) /\ UNCHANGED <<seed, live, at, first>>
        /\ cut' = IF running THEN cut \cup Outstanding ELSE cut
    BY <1>7 DEF Cancel, drive
  <2>2. stop \in BOOLEAN /\ running \in BOOLEAN
    BY DEF TypeOK
  <2>3. CASE running
    BY <1>5, <2>1, <2>3
  <2>4. CASE ~running
    BY <1>5, <2>1, <2>2, <2>4
  <2>. QED  BY <2>3, <2>4
<1>8. CASE Dispose
  <2>1. UNCHANGED seed /\ cut' = cut \cup Outstanding
    BY <1>8 DEF Dispose
  <2>2. ~Uncut'
    BY <2>1, OwnersOutstanding DEF Uncut
  <2>. QED  BY <2>2 DEF Seeded
<1>9. CASE BeginTurn
  BY <1>9 DEF BeginTurn, Driving, Seeded, Uncut, history
<1>10. CASE Step
  <2>1. at = "step" /\ UNCHANGED <<live, stop, first, cut>>
    BY <1>10 DEF Step, Driving
  <2>2. CASE stop
    BY <1>10, <2>1, <2>2, SeededStays DEF Step, Seeded
  <2>3. CASE ~first
    <3>1. seed' = seed
      BY <1>10, <2>3 DEF Step
    <3>. QED  BY <2>1, <2>3, <3>1, SeededStays DEF Seeded
  <2>4. CASE ~stop /\ first
    <3>1. ~(step >= MaxSteps)
      BY <2>1, <2>4, AgentAssumption DEF Control, Locals
    <3>2. seed' = <<>>
      BY <1>10, <2>4, <3>1 DEF Step
    <3>. QED  BY <3>2 DEF Seeded, Uncut
  <2>. QED  BY <2>2, <2>3, <2>4
<1>11. CASE Stream \/ Backoff \/ Tool \/ Stopping \/ DriveDone
  <2>1. UNCHANGED <<seed, cut>> /\ at # "start" /\ at # "step"
    BY <1>11 DEF Stream, Backoff, Tool, Stopping, DriveDone, Driving, agent, history
  <2>. QED  BY <2>1, SeededStays DEF Seeded
<1>12. CASE WindUp \/ GoalPass
  <2>1. UNCHANGED <<seed, live, first, cut>>
    BY <1>12 DEF WindUp, GoalPass, history
  <2>2. Kick(callerStop) \/ UNCHANGED <<running, stop, bridged, at, failed, switched>>
    BY <1>12 DEF WindUp, GoalPass
  <2>. QED  BY <1>1, <2>1, <2>2, SeededKick, SeededStays
<1>13. CASE Disarm \/ \E op \in Operations, max \in GoalMax : GoalOp(op, max)
  BY <1>13, SeededStays DEF Disarm, GoalOp, agent, drive, history
<1>. QED  BY <1>2, <1>3, <1>4, <1>6, <1>7, <1>8, <1>9, <1>10, <1>11, <1>12, <1>13 DEF Next

(* Who has no new answer, and no new sink.                                 *)
LEMMA ServedStays ==
    ASSUME CallersServed, UNCHANGED answered, cut \subseteq cut', live' => live, sink' = sink \/ sink' = Nobody \/ ~live',
           seed' = seed \/ seed' = <<>>, Nobody \notin answered
    PROVE  CallersServed'
<1>1. ToSet(<<>>) = {}
  BY DEF ToSet
<1>. QED  BY <1>1 DEF CallersServed

(* Answers go to waiters of an idle driver, whose sink is nobody's.        *)
LEMMA ServedNext ==
    ASSUME TypeOK, Control, Books, Seeded, CallersServed, Next
    PROVE  CallersServed'
<1>1. Nobody \notin answered
  BY IdAssumption DEF TypeOK, Nobody
<1>2. ASSUME NEW c \in Callers, Run(c) PROVE CallersServed'
  <2>1. how[c] = "none" /\ UNCHANGED <<answered, cut>> /\ sink' = c /\ (seed' = seed \/ seed' = <<Said(c)>>)
    BY <1>2 DEF Run, Calling
  <2>2. c \notin answered
    BY <2>1 DEF Control
  <2>3. CASE seed' = seed
    BY <2>1, <2>2, <2>3 DEF CallersServed
  <2>4. CASE seed' = <<Said(c)>>
    <3>1. \A m \in ToSet(<<Said(c)>>) : m.id = c
      <4>1. \A m \in ToSet(<<Said(c)>>) : m = Said(c)
        BY InSet, InSingle
      <4>. QED  BY <4>1, SaidFacts
    <3>. QED  BY <2>1, <2>2, <2>4, <3>1 DEF CallersServed
  <2>. QED  BY <2>1, <2>3, <2>4
<1>3. ASSUME NEW c \in Callers, Ask(c) PROVE CallersServed'
  <2>1. how[c] = "none" /\ UNCHANGED <<answered, cut, seed>> /\ sink' = c
    BY <1>3 DEF Ask, Calling
  <2>2. c \notin answered
    BY <2>1 DEF Control
  <2>. QED  BY <2>1, <2>2 DEF CallersServed
<1>4. ASSUME NEW c \in Callers, Followup(c) \/ Steer(c) \/ Inject(c) \/ Fire(c) PROVE CallersServed'
  BY <1>1, <1>4, ServedStays DEF Followup, Steer, Inject, Fire, Calling
<1>5. ASSUME NEW keep \in BOOLEAN, Cancel(keep) PROVE CallersServed'
  BY <1>1, <1>5, ServedStays DEF Cancel
<1>6. CASE Dispose
  <2>1. ~live' /\ answered' = answered \cup waiting /\ cut' = cut \cup Outstanding /\ seed' = seed
    BY <1>6 DEF Dispose
  <2>2. ASSUME NEW m \in ToSet(seed), m.id \in answered' PROVE m.id \in cut'
    <3>1. CASE m.id \in answered
      BY <2>1, <2>2, <3>1 DEF CallersServed
    <3>2. CASE m.id \notin answered
      <4>1. m.id \in waiting
        BY <2>1, <2>2, <3>2
      <4>2. m.id \in Outstanding
        BY <3>2, <4>1 DEF Outstanding, Control
      <4>. QED  BY <2>1, <4>2
    <3>. QED  BY <3>1, <3>2
  <2>. QED  BY <2>1, <2>2 DEF CallersServed
<1>7. CASE Drive
  <2>1. UNCHANGED <<answered, cut, live>> /\ (sink' = sink \/ sink' = Nobody) /\ (seed' = seed \/ seed' = <<>>)
    BY <1>7 DEF Drive, BeginTurn, Step, Stream, Backoff, Tool, Stopping, DriveDone, agent, history
  <2>. QED  BY <1>1, <2>1, ServedStays
<1>8. ASSUME NEW c \in Callers, Resume(c) PROVE CallersServed'
  <2>1. UNCHANGED <<live, sink, seed, cut, running>>
    BY <1>8 DEF Resume, drive
  <2>2. CASE live /\ running
    BY <1>1, <1>8, <2>1, <2>2, ServedStays DEF Resume
  <2>3. CASE ~(live /\ running)
    <3>1. answered' = answered \cup {c}
      BY <1>8, <2>3 DEF Resume
    <3>2. live' => sink' \notin answered'
      <4>1. live => sink = Nobody
        BY <2>3 DEF Control
      <4>. QED  BY <1>1, <2>1, <3>1, <4>1, IdAssumption DEF Nobody
    <3>3. ASSUME NEW m \in ToSet(seed), m.id = c PROVE c \in cut
      <4>1. ~Uncut
        BY <2>3 DEF Seeded, TypeOK
      <4>2. PICK i \in DOMAIN seed : seed[i] = m
        BY <3>3 DEF ToSet
      <4>. QED  BY <3>3, <4>1, <4>2 DEF Uncut
    <3>. QED  BY <2>1, <3>1, <3>2, <3>3 DEF CallersServed
  <2>. QED  BY <2>2, <2>3
<1>9. CASE WindUp \/ GoalPass \/ Disarm \/ \E op \in Operations, max \in GoalMax : GoalOp(op, max)
  BY <1>1, <1>9, ServedStays DEF WindUp, GoalPass, Disarm, GoalOp, agent, history
<1>. QED  BY <1>2, <1>3, <1>4, <1>5, <1>6, <1>7, <1>8, <1>9 DEF Next, Drive

----------------------------------------------------------------------------
(* It holds at the start, and every step keeps it.                         *)
LEMMA AgentInit == Init => AgentInv
<1>. SUFFICES ASSUME Init PROVE AgentInv
  OBVIOUS
<1>1. inbox = EmptyInbox /\ inbox.next_turn = <<>> /\ inbox.next_step = <<>> /\ seed = <<>>
  BY DEF Init, EmptyInbox, Targets
<1>2. TypeOK
  <2>1. NoGoal \in GoalState
    BY DEF NoGoal, GoalState, None, Snapshot, Phases
  <2>2. EmptyInbox \in [Targets -> Seq(Message)]
    BY DEF EmptyInbox
  <2>3. how \in [Callers -> Calls \cup {"none"}]
    BY DEF Init
  <2>4. 0 \in 0..MaxSteps /\ 0 \in 0..MaxCalls /\ 0 \in 0..MaxRetries
    BY AgentAssumption
  <2>5. Flags /\ Placed
    BY DEF Init, Flags, Placed
  <2>6. Data
    BY <2>1, <2>2, <2>3, <2>4 DEF Init, Data, Places, Nobody
  <2>. QED  BY <2>5, <2>6, TypeSplit
<1>3. Control
  BY DEF Init, Control, Locals
<1>4. Books
  <2>1. \A c \in Callers : Kept(c)
    BY <1>1, InEmpty DEF Init, Kept, Nowhere
  <2>. QED  BY <1>1, <2>1 DEF Books
<1>5. Drained
  BY <1>1, EmptyQueued DEF Init, Drained
<1>6. Rounds
  <2>1. Counted
    BY DEF Init, Counted, NoGoal, None, HasGoal
  <2>2. Fitting
    BY <1>1 DEF Fitting
  <2>. QED  BY <2>1, <2>2 DEF Rounds
<1>7. Seeded /\ CallersServed
  BY <1>1 DEF Init, Seeded, Uncut, CallersServed, ToSet
<1>. QED  BY <1>2, <1>3, <1>4, <1>5, <1>6, <1>7 DEF AgentInv

LEMMA AgentNext == AgentInv /\ [Next]_vars => AgentInv'
<1>. SUFFICES ASSUME AgentInv, [Next]_vars PROVE AgentInv'
  OBVIOUS
<1>. USE DEF AgentInv
<1>1. CASE Next
  <2>1. TypeOK'
    BY <1>1, CallTypes, DriveTypes, RestTypes DEF Next, Drive
  <2>. QED  BY <1>1, <2>1, ControlNext, BooksNext, DrainedNext, RoundsNext, SeededNext, ServedNext
<1>2. CASE UNCHANGED vars
  <2>1. TypeOK'
    BY <1>2, RestTypes
  <2>2. Control'
    BY <1>2 DEF vars, agent, drive, world, history, Control, Locals
  <2>3. Books' /\ Drained' /\ Counted' /\ Fitting' /\ Seeded'
    BY <1>2, BooksStay, DrainedStays, CountedStays, FittingStays, SeededStays
       DEF vars, agent, drive, rounds, world, history, Rounds
  <2>4. CallersServed'
    BY <1>2 DEF vars, agent, drive, world, history, CallersServed
  <2>. QED  BY <2>1, <2>2, <2>3, <2>4 DEF Rounds
<1>. QED  BY <1>1, <1>2

(* The agent loop is always in a state AgentInv describes: its types, and  *)
(* the parts above.                                                        *)
THEOREM AgentSafe == Spec => []AgentInv
BY AgentInit, AgentNext, PTL DEF Spec

(* Every message a caller handed over is in one place, and a drive that    *)
(* came to its own end leaves nothing behind that was meant to wake it.    *)
THEOREM MessagesDelivered == Spec => []Delivery
<1>1. AgentInv => Delivery
  BY DeliveredFrom DEF AgentInv
<1>. QED  BY <1>1, AgentSafe, PTL

(* The projection refuses nothing that is logged, and has counted the      *)
(* rounds that were admitted, which are 1, 2, 3 ...                        *)
THEOREM RoundsInOrder == Spec => []RoundsAdmitted
<1>1. AgentInv => RoundsAdmitted
  BY AdmittedFrom DEF AgentInv
<1>. QED  BY <1>1, AgentSafe, PTL

(* No sink of an answered caller, and no answer before a run's input was   *)
(* claimed, unless it was stopped.                                         *)
THEOREM Served == Spec => []CallersServed
<1>1. AgentInv => CallersServed
  BY DEF AgentInv
<1>. QED  BY <1>1, AgentSafe, PTL
=============================================================================
