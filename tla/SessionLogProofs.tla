--------------------------- MODULE SessionLogProofs ---------------------------
(***************************************************************************)
(* Theorems about the session log and its files, for every set of ids.     *)
(* The first part is about logs alone: their fold shows the visible        *)
(* events, each once, in the order of their places, for every log whose    *)
(* numbers increase.  The functions the fold and the places are computed   *)
(* by are recursive, over the length of a sequence: what they come to is   *)
(* proved by climbing from 0, which rests on the least number of a set.    *)
(* The second part is about the log's behaviour.                           *)
(***************************************************************************)
EXTENDS SessionLog, SequenceTheorems, FiniteSetTheorems, WellFoundedInduction, TLAPS

----------------------------------------------------------------------------
(* Climbing                                                                *)

LEMMA LeastNumber ==
    ASSUME NEW T \in SUBSET Nat, T # {}
    PROVE  \E n \in T : \A k \in T : n <= k
<1>. DEFINE R == OpToRel(<, Nat)
<1>1. IsWellFoundedOn(R, Nat)
  BY NatLessThanWellFounded
<1>2. \A j, k \in Nat : <<j, k>> \in R <=> j < k
  BY DEF OpToRel
<1>. HIDE DEF R
<1>3. PICK n \in T : \A k \in T : <<k, n>> \notin R
  BY <1>1, WFMin
<1>4. \A k \in T : ~(k < n)
  BY <1>2, <1>3
<1>. QED  BY <1>3, <1>4

(* What holds of 0, and of each number after the one before, holds to N.   *)
LEMMA Climb ==
    ASSUME NEW N \in Nat, NEW T, 0 \in T, \A n \in 1..N : n - 1 \in T => n \in T
    PROVE  \A n \in 0..N : n \in T
<1>. DEFINE U == {n \in 0..N : n \notin T}
<1>1. ASSUME U # {} PROVE FALSE
  <2>1. U \in SUBSET Nat
    OBVIOUS
  <2>2. PICK n \in U : \A k \in U : n <= k
    BY <1>1, <2>1, LeastNumber
  <2>3. n \in 1..N /\ n - 1 \in 0..N /\ n - 1 \notin U
    BY <2>2
  <2>. QED  BY <2>2, <2>3
<1>. QED  BY <1>1

(* Two functions that start alike and continue alike are alike.            *)
LEMMA Alike ==
    ASSUME NEW N \in Nat, NEW f, NEW g, f[0] = g[0],
           \A n \in 1..N : f[n - 1] = g[n - 1] => f[n] = g[n]
    PROVE  \A n \in 0..N : f[n] = g[n]
<1>. DEFINE T == {n \in 0..N : f[n] = g[n]}
<1>1. 0 \in T
  OBVIOUS
<1>2. \A n \in 1..N : n - 1 \in T => n \in T
  OBVIOUS
<1>. HIDE DEF T
<1>3. \A n \in 0..N : n \in T
  BY <1>1, <1>2, Climb
<1>. QED  BY <1>3 DEF T

(* Inserting at place k of a sequence.                                     *)
Inserting(t, s, k, x, S) ==
    /\ t \in Seq(S) /\ Len(t) = Len(s) + 1 /\ t[k] = x
    /\ \A i \in 1..Len(s) : i < k => t[i] = s[i]
    /\ \A i \in 1..Len(s) : i >= k => t[i + 1] = s[i]
LEMMA Inserted ==
    ASSUME NEW S, NEW s \in Seq(S), NEW k \in 1..Len(s) + 1, NEW x \in S
    PROVE  Inserting(InsertAt(s, k, x), s, k, x, S)
<1>. DEFINE a == SubSeq(s, 1, k - 1)
            b == SubSeq(s, k, Len(s))
            o == <<x>>
<1>1. Len(s) \in Nat /\ k \in Nat /\ 1 <= k /\ k <= Len(s) + 1
  OBVIOUS
<1>2. \A i \in 1..Len(s) : s[i] \in S
  BY ElementOfSeq
<1>3. /\ a \in Seq(S) /\ Len(a) = k - 1
      /\ \A i \in 1..k - 1 : a[i] = s[i]
  <2>1. k - 1 \in Int /\ 1 \in Int /\ \A i \in 1..(k - 1) : s[i] \in S
    BY <1>1, <1>2
  <2>2. /\ a \in Seq(S) /\ Len(a) = IF 1 <= k - 1 THEN k - 1 - 1 + 1 ELSE 0
        /\ \A i \in 1..(k - 1 - 1 + 1) : a[i] = s[1 + i - 1]
    BY <2>1, SubSeqProperties
  <2>. HIDE DEF a
  <2>. QED  BY <1>1, <2>2
<1>4. /\ b \in Seq(S) /\ Len(b) = Len(s) + 1 - k
      /\ \A i \in 1..Len(s) + 1 - k : b[i] = s[k + i - 1]
  <2>1. \A i \in k..Len(s) : s[i] \in S
    BY <1>1, <1>2
  <2>2. /\ b \in Seq(S) /\ Len(b) = IF k <= Len(s) THEN Len(s) - k + 1 ELSE 0
        /\ \A i \in 1..(Len(s) - k + 1) : b[i] = s[k + i - 1]
    BY <1>1, <2>1, SubSeqProperties
  <2>. HIDE DEF b
  <2>. QED  BY <1>1, <2>2
<1>5. o \in Seq(S) /\ Len(o) = 1 /\ o[1] = x
  OBVIOUS
<1>6. InsertAt(s, k, x) = (a \o o) \o b
  BY DEF InsertAt
<1>. HIDE DEF a, b, o
<1>7. /\ a \o o \in Seq(S) /\ Len(a \o o) = k
      /\ \A i \in 1..k : (a \o o)[i] = IF i < k THEN s[i] ELSE x
  <2>1. /\ a \o o \in Seq(S) /\ Len(a \o o) = Len(a) + Len(o)
        /\ \A i \in 1..Len(a) + Len(o) : (a \o o)[i] = IF i <= Len(a) THEN a[i] ELSE o[i - Len(a)]
    BY <1>3, <1>5, ConcatProperties
  <2>. QED  BY <1>1, <1>3, <1>5, <2>1
<1>. DEFINE c == a \o o
<1>0. c \in Seq(S)
  BY <1>7
<1>. HIDE DEF c
<1>8. /\ c \o b \in Seq(S) /\ Len(c \o b) = Len(c) + Len(b)
      /\ \A i \in 1..Len(c) + Len(b) : (c \o b)[i] = IF i <= Len(c) THEN c[i] ELSE b[i - Len(c)]
  BY <1>0, <1>4, ConcatProperties
<1>9. InsertAt(s, k, x) = c \o b
  BY <1>6 DEF c
<1>10. Len(c) = k /\ \A i \in 1..k : c[i] = IF i < k THEN s[i] ELSE x
  BY <1>7 DEF c
<1>11. k \in 1..Len(s) + 1 /\ (c \o b)[k] = x
  BY <1>1, <1>4, <1>8, <1>10
<1>12. ASSUME NEW i \in 1..Len(s), i < k PROVE (c \o b)[i] = s[i]
  BY <1>1, <1>4, <1>8, <1>10, <1>12
<1>13. ASSUME NEW i \in 1..Len(s), i >= k PROVE (c \o b)[i + 1] = s[i]
  <2>1. i + 1 - k \in 1..Len(s) + 1 - k /\ k + (i + 1 - k) - 1 = i
    BY <1>1, <1>13
  <2>2. (c \o b)[i + 1] = b[i + 1 - k]
    <3>1. i + 1 \in 1..Len(c) + Len(b) /\ ~(i + 1 <= Len(c))
      BY <1>1, <1>4, <1>10, <1>13
    <3>. QED  BY <1>8, <1>10, <3>1
  <2>3. b[i + 1 - k] = s[k + (i + 1 - k) - 1]
    BY <1>4, <2>1
  <2>. QED  BY <2>1, <2>2, <2>3
<1>14. Len(c \o b) = Len(s) + 1
  BY <1>1, <1>4, <1>8, <1>10
<1>. QED  BY <1>8, <1>9, <1>11, <1>12, <1>13, <1>14 DEF Inserting

----------------------------------------------------------------------------
(* The recursive functions: each is some function that obeys its equation. *)

(* The pass of replace() over the surface.                                 *)
LEMMA PassRuns ==
    ASSUME NEW nodes, NEW from, NEW upto, Len(nodes) \in Nat
    PROVE  \E f : /\ f[0] = [kept |-> <<>>, at |-> 0]
                  /\ \A n \in 1..Len(nodes) : f[n] = Passed(f[n - 1], nodes[n], from, upto)
                  /\ Pass(nodes, from, upto) = f[Len(nodes)]
<1>. DEFINE Runs(f, m) == f = [n \in 0..m |-> IF n = 0 THEN [kept |-> <<>>, at |-> 0] ELSE Passed(f[n - 1], nodes[n], from, upto)]
            T == {m \in 0..Len(nodes) : \E f : Runs(f, m)}
<1>1. 0 \in T
  <2>. DEFINE g == [n \in 0..0 |-> [kept |-> <<>>, at |-> 0]]
  <2>1. g = [n \in 0..0 |-> IF n = 0 THEN [kept |-> <<>>, at |-> 0] ELSE Passed(g[n - 1], nodes[n], from, upto)]
    OBVIOUS
  <2>2. Runs(g, 0)
    BY <2>1
  <2>. HIDE DEF g, Runs
  <2>. QED  BY <2>2
<1>2. ASSUME NEW m \in 1..Len(nodes), m - 1 \in T PROVE m \in T
  <2>1. PICK f : f = [n \in 0..m - 1 |-> IF n = 0 THEN [kept |-> <<>>, at |-> 0] ELSE Passed(f[n - 1], nodes[n], from, upto)]
    BY <1>2
  <2>. DEFINE g == [n \in 0..m |-> IF n = m THEN Passed(f[m - 1], nodes[m], from, upto) ELSE f[n]]
  <2>2. ASSUME NEW n \in 0..m
        PROVE  g[n] = IF n = 0 THEN [kept |-> <<>>, at |-> 0] ELSE Passed(g[n - 1], nodes[n], from, upto)
    <3>1. n # 0 => n - 1 \in 0..m /\ n - 1 # m /\ g[n - 1] = f[n - 1]
      OBVIOUS
    <3>2. n # m => n \in 0..m - 1 /\ g[n] = f[n]
      OBVIOUS
    <3>3. n = m => n # 0 /\ g[n] = Passed(f[n - 1], nodes[n], from, upto)
      OBVIOUS
    <3>. HIDE DEF g
    <3>. QED  BY <2>1, <3>1, <3>2, <3>3
  <2>3. g = [n \in 0..m |-> IF n = 0 THEN [kept |-> <<>>, at |-> 0] ELSE Passed(g[n - 1], nodes[n], from, upto)]
    BY <2>2
  <2>4. Runs(g, m)
    BY <2>3
  <2>. HIDE DEF g, Runs
  <2>. QED  BY <2>4
<1>. HIDE DEF T
<1>3. \A n \in 0..Len(nodes) : n \in T
  BY <1>1, <1>2, Climb
<1>4. Len(nodes) \in T
  BY <1>3
<1>. DEFINE c == CHOOSE f : Runs(f, Len(nodes))
<1>5. Runs(c, Len(nodes))
  <2>1. \E f : Runs(f, Len(nodes))
    BY <1>4 DEF T
  <2>. HIDE DEF Runs
  <2>. QED  BY <2>1
<1>6. Pass(nodes, from, upto) = c[Len(nodes)]
  BY DEF Pass
<1>. HIDE DEF c
<1>7. c[0] = [kept |-> <<>>, at |-> 0] /\ \A n \in 1..Len(nodes) : c[n] = Passed(c[n - 1], nodes[n], from, upto)
  BY <1>5
<1>. QED  BY <1>6, <1>7

(* The fold of a log.                                                      *)
LEMMA FoldRuns ==
    ASSUME NEW whole, Len(whole) \in Nat
    PROVE  \E f : /\ f[0] = <<>>
                  /\ \A n \in 1..Len(whole) : f[n] = Fold(f[n - 1], whole[n])
                  /\ FoldLog(whole) = f[Len(whole)]
<1>. DEFINE Runs(f, m) == f = [n \in 0..m |-> IF n = 0 THEN <<>> ELSE Fold(f[n - 1], whole[n])]
            T == {m \in 0..Len(whole) : \E f : Runs(f, m)}
<1>1. 0 \in T
  <2>. DEFINE g == [n \in 0..0 |-> <<>>]
  <2>1. g = [n \in 0..0 |-> IF n = 0 THEN <<>> ELSE Fold(g[n - 1], whole[n])]
    OBVIOUS
  <2>2. Runs(g, 0)
    BY <2>1
  <2>. HIDE DEF g, Runs
  <2>. QED  BY <2>2
<1>2. ASSUME NEW m \in 1..Len(whole), m - 1 \in T PROVE m \in T
  <2>1. PICK f : f = [n \in 0..m - 1 |-> IF n = 0 THEN <<>> ELSE Fold(f[n - 1], whole[n])]
    BY <1>2
  <2>. DEFINE g == [n \in 0..m |-> IF n = m THEN Fold(f[m - 1], whole[m]) ELSE f[n]]
  <2>2. ASSUME NEW n \in 0..m
        PROVE  g[n] = IF n = 0 THEN <<>> ELSE Fold(g[n - 1], whole[n])
    <3>1. n # 0 => n - 1 \in 0..m /\ n - 1 # m /\ g[n - 1] = f[n - 1]
      OBVIOUS
    <3>2. n # m => n \in 0..m - 1 /\ g[n] = f[n]
      OBVIOUS
    <3>3. n = m => n # 0 /\ g[n] = Fold(f[n - 1], whole[n])
      OBVIOUS
    <3>. HIDE DEF g
    <3>. QED  BY <2>1, <3>1, <3>2, <3>3
  <2>3. g = [n \in 0..m |-> IF n = 0 THEN <<>> ELSE Fold(g[n - 1], whole[n])]
    BY <2>2
  <2>4. Runs(g, m)
    BY <2>3
  <2>. HIDE DEF g, Runs
  <2>. QED  BY <2>4
<1>. HIDE DEF T
<1>3. \A n \in 0..Len(whole) : n \in T
  BY <1>1, <1>2, Climb
<1>4. Len(whole) \in T
  BY <1>3
<1>. DEFINE c == CHOOSE f : Runs(f, Len(whole))
<1>5. Runs(c, Len(whole))
  <2>1. \E f : Runs(f, Len(whole))
    BY <1>4 DEF T
  <2>. HIDE DEF Runs
  <2>. QED  BY <2>1
<1>6. FoldLog(whole) = c[Len(whole)]
  BY DEF FoldLog
<1>. HIDE DEF c
<1>7. c[0] = <<>> /\ \A n \in 1..Len(whole) : c[n] = Fold(c[n - 1], whole[n])
  BY <1>5
<1>. QED  BY <1>6, <1>7

(* The places of the events of a log.                                      *)
LEMMA PlaceRuns ==
    ASSUME NEW whole, Len(whole) \in Nat
    PROVE  \E f : /\ f[0] = [q \in {} |-> 0]
                  /\ \A n \in 1..Len(whole) : f[n] = Placed(f[n - 1], whole, whole[n])
                  /\ Place(whole) = f[Len(whole)]
<1>. DEFINE Runs(f, m) == f = [n \in 0..m |-> IF n = 0 THEN [q \in {} |-> 0] ELSE Placed(f[n - 1], whole, whole[n])]
            T == {m \in 0..Len(whole) : \E f : Runs(f, m)}
<1>1. 0 \in T
  <2>. DEFINE g == [n \in 0..0 |-> [q \in {} |-> 0]]
  <2>1. g = [n \in 0..0 |-> IF n = 0 THEN [q \in {} |-> 0] ELSE Placed(g[n - 1], whole, whole[n])]
    OBVIOUS
  <2>2. Runs(g, 0)
    BY <2>1
  <2>. HIDE DEF g, Runs
  <2>. QED  BY <2>2
<1>2. ASSUME NEW m \in 1..Len(whole), m - 1 \in T PROVE m \in T
  <2>1. PICK f : f = [n \in 0..m - 1 |-> IF n = 0 THEN [q \in {} |-> 0] ELSE Placed(f[n - 1], whole, whole[n])]
    BY <1>2
  <2>. DEFINE g == [n \in 0..m |-> IF n = m THEN Placed(f[m - 1], whole, whole[m]) ELSE f[n]]
  <2>2. ASSUME NEW n \in 0..m
        PROVE  g[n] = IF n = 0 THEN [q \in {} |-> 0] ELSE Placed(g[n - 1], whole, whole[n])
    <3>1. n # 0 => n - 1 \in 0..m /\ n - 1 # m /\ g[n - 1] = f[n - 1]
      OBVIOUS
    <3>2. n # m => n \in 0..m - 1 /\ g[n] = f[n]
      OBVIOUS
    <3>3. n = m => n # 0 /\ g[n] = Placed(f[n - 1], whole, whole[n])
      OBVIOUS
    <3>. HIDE DEF g
    <3>. QED  BY <2>1, <3>1, <3>2, <3>3
  <2>3. g = [n \in 0..m |-> IF n = 0 THEN [q \in {} |-> 0] ELSE Placed(g[n - 1], whole, whole[n])]
    BY <2>2
  <2>4. Runs(g, m)
    BY <2>3
  <2>. HIDE DEF g, Runs
  <2>. QED  BY <2>4
<1>. HIDE DEF T
<1>3. \A n \in 0..Len(whole) : n \in T
  BY <1>1, <1>2, Climb
<1>4. Len(whole) \in T
  BY <1>3
<1>. DEFINE c == CHOOSE f : Runs(f, Len(whole))
<1>5. Runs(c, Len(whole))
  <2>1. \E f : Runs(f, Len(whole))
    BY <1>4 DEF T
  <2>. HIDE DEF Runs
  <2>. QED  BY <2>1
<1>6. Place(whole) = c[Len(whole)]
  BY DEF Place
<1>. HIDE DEF c
<1>7. c[0] = [q \in {} |-> 0] /\ \A n \in 1..Len(whole) : c[n] = Placed(c[n - 1], whole, whole[n])
  BY <1>5
<1>. QED  BY <1>6, <1>7

----------------------------------------------------------------------------
(* replace(): what a pass over the first n nodes of s leaves.              *)

(* The survivors are kept, in the order of their places P; at is where the *)
(* first node of the span stood among them.                                *)
InSpan(x, from, upto) == x >= from /\ x < upto
Swept(r, s, n, from, upto, P) ==
    /\ r \in [kept : Seq(Nat), at : Nat]
    /\ \A k \in 1..Len(r.kept) : \E i \in 1..n : ~InSpan(s[i], from, upto) /\ r.kept[k] = s[i]
    /\ \A i \in 1..n : ~InSpan(s[i], from, upto) => \E k \in 1..Len(r.kept) : r.kept[k] = s[i]
    /\ \A j, k \in 1..Len(r.kept) : j < k => P[r.kept[j]] < P[r.kept[k]]
    /\ r.at = 0 => \A i \in 1..n : ~InSpan(s[i], from, upto)
    /\ r.at # 0 =>
         /\ r.at <= Len(r.kept) + 1
         /\ \E f \in 1..n :
              /\ InSpan(s[f], from, upto) /\ \A i \in 1..n : InSpan(s[i], from, upto) => f <= i
              /\ \A k \in 1..Len(r.kept) : IF k < r.at THEN P[r.kept[k]] < P[s[f]] ELSE P[s[f]] < P[r.kept[k]]

LEMMA SweptNext ==
    ASSUME NEW s \in Seq(Nat), NEW from \in Nat, NEW upto \in Nat, NEW P,
           \A i \in 1..Len(s) : P[s[i]] \in Nat,
           \A i, j \in 1..Len(s) : i < j => P[s[i]] < P[s[j]],
           NEW n \in 1..Len(s), NEW r, Swept(r, s, n - 1, from, upto, P)
    PROVE  Swept(Passed(r, s[n], from, upto), s, n, from, upto, P)
<1>. DEFINE q == Passed(r, s[n], from, upto)
            In(i) == InSpan(s[i], from, upto)
            L == Len(r.kept)
<1>1. /\ Len(s) \in Nat /\ n \in Nat /\ n >= 1 /\ n <= Len(s)
      /\ r \in [kept : Seq(Nat), at : Nat] /\ r.kept \in Seq(Nat) /\ r.at \in Nat /\ L \in Nat
      /\ s[n] \in Nat
  BY DEF Swept
<1>2. /\ \A k \in 1..L : \E i \in 1..n - 1 : ~In(i) /\ r.kept[k] = s[i]
      /\ \A i \in 1..n - 1 : ~In(i) => \E k \in 1..L : r.kept[k] = s[i]
      /\ \A j, k \in 1..L : j < k => P[r.kept[j]] < P[r.kept[k]]
      /\ r.at = 0 => \A i \in 1..n - 1 : ~In(i)
  BY DEF Swept
<1>3. r.at # 0 => /\ r.at <= L + 1
                  /\ \E f \in 1..n - 1 :
                       /\ In(f) /\ \A i \in 1..n - 1 : In(i) => f <= i
                       /\ \A k \in 1..L : IF k < r.at THEN P[r.kept[k]] < P[s[f]] ELSE P[s[f]] < P[r.kept[k]]
  BY DEF Swept
<1>4. \A k \in 1..L : P[r.kept[k]] < P[s[n]] /\ P[r.kept[k]] \in Nat
  <2>1. TAKE k \in 1..L
  <2>2. PICK i \in 1..n - 1 : r.kept[k] = s[i]
    BY <1>2
  <2>3. i \in 1..Len(s) /\ i < n
    BY <1>1
  <2>. QED  BY <1>1, <2>2, <2>3
<1>5. \A i \in 1..n : i \in 1..n - 1 \/ i = n
  BY <1>1
<1>6. 1..n - 1 \subseteq 1..n /\ n \in 1..n
  BY <1>1
<1>7. CASE In(n)
  <2>1. q = [r EXCEPT !.at = IF r.at = 0 THEN L + 1 ELSE r.at]
    BY <1>7 DEF Passed, InSpan
  <2>. DEFINE m == IF r.at = 0 THEN L + 1 ELSE r.at
  <2>0. r \in [kept : Seq(Nat), at : Nat] /\ m \in Nat /\ m # 0
    BY <1>1
  <2>. HIDE DEF q, In, m, L
  <2>2. q \in [kept : Seq(Nat), at : Nat] /\ q.kept = r.kept /\ q.at = (IF r.at = 0 THEN L + 1 ELSE r.at) /\ q.at # 0
    <3>1. q = [r EXCEPT !.at = m]
      BY <2>1 DEF m
    <3>2. q \in [kept : Seq(Nat), at : Nat] /\ q.kept = r.kept /\ q.at = m
      BY <2>0, <3>1
    <3>. QED  BY <2>0, <3>2 DEF m
  <2>. USE DEF L
  <2>3. q.at <= L + 1
    BY <1>1, <1>3, <2>2
  <2>4. \E f \in 1..n :
              /\ In(f) /\ \A i \in 1..n : In(i) => f <= i
              /\ \A k \in 1..L : IF k < q.at THEN P[r.kept[k]] < P[s[f]] ELSE P[s[f]] < P[r.kept[k]]
    <3>1. CASE r.at = 0
      <4>1. \A i \in 1..n : In(i) => n <= i
        BY <1>1, <1>2, <1>5, <3>1
      <4>2. \A k \in 1..L : k < q.at
        BY <1>1, <2>2, <3>1
      <4>. QED  BY <1>4, <1>6, <1>7, <4>1, <4>2
    <3>2. CASE r.at # 0
      <4>1. PICK f \in 1..n - 1 :
                       /\ In(f) /\ \A i \in 1..n - 1 : In(i) => f <= i
                       /\ \A k \in 1..L : IF k < r.at THEN P[r.kept[k]] < P[s[f]] ELSE P[s[f]] < P[r.kept[k]]
        BY <1>3, <3>2
      <4>2. f <= n /\ f \in 1..n
        BY <1>1
      <4>3. \A i \in 1..n : In(i) => f <= i
        BY <1>5, <4>1, <4>2
      <4>4. q.at = r.at
        BY <2>2, <3>2
      <4>. QED  BY <4>1, <4>2, <4>3, <4>4
    <3>. QED  BY <3>1, <3>2
  <2>5. \A k \in 1..L : \E i \in 1..n : ~In(i) /\ r.kept[k] = s[i]
    BY <1>2, <1>6
  <2>6. \A i \in 1..n : ~In(i) => \E k \in 1..L : r.kept[k] = s[i]
    BY <1>2, <1>5, <1>7
  <2>7. Swept(q, s, n, from, upto, P)
    <3>1. \A j, k \in 1..L : j < k => P[r.kept[j]] < P[r.kept[k]]
      BY <1>2
    <3>2. q.kept = r.kept /\ q.at # 0 /\ q \in [kept : Seq(Nat), at : Nat]
      BY <2>2
    <3>. DEFINE K == q.kept
    <3>3. K = r.kept
      BY <3>2
    <3>. HIDE DEF K
    <3>4. \A j, k \in 1..Len(K) : j < k => P[K[j]] < P[K[k]]
      BY ONLY <3>1, <3>3
    <3>5. \A k \in 1..Len(K) : \E i \in 1..n : ~In(i) /\ K[k] = s[i]
      BY ONLY <2>5, <3>3
    <3>6. \A i \in 1..n : ~In(i) => \E k \in 1..Len(K) : K[k] = s[i]
      BY ONLY <2>6, <3>3
    <3>7. /\ q.at <= Len(K) + 1
          /\ \E f \in 1..n :
              /\ In(f) /\ \A i \in 1..n : In(i) => f <= i
              /\ \A k \in 1..Len(K) : IF k < q.at THEN P[K[k]] < P[s[f]] ELSE P[s[f]] < P[K[k]]
      BY ONLY <2>3, <2>4, <3>3
    <3>. QED  BY ONLY <3>2, <3>4, <3>5, <3>6, <3>7 DEF Swept, In, K
  <2>. QED  BY <2>7 DEF q
<1>8. CASE ~In(n)
  <2>1. q = [r EXCEPT !.kept = Append(r.kept, s[n])]
    BY <1>8 DEF Passed, InSpan
  <2>. DEFINE w == Append(r.kept, s[n])
  <2>2. /\ w \in Seq(Nat) /\ Len(w) = L + 1 /\ w[L + 1] = s[n]
        /\ \A k \in 1..L : w[k] = r.kept[k]
    BY <1>1
  <2>3. q \in [kept : Seq(Nat), at : Nat] /\ q.kept = w /\ q.at = r.at
    BY <1>1, <2>1, <2>2
  <2>4. \A k \in 1..L + 1 : k \in 1..L \/ k = L + 1
    BY <1>1
  <2>. HIDE DEF q, In, w
  <2>5. \A k \in 1..L + 1 : \E i \in 1..n : ~In(i) /\ w[k] = s[i]
    <3>1. TAKE k \in 1..L + 1
    <3>2. CASE k \in 1..L
      <4>1. PICK i \in 1..n - 1 : ~In(i) /\ r.kept[k] = s[i]
        BY <1>2, <3>2
      <4>. QED  BY <1>6, <2>2, <3>2, <4>1
    <3>3. CASE k = L + 1
      BY <1>6, <1>8, <2>2, <3>3
    <3>. QED  BY <2>4, <3>2, <3>3
  <2>6. 1..L \subseteq 1..L + 1 /\ L + 1 \in 1..L + 1
    BY <1>1
  <2>7. \A i \in 1..n : ~In(i) => \E k \in 1..L + 1 : w[k] = s[i]
    BY <1>2, <1>5, <2>2, <2>6
  <2>8. ASSUME NEW j \in 1..L + 1, NEW k \in 1..L + 1, j < k PROVE P[w[j]] < P[w[k]]
    <3>1. j \in 1..L
      BY <1>1, <2>8
    <3>2. CASE k \in 1..L
      BY <1>2, <2>2, <2>8, <3>1, <3>2
    <3>3. CASE k = L + 1
      BY <1>4, <2>2, <3>1, <3>3
    <3>. QED  BY <2>4, <3>2, <3>3
  <2>9. q.at = 0 => \A i \in 1..n : ~In(i)
    BY <1>2, <1>5, <1>8, <2>3
  <2>10. ASSUME q.at # 0
         PROVE  /\ q.at <= L + 1 + 1
                /\ \E f \in 1..n :
                     /\ In(f) /\ \A i \in 1..n : In(i) => f <= i
                     /\ \A k \in 1..L + 1 : IF k < q.at THEN P[w[k]] < P[s[f]] ELSE P[s[f]] < P[w[k]]
    <3>1. q.at = r.at /\ r.at \in Nat /\ r.at <= L + 1
      BY <1>1, <1>3, <2>3, <2>10
    <3>2. PICK f \in 1..n - 1 :
                       /\ In(f) /\ \A i \in 1..n - 1 : In(i) => f <= i
                       /\ \A k \in 1..L : IF k < r.at THEN P[r.kept[k]] < P[s[f]] ELSE P[s[f]] < P[r.kept[k]]
      BY <1>3, <2>10, <3>1
    <3>3. f \in 1..n /\ f \in 1..Len(s) /\ f < n /\ P[s[f]] < P[s[n]]
      BY <1>1
    <3>4. \A i \in 1..n : In(i) => f <= i
      BY <1>5, <1>8, <3>2
    <3>5. ~(L + 1 < r.at)
      BY <1>1, <3>1
    <3>6. \A k \in 1..L + 1 : IF k < q.at THEN P[w[k]] < P[s[f]] ELSE P[s[f]] < P[w[k]]
      BY <2>2, <2>4, <3>1, <3>2, <3>3, <3>5
    <3>7. q.at <= L + 1 + 1
      BY <1>1, <3>1
    <3>. QED  BY <3>2, <3>3, <3>4, <3>6, <3>7
  <2>11. Swept(q, s, n, from, upto, P)
    <3>1. q.kept = w /\ Len(w) = L + 1 /\ q \in [kept : Seq(Nat), at : Nat]
      BY <2>2, <2>3
    <3>. QED  BY ONLY <2>5, <2>7, <2>8, <2>9, <2>10, <3>1 DEF Swept, In
  <2>. QED  BY <2>11 DEF q
<1>. QED  BY <1>7, <1>8

LEMMA PassSweeps ==
    ASSUME NEW s \in Seq(Nat), NEW from \in Nat, NEW upto \in Nat, NEW P,
           \A i \in 1..Len(s) : P[s[i]] \in Nat,
           \A i, j \in 1..Len(s) : i < j => P[s[i]] < P[s[j]]
    PROVE  Swept(Pass(s, from, upto), s, Len(s), from, upto, P)
<1>1. Len(s) \in Nat
  OBVIOUS
<1>2. PICK f : /\ f[0] = [kept |-> <<>>, at |-> 0]
               /\ \A n \in 1..Len(s) : f[n] = Passed(f[n - 1], s[n], from, upto)
               /\ Pass(s, from, upto) = f[Len(s)]
  BY <1>1, PassRuns
<1>. DEFINE T == {n \in 0..Len(s) : Swept(f[n], s, n, from, upto, P)}
<1>3. 0 \in T
  <2>1. <<>> \in Seq(Nat) /\ Len(<<>>) = 0
    OBVIOUS
  <2>2. f[0] \in [kept : Seq(Nat), at : Nat] /\ f[0].kept = <<>> /\ f[0].at = 0
    BY <1>2
  <2>. QED  BY <2>1, <2>2 DEF Swept
<1>4. ASSUME NEW n \in 1..Len(s), n - 1 \in T PROVE n \in T
  <2>1. Swept(f[n - 1], s, n - 1, from, upto, P)
    BY <1>4
  <2>2. Swept(Passed(f[n - 1], s[n], from, upto), s, n, from, upto, P)
    BY <2>1, SweptNext
  <2>3. Passed(f[n - 1], s[n], from, upto) = f[n]
    BY <1>2
  <2>. QED  BY <2>2, <2>3
<1>. HIDE DEF T
<1>5. \A n \in 0..Len(s) : n \in T
  BY <1>1, <1>3, <1>4, Climb
<1>6. Len(s) \in T
  BY <1>1, <1>5
<1>. QED  BY <1>2, <1>6 DEF T

(* replace(): the survivors, and the replacement where the first node of   *)
(* the span stood or at the tail, in the order of the places P.            *)
Shown(R, x) == \E i \in 1..Len(R) : R[i] = x
InOrder(s, P) ==
    /\ \A i \in 1..Len(s) : P[s[i]] \in Nat
    /\ \A i, j \in 1..Len(s) : i < j => P[s[i]] < P[s[j]]
InPlace(s, from, upto, P, seq) ==
    /\ P[seq] \in Nat
    /\ \/ \A i \in 1..Len(s) : ~InSpan(s[i], from, upto) /\ P[s[i]] < P[seq]
       \/ \E i \in 1..Len(s) :
             /\ InSpan(s[i], from, upto) /\ P[seq] = P[s[i]]
             /\ \A j \in 1..Len(s) : InSpan(s[j], from, upto) => P[s[i]] <= P[s[j]]
Results(R, s, from, upto, P, seq, speaks) ==
    /\ R \in Seq(Nat)
    /\ \A x : Shown(R, x) <=> \/ \E i \in 1..Len(s) : ~InSpan(s[i], from, upto) /\ s[i] = x
                              \/ speaks /\ x = seq
    /\ \A i, j \in 1..Len(R) : i < j => P[R[i]] < P[R[j]]

LEMMA ReplacedFacts ==
    ASSUME NEW s \in Seq(Nat), NEW from \in Nat, NEW upto \in Nat, NEW P, InOrder(s, P),
           NEW seq \in Nat, NEW speaks \in BOOLEAN, speaks => InPlace(s, from, upto, P, seq)
    PROVE  Results(Replaced(s, from, upto, seq, speaks), s, from, upto, P, seq, speaks)
<1>0. /\ \A i \in 1..Len(s) : P[s[i]] \in Nat
      /\ \A i, j \in 1..Len(s) : i < j => P[s[i]] < P[s[j]]
      /\ speaks => P[seq] \in Nat
      /\ speaks => \/ \A i \in 1..Len(s) : ~InSpan(s[i], from, upto) /\ P[s[i]] < P[seq]
                   \/ \E i \in 1..Len(s) :
                         /\ InSpan(s[i], from, upto) /\ P[seq] = P[s[i]]
                         /\ \A j \in 1..Len(s) : InSpan(s[j], from, upto) => P[s[i]] <= P[s[j]]
  BY DEF InOrder, InPlace
<1>. DEFINE r == Pass(s, from, upto)
            K == r.kept
            L == Len(K)
            a == IF r.at = 0 THEN L + 1 ELSE r.at
            In(i) == InSpan(s[i], from, upto)
            R == Replaced(s, from, upto, seq, speaks)
<1>1. Swept(r, s, Len(s), from, upto, P)
  BY <1>0, PassSweeps
<1>2. R = IF speaks THEN InsertAt(K, a, seq) ELSE K
  BY DEF Replaced
<1>. HIDE DEF r, R
<1>3. /\ r \in [kept : Seq(Nat), at : Nat]
      /\ \A k \in 1..L : \E i \in 1..Len(s) : ~In(i) /\ K[k] = s[i]
      /\ \A i \in 1..Len(s) : ~In(i) => \E k \in 1..L : K[k] = s[i]
      /\ \A j, k \in 1..L : j < k => P[K[j]] < P[K[k]]
      /\ r.at = 0 => \A i \in 1..Len(s) : ~In(i)
      /\ r.at # 0 =>
           /\ r.at <= L + 1
           /\ \E f \in 1..Len(s) :
                /\ In(f) /\ \A i \in 1..Len(s) : In(i) => f <= i
                /\ \A k \in 1..L : IF k < r.at THEN P[K[k]] < P[s[f]] ELSE P[s[f]] < P[K[k]]
  BY <1>1 DEF Swept
<1>4. K \in Seq(Nat) /\ L \in Nat /\ r.at \in Nat /\ Len(s) \in Nat
  BY <1>3
<1>. HIDE DEF K
<1>5. CASE ~speaks
  <2>1. R = K
    BY <1>2, <1>5
  <2>2. \A x : Shown(R, x) <=> \E i \in 1..Len(s) : ~In(i) /\ s[i] = x
    BY <1>3, <2>1 DEF Shown
  <2>. QED  BY <1>3, <1>4, <1>5, <2>1, <2>2 DEF R, Results
<1>6. CASE speaks
  <2>1. a \in 1..L + 1
    BY <1>3, <1>4
  <2>2. \A k \in 1..L : IF k < a THEN P[K[k]] < P[seq] ELSE P[seq] < P[K[k]]
    <3>1. CASE r.at = 0
      <4>1. \A i \in 1..Len(s) : ~In(i) /\ P[s[i]] < P[seq]
        BY <1>0, <1>3, <1>6, <3>1
      <4>2. TAKE k \in 1..L
      <4>3. k < a
        BY <1>4, <3>1
      <4>4. PICK i \in 1..Len(s) : K[k] = s[i]
        BY <1>3
      <4>. QED  BY <4>1, <4>3, <4>4
    <3>2. CASE r.at # 0
      <4>1. PICK f \in 1..Len(s) :
                /\ In(f) /\ \A i \in 1..Len(s) : In(i) => f <= i
                /\ \A k \in 1..L : IF k < r.at THEN P[K[k]] < P[s[f]] ELSE P[s[f]] < P[K[k]]
        BY <1>3, <3>2
      <4>2. PICK i \in 1..Len(s) : /\ In(i) /\ P[seq] = P[s[i]]
                                   /\ \A j \in 1..Len(s) : In(j) => P[s[i]] <= P[s[j]]
        BY <1>0, <1>6, <4>1
      <4>3. P[s[f]] = P[seq]
        <5>1. f <= i /\ P[s[i]] <= P[s[f]]
          BY <4>1, <4>2
        <5>2. f = i \/ f < i
          BY <5>1
        <5>3. f < i => P[s[f]] < P[s[i]]
          BY <1>0
        <5>4. P[s[f]] \in Nat /\ P[s[i]] \in Nat
          BY <1>0
        <5>. QED  BY <4>2, <5>1, <5>2, <5>3, <5>4, SMTT(20)
      <4>. QED  BY <3>2, <4>1, <4>3
    <3>. QED  BY <3>1, <3>2
  <2>. HIDE DEF a
  <2>3. R = InsertAt(K, a, seq)
    BY <1>2, <1>6
  <2>4. /\ R \in Seq(Nat) /\ Len(R) = L + 1
        /\ \A k \in 1..L : k < a => R[k] = K[k]
        /\ \A k \in 1..L : k >= a => R[k + 1] = K[k]
        /\ R[a] = seq
    <3>1. K \in Seq(Nat) /\ a \in 1..Len(K) + 1 /\ seq \in Nat
      BY <1>4, <2>1
    <3>2. Inserting(R, K, a, seq, Nat)
      BY ONLY <2>3, <3>1, Inserted
    <3>. QED  BY <3>2 DEF Inserting
  <2>5. \A k \in 1..L : \E i \in 1..L + 1 : R[i] = K[k]
    <3>1. TAKE k \in 1..L
    <3>2. k \in 1..L + 1 /\ k + 1 \in 1..L + 1 /\ (k < a \/ k >= a)
      BY <1>4, <2>1
    <3>. QED  BY <2>4, <3>2
  <2>6. \A i \in 1..L + 1 : i # a => \E k \in 1..L : R[i] = K[k] /\ (k < a <=> i < a) /\ k = (IF i < a THEN i ELSE i - 1)
    <3>1. TAKE i \in 1..L + 1
    <3>2. CASE i < a
      <4>1. i \in 1..L /\ R[i] = K[i]
        <5>1. i \in 1..L
          BY <1>4, <2>1, <3>2
        <5>. QED  BY <2>4, <3>2, <5>1
      <4>. QED  BY <3>2, <4>1
    <3>3. CASE i > a
      <4>1. i - 1 \in 1..L /\ R[i] = K[i - 1] /\ ~(i - 1 < a) /\ ~(i < a)
        <5>1. i - 1 \in 1..L /\ i - 1 >= a /\ i - 1 + 1 = i /\ ~(i - 1 < a) /\ ~(i < a)
          BY <1>4, <2>1, <3>3
        <5>2. R[i - 1 + 1] = K[i - 1]
          BY <2>4, <5>1
        <5>. QED  BY <5>1, <5>2
      <4>. QED  BY <4>1
    <3>. QED  BY <1>4, <2>1, <3>2, <3>3
  <2>7. ASSUME NEW x PROVE Shown(R, x) <=> (\E i \in 1..Len(s) : ~In(i) /\ s[i] = x) \/ x = seq
    <3>1. ASSUME NEW i \in 1..L + 1, R[i] = x
          PROVE  (\E m \in 1..Len(s) : ~In(m) /\ s[m] = x) \/ x = seq
      <4>1. CASE i = a
        BY <2>1, <2>4, <3>1, <4>1
      <4>2. CASE i # a
        <5>1. PICK k \in 1..L : R[i] = K[k]
          BY <2>6, <4>2
        <5>. QED  BY <1>3, <3>1, <5>1
      <4>. QED  BY <4>1, <4>2
    <3>2. ASSUME NEW m \in 1..Len(s), ~In(m), s[m] = x PROVE \E i \in 1..L + 1 : R[i] = x
      <4>1. PICK k \in 1..L : K[k] = x
        BY <1>3, <3>2
      <4>. QED  BY <2>5, <4>1
    <3>3. R[a] = seq
      BY <2>4
    <3>. QED  BY <2>1, <2>4, <3>1, <3>2, <3>3 DEF Shown
  <2>8. ASSUME NEW i \in 1..L + 1, NEW j \in 1..L + 1, i < j PROVE P[R[i]] < P[R[j]]
    <3>1. R[a] = seq
      BY <2>4
    <3>2. \A k \in 1..L : P[K[k]] \in Nat
      <4>1. TAKE k \in 1..L
      <4>2. PICK m \in 1..Len(s) : K[k] = s[m]
        BY <1>3
      <4>. QED  BY <1>0, <4>2
    <3>3. CASE i = a
      <4>1. PICK k \in 1..L : R[j] = K[k] /\ (k < a <=> j < a)
        <5>1. j # a
          BY <1>4, <2>1, <2>8, <3>3
        <5>. QED  BY <2>6, <5>1
      <4>2. ~(k < a)
        BY <2>1, <2>8, <3>3, <4>1
      <4>. QED  BY <2>2, <3>1, <3>3, <4>1, <4>2
    <3>4. CASE j = a
      <4>1. PICK k \in 1..L : R[i] = K[k] /\ (k < a <=> i < a)
        <5>1. i # a
          BY <1>4, <2>1, <2>8, <3>4
        <5>. QED  BY <2>6, <5>1
      <4>2. k < a
        BY <2>1, <2>8, <3>4, <4>1
      <4>. QED  BY <2>2, <3>1, <3>4, <4>1, <4>2
    <3>5. CASE i # a /\ j # a
      <4>1. PICK k \in 1..L : R[i] = K[k] /\ k = (IF i < a THEN i ELSE i - 1)
        BY <2>6, <3>5
      <4>2. PICK m \in 1..L : R[j] = K[m] /\ m = (IF j < a THEN j ELSE j - 1)
        BY <2>6, <3>5
      <4>3. k < m
        BY <1>4, <2>1, <2>8, <3>5, <4>1, <4>2
      <4>. QED  BY <1>3, <4>1, <4>2, <4>3
    <3>. QED  BY <3>3, <3>4, <3>5
  <2>. QED  BY <1>6, <2>4, <2>7, <2>8 DEF R, Results
<1>. QED  BY <1>5, <1>6

----------------------------------------------------------------------------
(* A log that grows by an event with a number above all others.            *)

Numbers(M) == \A e \in M : e.seq \in Nat /\ e.from \in Nat /\ e.upto \in Nat
Splicing(e) == e.kind \in {"replace", "erase"}
Speaks(e) == e.kind \in {"message", "call", "result", "replace"}
Newest(whole, e) == \A i \in 1..Len(whole) : whole[i].seq < e.seq

LEMMA Grown ==
    ASSUME NEW M, NEW whole \in Seq(M), NEW e \in M
    PROVE  /\ Append(whole, e) \in Seq(M) /\ Len(whole) \in Nat /\ Len(Append(whole, e)) = Len(whole) + 1
           /\ Append(whole, e)[Len(whole) + 1] = e
           /\ \A i \in 1..Len(whole) : Append(whole, e)[i] = whole[i] /\ whole[i] \in M
<1>1. \A i \in 1..Len(whole) : whole[i] \in M
  BY ElementOfSeq
<1>. QED  BY <1>1

LEMMA EventsGrow ==
    ASSUME NEW M, NEW whole \in Seq(M), NEW e \in M, Numbers(M), Newest(whole, e)
    PROVE  LET more == Append(whole, e)
           IN  /\ Events(more) = Events(whole) \cup {e} /\ e \notin Events(whole)
               /\ Events(whole) = {whole[i] : i \in 1..Len(whole)}
               /\ \A x \in Events(whole) : x \in M /\ x.seq < e.seq
               /\ \A x : x \in Splices(more) <=> x \in Splices(whole) \/ (x = e /\ Splicing(e))
               /\ \A x : x \in Speaking(more) <=> x \in Speaking(whole) \/ (x = e /\ Speaks(e))
<1>. DEFINE more == Append(whole, e)
<1>1. /\ more \in Seq(M) /\ Len(whole) \in Nat /\ Len(more) = Len(whole) + 1 /\ more[Len(whole) + 1] = e
      /\ \A i \in 1..Len(whole) : more[i] = whole[i] /\ whole[i] \in M
  BY Grown
<1>2. DOMAIN more = 1..Len(whole) + 1 /\ DOMAIN whole = 1..Len(whole)
  BY <1>1
<1>. HIDE DEF more
<1>3. Events(whole) = {whole[i] : i \in 1..Len(whole)}
  BY <1>2 DEF Events
<1>4. Events(more) = Events(whole) \cup {e}
  <2>1. ASSUME NEW x \in Events(more) PROVE x \in Events(whole) \cup {e}
    <3>1. PICK i \in 1..Len(whole) + 1 : x = more[i]
      BY <1>2 DEF Events
    <3>2. i \in 1..Len(whole) \/ i = Len(whole) + 1
      BY <1>1
    <3>. QED  BY <1>1, <1>3, <3>1, <3>2
  <2>2. ASSUME NEW x \in Events(whole) PROVE x \in Events(more)
    <3>1. PICK i \in 1..Len(whole) : x = more[i]
      BY <1>1, <1>3
    <3>2. i \in 1..Len(whole) + 1
      BY <1>1
    <3>. QED  BY <1>2, <3>1, <3>2 DEF Events
  <2>3. e \in Events(more)
    <3>1. Len(whole) + 1 \in 1..Len(whole) + 1
      BY <1>1
    <3>. QED  BY <1>1, <1>2, <3>1 DEF Events
  <2>. QED  BY <2>1, <2>2, <2>3
<1>5. \A x \in Events(whole) : x \in M /\ x.seq < e.seq
  BY <1>1, <1>3 DEF Newest
<1>6. e \notin Events(whole)
  BY <1>5 DEF Numbers
<1>7. \A x : x \in Splices(more) <=> x \in Splices(whole) \/ (x = e /\ Splicing(e))
  BY <1>4 DEF Splices, Splicing
<1>8. \A x : x \in Speaking(more) <=> x \in Speaking(whole) \/ (x = e /\ Speaks(e))
  BY <1>4 DEF Speaking, Speaks
<1>. QED  BY <1>3, <1>4, <1>5, <1>6, <1>7, <1>8 DEF more

(* What is removed, what is visible, and what a node replaces.             *)
LEMMA VisibleGrows ==
    ASSUME NEW M, NEW whole \in Seq(M), NEW e \in M, Numbers(M), Newest(whole, e)
    PROVE  LET more == Append(whole, e)
           IN  /\ \A x : x \in Visible(more) <=> \/ x \in Visible(whole) /\ ~(Splicing(e) /\ Covers(e, x))
                                                 \/ x = e /\ Speaks(e)
               /\ \A r \in Events(whole) : Before(more, r) = Before(whole, r)
               /\ Splicing(e) => Before(more, e) = {x \in Visible(whole) : Covers(e, x)}
<1>. DEFINE more == Append(whole, e)
<1>1. /\ e \notin Events(whole)
      /\ \A x \in Events(whole) : x \in M /\ x.seq < e.seq
      /\ \A x : x \in Splices(more) <=> x \in Splices(whole) \/ (x = e /\ Splicing(e))
      /\ \A x : x \in Speaking(more) <=> x \in Speaking(whole) \/ (x = e /\ Speaks(e))
  BY EventsGrow
<1>. HIDE DEF more
<1>2. Splices(whole) \subseteq Events(whole) /\ Speaking(whole) \subseteq Events(whole)
  BY DEF Splices, Speaking
<1>3. \A x \in M : x.seq \in Nat
  BY DEF Numbers
<1>4. ~Covers(e, e) /\ \A r \in Events(whole) : ~Covers(r, e)
  BY <1>1, <1>3 DEF Covers
<1>5. \A x, r : r \in Removed(more, x) <=> r \in Removed(whole, x) \/ (r = e /\ Splicing(e) /\ Covers(e, x))
  BY <1>1 DEF Removed
<1>6. Removed(more, e) = {}
  BY <1>2, <1>4, <1>5 DEF Removed
<1>7. ASSUME NEW x
      PROVE  x \in Visible(more) <=> \/ x \in Visible(whole) /\ ~(Splicing(e) /\ Covers(e, x))
                                     \/ x = e /\ Speaks(e)
  <2>1. x \in Visible(more) <=> x \in Speaking(more) /\ Removed(more, x) = {}
    BY DEF Visible
  <2>2. x \in Visible(whole) <=> x \in Speaking(whole) /\ Removed(whole, x) = {}
    BY DEF Visible
  <2>3. Removed(more, x) = {} <=> Removed(whole, x) = {} /\ ~(Splicing(e) /\ Covers(e, x))
    BY <1>5
  <2>. QED  BY <1>1, <1>6, <2>1, <2>2, <2>3
<1>8. ASSUME NEW r \in Events(whole) PROVE Before(more, r) = Before(whole, r)
  <2>1. r.seq < e.seq /\ r.seq \in Nat /\ e.seq \in Nat
    BY <1>1, <1>3
  <2>2. ASSUME NEW x PROVE x \in Before(more, r) <=> x \in Before(whole, r)
    <3>1. x \in Before(more, r) <=> /\ x \in Speaking(more) /\ Covers(r, x)
                                    /\ \A q \in Removed(more, x) : q.seq >= r.seq
      BY DEF Before
    <3>2. x \in Before(whole, r) <=> /\ x \in Speaking(whole) /\ Covers(r, x)
                                   /\ \A q \in Removed(whole, x) : q.seq >= r.seq
      BY DEF Before
    <3>3. e.seq >= r.seq
      BY <2>1
    <3>4. (\A q \in Removed(more, x) : q.seq >= r.seq) <=> (\A q \in Removed(whole, x) : q.seq >= r.seq)
      BY <1>5, <3>3
    <3>. QED  BY <1>1, <1>4, <3>1, <3>2, <3>4
  <2>. QED  BY <2>2 DEF Before
<1>9. ASSUME Splicing(e) PROVE Before(more, e) = {x \in Visible(whole) : Covers(e, x)}
  <2>1. ASSUME NEW x PROVE x \in Before(more, e) <=> x \in Visible(whole) /\ Covers(e, x)
    <3>1. x \in Before(more, e) <=> /\ x \in Speaking(more) /\ Covers(e, x)
                                    /\ \A q \in Removed(more, x) : q.seq >= e.seq
      BY DEF Before
    <3>2. x \in Visible(whole) <=> x \in Speaking(whole) /\ Removed(whole, x) = {}
      BY DEF Visible
    <3>3. \A q \in Removed(whole, x) : ~(q.seq >= e.seq)
      <4>1. Removed(whole, x) \subseteq Events(whole)
        BY <1>2 DEF Removed
      <4>. QED  BY <1>1, <1>3, <4>1
    <3>4. (\A q \in Removed(more, x) : q.seq >= e.seq) <=> Removed(whole, x) = {}
      <4>1. e.seq >= e.seq
        BY <1>3
      <4>. QED  BY <1>5, <3>3, <4>1
    <3>. QED  BY <1>1, <1>4, <3>1, <3>2, <3>4
  <2>. QED  BY <2>1
<1>. QED  BY <1>7, <1>8, <1>9 DEF more

LEMMA FoldGrows ==
    ASSUME NEW M, NEW whole \in Seq(M), NEW e \in M
    PROVE  FoldLog(Append(whole, e)) = Fold(FoldLog(whole), e)
<1>. DEFINE more == Append(whole, e)
<1>1. /\ more \in Seq(M) /\ Len(whole) \in Nat /\ Len(more) = Len(whole) + 1 /\ more[Len(whole) + 1] = e
      /\ \A i \in 1..Len(whole) : more[i] = whole[i]
  BY Grown
<1>. HIDE DEF more
<1>2. PICK f : /\ f[0] = <<>> /\ \A n \in 1..Len(whole) : f[n] = Fold(f[n - 1], whole[n])
               /\ FoldLog(whole) = f[Len(whole)]
  BY <1>1, FoldRuns
<1>0. Len(more) \in Nat
  BY <1>1
<1>3. PICK g : /\ g[0] = <<>> /\ \A n \in 1..Len(more) : g[n] = Fold(g[n - 1], more[n])
               /\ FoldLog(more) = g[Len(more)]
  BY <1>0, FoldRuns
<1>4. ASSUME NEW n \in 1..Len(whole), f[n - 1] = g[n - 1] PROVE f[n] = g[n]
  <2>1. n \in 1..Len(more)
    BY <1>1
  <2>. QED  BY <1>1, <1>2, <1>3, <1>4, <2>1
<1>5. \A n \in 0..Len(whole) : f[n] = g[n]
  <2>1. Len(whole) \in Nat /\ f[0] = g[0]
    BY <1>1, <1>2, <1>3
  <2>2. \A n \in 1..Len(whole) : f[n - 1] = g[n - 1] => f[n] = g[n]
    BY <1>4
  <2>. QED  BY ONLY <2>1, <2>2, Alike
<1>6. f[Len(whole)] = g[Len(whole)]
  BY <1>1, <1>5
<1>7. g[Len(more)] = Fold(g[Len(more) - 1], more[Len(more)]) /\ Len(more) - 1 = Len(whole)
  BY <1>1, <1>3
<1>. QED  BY <1>1, <1>2, <1>3, <1>6, <1>7 DEF more

LEMMA PlaceGrows ==
    ASSUME NEW M, NEW whole \in Seq(M), NEW e \in M, Numbers(M), Newest(whole, e)
    PROVE  Place(Append(whole, e)) = Placed(Place(whole), Append(whole, e), e)
<1>. DEFINE more == Append(whole, e)
<1>1. /\ more \in Seq(M) /\ Len(whole) \in Nat /\ Len(more) = Len(whole) + 1 /\ more[Len(whole) + 1] = e
      /\ \A i \in 1..Len(whole) : more[i] = whole[i]
  BY Grown
<1>2. \A r \in Events(whole) : Before(more, r) = Before(whole, r)
  BY VisibleGrows
<1>3. Events(whole) = {whole[i] : i \in 1..Len(whole)}
  BY EventsGrow
<1>. HIDE DEF more
<1>4. PICK f : /\ f[0] = [q \in {} |-> 0] /\ \A n \in 1..Len(whole) : f[n] = Placed(f[n - 1], whole, whole[n])
               /\ Place(whole) = f[Len(whole)]
  BY <1>1, PlaceRuns
<1>0. Len(more) \in Nat
  BY <1>1
<1>5. PICK g : /\ g[0] = [q \in {} |-> 0] /\ \A n \in 1..Len(more) : g[n] = Placed(g[n - 1], more, more[n])
               /\ Place(more) = g[Len(more)]
  BY <1>0, PlaceRuns
<1>6. ASSUME NEW n \in 1..Len(whole), f[n - 1] = g[n - 1] PROVE f[n] = g[n]
  <2>1. n \in 1..Len(more) /\ more[n] = whole[n] /\ whole[n] \in Events(whole)
    BY <1>1, <1>3
  <2>2. f[n] = Placed(g[n - 1], whole, whole[n]) /\ g[n] = Placed(g[n - 1], more, whole[n])
    BY <1>4, <1>5, <1>6, <2>1
  <2>3. Before(more, whole[n]) = Before(whole, whole[n])
    BY <1>2, <2>1
  <2>. QED  BY <2>2, <2>3 DEF Placed
<1>7. \A n \in 0..Len(whole) : f[n] = g[n]
  <2>1. Len(whole) \in Nat /\ f[0] = g[0]
    BY <1>1, <1>4, <1>5
  <2>2. \A n \in 1..Len(whole) : f[n - 1] = g[n - 1] => f[n] = g[n]
    BY <1>6
  <2>. QED  BY ONLY <2>1, <2>2, Alike
<1>8. f[Len(whole)] = g[Len(whole)]
  BY <1>1, <1>7
<1>9. g[Len(more)] = Placed(g[Len(more) - 1], more, more[Len(more)]) /\ Len(more) - 1 = Len(whole)
  BY <1>1, <1>5
<1>. QED  BY <1>1, <1>4, <1>5, <1>8, <1>9 DEF more

----------------------------------------------------------------------------
(* The fold shows the visible events in the order of their places; no      *)
(* place is above the number that has it, so a new node is the last.       *)
Right(whole) ==
    /\ FoldLog(whole) \in Seq(Nat)
    /\ \A q : Shown(FoldLog(whole), q) <=> \E x \in Visible(whole) : x.seq = q
    /\ \A i, j \in 1..Len(FoldLog(whole)) :
          i < j => Place(whole)[FoldLog(whole)[i]] < Place(whole)[FoldLog(whole)[j]]
    /\ DOMAIN Place(whole) = {x.seq : x \in Events(whole)}
    /\ \A q \in DOMAIN Place(whole) : Place(whole)[q] \in Nat /\ Place(whole)[q] <= q

LEMMA RightEmpty == Right(<<>>)
<1>1. Len(<<>>) = 0 /\ <<>> \in Seq(Nat) /\ DOMAIN <<>> = {}
  OBVIOUS
<1>2. FoldLog(<<>>) = <<>>
  <2>1. Len(<<>>) \in Nat
    BY <1>1
  <2>2. PICK f : f[0] = <<>> /\ FoldLog(<<>>) = f[Len(<<>>)]
    BY <2>1, FoldRuns
  <2>. QED  BY <1>1, <2>2
<1>3. Place(<<>>) = [q \in {} |-> 0]
  <2>1. Len(<<>>) \in Nat
    BY <1>1
  <2>2. PICK f : f[0] = [q \in {} |-> 0] /\ Place(<<>>) = f[Len(<<>>)]
    BY <2>1, PlaceRuns
  <2>. QED  BY <1>1, <2>2
<1>4. Events(<<>>) = {}
  BY <1>1 DEF Events
<1>5. Visible(<<>>) = {}
  BY <1>4 DEF Visible, Speaking
<1>6. DOMAIN Place(<<>>) = {}
  BY <1>3
<1>. DEFINE none == <<>>
<1>7. Len(FoldLog(none)) = 0 /\ FoldLog(none) \in Seq(Nat)
  BY <1>1, <1>2
<1>8. \A i : i \notin 1..Len(FoldLog(none))
  BY <1>7
<1>9. Events(none) = {} /\ Visible(none) = {} /\ DOMAIN Place(none) = {}
  BY <1>4, <1>5, <1>6
<1>. HIDE DEF none
<1>10. Right(none)
  BY <1>7, <1>8, <1>9 DEF Right, Shown
<1>. QED  BY <1>10 DEF none

LEMMA LeastIs ==
    ASSUME NEW T \in SUBSET Nat, T # {}
    PROVE  Least(T) \in T /\ \A k \in T : Least(T) <= k
<1>1. \E n \in T : \A k \in T : n <= k
  BY LeastNumber
<1>. QED  BY <1>1 DEF Least

(* The places of a grown log: the old ones, and one for the new event.     *)
LEMMA PlacesGrow ==
    ASSUME NEW M, NEW whole \in Seq(M), NEW e \in M, Numbers(M), Newest(whole, e), Right(whole)
    PROVE  LET P == Place(whole)
               Q == Place(Append(whole, e))
               gone == {x \in Visible(whole) : Covers(e, x)}
           IN  /\ DOMAIN Q = {x.seq : x \in Events(Append(whole, e))}
               /\ \A q \in DOMAIN Q : Q[q] \in Nat /\ Q[q] <= q
               /\ \A q \in DOMAIN P : Q[q] = P[q]
               /\ e.kind = "replace" /\ gone # {} =>
                     \E g \in gone : Q[e.seq] = P[g.seq] /\ \A h \in gone : P[g.seq] <= P[h.seq]
               /\ e.kind # "replace" \/ gone = {} => Q[e.seq] = e.seq
<1>. DEFINE P == Place(whole)
            Q == Place(Append(whole, e))
            gone == {x \in Visible(whole) : Covers(e, x)}
            been == IF e.kind = "replace" THEN Before(Append(whole, e), e) ELSE {}
            more == Append(whole, e)
<1>1. Q = Placed(P, more, e)
  BY PlaceGrows
<1>2. been = IF e.kind = "replace" THEN gone ELSE {}
  <2>1. CASE e.kind = "replace"
    <3>1. Splicing(e) /\ been = Before(more, e)
      BY <2>1 DEF Splicing
    <3>2. Before(more, e) = gone
      BY <3>1, VisibleGrows
    <3>. QED  BY <2>1, <3>1, <3>2
  <2>2. CASE e.kind # "replace"
    BY <2>2
  <2>. QED  BY <2>1, <2>2
<1>3. /\ Events(more) = Events(whole) \cup {e}
      /\ \A x \in Events(whole) : x \in M /\ x.seq < e.seq
  BY EventsGrow
<1>4. Visible(whole) \subseteq Events(whole)
  BY DEF Visible, Speaking
<1>5. DOMAIN P = {x.seq : x \in Events(whole)} /\ \A q \in DOMAIN P : P[q] \in Nat /\ P[q] <= q
  BY DEF Right
<1>6. e.seq \in Nat /\ \A x \in M : x.seq \in Nat
  BY DEF Numbers
<1>. HIDE DEF more, P, gone
<1>7. Q = [q \in DOMAIN P \cup {e.seq} |->
             IF q # e.seq THEN P[q]
             ELSE IF been = {} THEN e.seq ELSE Least({P[g.seq] : g \in been})]
  BY <1>1 DEF Placed, more
<1>. HIDE DEF Q, been
<1>8. \A q \in DOMAIN P : q # e.seq /\ q \in Nat
  BY <1>3, <1>5, <1>6
<1>9. \A q \in DOMAIN P : Q[q] = P[q]
  BY <1>7, <1>8
<1>10. DOMAIN Q = DOMAIN P \cup {e.seq}
  BY <1>7
<1>11. Q[e.seq] = IF been = {} THEN e.seq ELSE Least({P[g.seq] : g \in been})
  BY <1>7
<1>12. ASSUME been # {}
       PROVE  \E g \in been : Q[e.seq] = P[g.seq] /\ \A h \in been : P[g.seq] <= P[h.seq]
  <2>. DEFINE T == {P[g.seq] : g \in been}
  <2>1. been \subseteq Events(whole)
    BY <1>2, <1>4 DEF gone
  <2>2. T \in SUBSET Nat /\ T # {}
    BY <1>5, <1>12, <2>1
  <2>3. Least(T) \in T /\ \A k \in T : Least(T) <= k
    <3>. HIDE DEF T
    <3>. QED  BY <2>2, LeastIs
  <2>4. Q[e.seq] = Least(T)
    BY <1>11, <1>12
  <2>5. PICK g \in been : Least(T) = P[g.seq]
    BY <2>3
  <2>6. \A h \in been : P[g.seq] <= P[h.seq]
    BY <2>3, <2>5
  <2>. QED  BY <2>4, <2>5, <2>6
<1>13. Q[e.seq] \in Nat /\ Q[e.seq] <= e.seq
  <2>1. CASE been = {}
    BY <1>6, <1>11, <2>1
  <2>2. CASE been # {}
    <3>1. PICK g \in been : Q[e.seq] = P[g.seq]
      BY <1>12, <2>2
    <3>2. g \in Events(whole)
      BY <1>2, <1>4, <2>2 DEF gone
    <3>3. g.seq \in DOMAIN P /\ g.seq < e.seq /\ g.seq \in Nat
      BY <1>3, <1>5, <1>6, <3>2
    <3>4. P[g.seq] \in Nat /\ P[g.seq] <= g.seq
      BY <1>5, <3>3
    <3>. QED  BY <1>6, <3>1, <3>3, <3>4
  <2>. QED  BY <2>1, <2>2
<1>14. DOMAIN Q = {x.seq : x \in Events(more)}
  BY <1>3, <1>5, <1>10
<1>15. \A q \in DOMAIN Q : Q[q] \in Nat /\ Q[q] <= q
  BY <1>5, <1>9, <1>10, <1>13
<1>16. e.kind = "replace" /\ gone # {} =>
         \E g \in gone : Q[e.seq] = P[g.seq] /\ \A h \in gone : P[g.seq] <= P[h.seq]
  BY <1>2, <1>12
<1>17. e.kind # "replace" \/ gone = {} => Q[e.seq] = e.seq
  BY <1>2, <1>11
<1>. QED  BY <1>9, <1>14, <1>15, <1>16, <1>17 DEF Q, P, gone, more

LEMMA RightGrows ==
    ASSUME NEW M, NEW whole \in Seq(M), NEW e \in M, Numbers(M), Newest(whole, e), Right(whole)
    PROVE  Right(Append(whole, e))
<1>. DEFINE more == Append(whole, e)
            S == FoldLog(whole)
            R == FoldLog(more)
            P == Place(whole)
            Q == Place(more)
            gone == {x \in Visible(whole) : Covers(e, x)}
<1>1. R = Fold(S, e)
  BY FoldGrows
<1>2. /\ DOMAIN Q = {x.seq : x \in Events(more)}
      /\ \A q \in DOMAIN Q : Q[q] \in Nat /\ Q[q] <= q
      /\ \A q \in DOMAIN P : Q[q] = P[q]
      /\ e.kind = "replace" /\ gone # {} =>
            \E g \in gone : Q[e.seq] = P[g.seq] /\ \A h \in gone : P[g.seq] <= P[h.seq]
      /\ e.kind # "replace" \/ gone = {} => Q[e.seq] = e.seq
  BY PlacesGrow
<1>3. /\ S \in Seq(Nat)
      /\ \A q : Shown(S, q) <=> \E x \in Visible(whole) : x.seq = q
      /\ \A i, j \in 1..Len(S) : i < j => P[S[i]] < P[S[j]]
      /\ DOMAIN P = {x.seq : x \in Events(whole)}
      /\ \A q \in DOMAIN P : P[q] \in Nat /\ P[q] <= q
  BY DEF Right
<1>4. /\ Events(more) = Events(whole) \cup {e}
      /\ \A x \in Events(whole) : x \in M /\ x.seq < e.seq
  BY EventsGrow
<1>5. \A x : x \in Visible(more) <=> \/ x \in Visible(whole) /\ ~(Splicing(e) /\ Covers(e, x))
                                     \/ x = e /\ Speaks(e)
  BY VisibleGrows
<1>6. Visible(whole) \subseteq Events(whole)
  BY DEF Visible, Speaking
<1>7. e.seq \in Nat /\ e.from \in Nat /\ e.upto \in Nat /\ \A x \in M : x.seq \in Nat
  BY DEF Numbers
<1>8. Len(S) \in Nat
  BY <1>3
<1>. HIDE DEF more, S, R, P, Q
<1>9. ASSUME NEW i \in 1..Len(S)
      PROVE  /\ S[i] \in DOMAIN P /\ S[i] \in Nat /\ S[i] < e.seq
             /\ Q[S[i]] = P[S[i]] /\ Q[S[i]] \in Nat /\ Q[S[i]] <= S[i]
             /\ \E x \in Visible(whole) : x.seq = S[i]
  <2>1. PICK x \in Visible(whole) : x.seq = S[i]
    BY <1>3 DEF Shown
  <2>2. x \in Events(whole) /\ x.seq < e.seq /\ x.seq \in Nat
    BY <1>4, <1>6, <1>7
  <2>3. S[i] \in DOMAIN P
    BY <1>3, <2>1, <2>2
  <2>. QED  BY <1>2, <1>3, <2>1, <2>2, <2>3
<1>10. \A i, j \in 1..Len(S) : i < j => Q[S[i]] < Q[S[j]]
  BY <1>3, <1>9
<1>11. e.seq \in DOMAIN Q /\ Q[e.seq] \in Nat
  BY <1>2, <1>4
<1>12. \A x \in Visible(whole) : Covers(e, x) <=> InSpan(x.seq, e.from, e.upto)
  BY <1>4, <1>6, <1>7 DEF Covers, InSpan
<1>13. \A x \in Visible(whole) : \E i \in 1..Len(S) : S[i] = x.seq
  BY <1>3 DEF Shown
<1>14. /\ R \in Seq(Nat)
       /\ \A q : Shown(R, q) <=> \E x \in Visible(more) : x.seq = q
       /\ \A i, j \in 1..Len(R) : i < j => Q[R[i]] < Q[R[j]]
  <2>1. CASE e.kind \in {"message", "call", "result"}
    <3>1. R = Append(S, e.seq) /\ Q[e.seq] = e.seq /\ Speaks(e) /\ ~Splicing(e)
      BY <1>1, <1>2, <2>1 DEF Fold, Push, Speaks, Splicing
    <3>2. /\ R \in Seq(Nat) /\ Len(R) = Len(S) + 1 /\ R[Len(S) + 1] = e.seq
          /\ \A i \in 1..Len(S) : R[i] = S[i]
      BY <1>3, <1>7, <3>1
    <3>3. \A i \in 1..Len(S) + 1 : i \in 1..Len(S) \/ i = Len(S) + 1
      BY <1>8
    <3>4. 1..Len(S) \subseteq 1..Len(S) + 1 /\ Len(S) + 1 \in 1..Len(S) + 1
      BY <1>8
    <3>5. ASSUME NEW q PROVE Shown(R, q) <=> Shown(S, q) \/ q = e.seq
      BY <3>2, <3>3, <3>4 DEF Shown
    <3>6. ASSUME NEW q PROVE Shown(R, q) <=> \E x \in Visible(more) : x.seq = q
      BY <1>3, <1>5, <3>1, <3>5
    <3>7. ASSUME NEW i \in 1..Len(R), NEW j \in 1..Len(R), i < j PROVE Q[R[i]] < Q[R[j]]
      <4>1. i \in 1..Len(S) /\ R[i] = S[i]
        BY <1>8, <3>2, <3>7
      <4>2. CASE j \in 1..Len(S)
        BY <1>10, <3>2, <3>7, <4>1, <4>2
      <4>3. CASE j = Len(S) + 1
        <5>1. Q[R[j]] = e.seq
          BY <3>1, <3>2, <4>3
        <5>2. Q[S[i]] \in Nat /\ Q[S[i]] <= S[i] /\ S[i] < e.seq /\ S[i] \in Nat
          BY <1>9, <4>1
        <5>. QED  BY <1>7, <4>1, <5>1, <5>2
      <4>. QED  BY <3>2, <3>3, <4>2, <4>3
    <3>. QED  BY <3>2, <3>6, <3>7
  <2>2. CASE e.kind \in {"replace", "erase"}
    <3>. DEFINE speaks == e.kind = "replace"
                In(i) == InSpan(S[i], e.from, e.upto)
    <3>1. R = Replaced(S, e.from, e.upto, e.seq, speaks) /\ (Speaks(e) <=> speaks) /\ Splicing(e)
      BY <1>1, <2>2 DEF Fold, Speaks, Splicing
    <3>2. speaks => \/ \A i \in 1..Len(S) : ~In(i) /\ Q[S[i]] < Q[e.seq]
                    \/ \E i \in 1..Len(S) :
                          /\ In(i) /\ Q[e.seq] = Q[S[i]]
                          /\ \A j \in 1..Len(S) : In(j) => Q[S[i]] <= Q[S[j]]
      <4>1. SUFFICES ASSUME speaks
                     PROVE  \/ \A i \in 1..Len(S) : ~In(i) /\ Q[S[i]] < Q[e.seq]
                            \/ \E i \in 1..Len(S) :
                                  /\ In(i) /\ Q[e.seq] = Q[S[i]]
                                  /\ \A j \in 1..Len(S) : In(j) => Q[S[i]] <= Q[S[j]]
        OBVIOUS
      <4>2. CASE gone = {}
        <5>1. Q[e.seq] = e.seq
          BY <1>2, <4>2
        <5>2. ASSUME NEW i \in 1..Len(S) PROVE ~In(i) /\ Q[S[i]] < Q[e.seq]
          <6>1. PICK x \in Visible(whole) : x.seq = S[i]
            BY <1>9
          <6>2. ~In(i)
            BY <1>12, <4>2, <6>1
          <6>3. Q[S[i]] \in Nat /\ Q[S[i]] <= S[i] /\ S[i] < e.seq /\ S[i] \in Nat
            BY <1>9
          <6>. QED  BY <1>7, <5>1, <6>2, <6>3
        <5>. QED  BY <5>2
      <4>3. CASE gone # {}
        <5>1. PICK g \in gone : Q[e.seq] = P[g.seq] /\ \A h \in gone : P[g.seq] <= P[h.seq]
          BY <1>2, <4>1, <4>3
        <5>2. PICK i \in 1..Len(S) : S[i] = g.seq
          BY <1>13
        <5>3. In(i) /\ Q[e.seq] = Q[S[i]] /\ Q[S[i]] = P[g.seq]
          BY <1>9, <1>12, <5>1, <5>2
        <5>4. ASSUME NEW j \in 1..Len(S), In(j) PROVE Q[S[i]] <= Q[S[j]]
          <6>1. PICK x \in Visible(whole) : x.seq = S[j]
            BY <1>9
          <6>2. x \in gone
            BY <1>12, <5>4, <6>1
          <6>. QED  BY <1>9, <5>1, <5>3, <6>1, <6>2
        <5>. QED  BY <5>3, <5>4
      <4>. QED  BY <4>2, <4>3
    <3>3. Results(R, S, e.from, e.upto, Q, e.seq, speaks)
      <4>1. S \in Seq(Nat) /\ e.from \in Nat /\ e.upto \in Nat /\ e.seq \in Nat /\ speaks \in BOOLEAN
        BY <1>3, <1>7
      <4>2. InOrder(S, Q)
        BY <1>9, <1>10 DEF InOrder
      <4>3. speaks => InPlace(S, e.from, e.upto, Q, e.seq)
        BY <1>11, <3>2 DEF InPlace
      <4>. HIDE DEF speaks
      <4>. QED  BY ONLY <3>1, <4>1, <4>2, <4>3, ReplacedFacts
    <3>4. ASSUME NEW q PROVE Shown(R, q) <=> \E x \in Visible(more) : x.seq = q
      <4>1. (\E i \in 1..Len(S) : ~In(i) /\ S[i] = q) <=> \E x \in Visible(whole) : ~Covers(e, x) /\ x.seq = q
        <5>1. ASSUME NEW i \in 1..Len(S), ~In(i), S[i] = q PROVE \E x \in Visible(whole) : ~Covers(e, x) /\ x.seq = q
          <6>1. PICK x \in Visible(whole) : x.seq = S[i]
            BY <1>9
          <6>. QED  BY <1>12, <5>1, <6>1
        <5>2. ASSUME NEW x \in Visible(whole), ~Covers(e, x), x.seq = q PROVE \E i \in 1..Len(S) : ~In(i) /\ S[i] = q
          <6>1. PICK i \in 1..Len(S) : S[i] = x.seq
            BY <1>13
          <6>. QED  BY <1>12, <5>2, <6>1
        <5>. QED  BY <5>1, <5>2
      <4>2. Shown(R, q) <=> (\E i \in 1..Len(S) : ~In(i) /\ S[i] = q) \/ (speaks /\ q = e.seq)
        BY <3>3 DEF Results
      <4>3. (\E x \in Visible(more) : x.seq = q)
               <=> (\E x \in Visible(whole) : ~Covers(e, x) /\ x.seq = q) \/ (Speaks(e) /\ e.seq = q)
        BY <1>5, <3>1
      <4>. QED  BY <3>1, <4>1, <4>2, <4>3
    <3>. QED  BY <3>3, <3>4 DEF Results
  <2>3. CASE e.kind \notin {"message", "call", "result", "replace", "erase"}
    <3>1. R = S /\ ~Speaks(e) /\ ~Splicing(e)
      BY <1>1, <2>3 DEF Fold, Speaks, Splicing
    <3>2. Visible(more) = Visible(whole)
      BY <1>5, <3>1
    <3>. QED  BY <1>3, <1>10, <3>1, <3>2
  <2>. QED  BY <2>1, <2>2, <2>3
<1>15. Right(more)
  BY <1>2, <1>14 DEF Right, R, Q
<1>. QED  BY <1>15 DEF more

----------------------------------------------------------------------------
(* Every log                                                               *)

Increasing(whole) == \A i, j \in 1..Len(whole) : i < j => whole[i].seq < whole[j].seq

LEMMA RightShows == ASSUME NEW whole, Right(whole) PROVE Shows(FoldLog(whole), whole)
<1>. DEFINE S == FoldLog(whole)
<1>1. /\ S \in Seq(Nat)
      /\ \A q : Shown(S, q) <=> \E x \in Visible(whole) : x.seq = q
      /\ \A i, j \in 1..Len(S) : i < j => Place(whole)[S[i]] < Place(whole)[S[j]]
  BY DEF Right
<1>. HIDE DEF S
<1>2. DOMAIN S = 1..Len(S)
  BY <1>1
<1>3. {S[i] : i \in DOMAIN S} = {e.seq : e \in Visible(whole)}
  BY <1>1, <1>2 DEF Shown
<1>. QED  BY <1>1, <1>2, <1>3 DEF Shows, S

LEMMA LogRight ==
    ASSUME NEW M, Numbers(M), NEW whole \in Seq(M), Increasing(whole)
    PROVE  Right(whole)
<1>. DEFINE pre(n) == SubSeq(whole, 1, n)
            T == {n \in 0..Len(whole) : Right(pre(n))}
<1>1. Len(whole) \in Nat /\ \A i \in 1..Len(whole) : whole[i] \in M
  BY ElementOfSeq
<1>2. ASSUME NEW n \in 0..Len(whole)
      PROVE  pre(n) \in Seq(M) /\ Len(pre(n)) = n /\ \A i \in 1..n : pre(n)[i] = whole[i]
  <2>1. n \in Int /\ 1 \in Int /\ \A i \in 1..n : whole[i] \in M
    BY <1>1
  <2>2. /\ pre(n) \in Seq(M) /\ Len(pre(n)) = IF 1 <= n THEN n - 1 + 1 ELSE 0
        /\ \A i \in 1..(n - 1 + 1) : pre(n)[i] = whole[1 + i - 1]
    BY <2>1, SubSeqProperties
  <2>. HIDE DEF pre
  <2>. QED  BY <1>1, <2>2
<1>. HIDE DEF pre
<1>3. 0 \in T
  <2>1. pre(0) \in Seq(M) /\ Len(pre(0)) = 0
    BY <1>1, <1>2
  <2>2. pre(0) = <<>>
    BY <2>1
  <2>. QED  BY <1>1, <2>2, RightEmpty
<1>4. ASSUME NEW n \in 1..Len(whole), n - 1 \in T PROVE n \in T
  <2>. DEFINE p == pre(n - 1)
              e == whole[n]
  <2>0. n - 1 \in 0..Len(whole) /\ n \in 0..Len(whole) /\ n \in Nat /\ n >= 1
    BY <1>1
  <2>1. p \in Seq(M) /\ Len(p) = n - 1 /\ \A i \in 1..n - 1 : p[i] = whole[i]
    BY <1>2, <2>0
  <2>2. Right(p) /\ e \in M
    BY <1>1, <1>4
  <2>3. pre(n) \in Seq(M) /\ Len(pre(n)) = n /\ \A i \in 1..n : pre(n)[i] = whole[i]
    BY <1>2, <2>0
  <2>. HIDE DEF p, e
  <2>4. Append(p, e) \in Seq(M) /\ Len(Append(p, e)) = n /\ \A i \in 1..n : Append(p, e)[i] = whole[i]
    <3>1. \A i \in 1..n : i \in 1..n - 1 \/ i = n
      BY <2>0
    <3>2. /\ Append(p, e) \in Seq(M) /\ Len(Append(p, e)) = Len(p) + 1 /\ Append(p, e)[Len(p) + 1] = e
          /\ \A i \in 1..Len(p) : Append(p, e)[i] = p[i]
      BY <2>1, <2>2, Grown
    <3>. QED  BY <2>0, <2>1, <3>1, <3>2 DEF e
  <2>5. pre(n) = Append(p, e)
    BY <2>3, <2>4, SeqEqual
  <2>6. Newest(p, e)
    <3>1. \A i \in 1..n - 1 : i \in 1..Len(whole) /\ i < n
      BY <1>1, <2>0
    <3>. QED  BY <2>1, <3>1 DEF Newest, Increasing, e
  <2>7. Right(Append(p, e))
    BY <2>1, <2>2, <2>6, RightGrows
  <2>. QED  BY <2>0, <2>5, <2>7
<1>. HIDE DEF T
<1>5. \A n \in 0..Len(whole) : n \in T
  BY <1>1, <1>3, <1>4, Climb
<1>6. Right(pre(Len(whole)))
  BY <1>1, <1>5 DEF T
<1>7. pre(Len(whole)) = whole
  <2>1. Len(whole) \in 0..Len(whole)
    BY <1>1
  <2>2. pre(Len(whole)) \in Seq(M) /\ Len(pre(Len(whole))) = Len(whole) /\ \A i \in 1..Len(whole) : pre(Len(whole))[i] = whole[i]
    BY <1>2, <2>1
  <2>. QED  BY <2>2, SeqEqual
<1>. QED  BY <1>6, <1>7

(* The fold of a log shows what is visible of it, each event once, and in  *)
(* the order of the places: session_surface's fold computes what it should *)
(* for every log whose numbers increase (surface.cpp).                     *)
THEOREM FoldShows ==
    ASSUME NEW M, Numbers(M), NEW whole \in Seq(M), Increasing(whole)
    PROVE  Shows(FoldLog(whole), whole)
<1>1. Right(whole)
  BY LogRight
<1>. QED  BY <1>1, RightShows

----------------------------------------------------------------------------
(* Facts about sequences: the rest of a sequence after its first n.        *)

Rest(s, n) == SubSeq(s, n + 1, Len(s))

LEMMA RestType ==
    ASSUME NEW S, NEW s \in Seq(S), NEW n \in 0..Len(s)
    PROVE  /\ Rest(s, n) \in Seq(S) /\ Len(Rest(s, n)) = Len(s) - n
           /\ \A i \in 1..(Len(s) - n) : Rest(s, n)[i] = s[n + i]
<1>1. Len(s) \in Nat /\ n \in Nat /\ n <= Len(s)
  OBVIOUS
<1>2. \A i \in (n + 1)..Len(s) : s[i] \in S
  BY <1>1, ElementOfSeq
<1>3. /\ Rest(s, n) \in Seq(S)
      /\ Len(Rest(s, n)) = IF n + 1 <= Len(s) THEN Len(s) - (n + 1) + 1 ELSE 0
      /\ \A i \in 1..(Len(s) - (n + 1) + 1) : Rest(s, n)[i] = s[(n + 1) + i - 1]
  BY <1>1, <1>2, SubSeqProperties DEF Rest
<1> HIDE DEF Rest
<1> QED BY <1>1, <1>3

(* What follows the whole sequence is empty.                               *)
LEMMA RestOfAll ==
    ASSUME NEW S, NEW s \in Seq(S)
    PROVE  Rest(s, Len(s)) = <<>>
BY SubSeqEmpty DEF Rest

LEMMA RestOfConcat ==
    ASSUME NEW S, NEW s \in Seq(S), NEW t \in Seq(S), NEW n \in 0..Len(s)
    PROVE  Rest(s \o t, n) = Rest(s, n) \o t
<1>1. Len(s) \in Nat /\ n \in Nat /\ n <= Len(s) /\ Len(t) \in Nat
  OBVIOUS
<1>2. s \o t \in Seq(S) /\ Len(s \o t) = Len(s) + Len(t) /\ n \in 0..Len(s \o t)
  BY <1>1, ConcatProperties
<1>3. Rest(s, n) \in Seq(S) /\ Len(Rest(s, n)) = Len(s) - n
  BY RestType
<1>4. /\ Rest(s, n) \o t \in Seq(S) /\ Len(Rest(s, n) \o t) = Len(s) - n + Len(t)
      /\ \A i \in 1..(Len(s) - n + Len(t)) :
            (Rest(s, n) \o t)[i] = IF i <= Len(s) - n THEN Rest(s, n)[i] ELSE t[i - (Len(s) - n)]
  <2> DEFINE r == Rest(s, n)
  <2>1. r \in Seq(S) /\ Len(r) = Len(s) - n
    BY <1>3
  <2> HIDE DEF r
  <2>2. /\ r \o t \in Seq(S) /\ Len(r \o t) = Len(r) + Len(t)
        /\ \A i \in 1..(Len(r) + Len(t)) : (r \o t)[i] = IF i <= Len(r) THEN r[i] ELSE t[i - Len(r)]
    BY <2>1, ConcatProperties
  <2>3. /\ r \o t \in Seq(S) /\ Len(r \o t) = Len(s) - n + Len(t)
        /\ \A i \in 1..(Len(s) - n + Len(t)) :
              (r \o t)[i] = IF i <= Len(s) - n THEN r[i] ELSE t[i - (Len(s) - n)]
    BY <2>1, <2>2
  <2> QED  BY <2>3 DEF r
<1>5. /\ Rest(s \o t, n) \in Seq(S) /\ Len(Rest(s \o t, n)) = Len(s) + Len(t) - n
      /\ \A i \in 1..(Len(s) + Len(t) - n) : Rest(s \o t, n)[i] = (s \o t)[n + i]
  <2> DEFINE r == s \o t
  <2>1. r \in Seq(S) /\ Len(r) = Len(s) + Len(t) /\ n \in 0..Len(r)
    BY <1>2
  <2> HIDE DEF r
  <2>2. /\ Rest(r, n) \in Seq(S) /\ Len(Rest(r, n)) = Len(r) - n
        /\ \A i \in 1..(Len(r) - n) : Rest(r, n)[i] = r[n + i]
    BY <2>1, RestType
  <2>3. /\ Rest(r, n) \in Seq(S) /\ Len(Rest(r, n)) = Len(s) + Len(t) - n
        /\ \A i \in 1..(Len(s) + Len(t) - n) : Rest(r, n)[i] = r[n + i]
    BY <2>1, <2>2
  <2> QED BY <2>3 DEF r
<1>6. ASSUME NEW i \in 1..(Len(s) + Len(t) - n)
      PROVE  Rest(s \o t, n)[i] = (Rest(s, n) \o t)[i]
  <2>1. n + i \in 1..(Len(s) + Len(t)) /\ i \in 1..(Len(s) - n + Len(t))
    BY <1>1
  <2>2. (s \o t)[n + i] = IF n + i <= Len(s) THEN s[n + i] ELSE t[n + i - Len(s)]
    BY <2>1, ConcatProperties
  <2>3. CASE i <= Len(s) - n
    <3>1. i \in 1..(Len(s) - n) /\ n + i <= Len(s)
      BY <1>1, <2>3
    <3> QED BY <3>1, <2>1, <2>2, <2>3, <1>4, <1>5, RestType
  <2>4. CASE ~(i <= Len(s) - n)
    <3>1. ~(n + i <= Len(s)) /\ n + i - Len(s) = i - (Len(s) - n)
      BY <1>1, <2>4
    <3> QED BY <3>1, <2>1, <2>2, <2>4, <1>4, <1>5
  <2> QED BY <2>3, <2>4
<1>7. Len(Rest(s \o t, n)) = Len(Rest(s, n) \o t)
  BY <1>1, <1>4, <1>5
<1> QED BY <1>4, <1>5, <1>6, <1>7, SeqEqual

LEMMA RestOfAppend ==
    ASSUME NEW S, NEW s \in Seq(S), NEW e \in S, NEW n \in 0..Len(s)
    PROVE  Rest(Append(s, e), n) = Append(Rest(s, n), e)
<1>1. Append(s, e) = s \o <<e>> /\ <<e>> \in Seq(S)
  BY AppendIsConcat
<1>2. Rest(s, n) \in Seq(S)
  BY RestType
<1>3. Append(Rest(s, n), e) = Rest(s, n) \o <<e>>
  BY <1>2, AppendIsConcat
<1> QED BY <1>1, <1>3, RestOfConcat

LEMMA ConcatAppend ==
    ASSUME NEW S, NEW s \in Seq(S), NEW t \in Seq(S), NEW e \in S
    PROVE  s \o Append(t, e) = Append(s \o t, e)
<1>1. Append(t, e) = t \o <<e>> /\ <<e>> \in Seq(S)
  BY AppendIsConcat
<1>2. s \o t \in Seq(S)
  BY ConcatProperties
<1>3. Append(s \o t, e) = (s \o t) \o <<e>>
  BY <1>2, AppendIsConcat
<1> QED BY <1>1, <1>3, ConcatAssociative

LEMMA ConcatLonger ==
    ASSUME NEW S, NEW s \in Seq(S), NEW t \in Seq(S)
    PROVE  s \o t \in Seq(S) /\ Len(s \o t) \in Nat /\ \A n \in 0..Len(s) : n <= Len(s \o t)
<1>1. s \o t \in Seq(S) /\ Len(s \o t) = Len(s) + Len(t)
  BY ConcatProperties
<1>2. Len(s) \in Nat /\ Len(t) \in Nat
  OBVIOUS
<1> QED BY <1>1, <1>2

(* A prefix of a prefix is one.                                            *)
LEMMA PrefixOfConcat ==
    ASSUME NEW S, NEW s \in Seq(S), NEW t \in Seq(S), NEW n \in 0..Len(s)
    PROVE  /\ SubSeq(s, 1, n) = SubSeq(s \o t, 1, n)
           /\ SubSeq(s, 1, n) \in Seq(S) /\ Len(SubSeq(s, 1, n)) = n
<1>1. Len(s) \in Nat /\ n \in Nat /\ n <= Len(s)
  OBVIOUS
<1>2. \A i \in 1..n : s[i] \in S
  BY <1>1, ElementOfSeq
<1>3. /\ SubSeq(s, 1, n) \in Seq(S)
      /\ Len(SubSeq(s, 1, n)) = IF 1 <= n THEN n - 1 + 1 ELSE 0
  BY <1>1, <1>2, SubSeqProperties
<1>4. CASE n = 0
  BY <1>3, <1>4, SubSeqEmpty
<1>5. CASE n # 0
  <2>1. 1 \in 1..Len(s) /\ n \in 1..Len(s)
    BY <1>1, <1>5
  <2>2. SubSeq(s \o t, 1, n) = SubSeq(s, 1, n)
    BY <2>1, SubSeqOfConcat1
  <2>3. Len(SubSeq(s, 1, n)) = n
    BY <1>1, <1>3, <1>5
  <2> QED BY <1>3, <2>2, <2>3
<1> QED BY <1>4, <1>5

----------------------------------------------------------------------------
(* The inductive invariant                                                 *)

(* Of one session: a buffer belongs to a writer; a writer's file ends in a *)
(* newline; what does not exist is empty; what was synced, what was there  *)
(* at the attachment and what the session was made from are all prefixes;  *)
(* and the writer tracks the log.                                          *)
Tracked(i) ==
    /\ i \notin attached => buffer[i] = <<>>
    /\ i \in attached => tail[i] = Nothing /\ base[i] <= Len(lines[i])
    /\ i \notin present => lines[i] = <<>> /\ tail[i] = Nothing /\ synced[i] = 0
    /\ synced[i] <= Len(lines[i])
    /\ built[i] <= Len(log[i])
    /\ i \in attached => Rest(lines[i], base[i]) \o buffer[i] = Rest(log[i], built[i])

IInv == TypeOK /\ \A i \in Ids : Tracked(i)

----------------------------------------------------------------------------
(* Types of the operators                                                  *)

LEMMA Records ==
    /\ Header \in Record /\ Event \subseteq Record /\ Record \subseteq Tails
    /\ Nothing \in Tails /\ Fragment \in Tails /\ Header # Nothing
BY DEF Header, Event, Record, Tails, Nothing, Fragment, Kinds

(* The names of the open calls of a seed can be put in order.              *)
LEMMA NamesInOrder ==
    ASSUME NEW s \in Seq(Event), Contiguous(s)
    PROVE  /\ Cardinality(Open(s)) \in Nat
           /\ ByName(Open(s)) \in [1..Cardinality(Open(s)) -> Nat]
<1>1. Calls(s) \subseteq 0..Len(s)
  <2>1. DOMAIN s = 1..Len(s) /\ Len(s) \in Nat
    OBVIOUS
  <2>2. \A i \in DOMAIN s : s[i].seq \in 0..Len(s)
    BY <2>1 DEF Contiguous
  <2> QED BY <2>2 DEF Calls
<1>2. Open(s) \subseteq 0..Len(s)
  BY <1>1 DEF Open
<1>3. IsFiniteSet(Open(s))
  <2>1. IsFiniteSet(0..Len(s))
    BY FS_Interval
  <2> QED BY <1>2, <2>1, FS_Subset
<1>4. Cardinality(Open(s)) \in Nat /\ ExistsBijection(1..Cardinality(Open(s)), Open(s))
  BY <1>3, FS_CardinalityType
<1> DEFINE S == Open(s)
           n == Cardinality(S)
<1>5. \E f \in [1..n -> S] : \A x \in S : \E i \in 1..n : f[i] = x
  BY <1>4 DEF ExistsBijection, Bijection, Surjection, Injection
<1>6. ByName(S) \in [1..n -> S]
  BY <1>5 DEF ByName
<1>7. S \subseteq Nat
  BY <1>2
<1> QED BY <1>4, <1>6, <1>7

LEMMA ClosersType ==
    ASSUME NEW s \in Seq(Event), Contiguous(s)
    PROVE  [i \in 1..Cardinality(Open(s)) |->
              [seq |-> Len(s) + i - 1, kind |-> "result", from |-> ByName(Open(s))[i], upto |-> 0]]
           \in Seq(Event)
<1> DEFINE n == Cardinality(Open(s))
           f == ByName(Open(s))
           t == [i \in 1..n |-> [seq |-> Len(s) + i - 1, kind |-> "result", from |-> f[i], upto |-> 0]]
<1>1. n \in Nat /\ f \in [1..n -> Nat] /\ Len(s) \in Nat
  BY NamesInOrder
<1> HIDE DEF n, f
<1>2. t \in [1..n -> Event]
  BY <1>1 DEF Event, Kinds
<1>3. t \in Seq(Event)
  BY <1>1, <1>2, SeqDef
<1> QED BY <1>3 DEF t, n, f

LEMMA ConstructedType ==
    ASSUME NEW s \in Seq(Event), Contiguous(s), NEW seeded \in BOOLEAN
    PROVE  Constructed(s, seeded) \in Seq(Event)
<1>1. Repaired(s) \in Seq(Event)
  BY ClosersType, ConcatProperties DEF Repaired
<1>2. Marked(Repaired(s)) \in Seq(Event)
  <2> DEFINE r == Repaired(s)
  <2>1. r \in Seq(Event) /\ Len(r) \in Nat
    BY <1>1
  <2> HIDE DEF r
  <2>2. [seq |-> Len(r), kind |-> "marker", from |-> 0, upto |-> 0] \in Event
    BY <2>1 DEF Event, Kinds
  <2>3. Marked(r) \in Seq(Event)
    BY <2>1, <2>2, AppendProperties DEF Marked
  <2> QED BY <2>3 DEF r
<1> QED BY <1>1, <1>2 DEF Constructed

(* What a crash leaves of records.                                         *)
LEMMA ImageType ==
    ASSUME NEW s \in Seq(Record), NEW n \in 0..Len(s), NEW t
    PROVE  /\ Image(s, n, t).lines = SubSeq(s, 1, n) /\ Image(s, n, t).tail \in Tails
           /\ SubSeq(s, 1, n) \in Seq(Record) /\ Len(SubSeq(s, 1, n)) = n
<1>1. SubSeq(s, 1, n) \in Seq(Record) /\ Len(SubSeq(s, 1, n)) = n
  BY PrefixOfConcat
<1>2. n < Len(s) => s[n + 1] \in Record
  BY ElementOfSeq
<1>3. n < Len(s) => s[n + 1] \in Tails
  BY <1>2, Records
<1> QED BY <1>1, <1>3, Records DEF Image

LEMMA Initially == Init => IInv
<1> SUFFICES ASSUME Init PROVE IInv
  OBVIOUS
<1>1. TypeOK
  BY Records DEF Init, TypeOK
<1>2. ASSUME NEW i \in Ids PROVE Tracked(i)
  BY DEF Init, Tracked
<1> QED BY <1>1, <1>2 DEF IInv

----------------------------------------------------------------------------
(* A session is constructed and attached: what it is made from is not the  *)
(* writer's business, and the file is as it was found, or a header.        *)
LEMMA EnterKeeps ==
    ASSUME IInv, NEW id \in Ids, NEW input \in Seq(Event), Enter(id, input), Attach(id),
           sound' \in [Ids -> BOOLEAN], UNCHANGED crashes
    PROVE  IInv'
<1>1. Len(input) \in Nat /\ <<Header>> \in Seq(Record) /\ Len(<<Header>>) = 1
  BY Records
<1>2. id \notin attached /\ id \notin entered
  BY DEF IInv, TypeOK, Enter
<1> DEFINE file == IF id \in present THEN lines[id] ELSE <<Header>>
<1>3. file \in Seq(Record) /\ Len(file) \in Nat
  BY <1>1 DEF IInv, TypeOK
<1>4. /\ lines' = [lines EXCEPT ![id] = file] /\ base' = [base EXCEPT ![id] = Len(lines'[id])]
      /\ lines'[id] = file /\ \A i \in Ids \ {id} : lines'[i] = lines[i]
  BY DEF Attach, IInv, TypeOK
<1>5. TypeOK'
  <2>1. entered' \subseteq Ids /\ attached' \subseteq entered' /\ attached' \subseteq present' /\ present' \subseteq Ids
    BY DEF IInv, TypeOK, Enter, Attach
  <2>2. log' \in [Ids -> Seq(Event)] /\ next' \in [Ids -> Nat] /\ built' \in [Ids -> Nat]
    BY <1>1 DEF IInv, TypeOK, Enter
  <2>3. buffer' \in [Ids -> Seq(Event)] /\ tail' \in [Ids -> Tails] /\ synced' \in [Ids -> Nat]
    BY Records DEF IInv, TypeOK, Attach
  <2>4. lines' \in [Ids -> Seq(Record)] /\ base' \in [Ids -> Nat]
    BY <1>3, <1>4 DEF IInv, TypeOK
  <2>5. crashes' \in Nat
    BY DEF IInv, TypeOK
  <2> QED BY <2>1, <2>2, <2>3, <2>4, <2>5 DEF TypeOK
<1> HIDE DEF file
<1>6. Tracked(id)'
  <2>1. base'[id] = Len(file) /\ built'[id] = Len(input) /\ log'[id] = input /\ buffer'[id] = <<>>
    BY <1>4 DEF IInv, TypeOK, Enter, Attach
  <2>2. tail'[id] = Nothing /\ id \in present' /\ synced'[id] <= Len(file)
    <3>1. tail'[id] = Nothing /\ id \in present'
      BY DEF IInv, TypeOK, Attach
    <3>2. CASE id \in present /\ tail[id] = Nothing
      <4>1. synced'[id] = synced[id] /\ file = lines[id]
        BY <3>2 DEF IInv, TypeOK, Attach, file
      <4> QED BY <3>1, <4>1 DEF IInv, Tracked
    <3>3. CASE ~(id \in present /\ tail[id] = Nothing)
      <4>1. synced'[id] = 0
        BY <3>3 DEF IInv, TypeOK, Attach
      <4> QED BY <3>1, <4>1, <1>3
    <3> QED BY <3>2, <3>3
  <2>3. Rest(file, Len(file)) = <<>> /\ Rest(input, Len(input)) = <<>>
    BY <1>3, RestOfAll
  <2>4. <<>> \o <<>> = <<>>
    OBVIOUS
  <2>5. /\ base'[id] <= Len(lines'[id]) /\ built'[id] <= Len(log'[id]) /\ synced'[id] <= Len(lines'[id])
    BY <1>1, <1>3, <1>4, <2>1, <2>2
  <2>7. id \in attached'
    BY DEF Attach
  <2>6. Rest(lines'[id], base'[id]) \o buffer'[id] = Rest(log'[id], built'[id])
    BY <1>4, <2>1, <2>3, <2>4
  <2> QED BY <2>2, <2>5, <2>6, <2>7 DEF Tracked
<1>7. ASSUME NEW i \in Ids, i # id PROVE Tracked(i)'
  <2>1. /\ lines'[i] = lines[i] /\ base'[i] = base[i] /\ buffer'[i] = buffer[i] /\ tail'[i] = tail[i]
        /\ synced'[i] = synced[i]
        /\ (i \in attached') = (i \in attached) /\ (i \in present') = (i \in present)
    BY <1>7 DEF IInv, TypeOK, Attach
  <2>2. log'[i] = log[i] /\ built'[i] = built[i]
    BY <1>7 DEF IInv, TypeOK, Enter
  <2>3. Tracked(i)
    BY DEF IInv
  <2> QED BY <2>1, <2>2, <2>3 DEF Tracked
<1> QED BY <1>5, <1>6, <1>7 DEF IInv

LEMMA CreateKeeps == ASSUME IInv, NEW id \in Ids, Create(id) PROVE IInv'
<1>1. sound' \in [Ids -> BOOLEAN]
  BY DEF Create, Unsound, IInv, TypeOK, Damaged
<1>2. <<>> \in Seq(Event)
  OBVIOUS
<1> QED BY <1>1, <1>2, EnterKeeps DEF Create

LEMMA ForkKeeps ==
    ASSUME IInv, NEW parent \in Ids, NEW id \in Ids, NEW cut \in 0..MaxLog, Fork(parent, id, cut)
    PROVE  IInv'
<1> DEFINE seed == SubSeq(log[parent], 1, cut)
<1>1. MaxLog \in Nat /\ log[parent] \in Seq(Event) /\ cut \in 0..Len(log[parent])
  BY SessionAssumption DEF Fork, IInv, TypeOK
<1>2. seed \in Seq(Event)
  <2>1. <<>> \in Seq(Event)
    OBVIOUS
  <2> QED BY <1>1, <2>1, PrefixOfConcat
<1>3. Contiguous(seed)
  BY DEF Fork, Seedable
<1>4. Constructed(seed, TRUE) \in Seq(Event)
  BY <1>2, <1>3, ConstructedType
<1>5. sound' \in [Ids -> BOOLEAN]
  BY DEF Fork, Unsound, IInv, TypeOK, Damaged
<1>6. Enter(id, Constructed(seed, TRUE)) /\ Attach(id) /\ UNCHANGED crashes
  BY DEF Fork
<1> QED BY <1>4, <1>5, <1>6, EnterKeeps

LEMMA FromSecond ==
    ASSUME NEW n \in Nat, n # 0
    PROVE  (IF 2 <= n THEN n - 2 + 1 ELSE 0) = n - 1 /\ n - 2 + 1 = n - 1
OBVIOUS

(* What read() returns is a sequence of events.                            *)
LEMMA StoredType ==
    ASSUME IInv, NEW id \in Ids, Readable(id)
    PROVE  /\ Whole(id) # <<>> /\ Stored(id) \in Seq(Event) /\ Len(Stored(id)) = Len(Whole(id)) - 1
           /\ \A i \in 1..Len(Stored(id)) : Stored(id)[i] = Whole(id)[i + 1]
<1> DEFINE w == Whole(id)
<1>1. w \in Seq(Tails)
  <2>1. lines[id] \in Seq(Tails) /\ tail[id] \in Tails
    BY Records, SeqMonotonic DEF IInv, TypeOK
  <2> QED BY <2>1, AppendProperties DEF Whole
<1>2. w # <<>> /\ \A i \in 2..Len(w) : w[i] \in Event
  BY DEF Readable
<1>3. Stored(id) = Tail(w)
  BY DEF Stored
<1> HIDE DEF w
<1>4. /\ Tail(w) = SubSeq(w, 2, Len(w)) /\ Len(w) \in Nat \ {0}
  BY <1>1, <1>2, TailIsSubSeq
<1>5. /\ SubSeq(w, 2, Len(w)) \in Seq(Event)
      /\ Len(SubSeq(w, 2, Len(w))) = IF 2 <= Len(w) THEN Len(w) - 2 + 1 ELSE 0
      /\ \A i \in 1..(Len(w) - 2 + 1) : SubSeq(w, 2, Len(w))[i] = w[2 + i - 1]
  BY <1>2, <1>4, SubSeqProperties
<1>6. /\ Stored(id) \in Seq(Event) /\ Len(Stored(id)) = Len(w) - 1
      /\ \A i \in 1..Len(Stored(id)) : Stored(id)[i] = w[i + 1]
  <2>1. Stored(id) = SubSeq(w, 2, Len(w))
    BY <1>3, <1>4
  <2>2. Len(w) \in Nat /\ Len(w) # 0
    BY <1>4
  <2>4. (IF 2 <= Len(w) THEN Len(w) - 2 + 1 ELSE 0) = Len(w) - 1 /\ Len(w) - 2 + 1 = Len(w) - 1
    BY <2>2, FromSecond
  <2>3. \A i \in 1..(Len(w) - 1) : 2 + i - 1 = i + 1
    BY <1>4
  <2> QED BY <2>1, <2>2, <2>3, <2>4, <1>5
<1> QED BY <1>2, <1>6 DEF w

LEMMA LoadKeeps == ASSUME IInv, NEW id \in Ids, Load(id) PROVE IInv'
<1>1. Constructed(Stored(id), FALSE) \in Seq(Event)
  BY StoredType, ConstructedType DEF Load, Seedable
<1>2. sound' \in [Ids -> BOOLEAN]
  BY DEF Load, Unsound, IInv, TypeOK, Damaged
<1> QED BY <1>1, <1>2, EnterKeeps DEF Load

----------------------------------------------------------------------------
(* An append: what is logged is buffered, or drained with the buffer.      *)
LEMMA BufferedKeeps ==
    ASSUME IInv, NEW id \in Ids, NEW e \in Event, Buffered(id, e)
    PROVE  /\ lines' \in [Ids -> Seq(Record)] /\ buffer' \in [Ids -> Seq(Event)]
           /\ \A i \in Ids \ {id} : lines'[i] = lines[i] /\ buffer'[i] = buffer[i]
           /\ id \notin attached => lines'[id] = lines[id] /\ buffer'[id] = buffer[id]
           /\ id \in attached =>
                 \/ lines'[id] = lines[id] /\ buffer'[id] = Append(buffer[id], e)
                 \/ lines'[id] = lines[id] \o Append(buffer[id], e) /\ buffer'[id] = <<>>
<1> DEFINE filled == Append(buffer[id], e)
<1>1. filled \in Seq(Event)
  BY DEF IInv, TypeOK
<1>2. filled \in Seq(Record)
  BY <1>1, Records, SeqMonotonic
<1>3. lines[id] \o filled \in Seq(Record)
  BY <1>2 DEF IInv, TypeOK
<1>4. \/ id \notin attached /\ UNCHANGED <<buffer, lines>>
      \/ id \in attached /\ buffer' = [buffer EXCEPT ![id] = filled] /\ lines' = lines
      \/ id \in attached /\ lines' = [lines EXCEPT ![id] = lines[id] \o filled] /\ buffer' = [buffer EXCEPT ![id] = <<>>]
  BY DEF Buffered
<1> HIDE DEF filled
<1>5. /\ lines \in [Ids -> Seq(Record)] /\ buffer \in [Ids -> Seq(Event)] /\ <<>> \in Seq(Event)
  BY DEF IInv, TypeOK
<1>6. CASE id \notin attached /\ UNCHANGED <<buffer, lines>>
  BY <1>5, <1>6
<1>7. CASE id \in attached /\ buffer' = [buffer EXCEPT ![id] = filled] /\ lines' = lines
  BY <1>1, <1>5, <1>7 DEF filled
<1>8. CASE id \in attached /\ lines' = [lines EXCEPT ![id] = lines[id] \o filled] /\ buffer' = [buffer EXCEPT ![id] = <<>>]
  BY <1>3, <1>5, <1>8 DEF filled
<1> QED BY <1>4, <1>6, <1>7, <1>8

LEMMA AppendKeeps == ASSUME IInv, NEW id \in Ids, AppendEvent(id) PROVE IInv'
<1>1. PICK e \in Candidates(id, next[id]) :
        /\ Proper(id, e)
        /\ next' = [next EXCEPT ![id] = @ + 1]
        /\ IF Valid(e)
           THEN /\ log' = [log EXCEPT ![id] = Append(@, e)]
                /\ surface' = [surface EXCEPT ![id] = Fold(@, e)]
                /\ Buffered(id, e) /\ UNCHANGED sound
           ELSE sound' = [sound EXCEPT ![id] = FALSE] /\ UNCHANGED <<log, surface, buffer, lines>>
  BY DEF AppendEvent
<1>2. e \in Event
  <2>1. next[id] \in Nat /\ AppendKinds[id] \subseteq Kinds
    BY SessionAssumption DEF IInv, TypeOK
  <2>2. 0..next[id] \subseteq Nat /\ 0..(next[id] + 1) \subseteq Nat
    BY <2>1
  <2> QED BY <1>1, <2>1, <2>2 DEF Candidates, Event
<1>3. UNCHANGED <<entered, built, attached, present, tail, synced, crashes, base>>
  BY DEF AppendEvent
<1>4. next' \in [Ids -> Nat] /\ sound' \in [Ids -> BOOLEAN]
  <2>1. next' \in [Ids -> Nat]
    BY <1>1 DEF IInv, TypeOK
  <2>2. sound' = sound \/ sound' = [sound EXCEPT ![id] = FALSE]
    BY <1>1
  <2>3. sound' \in [Ids -> BOOLEAN]
    BY <2>2 DEF IInv, TypeOK
  <2> QED BY <2>1, <2>3
<1>5. CASE Valid(e)
  <2>0. log' = [log EXCEPT ![id] = Append(log[id], e)] /\ Buffered(id, e)
    BY <1>1, <1>5
  <2>1. /\ log' \in [Ids -> Seq(Event)] /\ log'[id] = Append(log[id], e) /\ log[id] \in Seq(Event)
        /\ \A i \in Ids \ {id} : log'[i] = log[i]
    BY <1>2, <2>0 DEF IInv, TypeOK
  <2>2. /\ lines' \in [Ids -> Seq(Record)] /\ buffer' \in [Ids -> Seq(Event)]
        /\ \A i \in Ids \ {id} : lines'[i] = lines[i] /\ buffer'[i] = buffer[i]
        /\ id \notin attached => lines'[id] = lines[id] /\ buffer'[id] = buffer[id]
        /\ id \in attached =>
              \/ lines'[id] = lines[id] /\ buffer'[id] = Append(buffer[id], e)
              \/ lines'[id] = lines[id] \o Append(buffer[id], e) /\ buffer'[id] = <<>>
    BY <1>2, <2>0, BufferedKeeps
  <2>3. TypeOK'
    BY <1>3, <1>4, <2>1, <2>2 DEF IInv, TypeOK
  <2>4. ASSUME NEW i \in Ids, i # id PROVE Tracked(i)'
    BY <1>3, <2>1, <2>2, <2>4 DEF IInv, Tracked
  <2>5. Tracked(id)'
    <3>1. /\ lines[id] \in Seq(Record) /\ buffer[id] \in Seq(Event) /\ buffer[id] \in Seq(Record)
          /\ base[id] \in Nat /\ built[id] \in Nat /\ synced[id] \in Nat /\ e \in Record
          /\ Len(lines[id]) \in Nat /\ Len(log[id]) \in Nat
      BY <1>2, Records, SeqMonotonic DEF IInv, TypeOK
    <3>2. Tracked(id)
      BY DEF IInv
    <3>3. Len(log'[id]) = Len(log[id]) + 1 /\ built[id] <= Len(log'[id])
      BY <1>2, <2>1, <3>1, <3>2, AppendProperties DEF Tracked
    <3>4. Append(buffer[id], e) \in Seq(Record)
      BY <3>1, AppendProperties
    <3>5. Len(lines'[id]) \in Nat /\ Len(lines[id]) <= Len(lines'[id])
      <4>1. Len(lines[id] \o Append(buffer[id], e)) = Len(lines[id]) + Len(Append(buffer[id], e))
        BY <3>1, <3>4, ConcatProperties
      <4>2. Len(Append(buffer[id], e)) \in Nat
        BY <3>4
      <4>3. CASE lines'[id] = lines[id]
        BY <3>1, <4>3
      <4>4. CASE lines'[id] = lines[id] \o Append(buffer[id], e)
        <5> DEFINE n == Len(lines[id])
                   k == Len(Append(buffer[id], e))
        <5>1. Len(lines'[id]) = n + k /\ n \in Nat /\ k \in Nat
          BY <3>1, <4>1, <4>2, <4>4
        <5> HIDE DEF n, k
        <5>2. Len(lines'[id]) \in Nat /\ n <= Len(lines'[id])
          BY <5>1
        <5> QED BY <5>2 DEF n
      <4> QED BY <2>2, <4>3, <4>4
    <3>6. ASSUME id \in attached
          PROVE  Rest(lines'[id], base[id]) \o buffer'[id] = Rest(log'[id], built[id])
      <4>1. base[id] \in 0..Len(lines[id]) /\ built[id] \in 0..Len(log[id])
        BY <3>1, <3>2, <3>6 DEF Tracked
      <4>2. Rest(log'[id], built[id]) = Append(Rest(log[id], built[id]), e)
        BY <1>2, <2>1, <4>1, RestOfAppend
      <4>3. Rest(lines[id], base[id]) \in Seq(Record)
        BY <3>1, <4>1, RestType
      <4>4. Rest(lines[id], base[id]) \o Append(buffer[id], e) = Append(Rest(lines[id], base[id]) \o buffer[id], e)
        <5> DEFINE r == Rest(lines[id], base[id])
        <5>1. r \in Seq(Record)
          BY <4>3
        <5> HIDE DEF r
        <5>2. r \o Append(buffer[id], e) = Append(r \o buffer[id], e)
          BY <3>1, <5>1, ConcatAppend, SMTT(40)
        <5> QED BY <5>2 DEF r
      <4>5. Rest(lines[id], base[id]) \o Append(buffer[id], e) = Rest(log'[id], built[id])
        BY <3>2, <3>6, <4>2, <4>4 DEF Tracked
      <4>6. CASE lines'[id] = lines[id] /\ buffer'[id] = Append(buffer[id], e)
        BY <4>5, <4>6
      <4>7. CASE lines'[id] = lines[id] \o Append(buffer[id], e) /\ buffer'[id] = <<>>
        <5>1. Rest(lines'[id], base[id]) = Rest(lines[id], base[id]) \o Append(buffer[id], e)
          BY <3>1, <3>4, <4>1, <4>7, RestOfConcat
        <5>2. Rest(lines'[id], base[id]) \in Seq(Record)
          BY <4>3, <3>4, <5>1, ConcatProperties
        <5>3. Rest(lines'[id], base[id]) \o <<>> = Rest(lines'[id], base[id])
          BY <5>2, ConcatEmptySeq
        <5> QED BY <4>5, <4>7, <5>1, <5>3
      <4> QED BY <2>2, <3>6, <4>6, <4>7
    <3>7. id \notin present => id \notin attached
      BY DEF IInv, TypeOK
    <3>8. base[id] <= Len(lines[id]) => base[id] <= Len(lines'[id])
      BY <3>1, <3>5
    <3>9. synced[id] <= Len(lines'[id])
      BY <3>1, <3>2, <3>5 DEF Tracked
    <3> QED BY <1>3, <2>2, <3>2, <3>3, <3>6, <3>7, <3>8, <3>9 DEF Tracked
  <2> QED BY <2>3, <2>4, <2>5 DEF IInv
<1>6. CASE ~Valid(e)
  <2>1. UNCHANGED <<log, buffer, lines>>
    BY <1>1, <1>6
  <2>2. TypeOK'
    BY <1>3, <1>4, <2>1 DEF IInv, TypeOK
  <2>3. ASSUME NEW i \in Ids PROVE Tracked(i)'
    BY <1>3, <2>1 DEF IInv, Tracked
  <2> QED BY <2>2, <2>3 DEF IInv
<1> QED BY <1>5, <1>6

----------------------------------------------------------------------------
(* A flush of attached sessions, which a disposal and a reload end with.   *)
LEMMA FlushedFacts ==
    ASSUME IInv, NEW S \in SUBSET attached, Flushed(S)
    PROVE  /\ lines' \in [Ids -> Seq(Record)] /\ synced' \in [Ids -> Nat] /\ buffer' \in [Ids -> Seq(Event)]
           /\ \A i \in S : /\ lines'[i] = lines[i] \o buffer[i] /\ synced'[i] = Len(lines'[i])
                           /\ buffer'[i] = <<>>
           /\ \A i \in Ids \ S : lines'[i] = lines[i] /\ synced'[i] = synced[i] /\ buffer'[i] = buffer[i]
<1>1. S \subseteq Ids
  BY DEF IInv, TypeOK
<1>2. ASSUME NEW i \in Ids
      PROVE  lines[i] \in Seq(Record) /\ lines[i] \o buffer[i] \in Seq(Record)
  <2>1. lines[i] \in Seq(Record) /\ buffer[i] \in Seq(Record)
    BY Records, SeqMonotonic DEF IInv, TypeOK
  <2> QED BY <2>1, ConcatProperties
<1>3. lines' \in [Ids -> Seq(Record)]
  BY <1>2 DEF Flushed
<1>4. \A i \in Ids : Len(lines'[i]) \in Nat
  BY <1>3
<1>5. synced' \in [Ids -> Nat]
  BY <1>4 DEF Flushed, IInv, TypeOK
<1>6. <<>> \in Seq(Event)
  OBVIOUS
<1>7. buffer' \in [Ids -> Seq(Event)]
  BY <1>6 DEF Flushed, IInv, TypeOK
<1>8. \A i \in S : lines'[i] = lines[i] \o buffer[i] /\ synced'[i] = Len(lines'[i]) /\ buffer'[i] = <<>>
  BY <1>1 DEF Flushed
<1>9. \A i \in Ids \ S : lines'[i] = lines[i] /\ synced'[i] = synced[i] /\ buffer'[i] = buffer[i]
  BY DEF Flushed
<1> QED BY <1>3, <1>5, <1>7, <1>8, <1>9

(* The sessions of keep stay attached, with their logs.                    *)
LEMMA FlushKeepsTracked ==
    ASSUME IInv, NEW S \in SUBSET attached, Flushed(S), UNCHANGED <<present, tail>>, NEW i \in Ids,
           \/ /\ log'[i] = log[i] /\ built'[i] = built[i] /\ base'[i] = base[i]
              /\ (i \in attached') = (i \in attached)
           \/ /\ i \notin attached' /\ (i \in attached => i \in S)
              /\ built'[i] <= Len(log'[i])
    PROVE  Tracked(i)'
<1>1. Tracked(i) /\ (i \in attached => i \in present)
  BY DEF IInv, TypeOK
<1>2. /\ lines[i] \in Seq(Record) /\ buffer[i] \in Seq(Record) /\ Len(lines[i]) \in Nat
      /\ Len(buffer[i]) \in Nat /\ base[i] \in Nat
  BY Records, SeqMonotonic DEF IInv, TypeOK
<1>3. CASE i \in S
  <2>1. /\ lines'[i] = lines[i] \o buffer[i] /\ synced'[i] = Len(lines'[i]) /\ buffer'[i] = <<>>
    BY <1>3, FlushedFacts
  <2>2. lines'[i] \in Seq(Record) /\ Len(lines'[i]) \in Nat /\ \A n \in 0..Len(lines[i]) : n <= Len(lines'[i])
    BY <1>2, <2>1, ConcatLonger
  <2>3. i \in attached /\ i \in present
    BY <1>1, <1>3
  <2>4. base[i] \in 0..Len(lines[i])
    BY <1>1, <1>2, <2>3 DEF Tracked
  <2>5. Rest(lines'[i], base[i]) = Rest(lines[i], base[i]) \o buffer[i]
    BY <1>2, <2>1, <2>4, RestOfConcat, ZenonT(60)
  <2>6. Rest(lines'[i], base[i]) \o buffer'[i] = Rest(lines[i], base[i]) \o buffer[i]
    <3>1. Rest(lines'[i], base[i]) \in Seq(Record)
      <4>1. base[i] \in 0..Len(lines'[i])
        BY <2>2, <2>4
      <4> QED BY <2>2, <4>1, RestType
    <3>2. Rest(lines'[i], base[i]) \o <<>> = Rest(lines'[i], base[i])
      BY <3>1, ConcatEmptySeq
    <3> QED BY <2>1, <2>5, <3>2
  <2>7. base[i] <= Len(lines'[i]) /\ synced'[i] <= Len(lines'[i])
    <3>1. base[i] <= Len(lines'[i])
      BY <2>2, <2>4
    <3> DEFINE n == Len(lines'[i])
    <3>2. n \in Nat /\ synced'[i] = n
      BY <2>1, <2>2
    <3> HIDE DEF n
    <3>3. synced'[i] <= n
      BY <3>2
    <3> QED BY <3>1, <3>3 DEF n
  <2> QED BY <1>1, <2>1, <2>3, <2>6, <2>7 DEF Tracked
<1>4. CASE i \notin S
  <2>1. lines'[i] = lines[i] /\ synced'[i] = synced[i] /\ buffer'[i] = buffer[i]
    BY <1>4, FlushedFacts
  <2> QED BY <1>1, <1>4, <2>1 DEF Tracked
<1> QED BY <1>3, <1>4

LEMMA FlushKeeps == ASSUME IInv, NEW id \in Ids, Flush(id) PROVE IInv'
<1>1. {id} \in SUBSET attached /\ Flushed({id})
  BY DEF Flush
<1>2. UNCHANGED <<entered, log, next, built, attached, present, tail, crashes, base, sound>>
  BY DEF Flush, memory
<1>3. TypeOK'
  BY <1>1, <1>2, FlushedFacts DEF IInv, TypeOK
<1>4. ASSUME NEW i \in Ids PROVE Tracked(i)'
  BY <1>1, <1>2, FlushKeepsTracked
<1> QED BY <1>3, <1>4 DEF IInv

LEMMA DisposeKeeps == ASSUME IInv, NEW id \in Ids, Dispose(id) PROVE IInv'
<1>1. {id} \cap attached \in SUBSET attached /\ Flushed({id} \cap attached)
  BY DEF Dispose
<1>2. UNCHANGED <<present, tail, crashes, sound>> /\ attached' = attached \ {id} /\ entered' = entered \ {id}
  BY DEF Dispose
<1>3. <<>> \in Seq(Event) /\ Len(<<>>) = 0
  OBVIOUS
<1>4. /\ log' \in [Ids -> Seq(Event)] /\ next' \in [Ids -> Nat] /\ built' \in [Ids -> Nat] /\ base' \in [Ids -> Nat]
      /\ log'[id] = <<>> /\ built'[id] = 0
      /\ \A i \in Ids \ {id} : log'[i] = log[i] /\ built'[i] = built[i] /\ base'[i] = base[i]
  BY <1>3 DEF Dispose, IInv, TypeOK
<1>5. TypeOK'
  BY <1>1, <1>2, <1>4, FlushedFacts DEF IInv, TypeOK
<1>6. Tracked(id)'
  <2>1. id \notin attached' /\ (id \in attached => id \in {id} \cap attached) /\ built'[id] <= Len(log'[id])
    BY <1>2, <1>3, <1>4
  <2> QED BY <1>1, <1>2, <2>1, FlushKeepsTracked
<1>7. ASSUME NEW i \in Ids, i # id PROVE Tracked(i)'
  <2>1. /\ log'[i] = log[i] /\ built'[i] = built[i] /\ base'[i] = base[i]
        /\ (i \in attached') = (i \in attached)
    BY <1>2, <1>4, <1>7
  <2> QED BY <1>1, <1>2, <2>1, FlushKeepsTracked
<1> QED BY <1>5, <1>6, <1>7 DEF IInv

LEMMA RemountKeeps == ASSUME IInv, Remount PROVE IInv'
<1>1. attached \in SUBSET attached /\ Flushed(attached)
  BY DEF Remount
<1>2. UNCHANGED <<entered, log, next, built, present, tail, crashes, sound>> /\ attached' = {}
  BY DEF Remount, memory
<1>3. base' \in [Ids -> Nat]
  BY DEF Remount
<1>4. TypeOK'
  BY <1>1, <1>2, <1>3, FlushedFacts DEF IInv, TypeOK
<1>5. ASSUME NEW i \in Ids PROVE Tracked(i)'
  <2>1. built'[i] <= Len(log'[i])
    BY <1>2 DEF IInv, Tracked
  <2> QED BY <1>1, <1>2, <2>1, FlushKeepsTracked
<1> QED BY <1>4, <1>5 DEF IInv

----------------------------------------------------------------------------
(* A crash: of each file a prefix of what was written or was being written *)
(* is left, at least what was synced, and all that was there if the power  *)
(* stayed.                                                                 *)
LEMMA ImagesFacts ==
    ASSUME NEW s \in Seq(Record), NEW least \in Nat, NEW left \in Images(s, least)
    PROVE  /\ left.lines \in Seq(Record) /\ left.tail \in Tails
           /\ Len(left.lines) \in least..Len(s) /\ left.lines = SubSeq(s, 1, Len(left.lines))
           /\ s = <<>> => left.lines = <<>> /\ left.tail = Nothing
<1>1. PICK n \in least..Len(s), t \in {"none", "part", "whole"} : left = Image(s, n, t)
  BY DEF Images
<1>2. n \in 0..Len(s) /\ Len(s) \in Nat
  BY <1>1
<1>3. /\ left.lines = SubSeq(s, 1, n) /\ left.tail \in Tails
      /\ SubSeq(s, 1, n) \in Seq(Record) /\ Len(SubSeq(s, 1, n)) = n
  BY <1>1, <1>2, ImageType
<1>4. ASSUME s = <<>> PROVE left.lines = <<>> /\ left.tail = Nothing
  <2>1. Len(s) = 0
    BY <1>4
  <2>2. n = 0 /\ ~(n < Len(s))
    BY <1>2, <2>1
  <2>3. left.tail = Nothing
    BY <1>1, <2>2 DEF Image
  <2>4. left.lines = <<>>
    BY <1>3, <2>2, SubSeqEmpty
  <2> QED BY <2>3, <2>4
<1>5. Len(left.lines) = n
  BY <1>3
<1> QED BY <1>2, <1>3, <1>4, <1>5

LEMMA RemainsFacts ==
    ASSUME IInv, NEW i \in Ids, NEW writing \in BOOLEAN, NEW power \in BOOLEAN,
           NEW left \in Remains(i, writing, power)
    PROVE  /\ left.lines \in Seq(Record) /\ left.tail \in Tails
           /\ left.lines = SubSeq(lines[i] \o buffer[i], 1, Len(left.lines))
           /\ Len(left.lines) \in synced[i]..Len(lines[i] \o buffer[i])
           /\ ~power => Len(lines[i]) <= Len(left.lines)
           /\ i \notin present => left.lines = <<>> /\ left.tail = Nothing
<1> DEFINE all == lines[i] \o buffer[i]
           least == IF power THEN synced[i] ELSE Len(lines[i])
<1>1. /\ lines[i] \in Seq(Record) /\ buffer[i] \in Seq(Record) /\ synced[i] \in Nat /\ tail[i] \in Tails
      /\ Len(lines[i]) \in Nat
  BY Records, SeqMonotonic DEF IInv, TypeOK
<1>2. /\ all \in Seq(Record) /\ Len(all) \in Nat /\ Len(lines[i]) <= Len(all)
      /\ SubSeq(all, 1, Len(all)) = all
  <2>1. /\ all \in Seq(Record) /\ Len(all) \in Nat /\ \A n \in 0..Len(lines[i]) : n <= Len(all)
    BY <1>1, ConcatLonger
  <2> HIDE DEF all
  <2>2. Len(lines[i]) \in 0..Len(lines[i])
    BY <1>1
  <2> QED BY <2>1, <2>2, SubSeqFull
<1>3. Tracked(i)
  BY DEF IInv
<1>4. i \notin present => lines[i] = <<>> /\ buffer[i] = <<>> /\ tail[i] = Nothing
  BY <1>3 DEF IInv, TypeOK, Tracked
<1>5. i \notin present => all = <<>>
  BY <1>4
<1>6. synced[i] <= Len(lines[i])
  BY <1>3 DEF Tracked
<1>7. least \in Nat /\ synced[i] <= least /\ (~power => least = Len(lines[i])) /\ least <= Len(lines[i])
  BY <1>1, <1>6
<1>8. \A n \in 0..Len(lines[i]) : SubSeq(lines[i], 1, n) = SubSeq(all, 1, n)
  BY <1>1, PrefixOfConcat, ZenonT(60)
<1>9. SubSeq(lines[i], 1, Len(lines[i])) = lines[i]
  BY <1>1, SubSeqFull
<1>10. left \in Images(all, least) \/ left \in Images(lines[i], least) \/ left = AsIs(i)
  BY DEF Remains
<1> HIDE DEF all, least
<1>11. CASE left \in Images(all, least)
  <2>1. /\ left.lines \in Seq(Record) /\ left.tail \in Tails
        /\ Len(left.lines) \in least..Len(all) /\ left.lines = SubSeq(all, 1, Len(left.lines))
        /\ all = <<>> => left.lines = <<>> /\ left.tail = Nothing
    BY <1>2, <1>7, <1>11, ImagesFacts
  <2> DEFINE n == Len(left.lines)
  <2>2. n \in least..Len(all)
    BY <2>1
  <2> HIDE DEF n
  <2>3. n \in synced[i]..Len(all) /\ (~power => Len(lines[i]) <= n)
    BY <1>1, <1>2, <1>7, <2>2
  <2> QED BY <1>5, <2>1, <2>3 DEF n, all
<1>12. CASE left \in Images(lines[i], least)
  <2>1. /\ left.lines \in Seq(Record) /\ left.tail \in Tails
        /\ Len(left.lines) \in least..Len(lines[i]) /\ left.lines = SubSeq(lines[i], 1, Len(left.lines))
        /\ lines[i] = <<>> => left.lines = <<>> /\ left.tail = Nothing
    BY <1>1, <1>7, <1>12, ImagesFacts
  <2> DEFINE n == Len(left.lines)
  <2>2. n \in least..Len(lines[i]) /\ left.lines = SubSeq(lines[i], 1, n)
    BY <2>1
  <2> HIDE DEF n
  <2>3. /\ n \in synced[i]..Len(all) /\ (~power => Len(lines[i]) <= n)
        /\ n \in 0..Len(lines[i])
    BY <1>1, <1>2, <1>7, <2>2
  <2>4. left.lines = SubSeq(all, 1, n)
    BY <1>8, <2>2, <2>3
  <2> QED BY <1>4, <2>1, <2>3, <2>4 DEF n, all
<1>13. CASE left = AsIs(i)
  <2>1. left.lines = lines[i] /\ left.tail = tail[i]
    BY <1>13 DEF AsIs
  <2>2. Len(lines[i]) \in synced[i]..Len(all) /\ Len(lines[i]) <= Len(lines[i]) /\ Len(lines[i]) \in 0..Len(lines[i])
    BY <1>1, <1>2, <1>6
  <2>3. lines[i] = SubSeq(all, 1, Len(lines[i]))
    BY <1>8, <1>9, <2>2
  <2> QED BY <1>1, <1>4, <2>1, <2>2, <2>3 DEF all
<1> QED BY <1>10, <1>11, <1>12, <1>13

LEMMA CrashFacts ==
    ASSUME IInv, NEW power \in BOOLEAN, NEW busy \in {{}} \cup {{i} : i \in attached}, Crash(power, busy)
    PROVE  /\ lines' \in [Ids -> Seq(Record)] /\ tail' \in [Ids -> Tails] /\ synced' \in [Ids -> Nat]
           /\ \A i \in Ids :
                /\ lines'[i] = SubSeq(lines[i] \o buffer[i], 1, Len(lines'[i]))
                /\ Len(lines'[i]) \in synced[i]..Len(lines[i] \o buffer[i])
                /\ ~power => Len(lines[i]) <= Len(lines'[i])
                /\ i \notin present => lines'[i] = <<>> /\ tail'[i] = Nothing
                /\ synced'[i] = IF power THEN Len(lines'[i]) ELSE synced[i]
<1>1. PICK left \in [Ids -> UNION {Remains(i, i \in busy, power) : i \in Ids}] :
        /\ \A i \in Ids : left[i] \in Remains(i, i \in busy, power)
        /\ lines' = [i \in Ids |-> left[i].lines] /\ tail' = [i \in Ids |-> left[i].tail]
  BY DEF Crash
<1>2. ASSUME NEW i \in Ids
      PROVE  /\ left[i].lines \in Seq(Record) /\ left[i].tail \in Tails
             /\ left[i].lines = SubSeq(lines[i] \o buffer[i], 1, Len(left[i].lines))
             /\ Len(left[i].lines) \in synced[i]..Len(lines[i] \o buffer[i])
             /\ ~power => Len(lines[i]) <= Len(left[i].lines)
             /\ i \notin present => left[i].lines = <<>> /\ left[i].tail = Nothing
  <2>1. (i \in busy) \in BOOLEAN
    OBVIOUS
  <2>2. left[i] \in Remains(i, i \in busy, power)
    BY <1>1
  <2> QED BY <2>1, <2>2, RemainsFacts
<1>3. \A i \in Ids : lines'[i] = left[i].lines /\ tail'[i] = left[i].tail
  BY <1>1
<1>4. lines' \in [Ids -> Seq(Record)] /\ tail' \in [Ids -> Tails]
  BY <1>1, <1>2
<1>5. synced' = [i \in Ids |-> IF power THEN Len(lines'[i]) ELSE synced[i]]
  BY DEF Crash
<1>6. synced' \in [Ids -> Nat]
  <2>1. \A i \in Ids : Len(lines'[i]) \in Nat
    BY <1>4
  <2> QED BY <1>5, <2>1 DEF IInv, TypeOK
<1> QED BY <1>2, <1>3, <1>4, <1>5, <1>6

LEMMA CrashKeeps ==
    ASSUME IInv, NEW power \in BOOLEAN, NEW busy \in {{}} \cup {{i} : i \in attached}, Crash(power, busy)
    PROVE  IInv'
<1>1. /\ entered' = {} /\ attached' = {} /\ crashes' = crashes + 1
      /\ log' = [i \in Ids |-> <<>>] /\ next' = [i \in Ids |-> 0] /\ built' = [i \in Ids |-> 0]
      /\ buffer' = [i \in Ids |-> <<>>] /\ base' = [i \in Ids |-> 0]
  BY DEF Crash, Restarted
<1>2. PICK lost \in SUBSET {i \in present : power /\ synced[i] = 0 /\ lines'[i] = <<>> /\ tail'[i] = Nothing} :
        present' = present \ lost
  BY DEF Crash
<1>3. sound' \in [Ids -> BOOLEAN]
  <2>1. sound' = [i \in Ids |-> sound[i] \/ i \notin present']
    BY DEF Crash
  <2>2. \A i \in Ids : (sound[i] \/ i \notin present') \in BOOLEAN
    OBVIOUS
  <2> QED BY <2>1, <2>2
<1>4. TypeOK'
  <2>1. log' \in [Ids -> Seq(Event)] /\ buffer' \in [Ids -> Seq(Event)]
    BY <1>1
  <2>2. next' \in [Ids -> Nat] /\ built' \in [Ids -> Nat] /\ base' \in [Ids -> Nat] /\ crashes' \in Nat
    BY <1>1 DEF IInv, TypeOK
  <2>3. entered' \subseteq Ids /\ attached' \subseteq entered' /\ attached' \subseteq present' /\ present' \subseteq Ids
    BY <1>1, <1>2 DEF IInv, TypeOK
  <2> QED BY <1>3, <2>1, <2>2, <2>3, CrashFacts DEF TypeOK
<1>5. ASSUME NEW i \in Ids PROVE Tracked(i)'
  <2>1. /\ i \notin attached' /\ buffer'[i] = <<>> /\ built'[i] = 0 /\ log'[i] = <<>> /\ Len(<<>>) = 0
    BY <1>1
  <2>2. /\ Len(lines'[i]) \in synced[i]..Len(lines[i] \o buffer[i])
        /\ i \notin present => lines'[i] = <<>> /\ tail'[i] = Nothing
        /\ synced'[i] = IF power THEN Len(lines'[i]) ELSE synced[i]
    BY CrashFacts
  <2>5. lines'[i] \in Seq(Record)
    BY CrashFacts
  <2>6. Len(lines'[i]) \in Nat
    BY <2>5
  <2>3. synced'[i] <= Len(lines'[i])
    <3> DEFINE n == Len(lines'[i])
    <3>1. n \in Nat /\ synced[i] <= n /\ synced'[i] = IF power THEN n ELSE synced[i]
      BY <2>2, <2>6 DEF IInv, TypeOK
    <3> HIDE DEF n
    <3>2. synced'[i] <= n
      BY <3>1
    <3> QED BY <3>2 DEF n
  <2>4. i \notin present' => lines'[i] = <<>> /\ tail'[i] = Nothing /\ synced'[i] = 0
    <3>1. CASE i \notin present
      <4>1. synced[i] = 0
        BY <3>1 DEF IInv, Tracked
      <4> QED BY <2>1, <2>2, <3>1, <4>1
    <3>2. CASE i \in present /\ i \in lost
      BY <1>2, <2>1, <2>2, <3>2
    <3>3. CASE i \in present /\ i \notin lost
      BY <1>2, <3>3
    <3> QED BY <3>1, <3>2, <3>3
  <2> QED BY <2>1, <2>3, <2>4 DEF Tracked
<1> QED BY <1>4, <1>5 DEF IInv

(* A crash that interrupts attach().                                       *)
LEMMA CrashOpeningFacts ==
    ASSUME IInv, NEW id \in Ids, CrashOpening(id)
    PROVE  /\ lines' \in [Ids -> Seq(Record)] /\ tail' \in [Ids -> Tails]
           /\ \A i \in Ids \ {id} : lines'[i] = lines[i] /\ tail'[i] = tail[i] /\ synced'[i] = synced[i]
           /\ id \in present => /\ lines'[id] = SubSeq(lines[id], 1, Len(lines'[id]))
                                /\ Len(lines'[id]) \in 0..Len(lines[id])
           /\ id \notin present => \/ lines'[id] = <<>>
                                   \/ lines'[id] = <<Header>>
           /\ synced' \in [Ids -> Nat] /\ synced'[id] = 0
           /\ id \notin attached /\ id \in present'
<1> DEFINE file == IF id \in present THEN lines[id] ELSE <<Header>>
<1>1. PICK left \in Images(file, 0) :
        lines' = [lines EXCEPT ![id] = left.lines] /\ tail' = [tail EXCEPT ![id] = left.tail]
  BY DEF CrashOpening, RemainsOpening
<1>2. file \in Seq(Record)
  BY Records DEF IInv, TypeOK
<1> HIDE DEF file
<1>3. /\ left.lines \in Seq(Record) /\ left.tail \in Tails
      /\ Len(left.lines) \in 0..Len(file) /\ left.lines = SubSeq(file, 1, Len(left.lines))
  BY <1>1, <1>2, ImagesFacts
<1>4. /\ lines' \in [Ids -> Seq(Record)] /\ tail' \in [Ids -> Tails] /\ lines'[id] = left.lines
      /\ \A i \in Ids \ {id} : lines'[i] = lines[i] /\ tail'[i] = tail[i]
  BY <1>1, <1>3 DEF IInv, TypeOK
<1>5. synced' \in [Ids -> Nat] /\ synced'[id] = 0 /\ \A i \in Ids \ {id} : synced'[i] = synced[i]
  BY DEF CrashOpening, IInv, TypeOK
<1>6. id \in present => /\ lines'[id] = SubSeq(lines[id], 1, Len(lines'[id]))
                        /\ Len(lines'[id]) \in 0..Len(lines[id])
  BY <1>3, <1>4 DEF file
<1>7. id \notin present => lines'[id] = <<>> \/ lines'[id] = <<Header>>
  <2>1. SUFFICES ASSUME id \notin present PROVE lines'[id] = <<>> \/ lines'[id] = <<Header>>
    OBVIOUS
  <2>2. file = <<Header>> /\ Len(<<Header>>) = 1
    BY <2>1 DEF file
  <2>3. Len(left.lines) = 0 \/ Len(left.lines) = 1
    BY <1>3, <2>2
  <2>4. Len(left.lines) = 0 => left.lines = <<>>
    BY <1>3, SubSeqEmpty
  <2>5. Len(left.lines) = 1 => left.lines = <<Header>>
    BY <1>2, <1>3, <2>2, SubSeqFull
  <2> QED BY <1>4, <2>3, <2>4, <2>5
<1>8. id \notin attached /\ id \in present'
  BY DEF CrashOpening, Opening
<1> QED BY <1>4, <1>5, <1>6, <1>7, <1>8

LEMMA CrashOpeningKeeps == ASSUME IInv, NEW id \in Ids, CrashOpening(id) PROVE IInv'
<1>1. /\ entered' = {} /\ attached' = {} /\ crashes' = crashes + 1
      /\ log' = [i \in Ids |-> <<>>] /\ next' = [i \in Ids |-> 0] /\ built' = [i \in Ids |-> 0]
      /\ buffer' = [i \in Ids |-> <<>>] /\ base' = [i \in Ids |-> 0]
      /\ present' = present \cup {id} /\ sound' = sound
  BY DEF CrashOpening, Restarted
<1>2. TypeOK'
  <2>1. log' \in [Ids -> Seq(Event)] /\ buffer' \in [Ids -> Seq(Event)]
    BY <1>1
  <2>2. next' \in [Ids -> Nat] /\ built' \in [Ids -> Nat] /\ base' \in [Ids -> Nat] /\ crashes' \in Nat
    BY <1>1 DEF IInv, TypeOK
  <2>3. /\ entered' \subseteq Ids /\ attached' \subseteq entered' /\ attached' \subseteq present' /\ present' \subseteq Ids
        /\ sound' \in [Ids -> BOOLEAN]
    BY <1>1 DEF IInv, TypeOK
  <2> QED BY <2>1, <2>2, <2>3, CrashOpeningFacts DEF TypeOK
<1>3. ASSUME NEW i \in Ids PROVE Tracked(i)'
  <2>1. /\ i \notin attached' /\ buffer'[i] = <<>> /\ built'[i] = 0 /\ log'[i] = <<>> /\ Len(<<>>) = 0
    BY <1>1
  <2>2. CASE i = id
    <3>1. i \in present' /\ synced'[i] = 0
      BY <2>2, CrashOpeningFacts
    <3>2. lines'[i] \in Seq(Record)
      BY CrashOpeningFacts
    <3>3. synced'[i] <= Len(lines'[i])
      BY <3>1, <3>2
    <3> QED BY <2>1, <3>1, <3>3 DEF Tracked
  <2>3. CASE i # id
    <3>1. lines'[i] = lines[i] /\ tail'[i] = tail[i] /\ synced'[i] = synced[i]
      BY <2>3, CrashOpeningFacts
    <3>2. Tracked(i) /\ (i \notin present' => i \notin present)
      BY <1>1 DEF IInv
    <3> QED BY <2>1, <3>1, <3>2 DEF Tracked
  <2> QED BY <2>2, <2>3
<1> QED BY <1>2, <1>3 DEF IInv

----------------------------------------------------------------------------
LEMMA StepKeeps == IInv /\ [Next]_vars => IInv'
<1> SUFFICES ASSUME IInv, [Next]_vars PROVE IInv'
  OBVIOUS
<1>1. ASSUME NEW id \in Ids, Create(id) PROVE IInv'
  BY <1>1, CreateKeeps
<1>2. ASSUME NEW id \in Ids, NEW parent \in Ids, NEW cut \in 0..MaxLog, Fork(parent, id, cut) PROVE IInv'
  BY <1>2, ForkKeeps
<1>3. ASSUME NEW id \in Ids, Load(id) PROVE IInv'
  BY <1>3, LoadKeeps
<1>4. ASSUME NEW id \in Ids, AppendEvent(id) PROVE IInv'
  BY <1>4, AppendKeeps
<1>5. ASSUME NEW id \in Ids, Flush(id) PROVE IInv'
  BY <1>5, FlushKeeps
<1>6. ASSUME NEW id \in Ids, Dispose(id) PROVE IInv'
  BY <1>6, DisposeKeeps
<1>7. CASE Remount
  BY <1>7, RemountKeeps
<1>8. ASSUME NEW power \in BOOLEAN, NEW busy \in {{}} \cup {{i} : i \in attached}, Crash(power, busy) PROVE IInv'
  BY <1>8, CrashKeeps
<1>9. ASSUME NEW id \in Ids, CrashOpening(id) PROVE IInv'
  BY <1>9, CrashOpeningKeeps
<1>10. CASE UNCHANGED vars
  <2>1. TypeOK'
    BY <1>10 DEF IInv, TypeOK, vars, memory, disk
  <2>2. ASSUME NEW i \in Ids PROVE Tracked(i)'
    BY <1>10 DEF IInv, Tracked, vars, memory, disk
  <2> QED BY <2>1, <2>2 DEF IInv
<1> QED BY <1>1, <1>2, <1>3, <1>4, <1>5, <1>6, <1>7, <1>8, <1>9, <1>10 DEF Next

LEMMA AlwaysIInv == Spec => []IInv
<1>1. Init => IInv
  BY Initially
<1>2. IInv /\ [Next]_vars => IInv'
  BY StepKeeps
<1> QED BY <1>1, <1>2, PTL DEF Spec

(* Sessions, files and buffers keep their types, and a writer its session  *)
(* and its file, whatever is created, loaded, forked, closed or crashes.   *)
(* (session_store, jsonl_backend.)                                         *)
THEOREM TypeCorrect == Spec => []TypeOK
<1>1. IInv => TypeOK
  BY DEF IInv
<1> QED BY <1>1, AlwaysIInv, PTL

(* What a writer has stored and buffered is, for every number of sessions, *)
(* events and crashes, exactly what its session has published since it was *)
(* attached.  (session_appended_msg to jsonl_backend::append and drain.)   *)
THEOREM WriterTracks == Spec => []WriterTracksLog
<1>1. IInv => WriterTracksLog
  BY DEF IInv, TypeOK, Tracked, WriterTracksLog, Rest
<1> QED BY <1>1, AlwaysIInv, PTL

----------------------------------------------------------------------------
(* Sound stored logs                                                       *)

(* A header, then events numbered from 0: a prefix of one is one.          *)
Numbered(s) ==
    /\ s # <<>> => s[1] = Header
    /\ \A k \in 2..Len(s) : s[k].seq = k - 2

(* What SoundStored needs to be inductive: what is still buffered belongs  *)
(* to the numbering too, and the next event carries it on.                 *)
Stocked(i) ==
    sound[i] /\ i \in present =>
        /\ Numbered(lines[i] \o buffer[i])
        /\ i \in attached => lines[i] # <<>> /\ next[i] + 1 = Len(lines[i] \o buffer[i])

SoundInv == \A i \in Ids : Stocked(i)

LEMMA NumberedPrefix ==
    ASSUME NEW s \in Seq(Record), Numbered(s), NEW n \in 0..Len(s)
    PROVE  Numbered(SubSeq(s, 1, n))
<1> DEFINE t == SubSeq(s, 1, n)
<1>1. t \in Seq(Record) /\ Len(t) = n /\ Len(s) \in Nat /\ n \in Nat /\ n <= Len(s)
  BY PrefixOfConcat
<1>2. \A k \in 1..n : t[k] = s[k]
  BY <1>1
<1> HIDE DEF t
<1>3. ASSUME t # <<>> PROVE t[1] = Header
  <2>1. n >= 1
    BY <1>1, <1>3
  <2>2. s # <<>> /\ 1 \in 1..n
    BY <1>1, <2>1
  <2> QED  BY <1>2, <2>2 DEF Numbered
<1>4. ASSUME NEW k \in 2..Len(t) PROVE t[k].seq = k - 2
  <2>1. k \in 1..n /\ k \in 2..Len(s)
    BY <1>1
  <2> QED  BY <1>2, <2>1 DEF Numbered
<1>5. Numbered(t)
  BY <1>3, <1>4 DEF Numbered
<1> QED  BY <1>5 DEF t

LEMMA NumberedMore ==
    ASSUME NEW s \in Seq(Record), s # <<>>, Numbered(s), NEW e \in Event, e.seq + 1 = Len(s)
    PROVE  Numbered(Append(s, e)) /\ Append(s, e) \in Seq(Record) /\ Len(Append(s, e)) = Len(s) + 1
<1> DEFINE t == Append(s, e)
<1>1. e \in Record /\ e.seq \in Nat /\ Len(s) \in Nat /\ Len(s) # 0
  BY Records DEF Event
<1>2. /\ t \in Seq(Record) /\ Len(t) = Len(s) + 1 /\ t[Len(s) + 1] = e
      /\ \A k \in 1..Len(s) : t[k] = s[k]
  BY <1>1, AppendProperties
<1> HIDE DEF t
<1>3. t[1] = Header
  <2>1. 1 \in 1..Len(s)
    BY <1>1
  <2> QED  BY <1>2, <2>1 DEF Numbered
<1>4. ASSUME NEW k \in 2..Len(t) PROVE t[k].seq = k - 2
  <2>1. CASE k \in 2..Len(s)
    <3>1. t[k] = s[k] /\ s[k].seq = k - 2
      BY <1>1, <1>2, <2>1 DEF Numbered
    <3> QED  BY <3>1
  <2>2. CASE k = Len(s) + 1
    <3>1. t[k] = e /\ e.seq = k - 2
      BY <1>1, <1>2, <2>2
    <3> QED  BY <3>1
  <2> QED  BY <1>1, <1>2, <2>1, <2>2
<1>5. Numbered(t)
  BY <1>3, <1>4 DEF Numbered
<1> QED  BY <1>2, <1>5 DEF t

LEMMA NumberedSound ==
    ASSUME NEW s \in Seq(Record), Numbered(s), s # <<>>
    PROVE  s[1] = Header /\ Contiguous(Tail(s))
<1>1. Len(s) \in Nat /\ Len(s) # 0 /\ Tail(s) = SubSeq(s, 2, Len(s))
  BY TailIsSubSeq
<1>2. DOMAIN Tail(s) = 1..(Len(s) - 1) /\ \A i \in 1..(Len(s) - 1) : Tail(s)[i] = s[i + 1]
  BY <1>1
<1>3. ASSUME NEW i \in DOMAIN Tail(s) PROVE Tail(s)[i].seq = i - 1
  <2>1. i \in Nat /\ i + 1 \in 2..Len(s) /\ Tail(s)[i] = s[i + 1]
    BY <1>1, <1>2
  <2>2. s[i + 1].seq = (i + 1) - 2
    BY <2>1 DEF Numbered
  <2> QED  BY <2>1, <2>2
<1>4. Contiguous(Tail(s))
  BY <1>3 DEF Contiguous
<1> QED  BY <1>4 DEF Numbered

(* What every step starts from.                                            *)
LEMMA Texts ==
    ASSUME IInv, NEW i \in Ids
    PROVE  /\ lines[i] \in Seq(Record) /\ buffer[i] \in Seq(Record) /\ next[i] \in Nat
           /\ lines[i] \o buffer[i] \in Seq(Record)
           /\ i \in attached => i \in present
           /\ i \notin attached => buffer[i] = <<>> /\ lines[i] \o buffer[i] = lines[i]
<1>1. /\ lines[i] \in Seq(Record) /\ buffer[i] \in Seq(Record) /\ next[i] \in Nat
      /\ i \in attached => i \in present
  BY Records, SeqMonotonic DEF IInv, TypeOK
<1>2. lines[i] \o buffer[i] \in Seq(Record)
  BY <1>1, ConcatProperties
<1>3. lines[i] \o <<>> = lines[i]
  BY <1>1, ConcatEmptySeq
<1>4. i \notin attached => buffer[i] = <<>>
  BY DEF IInv, Tracked
<1> QED  BY <1>1, <1>2, <1>3, <1>4

LEMMA SoundInitially == Init => SoundInv
BY DEF Init, SoundInv, Stocked

(* A session whose file stays sound is made from what the file holds.      *)
LEMMA EnterSound ==
    ASSUME IInv, IInv', SoundInv, NEW id \in Ids, NEW input, Enter(id, input), Attach(id),
           \A i \in Ids \ {id} : sound'[i] = sound[i],
           sound'[id] => /\ Numbered(lines'[id]) /\ lines'[id] # <<>>
                         /\ Len(input) + 1 = Len(lines'[id])
    PROVE  SoundInv'
<1>1. /\ buffer'[id] = <<>> /\ next'[id] = Len(input)
      /\ \A i \in Ids \ {id} :
            /\ lines'[i] = lines[i] /\ buffer'[i] = buffer[i] /\ next'[i] = next[i]
            /\ (i \in attached') = (i \in attached) /\ (i \in present') = (i \in present)
  <2>1. lines \in [Ids -> Seq(Record)] /\ buffer \in [Ids -> Seq(Event)] /\ next \in [Ids -> Nat]
    BY DEF IInv, TypeOK
  <2>2. next'[id] = Len(input) /\ \A i \in Ids \ {id} : next'[i] = next[i]
    BY <2>1 DEF Enter
  <2>3. buffer'[id] = <<>> /\ \A i \in Ids \ {id} : lines'[i] = lines[i] /\ buffer'[i] = buffer[i]
    BY <2>1 DEF Attach
  <2>4. \A i \in Ids \ {id} : (i \in attached') = (i \in attached) /\ (i \in present') = (i \in present)
    BY DEF Attach
  <2> QED  BY <2>2, <2>3, <2>4
<1>2. Stocked(id)'
  <2>1. lines'[id] \in Seq(Record)
    BY DEF IInv, TypeOK
  <2>2. lines'[id] \o buffer'[id] = lines'[id]
    BY <1>1, <2>1, ConcatEmptySeq
  <2> QED  BY <1>1, <2>2 DEF Stocked
<1>3. ASSUME NEW i \in Ids, i # id PROVE Stocked(i)'
  <2>1. Stocked(i) /\ sound'[i] = sound[i]
    BY <1>3 DEF SoundInv
  <2> QED  BY <1>1, <1>3, <2>1 DEF Stocked
<1> QED  BY <1>2, <1>3 DEF SoundInv

(* Unsound() tells of a session that stays sound what its file was.        *)
LEMMA Undamaged ==
    ASSUME IInv, NEW id \in Ids, NEW published \in BOOLEAN, Unsound(id, published), Attach(id)
    PROVE  /\ \A i \in Ids \ {id} : sound'[i] = sound[i]
           /\ sound'[id] => /\ published /\ tail[id] = Nothing
                            /\ \/ id \in present /\ lines'[id] = lines[id] /\ lines[id] # <<>> /\ lines[id][1] = Header
                               \/ id \notin present /\ lines'[id] = <<Header>>
<1>1. sound \in [Ids -> BOOLEAN] /\ lines \in [Ids -> Seq(Record)]
  BY DEF IInv, TypeOK
<1>2. \A i \in Ids \ {id} : sound'[i] = sound[i]
  BY <1>1 DEF Unsound
<1>3. sound'[id] => published /\ ~Damaged(id)
  BY <1>1 DEF Unsound
<1>4. lines'[id] = IF id \in present THEN lines[id] ELSE <<Header>>
  BY <1>1 DEF Attach
<1> QED  BY <1>2, <1>3, <1>4 DEF Damaged

LEMMA HeaderOnly ==
    ASSUME NEW s \in Seq(Record), s # <<>>, s[1] = Header, Len(s) <= 1
    PROVE  Numbered(s) /\ Len(s) = 1
<1>0. Len(s) \in Nat /\ Len(s) # 0
  OBVIOUS
<1>1. Len(s) = 1
  <2>1. \A n \in Nat : n # 0 /\ n <= 1 => n = 1
    OBVIOUS
  <2> QED  BY <1>0, <2>1
<1>2. 2..Len(s) = {}
  BY <1>1
<1> QED  BY <1>1, <1>2 DEF Numbered

(* Created empty, or forked at 0, over a file with at most a header.       *)
LEMMA EmptySound ==
    ASSUME IInv, IInv', SoundInv, NEW id \in Ids, Attach(id), NEW published \in BOOLEAN,
           published => Len(lines[id]) <= 1, Unsound(id, published), sound'[id]
    PROVE  Numbered(lines'[id]) /\ lines'[id] # <<>> /\ Len(lines'[id]) = 1
<1>1. /\ published
      /\ \/ id \in present /\ lines'[id] = lines[id] /\ lines[id] # <<>> /\ lines[id][1] = Header
         \/ id \notin present /\ lines'[id] = <<Header>>
  BY Undamaged
<1>2. lines'[id] \in Seq(Record)
  BY DEF IInv, TypeOK
<1>3. CASE id \in present
  BY <1>1, <1>2, <1>3, HeaderOnly
<1>4. CASE id \notin present
  <2>0. <<Header>> # <<>> /\ <<Header>>[1] = Header /\ Len(<<Header>>) = 1 /\ 1 <= 1
    OBVIOUS
  <2>1. lines'[id] # <<>> /\ lines'[id][1] = Header /\ Len(lines'[id]) <= 1
    BY <1>1, <1>4, <2>0
  <2> QED  BY <1>2, <2>1, HeaderOnly
<1> QED  BY <1>3, <1>4

LEMMA CreateSound == ASSUME IInv, IInv', SoundInv, NEW id \in Ids, Create(id) PROVE SoundInv'
<1> DEFINE published == Len(lines[id]) <= 1
<1>1. Enter(id, <<>>) /\ Attach(id) /\ Unsound(id, published) /\ published \in BOOLEAN
  BY DEF Create
<1>2. Len(<<>>) = 0 /\ (published => Len(lines[id]) <= 1)
  OBVIOUS
<1> HIDE DEF published
<1>3. \A i \in Ids \ {id} : sound'[i] = sound[i]
  BY <1>1, Undamaged
<1>4. sound'[id] => Numbered(lines'[id]) /\ lines'[id] # <<>> /\ Len(lines'[id]) = 1
  BY <1>1, <1>2, EmptySound
<1>5. sound'[id] => Numbered(lines'[id]) /\ lines'[id] # <<>> /\ Len(<<>>) + 1 = Len(lines'[id])
  BY <1>2, <1>4
<1> QED  BY <1>1, <1>3, <1>5, EnterSound

(* The prefix of length 0 leaves nothing to repair or to mark.             *)
LEMMA NothingSeeded ==
    ASSUME NEW s \in Seq(Event)
    PROVE  Len(Constructed(SubSeq(s, 1, 0), TRUE)) = 0
<1>1. SubSeq(s, 1, 0) = <<>>
  BY SubSeqEmpty
<1>2. Calls(<<>>) = {}
  BY DEF Calls
<1>3. Open(<<>>) = {}
  BY <1>2 DEF Open
<1>4. Cardinality({}) = 0
  BY FS_EmptySet
<1>5. Repaired(<<>>) = <<>>
  <2> DEFINE t == [i \in 1..Cardinality(Open(<<>>)) |->
                     [seq |-> Len(<<>>) + i - 1, kind |-> "result", from |-> ByName(Open(<<>>))[i], upto |-> 0]]
  <2>1. 1..Cardinality(Open(<<>>)) = {}
    BY <1>3, <1>4
  <2>2. t = <<>>
    BY <2>1
  <2>3. Repaired(<<>>) = <<>> \o t
    BY DEF Repaired
  <2> HIDE DEF t
  <2> QED  BY <2>2, <2>3
<1>6. Constructed(<<>>, TRUE) = <<>>
  BY <1>5 DEF Constructed
<1>7. Constructed(SubSeq(s, 1, 0), TRUE) = <<>>
  BY <1>1, <1>6
<1>8. Len(<<>>) = 0
  OBVIOUS
<1> QED  BY <1>7, <1>8

LEMMA ForkSound ==
    ASSUME IInv, IInv', SoundInv, NEW parent \in Ids, NEW id \in Ids, NEW cut \in 0..MaxLog, Fork(parent, id, cut)
    PROVE  SoundInv'
<1> DEFINE published == cut = 0 /\ Len(lines[id]) <= 1
           input == Constructed(SubSeq(log[parent], 1, cut), TRUE)
<1>1. Enter(id, input) /\ Attach(id) /\ Unsound(id, published) /\ published \in BOOLEAN
  BY DEF Fork
<1>2. published => cut = 0 /\ Len(lines[id]) <= 1
  OBVIOUS
<1>3. cut = 0 => Len(input) = 0
  BY NothingSeeded DEF IInv, TypeOK
<1> HIDE DEF published, input
<1>4. \A i \in Ids \ {id} : sound'[i] = sound[i]
  BY <1>1, Undamaged
<1>5. ASSUME sound'[id]
      PROVE  Numbered(lines'[id]) /\ lines'[id] # <<>> /\ Len(input) + 1 = Len(lines'[id])
  <2>1. published
    BY <1>1, <1>5, Undamaged
  <2>2. Numbered(lines'[id]) /\ lines'[id] # <<>> /\ Len(lines'[id]) = 1
    BY <1>1, <1>2, <1>5, EmptySound
  <2>3. Len(input) = 0 /\ 0 + 1 = 1
    BY <1>2, <1>3, <2>1
  <2> QED  BY <2>2, <2>3
<1> QED  BY <1>1, <1>4, <1>5, EnterSound

(* A log loaded with nothing to repair is what its file holds.             *)
LEMMA LoadSound == ASSUME IInv, IInv', SoundInv, NEW id \in Ids, Load(id) PROVE SoundInv'
<1> DEFINE s == Stored(id)
           published == Open(s) = {}
           input == Constructed(s, FALSE)
<1>1. /\ Enter(id, input) /\ Attach(id) /\ Unsound(id, published) /\ published \in BOOLEAN
      /\ Readable(id) /\ Contiguous(s)
  BY DEF Load, Seedable
<1>2. /\ Whole(id) # <<>> /\ s \in Seq(Event) /\ Len(s) = Len(Whole(id)) - 1
      /\ \A i \in 1..Len(s) : s[i] = Whole(id)[i + 1]
  BY <1>1, StoredType
<1>3. published => input = s
  <2>1. SUFFICES ASSUME Open(s) = {} PROVE Repaired(s) = s
    BY DEF Constructed
  <2> DEFINE t == [i \in 1..Cardinality(Open(s)) |->
                     [seq |-> Len(s) + i - 1, kind |-> "result", from |-> ByName(Open(s))[i], upto |-> 0]]
  <2>2. Cardinality(Open(s)) = 0
    BY <2>1, FS_EmptySet
  <2>3. 1..Cardinality(Open(s)) = {}
    BY <2>2
  <2>4. t = <<>>
    BY <2>3
  <2>5. Repaired(s) = s \o t
    BY DEF Repaired
  <2> HIDE DEF t
  <2>6. s \o <<>> = s
    BY <1>2, ConcatEmptySeq
  <2> QED  BY <2>4, <2>5, <2>6
<1> HIDE DEF published, input, s
<1>4. \A i \in Ids \ {id} : sound'[i] = sound[i]
  BY <1>1, Undamaged
<1>5. ASSUME sound'[id]
      PROVE  Numbered(lines'[id]) /\ lines'[id] # <<>> /\ Len(input) + 1 = Len(lines'[id])
  <2>1. published /\ tail[id] = Nothing /\ id \in present /\ lines'[id] = lines[id] /\ lines[id] # <<>> /\ lines[id][1] = Header
    BY <1>1, <1>5, Undamaged DEF Readable
  <2>2. Whole(id) = lines[id]
    BY <2>1 DEF Whole
  <2>3. input = s
    BY <1>3, <2>1
  <2>4. lines[id] \in Seq(Record) /\ Len(lines[id]) \in Nat
    BY DEF IInv, TypeOK
  <2>5. Len(s) \in Nat /\ Len(lines[id]) = Len(s) + 1
    <3>1. Len(s) \in Nat
      BY <1>2
    <3>2. Len(s) = Len(lines[id]) - 1
      BY <1>2, <2>2
    <3> QED  BY <2>4, <3>1, <3>2
  <2>6. ASSUME NEW k \in 2..Len(lines[id]) PROVE lines[id][k].seq = k - 2
    <3>1. k - 1 \in 1..Len(s) /\ (k - 1) + 1 = k /\ (k - 1) - 1 = k - 2
      BY <2>4, <2>5
    <3>2. s[k - 1] = lines[id][k]
      BY <1>2, <2>2, <3>1
    <3>3. DOMAIN s = 1..Len(s)
      BY <1>2
    <3>4. s[k - 1].seq = k - 2
      BY <1>1, <3>1, <3>3 DEF Contiguous
    <3> QED  BY <3>2, <3>4
  <2>7. Numbered(lines[id])
    BY <2>1, <2>6 DEF Numbered
  <2> QED  BY <2>1, <2>3, <2>5, <2>7
<1> QED  BY <1>1, <1>4, <1>5, EnterSound

(* An event that is published carries the numbering on; one that is not    *)
(* ends it.                                                                *)
LEMMA AppendSound == ASSUME IInv, IInv', SoundInv, NEW id \in Ids, AppendEvent(id) PROVE SoundInv'
<1>1. PICK e \in Candidates(id, next[id]) :
        /\ next' = [next EXCEPT ![id] = @ + 1]
        /\ IF Valid(e) THEN Buffered(id, e) /\ UNCHANGED sound
           ELSE sound' = [sound EXCEPT ![id] = FALSE] /\ UNCHANGED <<buffer, lines>>
  BY DEF AppendEvent
<1>2. UNCHANGED <<attached, present>>
  BY DEF AppendEvent
<1>3. e \in Event /\ e.seq = next[id]
  <2>1. next[id] \in Nat /\ AppendKinds[id] \subseteq Kinds
    BY SessionAssumption DEF IInv, TypeOK
  <2>2. 0..next[id] \subseteq Nat /\ 0..(next[id] + 1) \subseteq Nat
    BY <2>1
  <2> QED BY <1>1, <2>1, <2>2 DEF Candidates, Event
<1>4. next'[id] = next[id] + 1 /\ \A i \in Ids \ {id} : next'[i] = next[i]
  BY <1>1 DEF IInv, TypeOK
<1>5. CASE Valid(e)
  <2>1. Buffered(id, e) /\ sound' = sound
    BY <1>1, <1>5
  <2>2. /\ \A i \in Ids \ {id} : lines'[i] = lines[i] /\ buffer'[i] = buffer[i]
        /\ id \notin attached => lines'[id] = lines[id] /\ buffer'[id] = buffer[id]
        /\ id \in attached =>
              \/ lines'[id] = lines[id] /\ buffer'[id] = Append(buffer[id], e)
              \/ lines'[id] = lines[id] \o Append(buffer[id], e) /\ buffer'[id] = <<>>
    BY <1>3, <2>1, BufferedKeeps
  <2>3. ASSUME NEW i \in Ids, i # id PROVE Stocked(i)'
    BY <1>2, <1>4, <2>1, <2>2, <2>3 DEF SoundInv, Stocked
  <2>4. ASSUME id \notin attached PROVE Stocked(id)'
    BY <1>2, <2>1, <2>2, <2>4 DEF SoundInv, Stocked
  <2>5. ASSUME id \in attached PROVE Stocked(id)'
    <3> DEFINE s == lines[id] \o buffer[id]
    <3>1. /\ lines[id] \in Seq(Record) /\ buffer[id] \in Seq(Record) /\ s \in Seq(Record) /\ next[id] \in Nat
          /\ id \in present
      BY <2>5, Texts
    <3>2. SUFFICES ASSUME sound[id]
                   PROVE  Numbered(lines'[id] \o buffer'[id]) /\ lines'[id] # <<>>
                          /\ next'[id] + 1 = Len(lines'[id] \o buffer'[id])
      BY <1>2, <2>1 DEF Stocked
    <3>3. Numbered(s) /\ lines[id] # <<>> /\ next[id] + 1 = Len(s)
      BY <2>5, <3>1, <3>2 DEF SoundInv, Stocked
    <3>4. s # <<>>
      <4>1. Len(<<>>) = 0 /\ next[id] + 1 # 0
        BY <3>1
      <4> QED  BY <3>3, <4>1
    <3>5. e \in Record /\ Append(buffer[id], e) \in Seq(Record)
      BY <1>3, <3>1, Records, AppendProperties
    <3>6. lines[id] \o Append(buffer[id], e) = Append(s, e)
      <4> DEFINE a == lines[id]  b == buffer[id]
      <4>1. a \in Seq(Record) /\ b \in Seq(Record)
        BY <3>1
      <4> HIDE DEF a, b
      <4>2. a \o Append(b, e) = Append(a \o b, e)
        BY <3>5, <4>1, ConcatAppend
      <4> QED  BY <4>2 DEF a, b
    <3> HIDE DEF s
    <3>7. Numbered(Append(s, e)) /\ Append(s, e) \in Seq(Record) /\ Len(Append(s, e)) = Len(s) + 1
      BY <1>3, <3>1, <3>3, <3>4, NumberedMore
    <3>8. lines'[id] \o buffer'[id] = Append(s, e) /\ lines'[id] # <<>>
      <4>1. CASE lines'[id] = lines[id] /\ buffer'[id] = Append(buffer[id], e)
        BY <3>3, <3>6, <4>1
      <4>2. CASE lines'[id] = lines[id] \o Append(buffer[id], e) /\ buffer'[id] = <<>>
        <5>1. lines'[id] = Append(s, e)
          BY <3>6, <4>2
        <5>2. Append(s, e) \o <<>> = Append(s, e)
          BY <3>7, ConcatEmptySeq
        <5>3. Append(s, e) # <<>>
          <6>1. Len(<<>>) = 0 /\ Len(s) \in Nat /\ Len(s) + 1 # 0
            BY <3>1
          <6> QED  BY <3>7, <6>1
        <5> QED  BY <4>2, <5>1, <5>2, <5>3
      <4> QED  BY <2>2, <2>5, <4>1, <4>2
    <3>9. next'[id] + 1 = Len(s) + 1
      BY <1>4, <3>3
    <3> QED  BY <3>7, <3>8, <3>9
  <2> QED  BY <2>3, <2>4, <2>5 DEF SoundInv
<1>6. CASE ~Valid(e)
  <2>1. UNCHANGED <<buffer, lines>> /\ ~sound'[id] /\ \A i \in Ids \ {id} : sound'[i] = sound[i]
    BY <1>1, <1>6 DEF IInv, TypeOK
  <2>2. ASSUME NEW i \in Ids PROVE Stocked(i)'
    BY <1>2, <1>4, <2>1 DEF SoundInv, Stocked
  <2> QED  BY <2>2 DEF SoundInv
<1> QED  BY <1>5, <1>6

(* A flush moves the buffer into the file.                                 *)
LEMMA FlushedSound ==
    ASSUME IInv, IInv', SoundInv, NEW S \in SUBSET attached, Flushed(S), UNCHANGED <<present, sound>>,
           NEW i \in Ids, (i \in attached') => i \in attached /\ next'[i] = next[i]
    PROVE  Stocked(i)'
<1>1. lines[i] \in Seq(Record) /\ buffer[i] \in Seq(Record) /\ lines[i] \o buffer[i] \in Seq(Record)
  BY Texts
<1>2. lines'[i] \o buffer'[i] = lines[i] \o buffer[i] /\ (lines[i] # <<>> => lines'[i] # <<>>)
  <2>1. CASE i \in S
    <3>1. lines'[i] = lines[i] \o buffer[i] /\ buffer'[i] = <<>>
      BY <2>1, FlushedFacts
    <3>2. lines[i] \o buffer[i] \o <<>> = lines[i] \o buffer[i]
      BY <1>1, ConcatEmptySeq
    <3>3. lines[i] # <<>> => lines[i] \o buffer[i] # <<>>
      <4> DEFINE a == lines[i]  b == buffer[i]
      <4>1. a \in Seq(Record) /\ b \in Seq(Record)
        BY <1>1
      <4> HIDE DEF a, b
      <4>2. a # <<>> => a \o b # <<>>
        BY <4>1
      <4> QED  BY <4>2 DEF a, b
    <3> QED  BY <3>1, <3>2, <3>3
  <2>2. CASE i \notin S
    BY <2>2, FlushedFacts
  <2> QED  BY <2>1, <2>2
<1>3. Stocked(i)
  BY DEF SoundInv
<1> QED  BY <1>2, <1>3 DEF Stocked

LEMMA FlushSound == ASSUME IInv, IInv', SoundInv, NEW id \in Ids, Flush(id) PROVE SoundInv'
<1>1. {id} \in SUBSET attached /\ Flushed({id}) /\ UNCHANGED <<present, sound, attached, next>>
  BY DEF Flush, memory
<1>2. ASSUME NEW i \in Ids PROVE Stocked(i)'
  BY <1>1, FlushedSound
<1> QED  BY <1>2 DEF SoundInv

LEMMA DisposeSound == ASSUME IInv, IInv', SoundInv, NEW id \in Ids, Dispose(id) PROVE SoundInv'
<1>1. /\ {id} \cap attached \in SUBSET attached /\ Flushed({id} \cap attached) /\ UNCHANGED <<present, sound>>
      /\ attached' = attached \ {id} /\ \A i \in Ids \ {id} : next'[i] = next[i]
  BY DEF Dispose, IInv, TypeOK
<1>2. ASSUME NEW i \in Ids PROVE Stocked(i)'
  BY <1>1, FlushedSound
<1> QED  BY <1>2 DEF SoundInv

LEMMA RemountSound == ASSUME IInv, IInv', SoundInv, Remount PROVE SoundInv'
<1>1. attached \in SUBSET attached /\ Flushed(attached) /\ UNCHANGED <<present, sound>> /\ attached' = {}
  BY DEF Remount
<1>2. ASSUME NEW i \in Ids PROVE Stocked(i)'
  BY <1>1, FlushedSound
<1> QED  BY <1>2 DEF SoundInv

(* A crash keeps a prefix of what was stored and buffered.                 *)
LEMMA CrashSound ==
    ASSUME IInv, IInv', SoundInv, NEW power \in BOOLEAN, NEW busy \in {{}} \cup {{i} : i \in attached}, Crash(power, busy)
    PROVE  SoundInv'
<1>1. /\ attached' = {} /\ present' \subseteq present
      /\ sound' = [i \in Ids |-> sound[i] \/ i \notin present']
  BY DEF Crash, Restarted
<1>2. ASSUME NEW i \in Ids PROVE Stocked(i)'
  <2>1. SUFFICES ASSUME sound[i], i \in present PROVE Numbered(lines'[i] \o buffer'[i])
    BY <1>1 DEF Stocked
  <2>2. lines'[i] \o buffer'[i] = lines'[i]
    <3>1. lines'[i] \in Seq(Record) /\ buffer'[i] = <<>>
      BY <1>1 DEF IInv, TypeOK, Tracked
    <3> QED  BY <3>1, ConcatEmptySeq
  <2> DEFINE s == lines[i] \o buffer[i]  n == Len(lines'[i])
  <2>3. s \in Seq(Record) /\ Numbered(s)
    BY <2>1, Texts DEF SoundInv, Stocked
  <2>4. lines'[i] = SubSeq(s, 1, n) /\ n \in synced[i]..Len(s) /\ synced[i] \in Nat
    BY CrashFacts DEF IInv, TypeOK
  <2> HIDE DEF s, n
  <2>5. n \in 0..Len(s)
    BY <2>3, <2>4
  <2>6. Numbered(SubSeq(s, 1, n))
    BY <2>3, <2>5, NumberedPrefix
  <2> QED  BY <2>2, <2>4, <2>6
<1> QED  BY <1>2 DEF SoundInv

LEMMA CrashOpeningSound == ASSUME IInv, IInv', SoundInv, NEW id \in Ids, CrashOpening(id) PROVE SoundInv'
<1>1. attached' = {} /\ present' = present \cup {id} /\ sound' = sound
  BY DEF CrashOpening, Restarted
<1>2. ASSUME NEW i \in Ids PROVE lines'[i] \in Seq(Record) /\ lines'[i] \o buffer'[i] = lines'[i] /\ lines[i] \o buffer[i] \in Seq(Record)
  <2>1. lines'[i] \in Seq(Record) /\ buffer'[i] = <<>>
    BY <1>1 DEF IInv, TypeOK, Tracked
  <2> QED  BY <2>1, ConcatEmptySeq, Texts
<1>3. ASSUME NEW i \in Ids, i # id PROVE Stocked(i)'
  <2>1. SUFFICES ASSUME sound[i], i \in present PROVE Numbered(lines'[i])
    BY <1>1, <1>2, <1>3 DEF Stocked
  <2>2. lines'[i] = lines[i] /\ Numbered(lines[i] \o buffer[i])
    BY <1>3, <2>1, CrashOpeningFacts DEF SoundInv, Stocked
  <2> DEFINE s == lines[i] \o buffer[i]  n == Len(lines[i])
  <2>3. s \in Seq(Record) /\ n \in 0..Len(s) /\ lines[i] = SubSeq(s, 1, n)
    <3>1. lines[i] \in Seq(Record) /\ buffer[i] \in Seq(Record)
      BY Texts
    <3>2. /\ Len(lines[i]) \in 0..Len(lines[i]) /\ SubSeq(lines[i], 1, Len(lines[i])) = lines[i]
      BY <3>1, SubSeqFull
    <3>3. SubSeq(lines[i], 1, n) = SubSeq(lines[i] \o buffer[i], 1, n)
      BY <3>1, <3>2, PrefixOfConcat
    <3>4. s \in Seq(Record) /\ Len(s) \in Nat /\ \A k \in 0..Len(lines[i]) : k <= Len(s)
      BY <3>1, ConcatLonger
    <3>5. n \in 0..Len(lines[i]) /\ n \in Nat
      BY <3>1
    <3> HIDE DEF s, n
    <3>6. n \in 0..Len(s)
      BY <3>4, <3>5
    <3> QED  BY <3>2, <3>3, <3>4, <3>6 DEF s, n
  <2> HIDE DEF s, n
  <2>4. Numbered(s)
    BY <2>2 DEF s
  <2>5. Numbered(SubSeq(s, 1, n))
    BY <2>3, <2>4, NumberedPrefix
  <2> QED  BY <2>2, <2>3, <2>5
<1>4. Stocked(id)'
  <2>1. SUFFICES ASSUME sound[id] PROVE Numbered(lines'[id])
    BY <1>1, <1>2 DEF Stocked
  <2>2. id \notin attached /\ lines[id] \o buffer[id] = lines[id]
    BY CrashOpeningFacts, Texts
  <2>3. CASE id \in present
    <3>1. lines[id] \in Seq(Record) /\ Numbered(lines[id])
      BY <2>1, <2>2, <2>3, Texts DEF SoundInv, Stocked
    <3>2. lines'[id] = SubSeq(lines[id], 1, Len(lines'[id])) /\ Len(lines'[id]) \in 0..Len(lines[id])
      BY <2>3, CrashOpeningFacts
    <3> QED  BY <3>1, <3>2, NumberedPrefix
  <2>4. CASE id \notin present
    <3>1. lines'[id] = <<>> \/ lines'[id] = <<Header>>
      BY <2>4, CrashOpeningFacts
    <3>2. Numbered(<<>>) /\ Numbered(<<Header>>)
      BY DEF Numbered
    <3> QED  BY <3>1, <3>2
  <2> QED  BY <2>3, <2>4
<1> QED  BY <1>3, <1>4 DEF SoundInv

LEMMA StepSound == IInv /\ SoundInv /\ [Next]_vars => SoundInv'
<1> SUFFICES ASSUME IInv, SoundInv, [Next]_vars PROVE SoundInv'
  OBVIOUS
<1>0. IInv'
  BY StepKeeps
<1>1. ASSUME NEW id \in Ids, Create(id) PROVE SoundInv'
  BY <1>0, <1>1, CreateSound
<1>2. ASSUME NEW id \in Ids, NEW parent \in Ids, NEW cut \in 0..MaxLog, Fork(parent, id, cut) PROVE SoundInv'
  BY <1>0, <1>2, ForkSound
<1>3. ASSUME NEW id \in Ids, Load(id) PROVE SoundInv'
  BY <1>0, <1>3, LoadSound
<1>4. ASSUME NEW id \in Ids, AppendEvent(id) PROVE SoundInv'
  BY <1>0, <1>4, AppendSound
<1>5. ASSUME NEW id \in Ids, Flush(id) PROVE SoundInv'
  BY <1>0, <1>5, FlushSound
<1>6. ASSUME NEW id \in Ids, Dispose(id) PROVE SoundInv'
  BY <1>0, <1>6, DisposeSound
<1>7. CASE Remount
  BY <1>0, <1>7, RemountSound
<1>8. ASSUME NEW power \in BOOLEAN, NEW busy \in {{}} \cup {{i} : i \in attached}, Crash(power, busy) PROVE SoundInv'
  BY <1>0, <1>8, CrashSound
<1>9. ASSUME NEW id \in Ids, CrashOpening(id) PROVE SoundInv'
  BY <1>0, <1>9, CrashOpeningSound
<1>10. CASE UNCHANGED vars
  <2>1. ASSUME NEW i \in Ids PROVE Stocked(i)'
    BY <1>10 DEF SoundInv, Stocked, vars, memory, disk
  <2> QED  BY <2>1 DEF SoundInv
<1> QED  BY <1>1, <1>2, <1>3, <1>4, <1>5, <1>6, <1>7, <1>8, <1>9, <1>10 DEF Next

(* A stored log is the events 0..n-1 behind one header unless one of the   *)
(* ways to lose that, which Unsound names, has been taken: no crash, power *)
(* cut, reload, disposal or reuse of an id is another, however many there  *)
(* are.  (jsonl_backend's drain, flush and attach; load_stored.)           *)
THEOREM StoredLogsSound == Spec => []SoundStored
<1>1. Init => SoundInv
  BY SoundInitially
<1>2. IInv /\ SoundInv /\ [Next]_vars => SoundInv'
  BY StepSound
<1>3. IInv /\ SoundInv => SoundStored
  <2> SUFFICES ASSUME IInv, SoundInv, NEW id \in Ids, id \in present, sound[id], lines[id] # <<>>
               PROVE  lines[id][1] = Header /\ Contiguous(Tail(lines[id]))
    BY DEF SoundStored, IInv, TypeOK
  <2> DEFINE s == lines[id] \o buffer[id]  n == Len(lines[id])
  <2>1. Numbered(s) /\ s \in Seq(Record) /\ lines[id] \in Seq(Record) /\ buffer[id] \in Seq(Record)
    BY Texts DEF SoundInv, Stocked
  <2>2. Len(s) \in Nat /\ (\A k \in 0..n : k <= Len(s)) /\ n \in 0..n /\ n \in Nat
    <3>1. Len(s) \in Nat /\ \A k \in 0..n : k <= Len(s)
      BY <2>1, ConcatLonger
    <3>2. n \in 0..n /\ n \in Nat
      BY <2>1
    <3> QED  BY <3>1, <3>2
  <2>3. lines[id] = SubSeq(lines[id], 1, n) /\ SubSeq(lines[id], 1, n) = SubSeq(s, 1, n)
    BY <2>1, <2>2, SubSeqFull, PrefixOfConcat, ZenonT(40)
  <2> HIDE DEF s, n
  <2>4. n \in 0..Len(s)
    BY <2>2
  <2>5. Numbered(lines[id])
    BY <2>1, <2>3, <2>4, NumberedPrefix
  <2> QED  BY <2>1, <2>5, NumberedSound
<1> QED  BY <1>1, <1>2, <1>3, AlwaysIInv, PTL DEF Spec

----------------------------------------------------------------------------
(* The surface of every session                                            *)

(* A session's numbers increase and are below the next one, and its        *)
(* surface is the fold of its log.                                         *)
Folded(i) ==
    /\ Increasing(log[i])
    /\ \A k \in 1..Len(log[i]) : log[i][k].seq < next[i]
    /\ surface[i] = FoldLog(log[i])
FoldedInv ==
    /\ surface \in [Ids -> Seq(Nat)]
    /\ \A i \in entered : Folded(i)

LEMMA EventNumbers == Numbers(Event)
BY DEF Numbers, Event

(* What a session is constructed from is numbered from 0.                  *)
LEMMA RepairedContiguous ==
    ASSUME NEW s \in Seq(Event), Contiguous(s)
    PROVE  Repaired(s) \in Seq(Event) /\ Contiguous(Repaired(s))
<1> DEFINE n == Cardinality(Open(s))
           f == ByName(Open(s))
           t == [i \in 1..n |-> [seq |-> Len(s) + i - 1, kind |-> "result", from |-> f[i], upto |-> 0]]
<1>1. n \in Nat /\ Len(s) \in Nat
  BY NamesInOrder
<1>2. t \in Seq(Event) /\ Repaired(s) = s \o t
  BY ClosersType DEF Repaired
<1> HIDE DEF n, f
<1>3. Len(t) = n /\ \A i \in 1..n : t[i].seq = Len(s) + i - 1
  BY <1>1, <1>2
<1> HIDE DEF t
<1>4. /\ s \o t \in Seq(Event) /\ Len(s \o t) = Len(s) + n
      /\ \A i \in 1..Len(s) + n : (s \o t)[i] = IF i <= Len(s) THEN s[i] ELSE t[i - Len(s)]
  BY <1>2, <1>3, ConcatProperties
<1>5. ASSUME NEW i \in 1..Len(s) + n PROVE (s \o t)[i].seq = i - 1
  <2>1. CASE i <= Len(s)
    <3>1. i \in DOMAIN s /\ (s \o t)[i] = s[i]
      BY <1>1, <1>4, <2>1
    <3> QED  BY <3>1 DEF Contiguous
  <2>2. CASE i > Len(s)
    <3>1. i - Len(s) \in 1..n /\ ~(i <= Len(s))
      BY <1>1, <2>2
    <3>2. (s \o t)[i] = t[i - Len(s)] /\ t[i - Len(s)].seq = Len(s) + (i - Len(s)) - 1
      BY <1>3, <1>4, <3>1
    <3> QED  BY <1>1, <3>2
  <2>3. i <= Len(s) \/ i > Len(s)
    BY <1>1
  <2> QED  BY <2>1, <2>2, <2>3
<1>6. DOMAIN (s \o t) = 1..Len(s) + n
  BY <1>4
<1> QED  BY <1>2, <1>4, <1>5, <1>6 DEF Contiguous

LEMMA ConstructedContiguous ==
    ASSUME NEW s \in Seq(Event), Contiguous(s), NEW seeded \in BOOLEAN
    PROVE  Constructed(s, seeded) \in Seq(Event) /\ Contiguous(Constructed(s, seeded))
<1> DEFINE r == Repaired(s)
<1>1. r \in Seq(Event) /\ Contiguous(r)
  BY RepairedContiguous
<1> HIDE DEF r
<1> DEFINE m == [seq |-> Len(r), kind |-> "marker", from |-> 0, upto |-> 0]
<1>2. Len(r) \in Nat /\ m \in Event /\ m.seq = Len(r)
  BY <1>1 DEF Event, Kinds
<1> HIDE DEF m
<1>3. /\ Append(r, m) \in Seq(Event) /\ Len(Append(r, m)) = Len(r) + 1 /\ Append(r, m)[Len(r) + 1] = m
      /\ \A i \in 1..Len(r) : Append(r, m)[i] = r[i]
  BY <1>1, <1>2, AppendProperties
<1>4. ASSUME NEW i \in 1..Len(r) + 1 PROVE Append(r, m)[i].seq = i - 1
  <2>1. CASE i = Len(r) + 1
    BY <1>2, <1>3, <2>1
  <2>2. CASE i # Len(r) + 1
    <3>1. i \in 1..Len(r) /\ i \in DOMAIN r
      BY <1>1, <1>2, <2>2
    <3> QED  BY <1>1, <1>3, <3>1 DEF Contiguous
  <2> QED  BY <2>1, <2>2
<1>5. Contiguous(Append(r, m))
  <2>1. DOMAIN Append(r, m) = 1..Len(r) + 1
    BY <1>3
  <2> QED  BY <1>4, <2>1 DEF Contiguous
<1>6. Marked(r) = Append(r, m)
  BY DEF Marked, m
<1> QED  BY <1>1, <1>3, <1>5, <1>6 DEF Constructed, r

(* The fold of numbers that increase is a surface.                         *)
LEMMA FoldType ==
    ASSUME NEW s \in Seq(Event), Increasing(s)
    PROVE  FoldLog(s) \in Seq(Nat)
<1>1. Right(s)
  BY EventNumbers, LogRight
<1> QED  BY <1>1 DEF Right

LEMMA FoldsInitially == Init => FoldedInv
<1> SUFFICES ASSUME Init PROVE FoldedInv
  OBVIOUS
<1>1. <<>> \in Seq(Nat)
  OBVIOUS
<1> QED  BY <1>1 DEF Init, FoldedInv

LEMMA EnterFolds ==
    ASSUME IInv, FoldedInv, NEW id \in Ids, NEW input \in Seq(Event), Contiguous(input), Enter(id, input)
    PROVE  FoldedInv'
<1>1. Len(input) \in Nat /\ \A k \in 1..Len(input) : input[k].seq = k - 1
  BY DEF Contiguous
<1>2. Increasing(input) /\ \A k \in 1..Len(input) : input[k].seq < Len(input)
  BY <1>1 DEF Increasing
<1>3. FoldLog(input) \in Seq(Nat)
  BY <1>2, FoldType
<1> DEFINE new == FoldLog(input)
<1>4. surface' = [surface EXCEPT ![id] = new]
  BY DEF Enter
<1>5. new \in Seq(Nat) /\ new = FoldLog(input)
  BY <1>3
<1> HIDE DEF new
<1>6. /\ surface' \in [Ids -> Seq(Nat)] /\ surface'[id] = new
      /\ \A i \in Ids \ {id} : surface'[i] = surface[i]
  BY <1>4, <1>5 DEF FoldedInv
<1>7. /\ entered' = entered \cup {id} /\ entered \subseteq Ids
      /\ log'[id] = input /\ next'[id] = Len(input)
      /\ \A i \in Ids \ {id} : log'[i] = log[i] /\ next'[i] = next[i]
  BY DEF Enter, IInv, TypeOK
<1>8. Folded(id)'
  BY <1>2, <1>5, <1>6, <1>7 DEF Folded
<1>9. ASSUME NEW i \in entered, i # id PROVE Folded(i)'
  <2>1. i \in Ids \ {id} /\ Folded(i)
    BY <1>7, <1>9 DEF FoldedInv
  <2> QED  BY <1>6, <1>7, <2>1 DEF Folded
<1> QED  BY <1>6, <1>7, <1>8, <1>9 DEF FoldedInv

LEMMA CreateFolds == ASSUME IInv, FoldedInv, NEW id \in Ids, Create(id) PROVE FoldedInv'
<1>1. <<>> \in Seq(Event) /\ Contiguous(<<>>) /\ Enter(id, <<>>)
  BY DEF Create, Contiguous
<1> QED  BY <1>1, EnterFolds

LEMMA ForkFolds ==
    ASSUME IInv, FoldedInv, NEW parent \in Ids, NEW id \in Ids, NEW cut \in 0..MaxLog, Fork(parent, id, cut)
    PROVE  FoldedInv'
<1> DEFINE seed == SubSeq(log[parent], 1, cut)
<1>1. MaxLog \in Nat /\ log[parent] \in Seq(Event) /\ cut \in 0..Len(log[parent])
  BY SessionAssumption DEF Fork, IInv, TypeOK
<1>2. seed \in Seq(Event)
  <2>1. <<>> \in Seq(Event)
    OBVIOUS
  <2> QED  BY <1>1, <2>1, PrefixOfConcat
<1>3. Contiguous(seed)
  BY DEF Fork, Seedable
<1>4. Constructed(seed, TRUE) \in Seq(Event) /\ Contiguous(Constructed(seed, TRUE))
  BY <1>2, <1>3, ConstructedContiguous
<1>5. Enter(id, Constructed(seed, TRUE))
  BY DEF Fork
<1> QED  BY <1>4, <1>5, EnterFolds

LEMMA LoadFolds == ASSUME IInv, FoldedInv, NEW id \in Ids, Load(id) PROVE FoldedInv'
<1> DEFINE s == Stored(id)
<1>1. s \in Seq(Event) /\ Contiguous(s) /\ Enter(id, Constructed(s, FALSE))
  BY StoredType DEF Load, Seedable
<1>2. Constructed(s, FALSE) \in Seq(Event) /\ Contiguous(Constructed(s, FALSE))
  BY <1>1, ConstructedContiguous
<1> QED  BY <1>1, <1>2, EnterFolds

(* An event that is refused only spends its number; one that is logged     *)
(* carries the greatest.                                                   *)
LEMMA AppendFolds == ASSUME IInv, FoldedInv, NEW id \in Ids, AppendEvent(id) PROVE FoldedInv'
<1>1. PICK e \in Candidates(id, next[id]) :
        /\ next' = [next EXCEPT ![id] = @ + 1]
        /\ IF Valid(e)
           THEN /\ log' = [log EXCEPT ![id] = Append(@, e)]
                /\ surface' = [surface EXCEPT ![id] = Fold(@, e)]
           ELSE UNCHANGED <<log, surface>>
  BY DEF AppendEvent
<1>2. e \in Event /\ e.seq = next[id]
  <2>1. next[id] \in Nat /\ AppendKinds[id] \subseteq Kinds
    BY SessionAssumption DEF IInv, TypeOK
  <2>2. 0..next[id] \subseteq Nat /\ 0..(next[id] + 1) \subseteq Nat
    BY <2>1
  <2> QED BY <1>1, <2>1, <2>2 DEF Candidates, Event
<1>3. /\ id \in entered /\ entered' = entered /\ entered \subseteq Ids
      /\ log \in [Ids -> Seq(Event)] /\ next \in [Ids -> Nat] /\ surface \in [Ids -> Seq(Nat)]
  BY DEF AppendEvent, IInv, TypeOK, FoldedInv
<1>4. next'[id] = next[id] + 1 /\ \A i \in Ids \ {id} : next'[i] = next[i]
  BY <1>1, <1>3
<1> DEFINE s == log[id]
<1>5. s \in Seq(Event) /\ Len(s) \in Nat /\ next[id] \in Nat
  BY <1>3
<1>6. \A k \in 1..Len(s) : s[k].seq \in Nat
  <2>1. \A k \in 1..Len(s) : s[k] \in Event
    BY <1>5, ElementOfSeq
  <2>2. \A x \in Event : x.seq \in Nat
    BY DEF Event
  <2> QED  BY <2>1, <2>2
<1>7. Increasing(s) /\ (\A k \in 1..Len(s) : s[k].seq < next[id]) /\ surface[id] = FoldLog(s)
  BY <1>3 DEF FoldedInv, Folded
<1>8. CASE ~Valid(e)
  <2>1. log' = log /\ surface' = surface
    BY <1>1, <1>8
  <2>2. ASSUME NEW i \in entered PROVE Folded(i)'
    <3>1. CASE i = id
      <4>1. \A k \in 1..Len(s) : s[k].seq < next[id] + 1
        BY <1>5, <1>7, <1>6
      <4> QED  BY <1>4, <1>7, <2>1, <3>1, <4>1 DEF Folded
    <3>2. CASE i # id
      BY <1>3, <1>4, <2>1, <3>2 DEF FoldedInv, Folded
    <3> QED  BY <3>1, <3>2
  <2> QED  BY <1>3, <2>1, <2>2 DEF FoldedInv
<1>9. CASE Valid(e)
  <2> DEFINE t == Append(s, e)
  <2>1. log' = [log EXCEPT ![id] = t] /\ surface' = [surface EXCEPT ![id] = Fold(surface[id], e)]
    BY <1>1, <1>9
  <2>2. /\ t \in Seq(Event) /\ Len(t) = Len(s) + 1 /\ t[Len(s) + 1] = e
        /\ \A k \in 1..Len(s) : t[k] = s[k]
    BY <1>2, <1>5, AppendProperties
  <2>3. Fold(surface[id], e) = FoldLog(t)
    BY <1>2, <1>5, <1>7, FoldGrows
  <2> HIDE DEF t, s
  <2>4. \A k \in 1..Len(t) : k \in 1..Len(s) \/ k = Len(t)
    BY <1>5, <2>2
  <2>5. Increasing(t)
    <3>1. ASSUME NEW i \in 1..Len(t), NEW j \in 1..Len(t), i < j PROVE t[i].seq < t[j].seq
      <4>1. i \in 1..Len(s)
        BY <1>5, <2>2, <3>1
      <4>2. CASE j \in 1..Len(s)
        BY <1>7, <2>2, <3>1, <4>1, <4>2 DEF Increasing
      <4>3. CASE j = Len(t)
        BY <1>2, <1>7, <2>2, <4>1, <4>3
      <4> QED  BY <2>4, <4>2, <4>3
    <3> QED  BY <3>1 DEF Increasing
  <2>6. \A k \in 1..Len(t) : t[k].seq < next[id] + 1
    <3>1. ASSUME NEW k \in 1..Len(t) PROVE t[k].seq < next[id] + 1
      <4>1. CASE k \in 1..Len(s)
        <5>1. t[k].seq = s[k].seq /\ s[k].seq \in Nat /\ s[k].seq < next[id]
          BY <1>7, <1>6, <2>2, <4>1
        <5> QED  BY <1>5, <5>1
      <4>2. CASE k = Len(t)
        <5>1. t[k].seq = next[id]
          BY <1>2, <2>2, <4>2
        <5> QED  BY <1>5, <5>1
      <4> QED  BY <2>4, <4>1, <4>2
    <3> QED  BY <3>1
  <2>7. FoldLog(t) \in Seq(Nat)
    BY <2>2, <2>5, FoldType
  <2> DEFINE new == FoldLog(t)
  <2>8. surface' = [surface EXCEPT ![id] = new] /\ new \in Seq(Nat) /\ new = FoldLog(t)
    BY <2>1, <2>3, <2>7
  <2> HIDE DEF new
  <2>9. /\ surface' \in [Ids -> Seq(Nat)] /\ surface'[id] = new /\ log'[id] = t
        /\ \A i \in Ids \ {id} : surface'[i] = surface[i] /\ log'[i] = log[i]
    BY <1>3, <2>1, <2>8
  <2>10. Folded(id)'
    BY <1>4, <2>5, <2>6, <2>8, <2>9 DEF Folded
  <2>11. ASSUME NEW i \in entered, i # id PROVE Folded(i)'
    <3>1. i \in Ids \ {id} /\ Folded(i)
      BY <1>3, <2>11 DEF FoldedInv
    <3> QED  BY <1>4, <2>9, <3>1 DEF Folded
  <2> QED  BY <1>3, <2>9, <2>10, <2>11 DEF FoldedInv
<1> QED  BY <1>8, <1>9

(* What leaves the logs alone leaves the surfaces.                         *)
LEMMA SameFolds == ASSUME FoldedInv, UNCHANGED memory PROVE FoldedInv'
BY DEF FoldedInv, Folded, memory

LEMMA DisposeFolds == ASSUME IInv, FoldedInv, NEW id \in Ids, Dispose(id) PROVE FoldedInv'
<1>1. <<>> \in Seq(Nat) /\ entered \subseteq Ids /\ log \in [Ids -> Seq(Event)] /\ next \in [Ids -> Nat]
  BY DEF IInv, TypeOK
<1>2. /\ entered' = entered \ {id} /\ log' = [log EXCEPT ![id] = <<>>]
      /\ next' = [next EXCEPT ![id] = 0] /\ surface' = [surface EXCEPT ![id] = <<>>]
  BY DEF Dispose
<1>3. /\ surface' \in [Ids -> Seq(Nat)]
      /\ \A i \in Ids \ {id} : log'[i] = log[i] /\ next'[i] = next[i] /\ surface'[i] = surface[i]
  BY <1>1, <1>2 DEF FoldedInv
<1>4. ASSUME NEW i \in entered' PROVE Folded(i)'
  <2>1. i \in Ids \ {id} /\ Folded(i)
    BY <1>1, <1>2 DEF FoldedInv
  <2> QED  BY <1>3, <2>1 DEF Folded
<1> QED  BY <1>3, <1>4 DEF FoldedInv

(* A process that starts again has no session.                             *)
LEMMA RestartFolds == ASSUME Restarted PROVE FoldedInv'
<1>1. <<>> \in Seq(Nat) /\ entered' = {} /\ surface' = [i \in Ids |-> <<>>]
  BY DEF Restarted
<1> QED  BY <1>1 DEF FoldedInv

LEMMA StepFolds == IInv /\ FoldedInv /\ [Next]_vars => FoldedInv'
<1> SUFFICES ASSUME IInv, FoldedInv, [Next]_vars PROVE FoldedInv'
  OBVIOUS
<1>1. CASE UNCHANGED vars
  <2>1. UNCHANGED memory
    BY <1>1 DEF vars
  <2> QED  BY <2>1, SameFolds
<1>2. ASSUME NEW id \in Ids, Create(id) PROVE FoldedInv'
  BY <1>2, CreateFolds
<1>3. ASSUME NEW id \in Ids, NEW parent \in Ids, NEW cut \in 0..MaxLog, Fork(parent, id, cut) PROVE FoldedInv'
  BY <1>3, ForkFolds
<1>4. ASSUME NEW id \in Ids, Load(id) PROVE FoldedInv'
  BY <1>4, LoadFolds
<1>5. ASSUME NEW id \in Ids, AppendEvent(id) PROVE FoldedInv'
  BY <1>5, AppendFolds
<1>6. ASSUME NEW id \in Ids, Flush(id) PROVE FoldedInv'
  BY <1>6, SameFolds DEF Flush
<1>7. ASSUME NEW id \in Ids, Dispose(id) PROVE FoldedInv'
  BY <1>7, DisposeFolds
<1>8. CASE Remount
  BY <1>8, SameFolds DEF Remount
<1>9. ASSUME NEW power \in BOOLEAN, NEW busy \in {{}} \cup {{i} : i \in attached}, Crash(power, busy)
      PROVE  FoldedInv'
  BY <1>9, RestartFolds DEF Crash
<1>10. ASSUME NEW id \in Ids, CrashOpening(id) PROVE FoldedInv'
  BY <1>10, RestartFolds DEF CrashOpening
<1> QED BY <1>1, <1>2, <1>3, <1>4, <1>5, <1>6, <1>7, <1>8, <1>9, <1>10 DEF Next

(* The surface of every session shows exactly what is visible of its log,  *)
(* each event once, a replacement where the first of what it replaced      *)
(* stood, whether it was folded event by event or refolded when the        *)
(* session was forked or loaded after a crash (session.cpp, surface.cpp).  *)
THEOREM SurfaceShown == Spec => []SurfaceShows
<1>1. Init => FoldedInv
  BY FoldsInitially
<1>2. IInv /\ FoldedInv /\ [Next]_vars => FoldedInv'
  BY StepFolds
<1>3. IInv /\ FoldedInv => SurfaceShows
  <2> SUFFICES ASSUME IInv, FoldedInv, NEW i \in entered PROVE Shows(surface[i], log[i])
    BY DEF SurfaceShows
  <2>1. log[i] \in Seq(Event) /\ Increasing(log[i]) /\ surface[i] = FoldLog(log[i])
    BY DEF IInv, TypeOK, FoldedInv, Folded
  <2> QED  BY <2>1, EventNumbers, FoldShows
<1> QED BY <1>1, <1>2, <1>3, AlwaysIInv, PTL DEF Spec

----------------------------------------------------------------------------
(* The plugin implements the durable log.                                  *)

LEMMA RefinesInitially == Init => Durable!DurableInit
<1> SUFFICES ASSUME Init PROVE Durable!DurableInit
  OBVIOUS
<1>1. \A i \in Ids : tail[i] = Nothing
  BY DEF Init
<1>2. [i \in Ids |-> tail[i] # Nothing] = [i \in Ids |-> FALSE]
  BY <1>1
<1>3. /\ buffer = [i \in Ids |-> <<>>] /\ lines = [i \in Ids |-> <<>>] /\ synced = [i \in Ids |-> 0]
      /\ crashes = 0
  BY DEF Init
<1> QED BY <1>2, <1>3 DEF Durable!DurableInit

(* A session that is attached begins its log, mends it, or finds it whole. *)
LEMMA EnterRefines ==
    ASSUME IInv, NEW id \in Ids, id \notin entered, Attach(id), UNCHANGED crashes
    PROVE  Durable!DurableNext
<1>1. id \notin attached /\ buffer[id] = <<>> /\ Tracked(id)
  BY DEF IInv, TypeOK, Tracked
<1>2. /\ buffer'[id] = <<>> /\ tail'[id] = Nothing
      /\ lines'[id] = IF id \in present THEN lines[id] ELSE <<Header>>
      /\ synced'[id] = IF id \in present /\ tail[id] = Nothing THEN synced[id] ELSE 0
      /\ \A i \in Ids \ {id} : /\ lines'[i] = lines[i] /\ buffer'[i] = buffer[i]
                               /\ tail'[i] = tail[i] /\ synced'[i] = synced[i]
  BY DEF Attach, IInv, TypeOK
<1>3. ASSUME NEW i \in Ids, i # id PROVE Durable!Same(i)
  BY <1>2, <1>3 DEF Durable!Same
<1>4. CASE id \in present /\ tail[id] = Nothing
  <2>1. Durable!Same(id)
    BY <1>1, <1>2, <1>4 DEF Durable!Same
  <2> QED BY <1>3, <2>1 DEF Durable!DurableNext
<1>5. CASE id \in present /\ tail[id] # Nothing
  <2>1. Durable!Mend(id)
    BY <1>1, <1>2, <1>5 DEF Durable!Mend
  <2> QED BY <1>3, <2>1 DEF Durable!DurableNext
<1>6. CASE id \notin present
  <2>1. lines[id] = <<>> /\ tail[id] = Nothing /\ synced'[id] = 0 /\ lines'[id] = <<Header>>
    BY <1>1, <1>2, <1>6 DEF Tracked
  <2>2. Durable!Longer(<<Header>>, <<>>)
    BY Records DEF Durable!Longer
  <2>3. Durable!Begin(id)
    BY <1>1, <1>2, <2>1, <2>2 DEF Durable!Begin
  <2> QED BY <1>3, <2>3 DEF Durable!DurableNext
<1> QED BY <1>4, <1>5, <1>6

LEMMA LongerByOne ==
    ASSUME NEW s \in Seq(Record), NEW e \in Record
    PROVE  Durable!Longer(Append(s, e), s)
<1>1. Append(s, e) # <<>> /\ Append(s, e)[Len(Append(s, e))] = e
  BY AppendProperties
<1> QED BY <1>1 DEF Durable!Longer

LEMMA AppendRefines ==
    ASSUME IInv, NEW id \in Ids, AppendEvent(id)
    PROVE  Durable!DurableNext
<1>1. PICK e \in Candidates(id, next[id]) :
        IF Valid(e) THEN Buffered(id, e) ELSE UNCHANGED <<buffer, lines>>
  BY DEF AppendEvent
<1>2. e \in Event
  <2>1. next[id] \in Nat /\ AppendKinds[id] \subseteq Kinds
    BY SessionAssumption DEF IInv, TypeOK
  <2>2. 0..next[id] \subseteq Nat /\ 0..(next[id] + 1) \subseteq Nat
    BY <2>1
  <2> QED BY <1>1, <2>1, <2>2 DEF Candidates, Event
<1>3. e \in Record /\ lines[id] \in Seq(Record) /\ buffer[id] \in Seq(Record)
  BY <1>2, Records, SeqMonotonic DEF IInv, TypeOK
<1>4. tail' = tail /\ synced' = synced /\ crashes' = crashes
  BY DEF AppendEvent
<1>5. CASE Valid(e)
  <2>1. /\ \A i \in Ids \ {id} : lines'[i] = lines[i] /\ buffer'[i] = buffer[i]
        /\ id \notin attached => lines'[id] = lines[id] /\ buffer'[id] = buffer[id]
        /\ id \in attached =>
              \/ lines'[id] = lines[id] /\ buffer'[id] = Append(buffer[id], e)
              \/ lines'[id] = lines[id] \o Append(buffer[id], e) /\ buffer'[id] = <<>>
    BY <1>1, <1>2, <1>5, BufferedKeeps
  <2>2. ASSUME NEW i \in Ids, i # id PROVE Durable!Same(i)
    BY <1>4, <2>1, <2>2 DEF Durable!Same
  <2>3. CASE id \notin attached
    <3>1. Durable!Same(id)
      BY <1>4, <2>1, <2>3 DEF Durable!Same
    <3> QED BY <1>4, <2>2, <3>1 DEF Durable!DurableNext
  <2>4. CASE lines'[id] = lines[id] /\ buffer'[id] = Append(buffer[id], e)
    <3>1. Durable!Longer(buffer'[id], buffer[id])
      BY <1>3, <2>4, LongerByOne
    <3>2. Durable!Accept(id)
      BY <1>4, <2>4, <3>1 DEF Durable!Accept
    <3> QED BY <1>4, <2>2, <3>2 DEF Durable!DurableNext
  <2>5. CASE lines'[id] = lines[id] \o Append(buffer[id], e) /\ buffer'[id] = <<>>
    <3>1. lines'[id] = Append(lines[id] \o buffer[id], e) /\ lines[id] \o buffer[id] \in Seq(Record)
      <4> DEFINE a == lines[id]
                 b == buffer[id]
      <4>1. a \in Seq(Record) /\ b \in Seq(Record) /\ e \in Record
        BY <1>3
      <4>2. lines'[id] = a \o Append(b, e)
        BY <2>5
      <4> HIDE DEF a, b
      <4>3. a \o Append(b, e) = Append(a \o b, e)
        BY <4>1, ConcatAppend
      <4>4. a \o b \in Seq(Record)
        BY <4>1, ConcatProperties
      <4> QED BY <4>2, <4>3, <4>4 DEF a, b
    <3>2. Durable!Longer(lines'[id], lines[id] \o buffer[id])
      BY <1>3, <3>1, LongerByOne
    <3>3. Durable!Accept(id)
      BY <1>4, <2>5, <3>2 DEF Durable!Accept
    <3> QED BY <1>4, <2>2, <3>3 DEF Durable!DurableNext
  <2> QED BY <2>1, <2>3, <2>4, <2>5
<1>6. CASE ~Valid(e)
  <2>1. ASSUME NEW i \in Ids PROVE Durable!Same(i)
    BY <1>1, <1>4, <1>6 DEF Durable!Same
  <2> QED BY <1>4, <2>1 DEF Durable!DurableNext
<1> QED BY <1>5, <1>6

LEMMA FlushRefines ==
    ASSUME IInv, NEW S \in SUBSET attached, Flushed(S), UNCHANGED <<tail, crashes>>
    PROVE  Durable!DurableNext
<1>1. ASSUME NEW i \in Ids PROVE Durable!Same(i) \/ Durable!Vouch(i)
  <2>1. CASE i \in S
    <3>1. lines'[i] = lines[i] \o buffer[i] /\ synced'[i] = Len(lines'[i]) /\ buffer'[i] = <<>>
      BY <2>1, FlushedFacts
    <3> QED BY <3>1 DEF Durable!Vouch
  <2>2. CASE i \notin S
    <3>1. lines'[i] = lines[i] /\ synced'[i] = synced[i] /\ buffer'[i] = buffer[i]
      BY <2>2, FlushedFacts
    <3> QED BY <3>1 DEF Durable!Same
  <2> QED BY <2>1, <2>2
<1> QED BY <1>1 DEF Durable!DurableNext

LEMMA CrashRefines ==
    ASSUME IInv, NEW power \in BOOLEAN, NEW busy \in {{}} \cup {{i} : i \in attached}, Crash(power, busy)
    PROVE  Durable!DurableNext
<1>1. ASSUME NEW i \in Ids PROVE Durable!Lose(i)
  <2> DEFINE all == lines[i] \o buffer[i]
             n == Len(lines'[i])
  <2>1. /\ lines'[i] = SubSeq(all, 1, n) /\ n \in synced[i]..Len(all)
        /\ ~power => Len(lines[i]) <= n
        /\ synced'[i] = IF power THEN n ELSE synced[i]
    BY CrashFacts
  <2>2. lines' \in [Ids -> Seq(Record)]
    BY CrashFacts
  <2>3. n \in Nat /\ synced[i] \in Nat /\ buffer'[i] = <<>>
    <3>1. lines'[i] \in Seq(Record)
      BY <2>2
    <3>2. n \in Nat
      BY <3>1
    <3>3. synced[i] \in Nat
      BY DEF IInv, TypeOK
    <3>4. buffer'[i] = <<>>
      BY DEF Crash, Restarted
    <3> QED BY <3>2, <3>3, <3>4
  <2>4. Len(all) \in Nat
    <3>1. lines[i] \in Seq(Record) /\ buffer[i] \in Seq(Record)
      BY Records, SeqMonotonic DEF IInv, TypeOK
    <3> QED BY <3>1, ConcatLonger
  <2> HIDE DEF n, all
  <2>5. /\ n \in synced[i]..Len(all) /\ n \in 0..Len(all) /\ synced'[i] \in 0..n /\ synced'[i] >= synced[i]
    BY <2>1, <2>3, <2>4
  <2>6. Durable!PrefixFrom(IF tail[i] # Nothing THEN 0 ELSE synced[i], lines'[i], all)
    BY <2>1, <2>5 DEF Durable!PrefixFrom, n
  <2>7. Durable!PrefixFrom(IF tail[i] # Nothing THEN 0 ELSE synced[i], lines'[i], lines[i] \o buffer[i])
    BY <2>6 DEF all
  <2> QED BY <2>3, <2>5, <2>7 DEF Durable!Lose, n
<1>2. crashes' = crashes + 1
  BY DEF Crash, Restarted
<1>3. \A i \in Ids : (tail'[i] # Nothing) \in BOOLEAN
  OBVIOUS
<1> QED BY <1>1, <1>2, <1>3 DEF Durable!DurableNext

(* A crash while a log is begun or mended leaves it as one of the two.     *)
LEMMA CrashOpeningRefines ==
    ASSUME IInv, NEW id \in Ids, CrashOpening(id)
    PROVE  Durable!DurableNext
<1>1. crashes' = crashes + 1 /\ buffer' = [i \in Ids |-> <<>>]
  BY DEF CrashOpening, Restarted
<1>2. /\ \A i \in Ids \ {id} : lines'[i] = lines[i] /\ synced'[i] = synced[i]
      /\ synced'[id] = 0
  BY CrashOpeningFacts
<1>3. \A i \in Ids : (tail'[i] # Nothing) \in BOOLEAN
  OBVIOUS
<1>4. ASSUME NEW i \in Ids, i # id PROVE Durable!Lose(i)
  <2> DEFINE a == lines[i]
             b == buffer[i]
  <2>1. a \in Seq(Record) /\ b \in Seq(Record)
    BY Records, SeqMonotonic DEF IInv, TypeOK
  <2>2. synced[i] \in 0..Len(a) /\ lines'[i] = a /\ synced'[i] = synced[i] /\ buffer'[i] = <<>>
    BY <1>1, <1>2, <1>4 DEF IInv, TypeOK, Tracked
  <2>3. Len(a) \in Nat /\ Len(a) \in 0..Len(a) /\ Len(a) \in synced[i]..Len(a)
    BY <2>1, <2>2
  <2>4. a = SubSeq(a, 1, Len(a)) /\ SubSeq(a, 1, Len(a)) = SubSeq(a \o b, 1, Len(a))
    <3> HIDE DEF a, b
    <3>1. a = SubSeq(a, 1, Len(a))
      BY <2>1, SubSeqFull
    <3>2. SubSeq(a, 1, Len(a)) = SubSeq(a \o b, 1, Len(a))
      BY <2>1, <2>3, PrefixOfConcat
    <3> QED BY <3>1, <3>2
  <2>5. Len(a) <= Len(a \o b) /\ Len(a \o b) \in Nat
    BY <2>1, <2>3, ConcatLonger
  <2>6. lines'[i] = SubSeq(lines[i] \o buffer[i], 1, Len(lines'[i]))
    BY <2>2, <2>4
  <2> DEFINE n == Len(a \o b)
  <2>7. n = Len(lines[i] \o buffer[i])
    OBVIOUS
  <2> DEFINE k == Len(lines'[i])
  <2>8. k = Len(a)
    BY <2>2
  <2> DEFINE y == synced[i]
             z == Len(a)
  <2>9. z <= n /\ n \in Nat /\ y \in 0..z /\ z \in Nat /\ k = z
    BY <2>2, <2>3, <2>5, <2>8
  <2> HIDE DEF n, k, y, z
  <2>10. k \in 0..n /\ k \in y..n /\ y \in 0..k /\ y >= y
    BY <2>9
  <2>11. Durable!PrefixFrom(IF tail[i] # Nothing THEN 0 ELSE synced[i], lines'[i], lines[i] \o buffer[i])
    BY <2>6, <2>7, <2>10 DEF Durable!PrefixFrom, n, k, y
  <2>12. synced'[i] \in 0..Len(lines'[i]) /\ synced'[i] >= synced[i]
    BY <2>2, <2>10 DEF k, y
  <2> QED BY <2>2, <2>11, <2>12 DEF Durable!Lose
<1>5. Durable!Lose(id)
  <2>1. /\ buffer[id] = <<>> /\ buffer'[id] = <<>> /\ Tracked(id)
        /\ lines[id] \in Seq(Record) /\ lines'[id] \in Seq(Record)
    BY <1>1, CrashOpeningFacts DEF IInv, TypeOK, Tracked
  <2>2. lines[id] \o buffer[id] = lines[id]
    BY <2>1
  <2>3. Len(lines'[id]) \in Nat
    BY <2>1
  <2>4. synced'[id] \in 0..Len(lines'[id])
    BY <1>2, <2>3
  <2>5. CASE id \in present
    <3>1. tail[id] # Nothing
      BY <2>5 DEF CrashOpening, Opening
    <3>2. Durable!PrefixFrom(0, lines'[id], lines[id] \o buffer[id])
      BY <2>2, <2>5, CrashOpeningFacts DEF Durable!PrefixFrom
    <3> QED BY <2>1, <2>4, <3>1, <3>2 DEF Durable!Lose
  <2>6. CASE id \notin present
    <3>1. lines[id] = <<>> /\ synced[id] = 0
      <4>1. lines[id] = <<>> /\ synced[id] \in 0..Len(lines[id])
        BY <2>1, <2>6 DEF Tracked
      <4>2. Len(lines[id]) = 0
        BY <4>1
      <4> QED BY <4>1, <4>2
    <3>2. synced'[id] >= synced[id]
      BY <1>2, <3>1
    <3>3. CASE lines'[id] = <<>>
      <4>1. Durable!PrefixFrom(IF tail[id] # Nothing THEN 0 ELSE synced[id], <<>>, <<>>)
        BY <3>1, SubSeqEmpty DEF Durable!PrefixFrom
      <4>2. Durable!PrefixFrom(IF tail[id] # Nothing THEN 0 ELSE synced[id], lines'[id], lines[id] \o buffer[id])
        BY <2>2, <3>1, <3>3, <4>1
      <4> QED BY <2>1, <2>4, <3>2, <4>2 DEF Durable!Lose
    <3>4. CASE lines'[id] = <<Header>>
      <4>1. Durable!Longer(lines'[id], <<>>)
        BY <3>4, Records DEF Durable!Longer
      <4> QED BY <2>1, <2>4, <3>1, <3>2, <4>1 DEF Durable!Lose
    <3> QED BY <2>6, <3>3, <3>4, CrashOpeningFacts
  <2> QED BY <2>5, <2>6
<1>6. \A i \in Ids : Durable!Lose(i)
  BY <1>4, <1>5
<1> QED BY <1>1, <1>3, <1>6 DEF Durable!DurableNext

LEMMA StepRefines == IInv /\ [Next]_vars => [Durable!DurableNext]_(Durable!dvars)
<1> SUFFICES ASSUME IInv, [Next]_vars PROVE Durable!DurableNext \/ UNCHANGED Durable!dvars
  OBVIOUS
<1>1. CASE UNCHANGED vars
  BY <1>1 DEF vars, memory, disk, Durable!dvars
<1>2. ASSUME NEW id \in Ids, Create(id) PROVE Durable!DurableNext
  BY <1>2, EnterRefines DEF Create, Enter
<1>3. ASSUME NEW id \in Ids, NEW parent \in Ids, NEW cut \in 0..MaxLog, Fork(parent, id, cut)
      PROVE  Durable!DurableNext
  BY <1>3, EnterRefines DEF Fork, Enter
<1>4. ASSUME NEW id \in Ids, Load(id) PROVE Durable!DurableNext
  BY <1>4, EnterRefines DEF Load, Enter
<1>5. ASSUME NEW id \in Ids, AppendEvent(id) PROVE Durable!DurableNext
  BY <1>5, AppendRefines
<1>6. ASSUME NEW id \in Ids, Flush(id) PROVE Durable!DurableNext
  <2>1. {id} \in SUBSET attached /\ Flushed({id}) /\ UNCHANGED <<tail, crashes>>
    BY <1>6 DEF Flush
  <2> QED BY <2>1, FlushRefines
<1>7. ASSUME NEW id \in Ids, Dispose(id) PROVE Durable!DurableNext
  <2>1. {id} \cap attached \in SUBSET attached /\ Flushed({id} \cap attached) /\ UNCHANGED <<tail, crashes>>
    BY <1>7 DEF Dispose
  <2> QED BY <2>1, FlushRefines
<1>8. CASE Remount
  <2>1. attached \in SUBSET attached /\ Flushed(attached) /\ UNCHANGED <<tail, crashes>>
    BY <1>8 DEF Remount
  <2> QED BY <2>1, FlushRefines
<1>9. ASSUME NEW power \in BOOLEAN, NEW busy \in {{}} \cup {{i} : i \in attached}, Crash(power, busy)
      PROVE  Durable!DurableNext
  BY <1>9, CrashRefines
<1>10. ASSUME NEW id \in Ids, CrashOpening(id) PROVE Durable!DurableNext
  BY <1>10, CrashOpeningRefines
<1> QED BY <1>1, <1>2, <1>3, <1>4, <1>5, <1>6, <1>7, <1>8, <1>9, <1>10 DEF Next

(* The persistence plugin implements the durable log, for every number of  *)
(* sessions, events and crashes, and every drain threshold: a crash loses  *)
(* a suffix, no flushed record, and a reopened log at worst its torn end.  *)
(* (jsonl_backend::attach, append, drain, flush, truncate_torn_tail.)      *)
THEOREM Refines == Spec => DurablePromise
<1>1. Init => Durable!DurableInit
  BY RefinesInitially
<1>2. IInv /\ [Next]_vars => [Durable!DurableNext]_(Durable!dvars)
  BY StepRefines
<1> QED BY <1>1, <1>2, AlwaysIInv, PTL DEF Spec, DurablePromise, Durable!DurableSpec
===============================================================================
