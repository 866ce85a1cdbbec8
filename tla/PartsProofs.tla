----------------------------- MODULE PartsProofs -----------------------------
(***************************************************************************)
(* The parts of Parts, for every value of the constants: the cleanup stack *)
(* (Effects), the structured result of a subagent (OneShot), the jobs      *)
(* (Jobs), the pool of a language server (LspPool), the search index       *)
(* (SessionIndex), projections (Projection), skills (Skill), who may       *)
(* change a goal (GoalTool) and the file guard (FileGuard).  Each has an   *)
(* inductive invariant: the stack's is stated here, the others' end their  *)
(* modules.                                                                *)
(*                                                                         *)
(* The variables of the latter are registers; each section calls them by   *)
(* the names the part has for them.                                        *)
(***************************************************************************)
EXTENDS Parts, SequenceTheorems, FiniteSetTheorems, WellFoundedInduction, TLAPS

----------------------------------------------------------------------------
(* Effects: the teardown of an activation reverts every effect exactly     *)
(* once, for any number of effects and any nesting of cleanups.            *)
Typed ==
    /\ entries \in Seq([id : Nat \ {0}, released : BOOLEAN])
    /\ undone \in Seq([id : Nat \ {0}, by : {"walk", "release"}])
    /\ count \in Nat /\ placed \in Nat /\ processed \in Nat
    /\ phase \in {"live", "walking", "torn"}

(* An effect is one entry, released exactly when its cleanup has run.      *)
Ids ==
    /\ \A i \in DOMAIN entries : entries[i].id <= count
    /\ \A k \in DOMAIN undone : undone[k].id <= count
    /\ \A i, j \in DOMAIN entries : i # j => entries[i].id # entries[j].id
    /\ \A i, j \in DOMAIN undone : i # j => undone[i].id # undone[j].id
    /\ \A i \in DOMAIN entries :
        entries[i].released <=> \E k \in DOMAIN undone : undone[k].id = entries[i].id

(* Until the stack is cleared, an effect's number is its place on it.      *)
Stacked ==
    phase # "torn" => /\ Len(entries) = count
                      /\ \A i \in DOMAIN entries : entries[i].id = i

Unwalked == phase = "live" => processed = 0 /\ \A k \in DOMAIN undone : undone[k].by # "walk"

(* What the walk has passed, of what was there when it began, is released: *)
(* an effect added meanwhile only moves the walk back over what it passed. *)
Passed ==
    phase = "walking" =>
        /\ placed <= count
        /\ \A i \in 1..placed : i > Len(entries) - processed => entries[i].released
        /\ \A k \in DOMAIN undone : undone[k].by = "walk" /\ undone[k].id <= placed
               => \A i \in undone[k].id..placed : entries[i].released

Finished == phase = "torn" => \A n \in 1..placed : \E k \in DOMAIN undone : undone[k].id = n

Ordered ==
    \A i, j \in DOMAIN undone :
        i < j /\ undone[i].by = "walk" /\ undone[j].by = "walk" /\ undone[i].id <= placed /\ undone[j].id <= placed
            => undone[i].id > undone[j].id

IInv == Typed /\ Ids /\ Stacked /\ Unwalked /\ Passed /\ Finished /\ Ordered

(* What is on the stack and in the history is of its type.                 *)
LEMMA Elements ==
    ASSUME Typed
    PROVE  /\ Len(entries) \in Nat /\ DOMAIN entries = 1..Len(entries)
           /\ Len(undone) \in Nat /\ DOMAIN undone = 1..Len(undone)
           /\ \A i \in DOMAIN entries : entries[i].id \in Nat \ {0} /\ entries[i].released \in BOOLEAN
           /\ \A k \in DOMAIN undone : undone[k].id \in Nat \ {0} /\ undone[k].by \in {"walk", "release"}
<1>1. /\ entries \in Seq([id : Nat \ {0}, released : BOOLEAN])
      /\ undone \in Seq([id : Nat \ {0}, by : {"walk", "release"}])
  BY DEF Typed
<1>2. /\ Len(entries) \in Nat /\ DOMAIN entries = 1..Len(entries)
      /\ Len(undone) \in Nat /\ DOMAIN undone = 1..Len(undone)
  BY <1>1
<1>3. \A i \in DOMAIN entries : entries[i] \in [id : Nat \ {0}, released : BOOLEAN]
  BY <1>1, <1>2, ElementOfSeq, Zenon
<1>4. \A k \in DOMAIN undone : undone[k] \in [id : Nat \ {0}, by : {"walk", "release"}]
  BY <1>1, <1>2, ElementOfSeq, Zenon
<1> QED  BY <1>2, <1>3, <1>4

(* run_entry() marks at most the entry it is given and runs its cleanup if *)
(* it has not run: effects.cpp's only use of the released flag.            *)
LEMMA RunEntryOnce ==
    ASSUME Typed, Ids, NEW i, NEW by \in {"walk", "release"}, RunEntry(i, by), count' = count
    PROVE  /\ entries' \in Seq([id : Nat \ {0}, released : BOOLEAN])
           /\ undone' \in Seq([id : Nat \ {0}, by : {"walk", "release"}])
           /\ Len(entries') = Len(entries) /\ DOMAIN entries' = DOMAIN entries
           /\ \A j \in DOMAIN entries : /\ entries'[j].id = entries[j].id
                                        /\ entries[j].released => entries'[j].released
           /\ i \in DOMAIN entries => entries'[i].released
           /\ DOMAIN undone \subseteq DOMAIN undone'
           /\ \A k \in DOMAIN undone : undone'[k] = undone[k]
           /\ \A k \in DOMAIN undone' \ DOMAIN undone :
                /\ k = Len(undone) + 1 /\ i \in DOMAIN entries /\ ~entries[i].released
                /\ undone'[k] = [id |-> entries[i].id, by |-> by]
           /\ Ids'
<1>1. CASE i \in DOMAIN entries /\ ~entries[i].released
  <2> DEFINE e == [entries EXCEPT ![i].released = TRUE]
             u == Append(undone, [id |-> entries[i].id, by |-> by])
  <2>1. entries' = e /\ undone' = u
    BY <1>1 DEF RunEntry
  <2>2. entries[i] \in [id : Nat \ {0}, released : BOOLEAN] /\ entries[i].id \in Nat \ {0}
    <3>1. entries \in Seq([id : Nat \ {0}, released : BOOLEAN]) /\ i \in DOMAIN entries
      BY <1>1 DEF Typed
    <3>2. i \in 1..Len(entries)
      BY <3>1
    <3>3. entries[i] \in [id : Nat \ {0}, released : BOOLEAN]
      BY <3>1, <3>2, ElementOfSeq, Zenon
    <3> QED  BY <3>3
  <2>3. /\ e \in Seq([id : Nat \ {0}, released : BOOLEAN])
        /\ Len(e) = Len(entries) /\ DOMAIN e = DOMAIN entries
        /\ e[i].id = entries[i].id /\ e[i].released = TRUE
        /\ \A j \in DOMAIN entries : j # i => e[j] = entries[j]
    <3> DEFINE x == [entries[i] EXCEPT !.released = TRUE]
    <3>1. x \in [id : Nat \ {0}, released : BOOLEAN] /\ x.id = entries[i].id /\ x.released = TRUE
      BY <2>2
    <3>2. entries \in Seq([id : Nat \ {0}, released : BOOLEAN]) /\ i \in DOMAIN entries
      BY <1>1 DEF Typed
    <3>3. e = [entries EXCEPT ![i] = x]
      OBVIOUS
    <3> HIDE DEF x, e
    <3>4. /\ e \in Seq([id : Nat \ {0}, released : BOOLEAN])
          /\ Len(e) = Len(entries)
          /\ \A j \in 1..Len(entries) : e[j] = IF j = i THEN x ELSE entries[j]
      BY <3>1, <3>2, <3>3, ExceptSeq
    <3> QED  BY <3>1, <3>2, <3>4
  <2>4. /\ u \in Seq([id : Nat \ {0}, by : {"walk", "release"}])
        /\ Len(u) = Len(undone) + 1 /\ DOMAIN u = 1..Len(undone) + 1 /\ DOMAIN undone = 1..Len(undone)
        /\ Len(undone) \in Nat
        /\ \A k \in DOMAIN undone : u[k] = undone[k]
        /\ u[Len(undone) + 1] = [id |-> entries[i].id, by |-> by]
    BY <2>2 DEF Typed
  <2> HIDE DEF e, u
  <2>5. \A k \in DOMAIN u : k \in DOMAIN undone \/ k = Len(undone) + 1
    BY <2>4
  <2>6. \A j \in DOMAIN entries : e[j].id = entries[j].id
    BY <2>3
  <2>7. \A k \in DOMAIN undone : undone[k].id # entries[i].id
    BY <1>1 DEF Ids
  <2>8. \A k \in DOMAIN u : u[k].id <= count
    BY <1>1, <2>4, <2>5 DEF Ids
  <2>9. \A j, k \in DOMAIN u : j # k => u[j].id # u[k].id
    BY <2>4, <2>5, <2>7 DEF Ids
  <2>10. \A j \in DOMAIN entries : e[j].released <=> \E k \in DOMAIN u : u[k].id = entries[j].id
    <3> SUFFICES ASSUME NEW j \in DOMAIN entries
                 PROVE  e[j].released <=> \E k \in DOMAIN u : u[k].id = entries[j].id
      OBVIOUS
    <3>1. CASE j = i
      BY <2>3, <2>4, <3>1, SMTT(40)
    <3>2. CASE j # i
      <4>1. entries[j].id # entries[i].id /\ e[j] = entries[j]
        BY <1>1, <2>3, <3>2 DEF Ids
      <4>2. entries[j].released <=> \E k \in DOMAIN undone : undone[k].id = entries[j].id
        BY DEF Ids
      <4> QED  BY <2>4, <2>5, <4>1, <4>2
    <3> QED  BY <3>1, <3>2
  <2>11. Ids'
    <3>1. \A j \in DOMAIN e : e[j].id <= count
      BY <2>3, <2>6 DEF Ids
    <3>2. \A j, k \in DOMAIN e : j # k => e[j].id # e[k].id
      BY <2>3, <2>6 DEF Ids
    <3>3. \A j \in DOMAIN e : e[j].released <=> \E k \in DOMAIN u : u[k].id = e[j].id
      BY <2>3, <2>6, <2>10
    <3> QED  BY <2>1, <2>8, <2>9, <3>1, <3>2, <3>3 DEF Ids
  <2>12. \A j \in DOMAIN entries : entries[j].released => e[j].released
    BY <2>3
  <2>13. \A k \in DOMAIN u \ DOMAIN undone :
            /\ k = Len(undone) + 1 /\ i \in DOMAIN entries /\ ~entries[i].released
            /\ u[k] = [id |-> entries[i].id, by |-> by]
    BY <1>1, <2>4, <2>5
  <2>14. DOMAIN undone \subseteq DOMAIN u /\ e[i].released
    BY <2>3, <2>4
  <2> QED  BY <2>1, <2>3, <2>4, <2>6, <2>11, <2>12, <2>13, <2>14
<1>2. CASE ~(i \in DOMAIN entries /\ ~entries[i].released)
  <2>1. entries' = entries /\ undone' = undone
    BY <1>2 DEF RunEntry
  <2> QED  BY <1>2, <2>1 DEF Typed, Ids
<1> QED  BY <1>1, <1>2

(* Registering an effect puts it on top: effect(), on(), provide(), mount().*)
LEMMA AddKeeps == ASSUME IInv, Add PROVE IInv'
<1> DEFINE x == [id |-> count + 1, released |-> FALSE]
<1>1. /\ entries' = Append(entries, x) /\ count' = count + 1
      /\ UNCHANGED <<phase, processed, placed, undone>>
  BY DEF Add
<1>2. /\ entries \in Seq([id : Nat \ {0}, released : BOOLEAN]) /\ count \in Nat
      /\ x \in [id : Nat \ {0}, released : BOOLEAN] /\ x.id = count + 1 /\ x.released = FALSE
  BY DEF IInv, Typed
<1> HIDE DEF x
<1>3. /\ entries' \in Seq([id : Nat \ {0}, released : BOOLEAN])
      /\ Len(entries) \in Nat /\ Len(entries') = Len(entries) + 1
      /\ DOMAIN entries = 1..Len(entries) /\ DOMAIN entries' = 1..Len(entries) + 1
      /\ \A i \in DOMAIN entries : entries'[i] = entries[i]
      /\ entries'[Len(entries) + 1] = x
  BY <1>1, <1>2, AppendProperties
<1>4. \A i \in DOMAIN entries' : i \in DOMAIN entries \/ i = Len(entries) + 1
  BY <1>3
<1>5. Typed'
  BY <1>1, <1>3 DEF IInv, Typed
<1>6. Ids'
  <2>1. \A i \in DOMAIN entries : entries[i].id <= count /\ entries[i].id \in Nat
    BY Elements DEF IInv, Ids
  <2>2. \A i \in DOMAIN entries' : entries'[i].id <= count'
    BY <1>1, <1>2, <1>3, <1>4, <2>1
  <2>3. \A i, j \in DOMAIN entries' : i # j => entries'[i].id # entries'[j].id
    <3> SUFFICES ASSUME NEW i \in DOMAIN entries', NEW j \in DOMAIN entries', i # j
                 PROVE  entries'[i].id # entries'[j].id
      OBVIOUS
    <3>1. CASE i \in DOMAIN entries /\ j \in DOMAIN entries
      BY <1>3, <3>1 DEF IInv, Ids
    <3>2. CASE i = Len(entries) + 1 /\ j \in DOMAIN entries
      BY <1>2, <1>3, <2>1, <3>2
    <3>3. CASE j = Len(entries) + 1 /\ i \in DOMAIN entries
      BY <1>2, <1>3, <2>1, <3>3
    <3> QED  BY <1>4, <3>1, <3>2, <3>3
  <2>5. \A k \in DOMAIN undone : undone[k].id <= count /\ undone[k].id \in Nat
    BY Elements DEF IInv, Ids
  <2>6. \A k \in DOMAIN undone : undone[k].id <= count + 1 /\ undone[k].id # count + 1
    BY <1>2, <2>5
  <2>7. \A i \in DOMAIN entries' : entries'[i].released <=> \E k \in DOMAIN undone : undone[k].id = entries'[i].id
    <3> SUFFICES ASSUME NEW i \in DOMAIN entries'
                 PROVE  entries'[i].released <=> \E k \in DOMAIN undone : undone[k].id = entries'[i].id
      OBVIOUS
    <3>1. CASE i \in DOMAIN entries
      BY <1>3, <3>1 DEF IInv, Ids
    <3>2. CASE i = Len(entries) + 1
      BY <1>2, <1>3, <2>6, <3>2
    <3> QED  BY <1>4, <3>1, <3>2
  <2> QED  BY <1>1, <2>2, <2>3, <2>6, <2>7 DEF IInv, Ids
<1>7. Stacked'
  BY <1>1, <1>2, <1>3, <1>4 DEF IInv, Stacked
<1>8. Unwalked' /\ Finished' /\ Ordered'
  BY <1>1 DEF IInv, Unwalked, Finished, Ordered
<1>9. Passed'
  <2> SUFFICES ASSUME phase' = "walking"
               PROVE  /\ placed' <= count'
                      /\ \A i \in 1..placed' : i > Len(entries') - processed' => entries'[i].released
                      /\ \A k \in DOMAIN undone' : undone'[k].by = "walk" /\ undone'[k].id <= placed'
                             => \A i \in undone'[k].id..placed' : entries'[i].released
    BY DEF Passed
  <2>1. placed <= count /\ placed \in Nat /\ processed \in Nat /\ Len(entries) = count
    BY <1>1 DEF IInv, Passed, Stacked, Typed
  <2>2. \A i \in 1..placed : i \in DOMAIN entries /\ entries'[i] = entries[i]
    BY <1>2, <1>3, <2>1, SMTT(40)
  <2>3. \A i \in 1..placed : i > Len(entries) + 1 - processed => entries'[i].released
    <3> SUFFICES ASSUME NEW i \in 1..placed, i > Len(entries) + 1 - processed
                 PROVE  entries'[i].released
      OBVIOUS
    <3>1. i > Len(entries) - processed
      BY <1>3, <2>1
    <3>2. entries[i].released
      BY <1>1, <3>1 DEF IInv, Passed
    <3> QED  BY <2>2, <3>2
  <2>4. \A k \in DOMAIN undone : undone[k].id \in Nat \ {0}
    BY Elements DEF IInv
  <2>5. \A k \in DOMAIN undone : undone[k].by = "walk" /\ undone[k].id <= placed
                                   => \A i \in undone[k].id..placed : entries'[i].released
    <3> SUFFICES ASSUME NEW k \in DOMAIN undone, undone[k].by = "walk", undone[k].id <= placed,
                        NEW i \in undone[k].id..placed
                 PROVE  entries'[i].released
      OBVIOUS
    <3>1. entries[i].released
      BY <1>1 DEF IInv, Passed
    <3>2. i \in 1..placed
      BY <2>1, <2>4
    <3> QED  BY <2>2, <3>1, <3>2
  <2>6. placed' = placed /\ processed' = processed /\ undone' = undone /\ placed <= count + 1
    BY <1>1, <1>2, <2>1
  <2>7. Len(entries') = Len(entries) + 1 /\ count' = count + 1
    BY <1>1, <1>3
  <2>8. \A i \in 1..placed' : i > Len(entries') - processed' => entries'[i].released
    BY <1>3, <2>1, <2>3, <2>6, <2>7
  <2>9. \A k \in DOMAIN undone' : undone'[k].by = "walk" /\ undone'[k].id <= placed'
                                    => \A i \in undone'[k].id..placed' : entries'[i].released
    BY <2>5, <2>6
  <2> QED  BY <2>6, <2>7, <2>8, <2>9
<1> QED  BY <1>5, <1>6, <1>7, <1>8, <1>9 DEF IInv

(* registration::release() runs one cleanup out of order, at most.         *)
LEMMA ReleaseKeeps == ASSUME IInv, Release PROVE IInv'
<1>1. PICK h \in handles : RunEntry(h.index, "release")
  BY DEF Release
<1>2. UNCHANGED <<phase, processed, count, placed>>
  BY DEF Release
<1>3. Typed /\ Ids
  BY DEF IInv
<1> DEFINE i == h.index
<1>4. RunEntry(i, "release")
  BY <1>1
<1> HIDE DEF i
<1>5. /\ entries' \in Seq([id : Nat \ {0}, released : BOOLEAN])
      /\ undone' \in Seq([id : Nat \ {0}, by : {"walk", "release"}])
      /\ Len(entries') = Len(entries) /\ DOMAIN entries' = DOMAIN entries
      /\ \A j \in DOMAIN entries : /\ entries'[j].id = entries[j].id
                                   /\ entries[j].released => entries'[j].released
      /\ DOMAIN undone \subseteq DOMAIN undone'
      /\ \A k \in DOMAIN undone : undone'[k] = undone[k]
      /\ \A k \in DOMAIN undone' \ DOMAIN undone :
           undone'[k] = [id |-> entries[i].id, by |-> "release"]
      /\ Ids'
  BY <1>2, <1>3, <1>4, RunEntryOnce
<1>6. \A k \in DOMAIN undone' : undone'[k].by = "walk" => k \in DOMAIN undone /\ undone'[k] = undone[k]
  BY <1>5
<1>7. Typed'
  BY <1>2, <1>3, <1>5 DEF Typed
<1>8. Stacked'
  BY <1>2, <1>5 DEF IInv, Stacked
<1>9. Unwalked'
  BY <1>2, <1>6 DEF IInv, Unwalked
<1>10. Passed'
  <2>1. \A j \in 1..placed : phase = "walking" => j \in DOMAIN entries
    BY <1>3, Elements DEF IInv, Passed, Stacked, Typed
  <2>2. phase = "walking" => \A j \in 1..placed : j > Len(entries) - processed => entries'[j].released
    BY <1>5, <2>1 DEF IInv, Passed
  <2>3. ASSUME phase = "walking", NEW k \in DOMAIN undone, undone[k].by = "walk", undone[k].id <= placed,
               NEW j \in undone[k].id..placed
        PROVE  entries'[j].released
    <3>1. entries[j].released
      BY <2>3 DEF IInv, Passed
    <3>2. j \in 1..placed
      BY <1>3, <2>3, Elements DEF Typed
    <3> QED  BY <1>5, <2>1, <2>3, <3>1, <3>2
  <2> QED  BY <1>2, <1>5, <1>6, <2>2, <2>3 DEF IInv, Passed
<1>11. Finished'
  BY <1>2, <1>5 DEF IInv, Finished
<1>12. Ordered'
  BY <1>2, <1>5, <1>6 DEF IInv, Ordered
<1> QED  BY <1>5, <1>7, <1>8, <1>9, <1>10, <1>11, <1>12 DEF IInv

(* teardown() begins with everything in place and nothing passed.          *)
LEMMA TeardownKeeps == ASSUME IInv, Teardown PROVE IInv'
<1>1. /\ phase = "live" /\ phase' = "walking" /\ placed' = count
      /\ UNCHANGED <<entries, processed, count, undone>>
  BY DEF Teardown
<1>2. Typed /\ processed = 0 /\ Len(entries) = count /\ \A k \in DOMAIN undone : undone[k].by # "walk"
  BY <1>1 DEF IInv, Stacked, Unwalked
<1>3. Typed' /\ Ids' /\ Stacked' /\ Unwalked' /\ Finished' /\ Ordered'
  BY <1>1, <1>2 DEF IInv, Typed, Ids, Stacked, Unwalked, Finished, Ordered
<1>4. Passed'
  BY <1>1, <1>2 DEF Passed, Typed
<1> QED  BY <1>3, <1>4 DEF IInv

(* One iteration of run_all() reverts the highest effect it has not passed.*)
LEMMA IterationKeeps ==
    ASSUME IInv, phase = "walking", processed < Len(entries),
           RunEntry(Len(entries) - processed, "walk"), processed' = processed + 1,
           UNCHANGED <<phase, count, placed>>
    PROVE  IInv'
<1> DEFINE i == Len(entries) - processed
<1>1. Typed /\ Ids /\ RunEntry(i, "walk")
  BY DEF IInv
<1>2. /\ Len(entries) = count /\ \A j \in DOMAIN entries : entries[j].id = j
      /\ placed <= count /\ placed \in Nat /\ count \in Nat /\ processed \in Nat
      /\ \A j \in 1..placed : j > Len(entries) - processed => entries[j].released
  BY DEF IInv, Stacked, Passed, Typed
<1>3. i \in 1..Len(entries) /\ DOMAIN entries = 1..Len(entries) /\ Len(entries) \in Nat
  BY <1>1, <1>2, Elements
<1>4. \A j \in 1..placed : j \in DOMAIN entries
  BY <1>2, <1>3
<1> HIDE DEF i
<1>5. /\ entries' \in Seq([id : Nat \ {0}, released : BOOLEAN])
      /\ undone' \in Seq([id : Nat \ {0}, by : {"walk", "release"}])
      /\ Len(entries') = Len(entries) /\ DOMAIN entries' = DOMAIN entries
      /\ \A j \in DOMAIN entries : /\ entries'[j].id = entries[j].id
                                   /\ entries[j].released => entries'[j].released
      /\ i \in DOMAIN entries => entries'[i].released
      /\ DOMAIN undone \subseteq DOMAIN undone'
      /\ \A k \in DOMAIN undone : undone'[k] = undone[k]
      /\ \A k \in DOMAIN undone' \ DOMAIN undone :
           /\ k = Len(undone) + 1 /\ ~entries[i].released
           /\ undone'[k] = [id |-> entries[i].id, by |-> "walk"]
      /\ Ids'
  BY <1>1, RunEntryOnce
<1>6. \A k \in DOMAIN undone' \ DOMAIN undone : k = Len(undone) + 1 /\ ~entries[i].released /\ undone'[k].id = i
  <2>1. entries[i].id = i
    BY <1>2, <1>3
  <2>2. ASSUME NEW k \in DOMAIN undone' \ DOMAIN undone
        PROVE  k = Len(undone) + 1 /\ ~entries[i].released /\ undone'[k] = [id |-> entries[i].id, by |-> "walk"]
    BY <1>5
  <2> QED  BY <2>1, <2>2
<1>7. Typed'
  BY <1>1, <1>5 DEF Typed
<1>8. Stacked' /\ Unwalked' /\ Finished'
  BY <1>2, <1>5 DEF Stacked, Unwalked, Finished
<1>9. Passed'
  <2>1. ASSUME NEW j \in 1..placed, j > Len(entries) - (processed + 1)
        PROVE  entries'[j].released
    <3>1. CASE j = i
      BY <1>3, <1>5, <3>1
    <3>2. CASE j # i
      <4>1. j > Len(entries) - processed
        BY <1>2, <1>3, <2>1, <3>2 DEF i
      <4> QED  BY <1>2, <1>4, <1>5, <4>1
    <3> QED  BY <3>1, <3>2
  <2>2. ASSUME NEW k \in DOMAIN undone', undone'[k].id <= placed, undone'[k].by = "walk",
               NEW j \in undone'[k].id..placed
        PROVE  entries'[j].released
    <3>1. CASE k \in DOMAIN undone
      <4>1. entries[j].released
        BY <1>5, <2>2, <3>1 DEF IInv, Passed
      <4>2. j \in 1..placed
        BY <1>1, <1>2, <1>5, <2>2, <3>1, Elements
      <4> QED  BY <1>4, <1>5, <4>1, <4>2
    <3>2. CASE k \notin DOMAIN undone
      <4>1. j \in i..placed
        BY <1>6, <2>2, <3>2
      <4>2. j \in 1..placed /\ j > Len(entries) - (processed + 1)
        BY <1>2, <1>3, <4>1 DEF i
      <4> QED  BY <2>1, <4>2
    <3> QED  BY <3>1, <3>2
  <2>3. \A j \in 1..placed' : j > Len(entries') - processed' => entries'[j].released
    BY <1>5, <2>1
  <2> QED  BY <1>2, <2>2, <2>3 DEF Passed
<1>10. Ordered'
  <2> SUFFICES ASSUME NEW a \in DOMAIN undone', NEW b \in DOMAIN undone', a < b,
                      undone'[a].by = "walk", undone'[b].by = "walk",
                      undone'[a].id <= placed, undone'[b].id <= placed
               PROVE  undone'[a].id > undone'[b].id
    BY DEF Ordered
  <2>1. DOMAIN undone = 1..Len(undone) /\ Len(undone) \in Nat /\ DOMAIN undone' = 1..Len(undone')
    BY <1>1, <1>5, Elements
  <2>2. CASE b \in DOMAIN undone
    <3>1. a \in DOMAIN undone
      BY <2>1, <2>2
    <3> QED  BY <1>5, <2>2, <3>1 DEF IInv, Ordered
  <2>3. CASE b \notin DOMAIN undone
    <3>1. b = Len(undone) + 1 /\ ~entries[i].released /\ undone'[b].id = i
      BY <1>6, <2>3
    <3>2. a \in DOMAIN undone /\ undone'[a] = undone[a]
      BY <1>5, <2>1, <3>1
    <3>3. \A j \in undone[a].id..placed : entries[j].released
      BY <3>2 DEF IInv, Passed
    <3>4. undone[a].id \in Nat /\ i \in Nat /\ i <= placed /\ i \notin undone[a].id..placed
      BY <1>1, <1>3, <3>1, <3>2, <3>3, Elements
    <3> QED  BY <1>2, <3>1, <3>2, <3>4
  <2> QED  BY <2>2, <2>3
<1> QED  BY <1>5, <1>7, <1>8, <1>9, <1>10 DEF IInv

(* run_all() is through: everything that was in place has been passed.     *)
LEMMA EndKeeps ==
    ASSUME IInv, phase = "walking", ~(processed < Len(entries)), entries' = << >>, phase' = "torn",
           UNCHANGED <<processed, undone, count, placed>>
    PROVE  IInv'
<1>1. Typed /\ Ids
  BY DEF IInv
<1>2. Len(entries) \in Nat /\ processed \in Nat /\ DOMAIN entries = 1..Len(entries)
  BY <1>1, Elements DEF Typed
<1>3. /\ Len(entries) = count /\ \A j \in DOMAIN entries : entries[j].id = j
      /\ placed <= count /\ placed \in Nat
      /\ \A j \in 1..placed : j > Len(entries) - processed => entries[j].released
  BY DEF IInv, Stacked, Passed, Typed
<1>4. ASSUME NEW n \in 1..placed
      PROVE  \E k \in DOMAIN undone : undone[k].id = n
  <2>1. n \in DOMAIN entries /\ n > Len(entries) - processed
    BY <1>2, <1>3
  <2>2. entries[n].released /\ entries[n].id = n
    BY <1>3, <2>1
  <2> QED  BY <1>1, <2>1, <2>2 DEF Ids
<1>5. entries' \in Seq([id : Nat \ {0}, released : BOOLEAN]) /\ DOMAIN entries' = {}
  OBVIOUS
<1>6. Typed' /\ Ids'
  BY <1>1, <1>5 DEF Typed, Ids
<1> QED  BY <1>4, <1>6 DEF IInv, Stacked, Unwalked, Passed, Finished, Ordered

(* Every step of the activation keeps the invariant.                       *)
LEMMA StepKeeps == IInv /\ [Next]_vars => IInv'
<1> SUFFICES ASSUME IInv, [Next]_vars PROVE IInv'
  OBVIOUS
<1>1. CASE Add
  BY <1>1, AddKeeps
<1>2. CASE Release
  BY <1>2, ReleaseKeeps
<1>3. CASE Return
  BY <1>3 DEF Return, IInv, Typed, Ids, Stacked, Unwalked, Passed, Finished, Ordered
<1>4. CASE Teardown
  BY <1>4, TeardownKeeps
<1>5. CASE Walk
  <2>1. CASE processed < Len(entries)
    BY <1>5, <2>1, IterationKeeps DEF Walk
  <2>2. CASE ~(processed < Len(entries))
    BY <1>5, <2>2, EndKeeps DEF Walk
  <2> QED  BY <2>1, <2>2
<1>6. CASE UNCHANGED vars
  BY <1>6 DEF vars, IInv, Typed, Ids, Stacked, Unwalked, Passed, Finished, Ordered
<1> QED  BY <1>1, <1>2, <1>3, <1>4, <1>5, <1>6 DEF Next

(* However many effects an activation has, and whatever its cleanups add   *)
(* and release while the stack is walked (activation::teardown, run_all):  *)
(* each effect is reverted at most once, all that were in place are by the *)
(* end, and the walk takes them in reverse order.                          *)
THEOREM EachRevertedOnce == Spec => []Reverted
<1>1. Init => IInv
  <2> SUFFICES ASSUME Init PROVE IInv
    OBVIOUS
  <2>1. entries = << >> /\ undone = << >> /\ DOMAIN entries = {} /\ DOMAIN undone = {} /\ Len(entries) = 0
    BY DEF Init
  <2>2. Typed
    BY <2>1 DEF Init, Typed
  <2> QED  BY <2>1, <2>2 DEF Init, IInv, Ids, Stacked, Unwalked, Passed, Finished, Ordered
<1>2. IInv => Reverted
  BY DEF IInv, Ids, Finished, Ordered, Reverted
<1> QED  BY <1>1, <1>2, StepKeeps, PTL DEF Spec

----------------------------------------------------------------------------
(* OneShot.                                                                *)
tools == r1     denied == r2    scoped == r3    filter == r4    stage == r5
batch == r6     doing == r7     log == r8       value == r9     concluded == r10
stop == r11     steps == r12    turns == r13    changes == r14  answer == r15
oneShot == <<tools, denied, scoped, filter, stage, batch, doing, log, value, concluded, stop, steps, turns, changes, answer>>
USE DEF tools, denied, scoped, filter, stage, batch, doing, log, value, concluded, stop, steps, turns, changes, answer

LEMMA OneShotStarts == O!Init => O!Inv
BY DEF O!Init, O!Inv, O!Types, O!Authoritative, O!Worked, O!Successes, O!NoCall, O!NoAnswer, O!Named

(* What is appended to the log, and what works and succeeds then.          *)
LEMMA Logged ==
    ASSUME O!Types, NEW call \in O!Named,
           NEW result \in {"ok", "error", "aborted", "unknown", "refused"},
           log' = Append(log, O!Entry(call, result))
    PROVE  /\ log' \in Seq([name : Offered \cup {Capture}, valid : BOOLEAN,
                           result : {"ok", "error", "aborted", "unknown", "refused"}])
           /\ log'[Len(log) + 1] = O!Entry(call, result)
           /\ \A i \in DOMAIN log : log'[i] = log[i]
           /\ DOMAIN log' = DOMAIN log \cup {Len(log) + 1}
           /\ O!Worked' = O!Worked \cup (IF result \in {"ok", "error"} THEN {Len(log) + 1} ELSE {})
           /\ O!Successes' = O!Successes \cup
                 (IF call.name = Capture /\ result = "ok" THEN {Len(log) + 1} ELSE {})
           /\ \A i \in O!Worked : i \in Nat /\ i <= Len(log)
<1>1. O!Entry(call, result) \in [name : Offered \cup {Capture}, valid : BOOLEAN,
                                 result : {"ok", "error", "aborted", "unknown", "refused"}]
  BY DEF O!Entry, O!Named
<1>2. /\ log' \in Seq([name : Offered \cup {Capture}, valid : BOOLEAN,
                      result : {"ok", "error", "aborted", "unknown", "refused"}])
      /\ log'[Len(log) + 1] = O!Entry(call, result)
      /\ \A i \in DOMAIN log : log'[i] = log[i]
      /\ Len(log') = Len(log) + 1 /\ Len(log) \in Nat
      /\ DOMAIN log = 1..Len(log) /\ DOMAIN log' = 1..Len(log')
  BY <1>1 DEF O!Types
<1>3. DOMAIN log' = DOMAIN log \cup {Len(log) + 1} /\ Len(log) + 1 \notin DOMAIN log
  BY <1>2
<1>4. O!Worked' = O!Worked \cup (IF result \in {"ok", "error"} THEN {Len(log) + 1} ELSE {})
  BY <1>2, <1>3 DEF O!Worked, O!Entry
<1>5. O!Successes' = O!Successes \cup (IF call.name = Capture /\ result = "ok" THEN {Len(log) + 1} ELSE {})
  BY <1>2, <1>3, <1>4 DEF O!Worked, O!Successes, O!Entry
<1>. QED  BY <1>2, <1>3, <1>4, <1>5 DEF O!Worked

(* A run that returns: the structure is what was recorded.                 *)
LEMMA ReturnsWell ==
    ASSUME O!Inv, NEW end, O!Returned(end), UNCHANGED <<filter, log, value>>, O!Types'
    PROVE  O!Inv'
<1>1. O!Worked' = O!Worked /\ O!Successes' = O!Successes
  BY DEF O!Worked, O!Successes
<1>2. O!Authoritative'
  BY <1>1 DEF O!Inv, O!Authoritative, O!Returned
<1>. QED  BY <1>2 DEF O!Inv, O!Returned

(* A turn that ends, the run with it or not.                               *)
LEMMA TurnEndsWell ==
    ASSUME O!Inv, NEW end, O!TurnEnds(end), stage \in {"asks", "calls"}, UNCHANGED <<filter, log, value>>, O!Types'
    PROVE  O!Inv'
<1>1. CASE O!Returned(end)  BY <1>1, ReturnsWell
<1>. USE DEF oneShot
<1>2. CASE stage' = "asks" /\ UNCHANGED <<scoped, answer>>
  <2>1. O!Worked' = O!Worked /\ O!Successes' = O!Successes
    BY <1>2 DEF O!Worked, O!Successes
  <2>2. O!Authoritative'
    BY <1>2, <2>1 DEF O!Inv, O!Authoritative
  <2>. QED  BY <1>2, <2>2 DEF O!Inv
<1>. QED  BY <1>1, <1>2 DEF O!TurnEnds

LEMMA OneShotStep == O!Inv /\ [O!Next]_oneShot => O!Inv'
<1>. SUFFICES ASSUME O!Inv, [O!Next]_oneShot
              PROVE  O!Inv'
  OBVIOUS
<1>. USE DEF O!Inv
<1>1. CASE UNCHANGED <<filter, doing, log, value>> /\ O!Types' /\ stage' = stage /\ scoped' = scoped /\ answer' = answer
  <2>1. O!Worked' = O!Worked /\ O!Successes' = O!Successes
    BY <1>1 DEF O!Worked, O!Successes
  <2>. QED  BY <1>1, <2>1 DEF O!Authoritative
<1>. USE DEF oneShot
<1>2. CASE O!Stop \/ O!Change \/ UNCHANGED oneShot
  BY <1>1, <1>2 DEF O!Stop, O!Change, O!Types
<1>3. CASE O!Start
  <2>1. O!Worked' = O!Worked /\ O!Successes' = O!Successes
    BY <1>3 DEF O!Start, O!Worked, O!Successes
  <2>. QED  BY <1>3, <2>1 DEF O!Start, O!Types, O!Authoritative
<1>4. CASE O!Step
  <2>1. stage = "asks" /\ UNCHANGED <<filter, doing, log, value>>
    BY <1>4 DEF O!Step
  <2>2. CASE batch' \in O!Calls /\ stage' = "calls" /\ UNCHANGED <<scoped, answer>>
    <3>1. PICK n \in Nat : batch' \in [1..n -> O!Call]
      BY <2>2 DEF O!Calls, O!Types
    <3>4. batch' \in [1..n -> O!Named]
      BY <3>1 DEF O!Call, O!Named
    <3>2. batch' \in Seq(O!Named)
      BY <3>4, SeqDef
    <3>3. O!Worked' = O!Worked /\ O!Successes' = O!Successes
      BY <2>1 DEF O!Worked, O!Successes
    <3>. QED  BY <2>1, <2>2, <3>2, <3>3 DEF O!Types, O!Authoritative
  <2>3. ASSUME NEW end, O!TurnEnds(end), UNCHANGED batch
        PROVE  O!Inv'
    <3>1. O!Types'
      BY <2>1, <2>3 DEF O!Types, O!TurnEnds, O!Returned
    <3>. QED  BY <2>1, <2>3, <3>1, TurnEndsWell
  <2>4. ASSUME O!Returned("aborted"), UNCHANGED batch
        PROVE  O!Inv'
    <3>1. O!Types'
      BY <2>1, <2>4 DEF O!Types, O!Returned
    <3>. QED  BY <2>1, <2>4, <3>1, ReturnsWell
  <2>. QED  BY <1>4, <2>2, <2>3, <2>4 DEF O!Step
<1>5. CASE O!Dispatch
  <2>1. batch' \in Seq(O!Named) /\ Head(batch) \in O!Named
    BY <1>5 DEF O!Dispatch, O!Types
  <2>2. stage = "calls" /\ UNCHANGED <<scoped, filter, value, answer>>
    BY <1>5 DEF O!Dispatch
  <2>3. ASSUME NEW result \in {"aborted", "unknown", "refused"},
               log' = Append(log, O!Entry(Head(batch), result)), UNCHANGED <<stage, doing>>
        PROVE  O!Inv'
    <3>1. O!Worked' = O!Worked /\ O!Successes' = O!Successes /\ O!Types'
      BY <2>1, <2>2, <2>3, Logged DEF O!Types
    <3>2. \A i \in O!Worked : log'[i] = log[i]
      BY <2>1, <2>3, Logged DEF O!Worked
    <3>3. O!Authoritative'
      BY <2>2, <2>3, <3>1, <3>2 DEF O!Authoritative, O!Successes
    <3>. QED  BY <2>2, <2>3, <3>1, <3>3
  <2>4. CASE /\ doing' = Head(batch) /\ stage' = "works" /\ UNCHANGED log
             /\ Head(batch).name \in O!Visible /\ ~O!Refused(Head(batch).name)
    <3>1. value = 0 /\ Head(batch).name \in filter \cup {Capture}
      BY <2>2, <2>4 DEF O!Visible, O!Refused
    <3>2. O!Worked' = O!Worked /\ O!Successes' = O!Successes
      BY <2>4 DEF O!Worked, O!Successes
    <3>. QED  BY <2>1, <2>2, <2>4, <3>1, <3>2 DEF O!Types, O!Authoritative
  <2>. QED  BY <1>5, <2>3, <2>4 DEF O!Dispatch
<1>6. CASE O!Handled
  <2>1. PICK result \in {"ok", "error"} :
            /\ doing.name = Capture => result = IF doing.valid THEN "ok" ELSE "error"
            /\ log' = Append(log, O!Entry(doing, result))
            /\ O!Heard(result)
    BY <1>6 DEF O!Handled
  <2>2. /\ stage = "works" /\ stage' = "calls" /\ UNCHANGED <<scoped, filter, batch, doing, answer>>
        /\ value = 0 /\ doing \in O!Named
    BY <1>6 DEF O!Handled, O!Types
  <2>. DEFINE new == Len(log) + 1
  <2>3. /\ log'[new] = O!Entry(doing, result)
        /\ \A i \in DOMAIN log : log'[i] = log[i]
        /\ O!Worked' = O!Worked \cup {new}
        /\ O!Successes' = O!Successes \cup (IF doing.name = Capture /\ result = "ok" THEN {new} ELSE {})
        /\ \A i \in O!Worked : i \in Nat /\ i <= Len(log)
    BY <2>1, <2>2, Logged
  <2>4. O!Types' /\ new \in Nat /\ new # 0
    BY <2>1, <2>2, Logged DEF O!Types, O!Heard
  <2>5. O!Successes = {}
    BY <2>2 DEF O!Authoritative
  <2>6. \A i \in O!Successes' : log'[i].valid /\ \A j \in O!Worked' : j <= i
    BY <2>1, <2>3, <2>4, <2>5 DEF O!Entry
  <2>7. O!Successes' = IF value' = 0 THEN {} ELSE {value'}
    BY <2>1, <2>2, <2>3, <2>4, <2>5 DEF O!Heard
  <2>8. \A i \in O!Worked' : log'[i].name # Capture => log'[i].name \in filter'
    BY <2>2, <2>3 DEF O!Authoritative, O!Entry, O!Worked
  <2>9. O!Authoritative'
    BY <2>2, <2>6, <2>7, <2>8 DEF O!Authoritative
  <2>. QED  BY <2>2, <2>4, <2>9
<1>7. CASE O!BatchEnds
  <2>1. stage = "calls" /\ UNCHANGED <<filter, batch, doing, log, value>>
    BY <1>7 DEF O!BatchEnds
  <2>2. O!Types'
    BY <1>7 DEF O!BatchEnds, O!Returned, O!TurnEnds, O!Types
  <2>3. CASE stage' = "asks" /\ UNCHANGED <<scoped, answer>>
    <3>1. O!Worked' = O!Worked /\ O!Successes' = O!Successes
      BY <2>1 DEF O!Worked, O!Successes
    <3>. QED  BY <2>1, <2>2, <2>3, <3>1 DEF O!Authoritative
  <2>. QED  BY <1>7, <2>1, <2>2, <2>3, ReturnsWell, TurnEndsWell DEF O!BatchEnds
<1>. QED  BY <1>2, <1>3, <1>4, <1>5, <1>6, <1>7 DEF O!Next

HIDE DEF tools, denied, scoped, filter, stage, batch, doing, log, value, concluded, stop, steps, turns, changes, answer

----------------------------------------------------------------------------
(* Jobs.                                                                   *)
sessions == r1   mounted == r2   attached == r3  unloads == r4  store == r5     owner == r6
status == r7     reported == r8  tokens == r9    wait == r10    target == r11   proc == r12
child == r13     asked == r14    killed == r15   posted == r16  noticed == r17  told == r18
unheard == r19
USE DEF sessions, mounted, attached, unloads, store, owner, status, reported, tokens, wait, target, proc,
        child, asked, killed, posted, noticed, told, unheard

LEMMA JobsStart == J!Init => J!Inv
<1>. SUFFICES ASSUME J!Init  PROVE J!Inv
  OBVIOUS
<1>1. (CHOOSE j \in JobIds : TRUE) \in JobIds
  BY PartsAssumption
<1>2. J!Types
  BY <1>1 DEF J!Init, J!Types
<1>. QED  BY <1>2 DEF J!Init, J!Inv, J!Started, J!EndNoticed, J!ReportedKnown, J!Listed, J!Informed

(* A job that ends.                                                        *)
LEMMA SettleWell ==
    ASSUME J!Inv, NEW j \in JobIds, NEW end \in J!Ends, J!Settle(j, end)
    PROVE  J!Inv'
<1>. USE DEF J!Inv
<1>1. CASE J!Terminal(j)
  <2>1. UNCHANGED <<sessions, store, owner, status, reported, tokens, wait, target, posted, noticed, told, unheard>>
    BY <1>1 DEF J!Settle, J!Released, J!Notified, J!Types
  <2>. QED  BY <2>1 DEF J!Types, J!Started, J!EndNoticed, J!ReportedKnown, J!Listed, J!Informed, J!Terminal
<1>2. CASE ~J!Terminal(j)
  <2>1. /\ UNCHANGED <<sessions, store, owner, target, noticed, told>>
        /\ status' = [status EXCEPT ![j] = end]
        /\ tokens' = [k \in JobIds |-> IF k = j THEN {} ELSE tokens[k]]
        /\ wait' = [w \in Waiters |-> IF w \in tokens[j] THEN "woken" ELSE wait[w]]
        /\ reported' = IF tokens[j] # {} THEN reported \cup {j} ELSE reported
        /\ posted' = IF J!Notified(j) /\ attached /\ owner[j] \in sessions THEN posted \cup {j} ELSE posted
        /\ unheard' = IF J!Notified(j) /\ ~attached THEN unheard \cup {j} ELSE unheard
    BY <1>2 DEF J!Settle, J!Released, J!Types
  <2>2. J!Notified(j) <=> j \in store /\ j \notin reported /\ tokens[j] = {}
    BY <1>2, <2>1 DEF J!Notified
  <2>3. J!Types'
    BY <2>1 DEF J!Types
  <2>4. /\ \A k \in JobIds : status'[k] = IF k = j THEN end ELSE status[k]
        /\ \A k \in JobIds : J!Terminal(k)' <=> J!Terminal(k) \/ k = j
    BY <2>1 DEF J!Types, J!Terminal
  <2>5. J!Started'
    BY <2>1, <2>3, <2>4 DEF J!Started, J!Types, J!Ends
  <2>6. J!EndNoticed' /\ J!ReportedKnown'
    BY <2>1, <2>3, <2>4 DEF J!EndNoticed, J!ReportedKnown, J!Types
  <2>7. J!Listed'
    <3>1. ASSUME NEW k \in JobIds, NEW w \in tokens'[k]  PROVE target'[w] = k /\ wait'[w] # "out"
      BY <2>1, <2>3, <3>1 DEF J!Listed, J!Types
    <3>2. ASSUME NEW w \in Waiters, wait'[w] # "out"
          PROVE  /\ status'[target'[w]] # "none"
                 /\ w \in tokens'[target'[w]] \/ J!Terminal(target[w])' \/ target'[w] \notin store'
      <4>1. wait[w] # "out" /\ target[w] \in JobIds
        BY <2>1, <3>2 DEF J!Listed, J!Types
      <4>. QED  BY <2>1, <2>4, <4>1 DEF J!Listed, J!Ends
    <3>. QED  BY <2>1, <3>1, <3>2 DEF J!Listed, J!Terminal
  <2>8. ASSUME NEW k \in store', J!Terminal(k)', owner'[k] \in sessions'
        PROVE  \/ k \in told' \cup posted' \cup unheard'
               \/ \E w \in Waiters : wait'[w] = "woken" /\ target'[w] = k
    <3>1. CASE k # j
      BY <2>1, <2>4, <2>8, <3>1 DEF J!Informed, J!Types
    <3>2. CASE k = j /\ tokens[j] = {}
      BY <1>2, <2>1, <2>2, <2>8, <3>2 DEF J!ReportedKnown
    <3>3. CASE k = j /\ tokens[j] # {}
      BY <2>1, <3>3 DEF J!Listed, J!Types
    <3>. QED  BY <3>1, <3>2, <3>3
  <2>9. ASSUME NEW w \in Waiters, wait'[w] # "out"  PROVE target'[w] \notin posted' \cup noticed'
    <3>1. wait[w] # "out" /\ target[w] \in JobIds
      BY <2>1, <2>9 DEF J!Listed, J!Types
    <3>2. target[w] = j => tokens[j] # {} \/ j \notin store
      BY <1>2, <3>1 DEF J!Listed
    <3>. QED  BY <2>1, <2>2, <3>1, <3>2 DEF J!Informed
  <2>10. ASSUME NEW w \in Waiters, wait'[w] = "waiting"
         PROVE  target'[w] \in store' /\ ~J!Terminal(target[w])' /\ w \in tokens'[target'[w]]
    <3>1. wait[w] = "waiting" /\ w \notin tokens[j] /\ target[w] \in JobIds
      BY <2>1, <2>10 DEF J!Types
    <3>. QED  BY <2>1, <2>4, <3>1 DEF J!Informed
  <2>11. J!Informed'
    BY <2>1, <2>8, <2>9, <2>10 DEF J!Informed, J!Terminal
  <2>. QED  BY <2>3, <2>5, <2>6, <2>7, <2>11
<1>. QED  BY <1>1, <1>2

(* Jobs that leave the store.                                              *)
LEMMA StoppedWell ==
    ASSUME J!Inv, NEW jobs \in SUBSET store, J!Stopped(jobs), sessions' \subseteq sessions
    PROVE  J!Inv'
<1>. USE DEF J!Inv
<1>. DEFINE live == {j \in jobs : ~J!Terminal(j)}
<1>1. /\ store' = store \ jobs /\ reported' = reported \cup live
      /\ status' = [j \in JobIds |-> IF j \in live THEN "stopping" ELSE status[j]]
      /\ wait' = [w \in Waiters |-> IF \E j \in live : w \in tokens[j] THEN "woken" ELSE wait[w]]
      /\ tokens' = [j \in JobIds |-> IF j \in live THEN {} ELSE tokens[j]]
      /\ UNCHANGED <<owner, target, posted, noticed, told, unheard>>
  BY DEF J!Stopped, J!Released, J!notices
<1>2. J!Types'
  BY <1>1 DEF J!Types
<1>3. /\ \A j \in JobIds : J!Terminal(j)' <=> J!Terminal(j)
      /\ \A j \in JobIds : status[j] # "none" => status'[j] # "none"
  BY <1>1 DEF J!Types, J!Terminal, J!Ends
<1>4. J!Started'
  BY <1>1, <1>3 DEF J!Started, J!Types
<1>5. J!EndNoticed' /\ J!ReportedKnown'
  BY <1>1, <1>3 DEF J!EndNoticed, J!ReportedKnown, J!Types
<1>6. \A w \in Waiters : wait'[w] # "out" => wait[w] # "out" /\ target[w] \in JobIds
  BY <1>1 DEF J!Listed, J!Types
<1>7. J!Listed'
  <2>1. ASSUME NEW j \in JobIds, NEW w \in tokens'[j]  PROVE target'[w] = j /\ wait'[w] # "out"
    BY <1>1, <2>1 DEF J!Listed, J!Types
  <2>2. ASSUME NEW w \in Waiters, wait'[w] # "out"
        PROVE  /\ status'[target'[w]] # "none"
               /\ w \in tokens'[target'[w]] \/ J!Terminal(target[w])' \/ target'[w] \notin store'
    BY <1>1, <1>3, <1>6, <2>2 DEF J!Listed
  <2>. QED  BY <1>1, <2>1, <2>2 DEF J!Listed, J!Terminal
<1>8. ASSUME NEW j \in store', J!Terminal(j)', owner'[j] \in sessions'
      PROVE  \/ j \in told' \cup posted' \cup unheard'
             \/ \E w \in Waiters : wait'[w] = "woken" /\ target'[w] = j
  BY <1>1, <1>3, <1>8 DEF J!Informed, J!Types
<1>9. \A w \in Waiters : wait'[w] # "out" => target'[w] \notin posted' \cup noticed'
  BY <1>1, <1>6 DEF J!Informed
<1>10. ASSUME NEW w \in Waiters, wait'[w] = "waiting"
       PROVE  target'[w] \in store' /\ ~J!Terminal(target[w])' /\ w \in tokens'[target'[w]]
  <2>1. wait[w] = "waiting" /\ target[w] \in JobIds /\ ~\E j \in live : w \in tokens[j]
    BY <1>1, <1>10 DEF J!Types
  <2>. QED  BY <1>1, <1>3, <2>1 DEF J!Informed
<1>11. J!Informed'
  BY <1>1, <1>8, <1>9, <1>10 DEF J!Informed, J!Terminal
<1>. QED  BY <1>2, <1>4, <1>5, <1>7, <1>11

LEMMA JobsStep == J!Inv /\ [J!Next]_registers => J!Inv'
<1>. SUFFICES ASSUME J!Inv, [J!Next]_registers  PROVE J!Inv'
  OBVIOUS
<1>. USE DEF J!Inv
<1>1. ASSUME UNCHANGED <<store, owner, status, reported, tokens, wait, target, posted, noticed, told, unheard>>,
             sessions' \subseteq sessions
      PROVE  J!Inv'
  BY <1>1 DEF J!Types, J!Started, J!EndNoticed, J!ReportedKnown, J!Listed, J!Informed, J!Terminal
<1>2. ASSUME NEW j \in JobIds, NEW o \in Sessions \cup {Unowned}, J!Start(j, o)
      PROVE  J!Inv'
  <2>1. /\ status[j] = "none" /\ ~J!Terminal(j) /\ j \notin store /\ j \notin reported
        /\ store' = store \cup {j} /\ owner' = [owner EXCEPT ![j] = o] /\ status' = [status EXCEPT ![j] = "running"]
        /\ UNCHANGED <<sessions, reported, tokens, wait, target, posted, noticed, told, unheard>>
    BY <1>2 DEF J!Start, J!Started, J!Terminal, J!Ends, J!calls, J!notices
  <2>2. J!Types'
    BY <2>1 DEF J!Types
  <2>3. /\ \A k \in JobIds : J!Terminal(k)' <=> J!Terminal(k)
        /\ \A k \in JobIds : status'[k] = IF k = j THEN "running" ELSE status[k]
    BY <2>1 DEF J!Types, J!Terminal, J!Ends
  <2>4. J!Started' /\ J!EndNoticed' /\ J!ReportedKnown'
    BY <2>1, <2>3 DEF J!Types, J!Started, J!EndNoticed, J!ReportedKnown
  <2>5. \A w \in Waiters : target[w] \in JobIds /\ (wait[w] # "out" => target[w] # j)
    BY <2>1 DEF J!Types, J!Listed
  <2>6. J!Listed'
    BY <2>1, <2>3, <2>5 DEF J!Listed
  <2>7. J!Informed'
    BY <2>1, <2>3, <2>5 DEF J!Informed, J!Types
  <2>. QED  BY <2>2, <2>4, <2>6, <2>7
<1>3. ASSUME NEW j \in JobIds, J!Launch(j)
      PROVE  J!Inv'
  <2>1. CASE J!Settle(j, "failed")
    BY <2>1, SettleWell DEF J!Ends
  <2>. QED  BY <1>1, <1>3, <2>1 DEF J!Launch, J!registry, J!calls, J!notices
<1>4. ASSUME NEW j \in JobIds, J!Exit(j) \/ J!PipesEnd(j)
      PROVE  J!Inv'
  BY <1>1, <1>4 DEF J!Exit, J!PipesEnd, J!registry, J!calls, J!notices
<1>5. ASSUME NEW j \in JobIds, J!Drained(j)
      PROVE  J!Inv'
  BY <1>5, SettleWell DEF J!Drained, J!Ends
<1>6. ASSUME NEW j \in JobIds, J!Deliver(j)
      PROVE  J!Inv'
  <2>1. /\ j \in posted /\ posted' = posted \ {j}
        /\ IF owner[j] \in sessions THEN noticed' = noticed \cup {j} /\ told' = told \cup {j}
           ELSE UNCHANGED <<noticed, told>>
        /\ UNCHANGED <<sessions, store, owner, status, reported, tokens, wait, target, unheard>>
    BY <1>6 DEF J!Deliver, J!registry, J!calls
  <2>2. J!Types'
    BY <2>1 DEF J!Types
  <2>. QED  BY <2>1, <2>2 DEF J!Started, J!EndNoticed, J!ReportedKnown, J!Listed, J!Informed, J!Terminal
<1>7. ASSUME NEW j \in JobIds, NEW s \in Sessions, J!Kill(s, j)
      PROVE  J!Inv'
  <2>1. /\ j \in store /\ status[j] # "none"
        /\ reported' = reported \cup {j} /\ told' = told \cup {j}
        /\ status' = IF J!Terminal(j) THEN status ELSE [status EXCEPT ![j] = "stopping"]
        /\ UNCHANGED <<sessions, store, owner, tokens, wait, target, posted, noticed, unheard>>
    BY <1>7 DEF J!Kill, J!Reaches, J!calls, J!Started
  <2>2. J!Types'
    BY <2>1 DEF J!Types
  <2>3. /\ \A k \in JobIds : J!Terminal(k)' <=> J!Terminal(k)
        /\ \A k \in JobIds : status[k] # "none" => status'[k] # "none"
    BY <2>1 DEF J!Types, J!Terminal, J!Ends
  <2>4. J!Started' /\ J!EndNoticed' /\ J!ReportedKnown'
    BY <2>1, <2>3 DEF J!Types, J!Started, J!EndNoticed, J!ReportedKnown
  <2>5. \A w \in Waiters : target[w] \in JobIds
    BY DEF J!Types
  <2>6. J!Listed' /\ J!Informed'
    BY <2>1, <2>3, <2>5 DEF J!Types, J!Listed, J!Informed
  <2>. QED  BY <2>2, <2>4, <2>6
<1>8. ASSUME NEW j \in JobIds, NEW s \in Sessions, J!Read(s, j)
      PROVE  J!Inv'
  <2>1. /\ j \in store /\ J!Terminal(j) /\ reported' = reported \cup {j} /\ told' = told \cup {j}
        /\ UNCHANGED <<sessions, store, owner, status, tokens, wait, target, posted, noticed, unheard>>
    BY <1>8 DEF J!Read, J!Reaches, J!calls
  <2>2. J!Types'
    BY <2>1 DEF J!Types
  <2>. QED  BY <2>1, <2>2 DEF J!Started, J!EndNoticed, J!ReportedKnown, J!Listed, J!Informed, J!Terminal
<1>9. ASSUME NEW w \in Waiters, NEW s \in Sessions, NEW j \in JobIds, J!Wait(w, s, j)
      PROVE  J!Inv'
  <2>1. /\ wait[w] = "out" /\ j \in store /\ ~J!Terminal(j)
        /\ wait' = [wait EXCEPT ![w] = "waiting"] /\ target' = [target EXCEPT ![w] = j]
        /\ tokens' = [tokens EXCEPT ![j] = @ \cup {w}]
        /\ UNCHANGED <<sessions, store, owner, status, reported, posted, noticed, told, unheard>>
    BY <1>9 DEF J!Wait, J!Reaches, J!notices
  <2>2. J!Types'
    BY <2>1 DEF J!Types
  <2>3. J!Started' /\ J!EndNoticed' /\ J!ReportedKnown'
    BY <2>1 DEF J!Started, J!EndNoticed, J!ReportedKnown, J!Terminal
  <2>4. /\ \A v \in Waiters : v # w => wait'[v] = wait[v] /\ target'[v] = target[v]
        /\ wait'[w] = "waiting" /\ target'[w] = j
        /\ \A k \in JobIds : tokens'[k] = IF k = j THEN tokens[k] \cup {w} ELSE tokens[k]
    BY <2>1 DEF J!Types
  <2>5. \A k \in JobIds : w \notin tokens[k]
    BY <2>1 DEF J!Listed
  <2>6. status[j] # "none" /\ j \notin posted \cup noticed
    BY <2>1 DEF J!Started, J!EndNoticed
  <2>7. J!Listed'
    <3>1. ASSUME NEW k \in JobIds, NEW v \in tokens'[k]  PROVE target'[v] = k /\ wait'[v] # "out"
      BY <2>2, <2>4, <2>5, <3>1 DEF J!Listed, J!Types
    <3>2. ASSUME NEW v \in Waiters, wait'[v] # "out"
          PROVE  /\ status[target'[v]] # "none"
                 /\ v \in tokens'[target'[v]] \/ J!Terminal(target'[v]) \/ target'[v] \notin store
      BY <2>4, <2>6, <3>2 DEF J!Listed, J!Types
    <3>. QED  BY <2>1, <3>1, <3>2 DEF J!Listed, J!Terminal
  <2>8. J!Informed'
    <3>1. ASSUME NEW k \in store, J!Terminal(k), owner[k] \in sessions
          PROVE  \/ k \in told \cup posted \cup unheard
                 \/ \E v \in Waiters : wait'[v] = "woken" /\ target'[v] = k
      BY <2>1, <2>4, <3>1 DEF J!Informed
    <3>2. \A v \in Waiters : wait'[v] # "out" => target'[v] \notin posted \cup noticed
      BY <2>4, <2>6 DEF J!Informed
    <3>3. \A v \in Waiters : wait'[v] = "waiting" =>
              target'[v] \in store /\ ~J!Terminal(target'[v]) /\ v \in tokens'[target'[v]]
      BY <2>1, <2>4 DEF J!Informed, J!Types
    <3>. QED  BY <2>1, <3>1, <3>2, <3>3 DEF J!Informed, J!Terminal
  <2>. QED  BY <2>2, <2>3, <2>7, <2>8
<1>10. ASSUME NEW w \in Waiters, J!TimeOut(w)
       PROVE  J!Inv'
  <2>1. /\ wait[w] = "waiting" /\ wait' = [wait EXCEPT ![w] = "woken"]
        /\ UNCHANGED <<sessions, store, owner, status, reported, tokens, target, posted, noticed, told, unheard>>
    BY <1>10 DEF J!TimeOut, J!registry, J!notices
  <2>2. J!Types'
    BY <2>1 DEF J!Types
  <2>3. wait'[w] = "woken" /\ \A v \in Waiters : v # w => wait'[v] = wait[v]
    BY <2>1 DEF J!Types
  <2>4. J!Started' /\ J!EndNoticed' /\ J!ReportedKnown'
    BY <2>1 DEF J!Started, J!EndNoticed, J!ReportedKnown, J!Terminal
  <2>5. \A v \in Waiters : (wait'[v] # "out" <=> wait[v] # "out") /\ (wait'[v] = "waiting" => wait[v] = "waiting")
    BY <2>1, <2>3
  <2>6. J!Listed'
    BY <2>1, <2>5 DEF J!Types, J!Listed, J!Terminal
  <2>7. J!Informed'
    BY <2>1, <2>3, <2>5 DEF J!Informed, J!Terminal
  <2>. QED  BY <2>2, <2>4, <2>6, <2>7
<1>11. ASSUME NEW w \in Waiters, J!Return(w)
       PROVE  J!Inv'
  <2>. DEFINE j == target[w]
  <2>1. /\ wait[w] = "woken" /\ wait' = [wait EXCEPT ![w] = "out"]
        /\ tokens' = [tokens EXCEPT ![j] = @ \ {w}]
        /\ reported' = IF J!Terminal(j) THEN reported \cup {j} ELSE reported
        /\ told' = IF J!Terminal(j) /\ j \in store THEN told \cup {j} ELSE told
        /\ UNCHANGED <<sessions, store, owner, status, target, posted, noticed, unheard>>
    BY <1>11 DEF J!Return
  <2>2. j \in JobIds /\ status[j] # "none"
    BY <2>1 DEF J!Types, J!Listed
  <2>3. J!Types'
    BY <2>1, <2>2 DEF J!Types
  <2>4. J!Started' /\ J!EndNoticed' /\ J!ReportedKnown'
    BY <2>1, <2>2 DEF J!Started, J!EndNoticed, J!ReportedKnown, J!Terminal
  <2>5. /\ wait'[w] = "out" /\ \A v \in Waiters : v # w => wait'[v] = wait[v]
        /\ \A k \in JobIds : tokens'[k] = IF k = j THEN tokens[k] \ {w} ELSE tokens[k]
    BY <2>1, <2>2 DEF J!Types
  <2>6. J!Listed'
    <3>1. ASSUME NEW k \in JobIds, NEW v \in tokens'[k]  PROVE target'[v] = k /\ wait'[v] # "out"
      BY <2>1, <2>5, <3>1 DEF J!Listed, J!Types
    <3>2. ASSUME NEW v \in Waiters, wait'[v] # "out"
          PROVE  /\ status[target[v]] # "none"
                 /\ v \in tokens'[target[v]] \/ J!Terminal(target[v]) \/ target[v] \notin store
      BY <2>5, <3>2 DEF J!Listed, J!Types
    <3>. QED  BY <2>1, <3>1, <3>2 DEF J!Listed, J!Terminal
  <2>7. J!Informed'
    <3>1. ASSUME NEW k \in store, J!Terminal(k), owner[k] \in sessions
          PROVE  \/ k \in told' \cup posted \cup unheard
                 \/ \E v \in Waiters : wait'[v] = "woken" /\ target[v] = k
      BY <2>1, <2>5, <3>1 DEF J!Informed
    <3>2. \A v \in Waiters : wait'[v] # "out" => target[v] \notin posted \cup noticed
      BY <2>5 DEF J!Informed
    <3>3. \A v \in Waiters : wait'[v] = "waiting" =>
              target[v] \in store /\ ~J!Terminal(target[v]) /\ v \in tokens'[target[v]]
      BY <2>5 DEF J!Informed, J!Types
    <3>. QED  BY <2>1, <3>1, <3>2, <3>3 DEF J!Informed, J!Terminal
  <2>. QED  BY <2>3, <2>4, <2>6, <2>7
<1>12. ASSUME NEW s \in Sessions, J!Dispose(s)
       PROVE  J!Inv'
  BY <1>12, StoppedWell DEF J!Dispose
<1>13. CASE J!Shutdown
  BY <1>13, StoppedWell DEF J!Shutdown
<1>14. CASE J!Unload \/ J!Load \/ J!ShellGone \/ UNCHANGED registers
  BY <1>1, <1>14 DEF J!Unload, J!Load, J!ShellGone, registers, J!registry, J!calls, J!notices
<1>. QED  BY <1>2, <1>3, <1>4, <1>5, <1>6, <1>7, <1>8, <1>9, <1>10, <1>11, <1>12, <1>13, <1>14 DEF J!Next

HIDE DEF sessions, mounted, attached, unloads, store, owner, status, reported, tokens, wait, target, proc,
         child, asked, killed, posted, noticed, told, unheard

----------------------------------------------------------------------------
(* LspPool.                                                                *)
closed == r1     pool == r2      made == r3     ready == r4     disposed == r5  failed == r6  server == r7
behind == r8     locked == r9    waiters == r10 at == r11       on == r12       retried == r13  bad == r14
lspPool == <<closed, pool, made, ready, disposed, failed, server, behind, locked, waiters, at, on, retried, bad>>
USE DEF closed, pool, made, ready, disposed, failed, server, behind, locked, waiters, at, on, retried, bad

LEMMA SizeIs == \A set : L!Cardinality(set) = Cardinality(set)
BY DEF L!Cardinality, Cardinality

LEMMA IdsAre == Cardinality(Queries) \in Nat /\ L!Ids = 1..(Cardinality(Queries) + 1)
BY PartsAssumption, FS_CardinalityType, SizeIs DEF L!Ids

LEMMA InstancesAre ==
    ASSUME L!Inv
    PROVE  /\ made \in Nat /\ 1..made \subseteq L!Ids
           /\ \A q \in Queries \ L!Used : made + 1 \in L!Ids
           /\ \A q \in Queries \ L!Used : L!Cardinality(L!Used \cup {q}) = L!Cardinality(L!Used) + 1
<1>1. made \in Nat /\ L!Used \subseteq Queries /\ made <= Cardinality(L!Used) + 1
  BY SizeIs DEF L!Inv, L!Types, L!Numbered, L!Used
<1>2. /\ IsFiniteSet(L!Used) /\ Cardinality(L!Used) \in Nat
      /\ Cardinality(L!Used) <= Cardinality(Queries)
  BY <1>1, PartsAssumption, FS_Subset, FS_CardinalityType
<1>3. 1..made \subseteq L!Ids
  BY <1>1, <1>2, IdsAre
<1>4. ASSUME NEW q \in Queries \ L!Used
      PROVE  Cardinality(L!Used \cup {q}) = Cardinality(L!Used) + 1 /\ made + 1 \in L!Ids
  <2>1. Cardinality(L!Used \cup {q}) = Cardinality(L!Used) + 1
    BY <1>2, <1>4, FS_AddElement
  <2>2. Cardinality(L!Used \cup {q}) <= Cardinality(Queries)
    BY <1>1, <1>4, PartsAssumption, FS_Subset
  <2>. QED  BY <1>1, <1>2, <2>1, <2>2, IdsAre
<1>. QED  BY <1>1, <1>3, <1>4, SizeIs

(* A list of different elements, with one more or without its first.       *)
Different(s) == \A m, n \in DOMAIN s : s[m] = s[n] => m = n
Occurs(s, x) == \E n \in DOMAIN s : s[n] = x
LEMMA Shortened ==
    ASSUME NEW Items, NEW s \in Seq(Items), s # <<>>, Different(s)
    PROVE  /\ Tail(s) \in Seq(Items) /\ Head(s) \in Items /\ Occurs(s, Head(s)) /\ Different(Tail(s))
           /\ \A x : Occurs(Tail(s), x) <=> Occurs(s, x) /\ x # Head(s)
<1>1. /\ Tail(s) \in Seq(Items) /\ Len(s) \in Nat \ {0} /\ DOMAIN s = 1..Len(s)
      /\ DOMAIN Tail(s) = 1..(Len(s) - 1) /\ Head(s) = s[1] /\ Head(s) \in Items
      /\ \A n \in 1..(Len(s) - 1) : Tail(s)[n] = s[n + 1]
  OBVIOUS
<1>2. Different(Tail(s))
  BY <1>1 DEF Different
<1>3. ASSUME NEW x  PROVE Occurs(Tail(s), x) <=> Occurs(s, x) /\ x # Head(s)
  <2>1. ASSUME NEW n \in DOMAIN s, s[n] = x, x # Head(s)  PROVE Occurs(Tail(s), x)
    <3>1. n - 1 \in DOMAIN Tail(s) /\ Tail(s)[n - 1] = x
      BY <1>1, <2>1
    <3>. QED  BY <3>1 DEF Occurs
  <2>2. ASSUME NEW n \in DOMAIN Tail(s), Tail(s)[n] = x  PROVE Occurs(s, x) /\ x # Head(s)
    <3>1. n + 1 \in DOMAIN s /\ s[n + 1] = x /\ n + 1 # 1 /\ 1 \in DOMAIN s
      BY <1>1, <2>2
    <3>. QED  BY <1>1, <3>1 DEF Occurs, Different
  <2>. QED  BY <2>1, <2>2 DEF Occurs
<1>. QED  BY <1>1, <1>2, <1>3 DEF Occurs
LEMMA Lengthened ==
    ASSUME NEW Items, NEW s \in Seq(Items), NEW x \in Items, Different(s), ~Occurs(s, x)
    PROVE  /\ Append(s, x) \in Seq(Items) /\ Different(Append(s, x))
           /\ \A y : Occurs(Append(s, x), y) <=> Occurs(s, y) \/ y = x
<1>1. /\ Append(s, x) \in Seq(Items) /\ Len(s) \in Nat /\ DOMAIN s = 1..Len(s)
      /\ DOMAIN Append(s, x) = 1..(Len(s) + 1)
      /\ \A n \in 1..Len(s) : Append(s, x)[n] = s[n]
      /\ Append(s, x)[Len(s) + 1] = x
  OBVIOUS
<1>2. Different(Append(s, x))
  BY <1>1 DEF Different, Occurs
<1>3. ASSUME NEW y  PROVE Occurs(Append(s, x), y) <=> Occurs(s, y) \/ y = x
  BY <1>1 DEF Occurs
<1>. QED  BY <1>1, <1>2, <1>3

LEMMA ListsAre ==
    ASSUME L!Inv, NEW i \in L!Ids
    PROVE  /\ waiters[i] \in Seq(Queries) /\ Different(waiters[i])
           /\ \A q \in Queries : L!Waits(q, i) <=> Occurs(waiters[i], q)
BY DEF L!Inv, L!Types, L!ListsWaiters, Different, Occurs

LEMMA UsesOne == ASSUME L!Inv, NEW q \in Queries, at[q] \notin {"out", "done"}  PROVE on[q] \in 1..made
<1>1. made \in Nat /\ on[q] \in 0..made
  BY DEF L!Inv, L!Types
<1>2. on[q] # 0
  BY DEF L!Inv, L!Numbered
<1>. QED  BY <1>1, <1>2

LEMMA PoolPromise == L!Inv => L!LockPassed
<1>. SUFFICES ASSUME L!Inv  PROVE L!LockPassed
  OBVIOUS
<1>1. ASSUME NEW q \in Queries, at[q] = "lock"
      PROVE  /\ on[q] \notin disposed /\ \E n \in DOMAIN waiters[on[q]] : waiters[on[q]][n] = q
             /\ \E p \in Queries : L!Holds(p) /\ on[p] = on[q]
  <2>1. on[q] \in 1..made /\ on[q] \in L!Ids
    BY <1>1, UsesOne, InstancesAre
  <2>2. Occurs(waiters[on[q]], q)
    BY <1>1, <2>1, ListsAre DEF L!Waits
  <2>3. waiters[on[q]] # <<>>
    BY <2>1, <2>2, ListsAre DEF Occurs
  <2>. QED  BY <2>1, <2>2, <2>3 DEF L!Inv, L!ClosedIdle, L!OneHolds, L!Holder, Occurs
<1>2. ASSUME NEW p \in Queries, NEW q \in Queries, L!Holds(p), L!Holds(q), on[p] = on[q], on[p] \notin disposed
      PROVE  p = q
  <2>1. on[p] \in 1..made
    BY <1>2, UsesOne DEF L!Holds
  <2>. QED  BY <1>2, <2>1 DEF L!Inv, L!OneHolds, L!Holder
<1>3. \A q \in Queries : at[q] = "ready" => (ready[on[q]] # "no" \/ on[q] \notin disposed)
  BY DEF L!Inv, L!ClosedIdle
<1>. QED  BY <1>1, <1>2, <1>3 DEF L!LockPassed

LEMMA PoolStarts == L!Init => L!Inv
<1>. SUFFICES ASSUME L!Init  PROVE L!Inv
  OBVIOUS
<1>1. L!Used = {} /\ L!Cardinality(L!Used) = 0
  BY SizeIs, FS_EmptySet DEF L!Init, L!Used
<1>2. L!Types
  <2>1. /\ made \in Nat /\ pool \in 0..made /\ closed \in BOOLEAN
        /\ disposed \subseteq 1..made /\ locked \subseteq 1..made /\ retried \subseteq Queries
    <3>1. made = 0 /\ pool = 0 /\ disposed = {} /\ locked = {} /\ retried = {}
      BY DEF L!Init
    <3>2. closed \in BOOLEAN
      BY DEF L!Init
    <3>. QED  BY <3>1, <3>2
  <2>2. /\ ready \in [L!Ids -> {"no", "ok", "failed"}]
        /\ server \in [L!Ids -> {"none", "absent", "up", "exiting", "gone"}]
    BY DEF L!Init
  <2>3. waiters \in [L!Ids -> Seq(Queries)]
    <3>1. <<>> \in Seq(Queries)
      OBVIOUS
    <3>. QED  BY <3>1 DEF L!Init
  <2>4. /\ at \in [Queries -> {"out", "lock", "granted", "ready", "readied", "opening", "asked", "answered",
                               "closing", "dropped", "done"}]
        /\ on \in [Queries -> 0..made]
    BY DEF L!Init
  <2>. QED  BY <2>1, <2>2, <2>3, <2>4 DEF L!Types
<1>3. \A i \in L!Ids : waiters[i] = <<>> /\ DOMAIN waiters[i] = {}
  BY DEF L!Init
<1>. QED  BY <1>1, <1>2, <1>3 DEF L!Init, L!Inv, L!Numbered, L!ListsWaiters, L!OneHolds, L!ClosedIdle, L!Waits

(* Steps that leave the lists and the locks alone, and move queries at     *)
(* most from one place where they hold a lock to another.                  *)
LEMMA MovesWell ==
    ASSUME L!Inv, UNCHANGED <<closed, pool, made, disposed, locked, waiters, on, retried>>, L!Types',
           \A i \in disposed : ready'[i] # "no",
           \A q \in Queries : at'[q] = at[q] \/ (L!Holds(q) /\ L!Holds(q)')
    PROVE  L!Inv'
<1>1. /\ \A q \in Queries : /\ L!Holds(q)' <=> L!Holds(q)
                            /\ at'[q] = "lock" <=> at[q] = "lock"
                            /\ at'[q] = "done" <=> at[q] = "done"
                            /\ at'[q] = "out" <=> at[q] = "out"
  BY DEF L!Holds
<1>2. L!Used' = L!Used
  BY <1>1 DEF L!Used
<1>3. \A q \in Queries : \A i : (L!Waits(q, i)' <=> L!Waits(q, i)) /\ (L!Holder(q, i)' <=> L!Holder(q, i))
  BY <1>1 DEF L!Waits, L!Holder
<1>4. L!Numbered'
  BY <1>1, <1>2, SizeIs DEF L!Inv, L!Numbered
<1>5. L!ListsWaiters'
  BY <1>3 DEF L!Inv, L!ListsWaiters, L!Ids
<1>6. L!OneHolds' /\ L!ClosedIdle'
  BY <1>3 DEF L!Inv, L!OneHolds, L!ClosedIdle
<1>. QED  BY <1>4, <1>5, <1>6 DEF L!Inv

(* A query leaves an instance, which it holds or which is closed.          *)
LEMMA LeavesWell ==
    ASSUME L!Inv, NEW q \in Queries, NEW i \in 1..made,
           NEW holds \in BOOLEAN, NEW shuts \in BOOLEAN, NEW fails \in BOOLEAN,
           L!Leaves(q, i, holds, shuts, fails),
           \/ holds /\ L!Holder(q, i)
           \/ ~holds /\ i \in disposed /\ at[q] \notin {"lock", "done"} /\ on[q] \in {0, i}
    PROVE  L!Inv'
<1>. DEFINE again == fails /\ q \notin retried /\ (shuts \/ i \in disposed \cup failed')
            closes == shuts \/ again
            woken == L!Woken(i, holds, closes)
            fresh == made + 1
<1>1. /\ waiters' = [waiters EXCEPT ![i] = IF closes THEN <<>> ELSE IF woken # {} THEN Tail(@) ELSE @]
      /\ locked' = (IF holds /\ woken = {} THEN locked \ {i} ELSE locked) \cup (IF again THEN {fresh} ELSE {})
      /\ at' = [p \in Queries |-> IF p = q THEN IF again THEN "ready" ELSE "done"
                                  ELSE IF p \in woken THEN "granted" ELSE at[p]]
      /\ on' = [on EXCEPT ![q] = IF again THEN fresh ELSE 0]
      /\ retried' = IF again THEN retried \cup {q} ELSE retried \ {q}
      /\ pool' = IF again THEN fresh ELSE pool
      /\ made' = IF again THEN fresh ELSE made
      /\ disposed' = IF closes THEN disposed \cup {i} ELSE disposed
      /\ server' = [server EXCEPT ![i] = IF closes /\ @ = "up" THEN "exiting" ELSE @]
      /\ ready' = [ready EXCEPT ![i] = IF closes /\ @ = "no" THEN "failed" ELSE @]
      /\ closed' = closed
  BY DEF L!Leaves
<1>2. /\ made \in Nat /\ i \in L!Ids /\ 1..made \subseteq L!Ids /\ q \in DOMAIN on
      /\ at[q] \notin {"lock", "done"} /\ on[q] \in {0, i}
      /\ \A p \in Queries : on[p] \in 0..made
  BY InstancesAre DEF L!Inv, L!Types, L!Holder, L!Holds
<1>3. /\ q \in retried \/ q \notin L!Used
      /\ L!Used' = L!Used \cup {q}
  <2>1. woken \subseteq Queries /\ \A p \in woken : at[p] = "lock"
    BY <1>2, ListsAre DEF L!Woken, L!Waits, Occurs
  <2>. QED  BY <1>1, <1>2, <2>1 DEF L!Used, L!Inv, L!Types
<1>4. again => fresh \in L!Ids /\ L!Cardinality(L!Used') = L!Cardinality(L!Used) + 1
  BY <1>3, InstancesAre
(* Who is woken.                                                           *)
<1>5. /\ waiters[i] \in Seq(Queries) /\ Different(waiters[i])
      /\ \A p \in Queries : L!Waits(p, i) <=> Occurs(waiters[i], p)
  BY <1>2, ListsAre
<1>6. /\ closes => \A p \in Queries : p \in woken <=> L!Waits(p, i)
      /\ ~closes /\ holds /\ waiters[i] # <<>> => woken = {Head(waiters[i])}
      /\ ~closes /\ (~holds \/ waiters[i] = <<>>) => woken = {}
      /\ \A p \in woken : p \in Queries /\ L!Waits(p, i) /\ p # q
  <2>1. CASE closes
    <3>1. \A p : p \in woken <=> Occurs(waiters[i], p)
      BY <2>1 DEF L!Woken, Occurs
    <3>. QED  BY <1>2, <1>5, <2>1, <3>1 DEF L!Waits, Occurs
  <2>2. CASE ~closes /\ holds /\ waiters[i] # <<>>
    <3>1. 1 \in DOMAIN waiters[i] /\ Head(waiters[i]) = waiters[i][1]
      BY <1>5, <2>2
    <3>2. woken = {Head(waiters[i])}
      BY <2>2, <3>1 DEF L!Woken
    <3>3. Head(waiters[i]) \in Queries /\ Occurs(waiters[i], Head(waiters[i]))
      BY <1>5, <2>2, Shortened
    <3>4. L!Waits(Head(waiters[i]), i)
      BY <1>5, <3>3
    <3>. QED  BY <1>2, <2>2, <3>2, <3>3, <3>4 DEF L!Waits
  <2>3. CASE ~closes /\ (~holds \/ waiters[i] = <<>>)
    <3>1. woken = {}
      BY <2>3 DEF L!Woken
    <3>. QED  BY <2>3, <3>1
  <2>. QED  BY <2>1, <2>2, <2>3
(* The lists.                                                              *)
<1>7. /\ \A k \in L!Ids : k # i => waiters'[k] = waiters[k]
      /\ waiters'[i] = IF closes THEN <<>> ELSE IF woken # {} THEN Tail(waiters[i]) ELSE waiters[i]
      /\ waiters' \in [L!Ids -> Seq(Queries)]
  <2>1. woken # {} /\ ~closes => Tail(waiters[i]) \in Seq(Queries)
    BY <1>5, <1>6, Shortened
  <2>. QED  BY <1>1, <1>2, <1>5, <2>1 DEF L!Inv, L!Types
<1>8. \A p \in Queries : /\ p # q /\ p \notin woken => at'[p] = at[p]
                         /\ p \in woken => at'[p] = "granted"
                         /\ p # q => on'[p] = on[p]
  BY <1>1, <1>6 DEF L!Inv, L!Types
<1>9. at'[q] = (IF again THEN "ready" ELSE "done") /\ on'[q] = (IF again THEN fresh ELSE 0)
  BY <1>1, <1>2
<1>10. L!Types'
  <2>1. at' \in [Queries -> {"out", "lock", "granted", "ready", "readied", "opening", "asked", "answered", "closing",
                             "dropped", "done"}]
    BY <1>1 DEF L!Inv, L!Types
  <2>2. on' \in [Queries -> 0..made']
    BY <1>1, <1>2 DEF L!Inv, L!Types
  <2>3. disposed' \subseteq 1..made' /\ locked' \subseteq 1..made' /\ made' \in Nat /\ pool' \in 0..made'
    BY <1>1, <1>2 DEF L!Inv, L!Types
  <2>4. ready' \in [L!Ids -> {"no", "ok", "failed"}]
    BY <1>1, <1>2 DEF L!Inv, L!Types
  <2>5. server' \in [L!Ids -> {"none", "absent", "up", "exiting", "gone"}]
    BY <1>1, <1>2 DEF L!Inv, L!Types
  <2>. QED  BY <1>1, <1>7, <2>1, <2>2, <2>3, <2>4, <2>5 DEF L!Inv, L!Types, L!Ids
<1>11. L!Numbered'
  <2>1. L!Used \subseteq Queries /\ L!Cardinality(L!Used) \in Nat /\ L!Cardinality(L!Used') \in Nat
        /\ L!Cardinality(L!Used) <= L!Cardinality(L!Used')
    <3>1. L!Used \subseteq Queries
      BY DEF L!Used, L!Inv, L!Types
    <3>2. IsFiniteSet(L!Used') /\ L!Used \subseteq L!Used'
      BY <1>3, <3>1, PartsAssumption, FS_Subset
    <3>. QED  BY <3>1, <3>2, FS_Subset, FS_CardinalityType, SizeIs
  <2>2. made' <= L!Cardinality(L!Used') + 1
    BY <1>1, <1>2, <1>4, <2>1 DEF L!Inv, L!Numbered
  <2>3. \A p \in Queries : on'[p] = 0 <=> at'[p] \in {"out", "done"}
    <3>1. ASSUME NEW p \in Queries, p # q  PROVE on'[p] = 0 <=> at'[p] \in {"out", "done"}
      BY <1>6, <1>8, <3>1 DEF L!Inv, L!Numbered, L!Waits
    <3>. QED  BY <1>2, <1>9, <3>1
  <2>4. pool' = 0 /\ ~closed' => made' = 0
    BY <1>1, <1>2 DEF L!Inv, L!Numbered
  <2>. QED  BY <2>2, <2>3, <2>4, SizeIs DEF L!Numbered
(* Who waits and who holds.                                                *)
<1>12. ASSUME NEW p \in Queries, NEW k \in L!Ids
       PROVE  L!Waits(p, k)' <=> L!Waits(p, k) /\ p \notin woken
  BY <1>2, <1>6, <1>8, <1>9 DEF L!Waits
<1>13. L!ListsWaiters'
  <2>1. ASSUME NEW k \in L!Ids
        PROVE  /\ \A p \in Queries : L!Waits(p, k)' <=> Occurs(waiters'[k], p)
               /\ Different(waiters'[k])
    <3>1. CASE k # i
      <4>1. \A p \in woken : ~L!Waits(p, k)
        BY <1>6, <3>1 DEF L!Waits
      <4>. QED  BY <1>7, <1>12, <3>1, <4>1, ListsAre
    <3>2. CASE k = i /\ closes
      BY <1>6, <1>7, <1>12, <3>2 DEF Occurs, Different
    <3>3. CASE k = i /\ ~closes /\ woken = {}
      BY <1>5, <1>7, <1>12, <3>3
    <3>4. CASE k = i /\ ~closes /\ woken # {}
      <4>1. waiters[i] # <<>> /\ woken = {Head(waiters[i])} /\ waiters'[i] = Tail(waiters[i])
        BY <1>6, <1>7, <3>4
      <4>2. /\ Different(Tail(waiters[i]))
            /\ \A x : Occurs(Tail(waiters[i]), x) <=> Occurs(waiters[i], x) /\ x # Head(waiters[i])
        BY <1>5, <4>1, Shortened
      <4>. QED  BY <1>5, <1>12, <3>4, <4>1, <4>2
    <3>. QED  BY <3>1, <3>2, <3>3, <3>4
  <2>. QED  BY <2>1 DEF L!ListsWaiters, L!Ids, Occurs, Different
<1>14. ASSUME NEW p \in Queries, p # q, NEW k \in 1..made
       PROVE  L!Holder(p, k)' <=> L!Holder(p, k) \/ (p \in woken /\ k = i)
  <2>1. CASE p \in woken
    BY <1>6, <1>8, <1>14, <2>1 DEF L!Holder, L!Holds, L!Waits
  <2>2. CASE p \notin woken
    BY <1>8, <1>14, <2>2 DEF L!Holder, L!Holds
  <2>. QED  BY <2>1, <2>2
<1>15. \A k \in 1..made : ~L!Holder(q, k)'
  BY <1>2, <1>9 DEF L!Holder
<1>16. L!OneHolds'
  <2>1. ASSUME NEW k \in 1..made', k \notin disposed'
        PROVE  /\ k \in locked' <=> \E p \in Queries : L!Holder(p, k)'
               /\ \A p, o \in Queries : L!Holder(p, k)' /\ L!Holder(o, k)' => p = o
               /\ k \notin locked' => waiters'[k] = <<>>
    <3>1. CASE k \notin 1..made
      <4>1. again /\ k = fresh
        BY <1>1, <1>2, <3>1
      <4>2. L!Holder(q, k)'
        BY <1>9, <4>1 DEF L!Holder, L!Holds
      <4>3. \A p \in Queries : L!Holder(p, k)' => p = q
        BY <1>2, <1>8, <4>1 DEF L!Holder
      <4>. QED  BY <1>1, <4>1, <4>2, <4>3
    <3>2. CASE k \in 1..made /\ k # i
      <4>1. k \notin disposed /\ (k \in locked' <=> k \in locked) /\ waiters'[k] = waiters[k]
        BY <1>1, <1>2, <1>7, <2>1, <3>2
      <4>2. ~L!Holder(q, k)
        BY <1>2, <3>2 DEF L!Holder
      <4>3. \A p \in Queries : L!Holder(p, k)' <=> L!Holder(p, k)
        BY <1>14, <1>15, <3>2, <4>2
      <4>. QED  BY <3>2, <4>1, <4>3 DEF L!Inv, L!OneHolds
    <3>3. CASE k = i
      <4>1. ~closes /\ ~again /\ i \notin disposed /\ holds /\ L!Holder(q, i)
        BY <1>1, <2>1, <3>3
      <4>2. i \in locked /\ \A p \in Queries : L!Holder(p, i) => p = q
        BY <4>1 DEF L!Inv, L!OneHolds
      <4>3. \A p \in Queries : L!Holder(p, i)' <=> p \in woken
        BY <1>6, <1>14, <1>15, <4>2
      <4>4. CASE woken = {}
        BY <1>1, <1>6, <1>7, <3>3, <4>1, <4>3, <4>4
      <4>5. CASE woken # {}
        <5>1. woken = {Head(waiters[i])} /\ Head(waiters[i]) \in Queries
          BY <1>6, <4>1, <4>5
        <5>. QED  BY <1>1, <3>3, <4>1, <4>2, <4>3, <5>1
      <4>. QED  BY <4>4, <4>5
    <3>. QED  BY <3>1, <3>2, <3>3
  <2>. QED  BY <2>1 DEF L!OneHolds
<1>17. L!ClosedIdle'
  <2>1. ASSUME NEW k \in disposed'  PROVE waiters'[k] = <<>> /\ ready'[k] # "no"
    <3>1. k \in L!Ids /\ ready'[k] = IF k = i /\ closes /\ ready[i] = "no" THEN "failed" ELSE ready[k]
      BY <1>1, <1>2, <2>1 DEF L!Inv, L!Types
    <3>2. CASE k # i
      BY <1>1, <1>7, <2>1, <3>1, <3>2 DEF L!Inv, L!ClosedIdle
    <3>3. CASE k = i /\ closes
      BY <1>7, <3>1, <3>3
    <3>4. CASE k = i /\ ~closes
      <4>1. i \in disposed /\ waiters[i] = <<>> /\ ready[i] # "no"
        BY <1>1, <2>1, <3>4 DEF L!Inv, L!ClosedIdle
      <4>. QED  BY <1>6, <1>7, <3>1, <3>4, <4>1
    <3>. QED  BY <3>2, <3>3, <3>4
  <2>. QED  BY <2>1 DEF L!ClosedIdle
<1>. QED  BY <1>10, <1>11, <1>13, <1>16, <1>17 DEF L!Inv

(* A query that has not been, on the pool's first instance.                *)
LEMMA QueryWell == ASSUME L!Inv, NEW q \in Queries, L!Query(q)  PROVE L!Inv'
<1>1. /\ made = 0 /\ made' = 1 /\ pool' = 1 /\ locked = {} /\ locked' = {1} /\ disposed = {}
      /\ UNCHANGED <<closed, ready, disposed, server, waiters, retried>>
      /\ at[q] = "out" /\ at' = [at EXCEPT ![q] = "ready"] /\ on' = [on EXCEPT ![q] = 1]
  <2>1. made = 0
    BY DEF L!Query, L!Inv, L!Numbered
  <2>2. disposed = {} /\ locked = {}
    <3>1. 1..made = {}
      BY <2>1
    <3>. QED  BY <3>1 DEF L!Inv, L!Types
  <2>. QED  BY <2>1, <2>2 DEF L!Query, L!Moves
<1>2. \A p \in Queries : at[p] \in {"out", "done"} /\ on[p] = 0
  <2>1. \A p \in Queries : on[p] \in 0..0
    BY <1>1 DEF L!Inv, L!Types
  <2>. QED  BY <2>1 DEF L!Inv, L!Numbered
<1>3. /\ at'[q] = "ready" /\ on'[q] = 1
      /\ \A p \in Queries : p # q => at'[p] = at[p] /\ on'[p] = on[p]
  BY <1>1 DEF L!Inv, L!Types
<1>4. L!Used' = L!Used /\ L!Cardinality(L!Used) \in Nat
  <2>1. L!Used' = L!Used
    BY <1>1, <1>3 DEF L!Used
  <2>2. L!Used \subseteq Queries
    BY DEF L!Used, L!Inv, L!Types
  <2>. QED  BY <2>1, <2>2, PartsAssumption, FS_Subset, FS_CardinalityType, SizeIs
<1>5. L!Types'
  <2>1. at' \in [Queries -> {"out", "lock", "granted", "ready", "readied", "opening", "asked", "answered", "closing",
                             "dropped", "done"}]
    BY <1>1 DEF L!Inv, L!Types
  <2>2. on' \in [Queries -> 0..made']
    <3>1. on \in [Queries -> 0..0]
      BY <1>1 DEF L!Inv, L!Types
    <3>. QED  BY <1>1, <3>1
  <2>3. disposed' \subseteq 1..made' /\ locked' \subseteq 1..made' /\ made' \in Nat /\ pool' \in 0..made'
    BY <1>1
  <2>. QED  BY <1>1, <2>1, <2>2, <2>3 DEF L!Inv, L!Types, L!Ids
<1>6. L!Numbered'
  BY <1>1, <1>2, <1>3, <1>4, SizeIs DEF L!Numbered
<1>7. L!ListsWaiters'
  <2>1. \A p \in Queries : \A i : L!Waits(p, i)' <=> L!Waits(p, i)
    BY <1>2, <1>3 DEF L!Waits
  <2>. QED  BY <1>1, <2>1 DEF L!Inv, L!ListsWaiters, L!Ids
<1>8. L!OneHolds'
  <2>1. L!Holder(q, 1)' /\ \A p \in Queries : L!Holder(p, 1)' => p = q
    BY <1>2, <1>3 DEF L!Holder, L!Holds
  <2>2. 1..made' = {1}
    BY <1>1
  <2>. QED  BY <1>1, <2>1, <2>2 DEF L!OneHolds
<1>9. L!ClosedIdle'
  BY <1>1 DEF L!ClosedIdle
<1>. QED  BY <1>5, <1>6, <1>7, <1>8, <1>9 DEF L!Inv

(* A query that has not been, on a pooled instance that is open.           *)
LEMMA PooledWell ==
    ASSUME L!Inv, NEW q \in Queries, at[q] = "out", pool # 0, pool \notin disposed,
           NEW place \in {"lock", "ready", "readied"},
           UNCHANGED <<closed, pool, made, ready, disposed, server, retried>>,
           at' = [at EXCEPT ![q] = place], on' = [on EXCEPT ![q] = pool],
           \/ place = "lock" /\ pool \in locked /\ locked' = locked /\ waiters' = [waiters EXCEPT ![pool] = Append(@, q)]
           \/ place # "lock" /\ pool \notin locked /\ locked' = locked \cup {pool} /\ waiters' = waiters
    PROVE  L!Inv'
<1>1. /\ made \in Nat /\ pool \in 1..made /\ pool \in L!Ids /\ 1..made \subseteq L!Ids /\ on[q] = 0
      /\ \A p \in Queries : on[p] \in 0..made
  BY InstancesAre DEF L!Inv, L!Types, L!Numbered
<1>2. /\ at'[q] = place /\ on'[q] = pool
      /\ \A p \in Queries : p # q => at'[p] = at[p] /\ on'[p] = on[p]
  BY DEF L!Inv, L!Types
<1>3. L!Used' = L!Used
  BY <1>2 DEF L!Used
<1>4. /\ waiters[pool] \in Seq(Queries) /\ Different(waiters[pool]) /\ ~Occurs(waiters[pool], q)
      /\ \A p \in Queries : L!Waits(p, pool) <=> Occurs(waiters[pool], p)
  BY <1>1, ListsAre DEF L!Waits
<1>5. L!Types'
  <2>1. at' \in [Queries -> {"out", "lock", "granted", "ready", "readied", "opening", "asked", "answered", "closing",
                             "dropped", "done"}]
    BY DEF L!Inv, L!Types
  <2>2. on' \in [Queries -> 0..made']
    BY <1>1 DEF L!Inv, L!Types
  <2>3. waiters' \in [L!Ids -> Seq(Queries)]
    <3>1. Append(waiters[pool], q) \in Seq(Queries)
      BY <1>4
    <3>. QED  BY <1>1, <3>1 DEF L!Inv, L!Types
  <2>4. locked' \subseteq 1..made'
    BY <1>1 DEF L!Inv, L!Types
  <2>. QED  BY <2>1, <2>2, <2>3, <2>4 DEF L!Inv, L!Types, L!Ids
<1>6. L!Numbered'
  <2>1. \A p \in Queries : on'[p] = 0 <=> at'[p] \in {"out", "done"}
    BY <1>1, <1>2 DEF L!Inv, L!Numbered
  <2>. QED  BY <1>3, <2>1 DEF L!Inv, L!Numbered
<1>7. \A p \in Queries : \A i : p # q => (L!Waits(p, i)' <=> L!Waits(p, i)) /\ (L!Holder(p, i)' <=> L!Holder(p, i))
  BY <1>2 DEF L!Waits, L!Holder, L!Holds
<1>8. \A i : /\ ~L!Waits(q, i) /\ ~L!Holder(q, i)
             /\ L!Waits(q, i)' <=> (place = "lock" /\ i = pool)
             /\ L!Holder(q, i)' <=> (place # "lock" /\ i = pool)
  BY <1>2 DEF L!Waits, L!Holder, L!Holds
<1>9. L!ListsWaiters'
  <2>1. ASSUME NEW k \in L!Ids
        PROVE  /\ \A p \in Queries : L!Waits(p, k)' <=> Occurs(waiters'[k], p)
               /\ Different(waiters'[k])
    <3>1. CASE waiters'[k] = waiters[k] /\ (place # "lock" \/ k # pool)
      BY <1>7, <1>8, <3>1, ListsAre
    <3>2. CASE place = "lock" /\ k = pool
      <4>1. waiters'[k] = Append(waiters[pool], q)
        BY <1>1, <3>2 DEF L!Inv, L!Types
      <4>2. Different(waiters'[k]) /\ \A y : Occurs(waiters'[k], y) <=> Occurs(waiters[pool], y) \/ y = q
        BY <1>4, <4>1, Lengthened
      <4>. QED  BY <1>4, <1>7, <1>8, <3>2, <4>2
    <3>3. waiters'[k] = waiters[k] \/ (place = "lock" /\ k = pool)
      BY <1>1, <2>1 DEF L!Inv, L!Types
    <3>. QED  BY <3>1, <3>2, <3>3
  <2>. QED  BY <2>1 DEF L!ListsWaiters, L!Ids, Occurs, Different
<1>10. L!OneHolds'
  <2>1. ASSUME NEW k \in 1..made, k \notin disposed
        PROVE  /\ k \in locked' <=> \E p \in Queries : L!Holder(p, k)'
               /\ \A p, o \in Queries : L!Holder(p, k)' /\ L!Holder(o, k)' => p = o
               /\ k \notin locked' => waiters'[k] = <<>>
    <3>1. /\ k \in locked <=> \E p \in Queries : L!Holder(p, k)
          /\ \A p, o \in Queries : L!Holder(p, k) /\ L!Holder(o, k) => p = o
          /\ k \notin locked => waiters[k] = <<>>
      BY <2>1 DEF L!Inv, L!OneHolds
    <3>2. CASE k # pool
      <4>1. waiters'[k] = waiters[k] /\ (k \in locked' <=> k \in locked)
        BY <1>1, <2>1, <3>2 DEF L!Inv, L!Types
      <4>2. \A p \in Queries : L!Holder(p, k)' <=> L!Holder(p, k)
        BY <1>7, <1>8, <3>2
      <4>. QED  BY <3>1, <4>1, <4>2
    <3>3. CASE k = pool /\ place = "lock"
      <4>1. \A p \in Queries : L!Holder(p, k)' <=> L!Holder(p, k)
        BY <1>7, <1>8, <3>3
      <4>. QED  BY <3>1, <3>3, <4>1
    <3>4. CASE k = pool /\ place # "lock"
      <4>1. \A p \in Queries : L!Holder(p, k)' <=> p = q
        BY <1>7, <1>8, <3>1, <3>4
      <4>. QED  BY <3>4, <4>1
    <3>. QED  BY <3>2, <3>3, <3>4
  <2>. QED  BY <2>1 DEF L!OneHolds
<1>11. L!ClosedIdle'
  <2>1. \A i \in disposed : i \in L!Ids /\ i # pool /\ waiters'[i] = waiters[i]
    BY <1>1 DEF L!Inv, L!Types
  <2>. QED  BY <2>1 DEF L!Inv, L!ClosedIdle
<1>. QED  BY <1>5, <1>6, <1>9, <1>10, <1>11 DEF L!Inv

(* The plugin is unloaded: the pooled instance is closed.                  *)
LEMMA DisposeWell == ASSUME L!Inv, L!Dispose  PROVE L!Inv'
<1>. DEFINE gone == {pool} \ ({0} \cup disposed)
            woken == UNION {L!Woken(i, FALSE, TRUE) : i \in gone}
<1>1. /\ closed' = TRUE /\ pool' = 0 /\ disposed' = disposed \cup gone
      /\ server' = [i \in L!Ids |-> IF i \in gone /\ server[i] = "up" THEN "exiting" ELSE server[i]]
      /\ ready' = [i \in L!Ids |-> IF i \in gone /\ ready[i] = "no" THEN "failed" ELSE ready[i]]
      /\ waiters' = [i \in L!Ids |-> IF i \in gone THEN <<>> ELSE waiters[i]]
      /\ at' = [q \in Queries |-> IF q \in woken THEN "granted" ELSE at[q]]
      /\ UNCHANGED <<made, locked, on, retried>>
  BY DEF L!Dispose
<1>2. made \in Nat /\ gone \subseteq 1..made /\ gone \cap disposed = {} /\ 1..made \subseteq L!Ids
  BY InstancesAre DEF L!Inv, L!Types
<1>3. \A q \in Queries : q \in woken <=> \E i \in gone : L!Waits(q, i)
  <2>1. ASSUME NEW i \in gone  PROVE \A q \in Queries : q \in L!Woken(i, FALSE, TRUE) <=> L!Waits(q, i)
    <3>1. \A q : q \in L!Woken(i, FALSE, TRUE) <=> Occurs(waiters[i], q)
      BY DEF L!Woken, Occurs
    <3>. QED  BY <1>2, <3>1, ListsAre
  <2>. QED  BY <2>1
<1>4. \A q \in Queries : at'[q] = IF q \in woken THEN "granted" ELSE at[q]
  BY <1>1
<1>5. ASSUME NEW q \in Queries, q \in woken  PROVE at[q] = "lock" /\ on[q] \in gone
  <2>1. PICK i \in gone : L!Waits(q, i)
    BY <1>3, <1>5
  <2>. QED  BY <2>1 DEF L!Waits
<1>6. L!Used' = L!Used
  BY <1>1, <1>4, <1>5 DEF L!Used
<1>7. L!Types'
  <2>1. at' \in [Queries -> {"out", "lock", "granted", "ready", "readied", "opening", "asked", "answered", "closing",
                             "dropped", "done"}]
    BY <1>1 DEF L!Inv, L!Types
  <2>2. waiters' \in [L!Ids -> Seq(Queries)]
    <3>1. <<>> \in Seq(Queries)
      OBVIOUS
    <3>. QED  BY <1>1, <3>1 DEF L!Inv, L!Types
  <2>3. ready' \in [L!Ids -> {"no", "ok", "failed"}]
    BY <1>1 DEF L!Inv, L!Types
  <2>4. server' \in [L!Ids -> {"none", "absent", "up", "exiting", "gone"}]
    BY <1>1 DEF L!Inv, L!Types
  <2>5. disposed' \subseteq 1..made' /\ pool' \in 0..made' /\ closed' \in BOOLEAN
    BY <1>1, <1>2 DEF L!Inv, L!Types
  <2>. QED  BY <1>1, <2>1, <2>2, <2>3, <2>4, <2>5 DEF L!Inv, L!Types, L!Ids
<1>8. L!Numbered'
  <2>1. \A q \in Queries : on'[q] = 0 <=> at'[q] \in {"out", "done"}
    BY <1>1, <1>4, <1>5 DEF L!Inv, L!Numbered
  <2>. QED  BY <1>1, <1>6, <2>1 DEF L!Inv, L!Numbered
<1>9. ASSUME NEW q \in Queries, NEW k \in L!Ids
      PROVE  /\ L!Waits(q, k)' <=> L!Waits(q, k) /\ k \notin gone
             /\ k \notin gone => (L!Holder(q, k)' <=> L!Holder(q, k))
  <2>1. CASE q \in woken
    BY <1>1, <1>4, <1>5, <2>1 DEF L!Waits, L!Holder, L!Holds
  <2>2. CASE q \notin woken
    BY <1>1, <1>3, <1>4, <2>2 DEF L!Waits, L!Holder, L!Holds
  <2>. QED  BY <2>1, <2>2
<1>10. \A k \in L!Ids : waiters'[k] = IF k \in gone THEN <<>> ELSE waiters[k]
  BY <1>1
<1>11. L!ListsWaiters'
  <2>1. ASSUME NEW k \in L!Ids
        PROVE  /\ \A q \in Queries : L!Waits(q, k)' <=> Occurs(waiters'[k], q)
               /\ Different(waiters'[k])
    <3>1. CASE k \in gone
      BY <1>9, <1>10, <3>1 DEF Occurs, Different
    <3>2. CASE k \notin gone
      BY <1>9, <1>10, <3>2, ListsAre
    <3>. QED  BY <3>1, <3>2
  <2>. QED  BY <2>1 DEF L!ListsWaiters, L!Ids, Occurs, Different
<1>12. L!OneHolds'
  <2>1. ASSUME NEW k \in 1..made, k \notin disposed'
        PROVE  /\ k \in locked' <=> \E p \in Queries : L!Holder(p, k)'
               /\ \A p, o \in Queries : L!Holder(p, k)' /\ L!Holder(o, k)' => p = o
               /\ k \notin locked' => waiters'[k] = <<>>
    <3>1. k \in L!Ids /\ k \notin gone /\ k \notin disposed
      BY <1>1, <1>2, <2>1
    <3>2. waiters'[k] = waiters[k] /\ locked' = locked /\ \A q \in Queries : L!Holder(q, k)' <=> L!Holder(q, k)
      BY <1>1, <1>9, <1>10, <3>1
    <3>. QED  BY <2>1, <3>1, <3>2 DEF L!Inv, L!OneHolds
  <2>. QED  BY <1>1, <2>1 DEF L!OneHolds
<1>13. L!ClosedIdle'
  <2>1. ASSUME NEW k \in disposed'  PROVE waiters'[k] = <<>> /\ ready'[k] # "no"
    <3>1. k \in L!Ids /\ ready'[k] = IF k \in gone /\ ready[k] = "no" THEN "failed" ELSE ready[k]
      BY <1>1, <1>2, <2>1 DEF L!Inv, L!Types
    <3>. QED  BY <1>1, <1>10, <2>1, <3>1 DEF L!Inv, L!ClosedIdle
  <2>. QED  BY <2>1 DEF L!ClosedIdle
<1>. QED  BY <1>7, <1>8, <1>11, <1>12, <1>13 DEF L!Inv

(* A query that goes on, its instance's lock being its own.                *)
LEMMA GoesOn ==
    ASSUME L!Inv, NEW q \in Queries, L!Holds(q), NEW place \in {"ready", "readied", "opening", "asked"},
           L!Moves(q, on[q], place), UNCHANGED <<pool, made, locked, waiters>>
    PROVE  L!Inv'
<1>1. on' = on /\ at' = [at EXCEPT ![q] = place] /\ UNCHANGED <<closed, ready, disposed, server, retried>>
  BY DEF L!Moves, L!Inv, L!Types
<1>2. L!Types'
  BY <1>1 DEF L!Inv, L!Types, L!Ids
<1>3. \A p \in Queries : at'[p] = at[p] \/ (L!Holds(p) /\ L!Holds(p)')
  BY <1>1 DEF L!Holds, L!Inv, L!Types
<1>. QED  BY <1>1, <1>2, <1>3, MovesWell DEF L!Inv, L!ClosedIdle
(* A query that leaves, its instance's lock being its own.                 *)
LEMMA HolderLeaves ==
    ASSUME L!Inv, NEW q \in Queries, L!Holds(q), NEW shuts \in BOOLEAN, NEW fails \in BOOLEAN,
           L!Leaves(q, on[q], TRUE, shuts, fails)
    PROVE  L!Inv'
<1>1. on[q] \in 1..made /\ L!Holder(q, on[q])
  BY UsesOne DEF L!Holds, L!Holder
<1>. QED  BY <1>1, LeavesWell

LEMMA QueriesWell ==
    ASSUME L!Inv, NEW q \in Queries, L!Query(q) \/ L!QueryPooled(q) \/ L!Respond(q) \/ L!Resumes(q)
    PROVE  L!Inv'
<1>1. CASE L!Query(q)
  BY <1>1, QueryWell
<1>2. CASE L!QueryPooled(q)
  <2>1. at[q] = "out" /\ pool # 0 /\ pool \in 1..made /\ on[q] = 0
    BY <1>2 DEF L!QueryPooled, L!Inv, L!Types, L!Numbered
  <2>2. CASE pool \in disposed /\ L!Leaves(q, pool, FALSE, FALSE, TRUE)
    BY <2>1, <2>2, LeavesWell
  <2>3. CASE /\ pool \in locked \ disposed /\ waiters' = [waiters EXCEPT ![pool] = Append(@, q)]
             /\ L!Moves(q, pool, "lock") /\ UNCHANGED <<pool, made, locked>>
    BY <2>1, <2>3, PooledWell DEF L!Moves
  <2>4. CASE /\ pool \notin locked \cup disposed /\ locked' = locked \cup {pool}
             /\ L!Moves(q, pool, IF ready[pool] = "no" THEN "ready" ELSE "readied") /\ UNCHANGED <<pool, made, waiters>>
    <3>. DEFINE place == IF ready[pool] = "no" THEN "ready" ELSE "readied"
    <3>1. place \in {"lock", "ready", "readied"} /\ place # "lock"
      OBVIOUS
    <3>2. /\ UNCHANGED <<closed, pool, made, ready, disposed, server, retried, waiters>>
          /\ at' = [at EXCEPT ![q] = place] /\ on' = [on EXCEPT ![q] = pool]
          /\ locked' = locked \cup {pool} /\ pool \notin locked /\ pool \notin disposed
      BY <2>4 DEF L!Moves
    <3>. HIDE DEF place
    <3>. QED  BY <2>1, <3>1, <3>2, PooledWell
  <2>. QED  BY <1>2, <2>2, <2>3, <2>4 DEF L!QueryPooled
<1>3. CASE L!Respond(q)
  <2>1. at[q] = "asked" /\ at' = [at EXCEPT ![q] = "answered"]
        /\ UNCHANGED <<closed, pool, made, ready, disposed, server, locked, waiters, on, retried>>
    BY <1>3 DEF L!Respond, L!instances
  <2>2. L!Types'
    BY <2>1 DEF L!Inv, L!Types, L!Ids
  <2>3. \A p \in Queries : at'[p] = at[p] \/ (L!Holds(p) /\ L!Holds(p)')
    BY <2>1 DEF L!Holds, L!Inv, L!Types
  <2>. QED  BY <2>1, <2>2, <2>3, MovesWell DEF L!Inv, L!ClosedIdle
<1>4. CASE L!Granted(q)
  <2>1. at[q] = "granted" /\ L!Holds(q) /\ on[q] \in 1..made
    BY <1>4, UsesOne DEF L!Granted, L!Holds
  <2>2. CASE on[q] \in disposed
    BY <1>4, <2>1, <2>2, LeavesWell DEF L!Granted
  <2>3. CASE on[q] \notin disposed
    <3>. DEFINE place == IF ready[on[q]] = "no" THEN "ready" ELSE "readied"
    <3>1. place \in {"ready", "readied", "opening", "asked"}
      OBVIOUS
    <3>2. L!Moves(q, on[q], place) /\ UNCHANGED <<pool, made, locked, waiters>>
      BY <1>4, <2>3 DEF L!Granted
    <3>. HIDE DEF place
    <3>. QED  BY <2>1, <3>1, <3>2, GoesOn
  <2>. QED  BY <2>2, <2>3
<1>5. CASE L!Readied(q)
  <2>1. L!Holds(q)
    BY <1>5 DEF L!Readied, L!Holds
  <2>2. CASE L!Leaves(q, on[q], TRUE, FALSE, TRUE)
    BY <2>1, <2>2, HolderLeaves
  <2>3. CASE L!Moves(q, on[q], "opening") /\ UNCHANGED <<pool, made, locked, waiters>>
    BY <2>1, <2>3, GoesOn
  <2>. QED  BY <1>5, <2>2, <2>3 DEF L!Readied
<1>6. CASE L!Opened(q)
  <2>1. L!Holds(q)
    BY <1>6 DEF L!Opened, L!Holds
  <2>2. CASE L!Leaves(q, on[q], TRUE, FALSE, TRUE)
    BY <2>1, <2>2, HolderLeaves
  <2>3. CASE L!Moves(q, on[q], "asked") /\ UNCHANGED <<pool, made, locked, waiters>>
    BY <2>1, <2>3, GoesOn
  <2>. QED  BY <1>6, <2>2, <2>3 DEF L!Opened
<1>7. CASE L!Resumed(q)
  <2>1. L!Holds(q)
    BY <1>7 DEF L!Resumed, L!Holds
  <2>2. PICK fails \in {at[q] = "asked", TRUE} :
            IF on[q] \in disposed \cup failed THEN UNCHANGED failed /\ L!Leaves(q, on[q], TRUE, FALSE, fails)
            ELSE /\ bad' = IF fails THEN bad \cup {q} ELSE bad
                 /\ at' = [at EXCEPT ![q] = "closing"] /\ UNCHANGED <<closed, L!instances, on, retried>>
    BY <1>7 DEF L!Resumed
  <2>3. fails \in BOOLEAN
    BY <2>2
  <2>4. CASE on[q] \in disposed \cup failed
    BY <2>1, <2>2, <2>3, <2>4, HolderLeaves
  <2>5. CASE on[q] \notin disposed \cup failed
    <3>1. at' = [at EXCEPT ![q] = "closing"]
          /\ UNCHANGED <<closed, pool, made, ready, disposed, server, locked, waiters, on, retried>>
      BY <2>2, <2>5 DEF L!instances
    <3>2. L!Types'
      BY <3>1 DEF L!Inv, L!Types, L!Ids
    <3>3. \A p \in Queries : at'[p] = at[p] \/ (L!Holds(p) /\ L!Holds(p)')
      BY <2>1, <3>1 DEF L!Holds, L!Inv, L!Types
    <3>. QED  BY <3>1, <3>2, <3>3, MovesWell DEF L!Inv, L!ClosedIdle
  <2>. QED  BY <2>4, <2>5
<1>8. CASE L!Finished(q)
  <2>1. L!Holds(q)
    BY <1>8 DEF L!Finished, L!Holds
  <2>2. (~L!Works(on[q])) \in BOOLEAN /\ (q \in bad) \in BOOLEAN
    BY DEF L!Works
  <2>. QED  BY <1>8, <2>1, <2>2, HolderLeaves DEF L!Finished
<1>. QED  BY <1>1, <1>2, <1>3, <1>4, <1>5, <1>6, <1>7, <1>8 DEF L!Resumes

LEMMA ServersWell ==
    ASSUME L!Inv, NEW i \in L!Ids, L!Starts(i) \/ L!Serves(i) \/ L!Ends(i) \/ L!Malformed(i) \/ L!ServerAsks(i)
    PROVE  L!Inv'
<1>1. UNCHANGED <<closed, pool, made, disposed, locked, waiters, on, retried>>
  BY DEF L!Starts, L!Launch, L!NoLaunch, L!Initialized, L!Serves, L!EndSeen, L!Answered, L!Ends, L!Malformed,
         L!ServerAsks, L!queries
<1>2. /\ server' \in [L!Ids -> {"none", "absent", "up", "exiting", "gone"}]
      /\ ready' \in [L!Ids -> {"no", "ok", "failed"}]
      /\ \A k \in disposed : ready'[k] # "no"
  <2>1. /\ disposed \subseteq L!Ids /\ \A k \in disposed : ready[k] # "no"
        /\ server \in [L!Ids -> {"none", "absent", "up", "exiting", "gone"}]
        /\ ready \in [L!Ids -> {"no", "ok", "failed"}]
    BY InstancesAre DEF L!Inv, L!Types, L!ClosedIdle
  <2>2. server' = server \/ \E x \in {"absent", "up", "exiting", "gone"} : server' = [server EXCEPT ![i] = x]
    BY DEF L!Starts, L!Launch, L!NoLaunch, L!Initialized, L!Serves, L!EndSeen, L!Answered, L!Ends, L!Malformed,
           L!ServerAsks
  <2>3. ready' = ready \/ \E x \in {"ok", "failed"} : ready' = [ready EXCEPT ![i] = x]
    BY DEF L!Starts, L!Launch, L!NoLaunch, L!Initialized, L!Serves, L!EndSeen, L!Answered, L!Ends, L!Malformed,
           L!ServerAsks
  <2>. QED  BY <2>1, <2>2, <2>3
<1>3. /\ at' \in [Queries -> {"out", "lock", "granted", "ready", "readied", "opening", "asked", "answered",
                              "closing", "dropped", "done"}]
      /\ \A p \in Queries : at'[p] = at[p] \/ (L!Holds(p) /\ L!Holds(p)')
  <2>1. CASE at' = at
    BY <2>1 DEF L!Inv, L!Types
  <2>2. CASE at' = [q \in Queries |-> IF on[q] = i /\ at[q] \in {"opening", "closing"} THEN "dropped" ELSE at[q]]
    BY <2>2 DEF L!Inv, L!Types, L!Holds
  <2>. QED
    BY <2>1, <2>2 DEF L!Starts, L!Launch, L!NoLaunch, L!Initialized, L!Serves, L!EndSeen, L!Answered, L!Ends,
                      L!Malformed, L!ServerAsks, L!queries
<1>4. L!Types'
  BY <1>1, <1>2, <1>3 DEF L!Inv, L!Types, L!Ids
<1>. QED  BY <1>1, <1>2, <1>3, <1>4, MovesWell

LEMMA LspStep == L!Inv /\ [L!Next]_lspPool => L!Inv'
<1>. SUFFICES ASSUME L!Inv, [L!Next]_lspPool  PROVE L!Inv'
  OBVIOUS
<1>1. CASE UNCHANGED lspPool
  <2>1. UNCHANGED <<closed, pool, made, disposed, locked, waiters, on, retried, at, ready, server>>
    BY <1>1 DEF lspPool
  <2>2. L!Types'
    BY <2>1 DEF L!Inv, L!Types, L!Ids
  <2>. QED  BY <2>1, <2>2, MovesWell DEF L!Inv, L!ClosedIdle
<1>. QED  BY <1>1, QueriesWell, ServersWell, DisposeWell DEF L!Next

HIDE DEF closed, pool, made, ready, disposed, failed, server, behind, locked, waiters, at, on, retried, bad

----------------------------------------------------------------------------
(* SessionIndex: a row whose revision is the wanted one has the documents  *)
(* of what is there now, through closing, restoring, crashing and reloading,*)
(* so that a search answers from the sessions as they are.                 *)
live == r1      history == r2   disk == r3      stamp == r4     torn == r5      file == r6      rows == r7
gen == r8       opened == r9    mem == r10      cursor == r11   crashes == r12  lost == r13     upset == r14
sessionIndex == <<live, history, disk, stamp, torn, file, rows, gen, opened, mem, cursor, crashes, lost, upset>>
USE DEF live, history, disk, stamp, torn, file, rows, gen, opened, mem, cursor, crashes, lost, upset

LEMMA IndexStarts == I!Init => I!Inv
<1>. SUFFICES ASSUME I!Init  PROVE I!Inv
  OBVIOUS
<1>1. I!Types
  <2>1. <<>> \in Seq(I!Written)
    OBVIOUS
  <2>2. /\ live = {} /\ history = [i \in SessionIds |-> <<>>] /\ disk = [i \in SessionIds |-> <<>>]
        /\ stamp = [i \in SessionIds |-> 0] /\ torn = {} /\ rows = [i \in SessionIds |-> Nil] /\ gen = 0
        /\ opened = "no" /\ mem = 0 /\ cursor = Nil /\ lost = {} /\ upset = FALSE
    BY DEF I!Init
  <2>3. history \in [SessionIds -> Seq(I!Written)] /\ disk \in [SessionIds -> Seq(I!Written)]
    <3>. HIDE DEF history, disk, I!Written
    <3>. QED  BY <2>1, <2>2
  <2>4. rows \in [SessionIds -> I!Rows \cup {Nil}]
    BY <2>2
  <2>. QED  BY <2>2, <2>3, <2>4 DEF I!Types
<1>2. I!Known
  BY DEF I!Init, I!Known, I!Desired
<1>. QED  BY <1>1, <1>2 DEF I!Init, I!Inv, I!Paged

LEMMA Seconds == ASSUME NEW a, NEW b, NEW c  PROVE <<a, b, c>>[2] = b
OBVIOUS

(* A prefix of a log stays what it is as the log grows.                    *)
LEMMA PrefixesStay ==
    ASSUME NEW S, NEW s \in Seq(S)
    PROVE  /\ SubSeq(s, 1, Len(s)) = s
           /\ \A e \in S, n \in 0..Len(s) : SubSeq(Append(s, e), 1, n) = SubSeq(s, 1, n)
<1>1. SubSeq(s, 1, Len(s)) = s
  OBVIOUS
<1>2. ASSUME NEW e \in S, NEW n \in 0..Len(s)  PROVE SubSeq(Append(s, e), 1, n) = SubSeq(s, 1, n)
  OBVIOUS
<1>. QED  BY <1>1, <1>2

(* What is written into the index is a row.                                *)
LEMMA RowsAre ==
    ASSUME NEW s \in Seq(I!Written), NEW time \in Nat, NEW alive \in BOOLEAN
    PROVE  /\ [revision |-> <<"live", Len(s), I!Generation(s)>>, live |-> alive, docs |-> I!Documents(s)] \in I!Rows
           /\ [revision |-> <<"file", time, Len(s)>>, live |-> alive, docs |-> I!Documents(s)] \in I!Rows
<1>1. I!Generation(s) \in Nat
  <2>. DEFINE P(i) == s[i].kind = "replace" \/
                      (s[i].kind = "erase" /\ \E q \in I!Range(I!FoldLog(SubSeq(s, 1, i - 1))) :
                          s[i].from <= q /\ q < s[i].upto)
              T == {i \in DOMAIN s : P(i)}
  <2>1. I!Generation(s) = Cardinality(T)
    BY DEF I!Generation, I!Cardinality, Cardinality
  <2>2. IsFiniteSet(1..Len(s)) /\ T \subseteq 1..Len(s)
    <3>1. DOMAIN s = 1..Len(s) /\ Len(s) \in Nat
      OBVIOUS
    <3>2. IsFiniteSet(1..Len(s))
      BY <3>1, FS_Interval
    <3>. QED  BY <3>1, <3>2
  <2>. HIDE DEF T
  <2>3. IsFiniteSet(T)
    BY <2>2, FS_Subset
  <2>. QED  BY <2>1, <2>3, FS_CardinalityType
<1>2. I!Documents(s) \subseteq [seq : Nat, text : Phrases, surface : {"current", "shadowed", "log-only"}]
  <2>1. \A i \in DOMAIN s : I!Surfaces(s)[i] \in {"current", "shadowed", "log-only"}
    BY DEF I!Surfaces
  <2>2. \A i \in DOMAIN s : s[i].seq \in Nat /\ s[i].text \in Phrases
    <3>. DEFINE R == I!Written
    <3>1. \A e \in R : e.seq \in Nat /\ e.text \in Phrases
      BY DEF I!Written
    <3>2. s \in Seq(R)
      OBVIOUS
    <3>. HIDE DEF R
    <3>3. \A i \in DOMAIN s : s[i] \in R
      BY <3>2
    <3>. QED  BY <3>1, <3>3
  <2>. QED  BY <2>1, <2>2 DEF I!Documents
<1>3. Len(s) \in Nat
  OBVIOUS
<1>4. /\ <<"live", Len(s), I!Generation(s)>> \in {"live", "file"} \X Nat \X Nat
      /\ <<"file", time, Len(s)>> \in {"live", "file"} \X Nat \X Nat
  BY <1>1, <1>3
<1>. QED  BY <1>2, <1>4 DEF I!Rows

LEMMA SourcesAre ==
    ASSUME I!Types, NEW i \in SessionIds
    PROVE  /\ I!Source(i) \in Seq(I!Written) /\ stamp[i] \in Nat /\ Len(I!Source(i)) \in Nat
           /\ history[i] \in Seq(I!Written) /\ disk[i] \in Seq(I!Written)
           /\ i \in live => I!Source(i) = history[i]
           /\ i \notin live => I!Source(i) = disk[i]
BY DEF I!Types, I!Source

(* A row made or kept has the documents of the log.                        *)
Fresh(i) == [revision |-> I!Revision(i), live |-> i \in live, docs |-> I!Documents(I!Source(i))]

LEMMA FreshKnown ==
    ASSUME I!Types, NEW i \in I!Desired, I!Readable(i)
    PROVE  /\ Fresh(i) \in I!Rows /\ Fresh(i) # Nil
           /\ Fresh(i).docs = I!Documents(I!Source(i)) /\ Fresh(i).live = (i \in live)
           /\ i \in live => Fresh(i).revision[2] = Len(history[i])
           /\ i \notin live => Fresh(i).revision[2] = stamp[i]
<1>1. i \in SessionIds
  BY DEF I!Types, I!Desired
<1>2. CASE i \in live
  BY <1>1, <1>2, SourcesAre, RowsAre, PartsAssumption DEF Fresh, I!Revision
<1>3. CASE i \notin live
  <2>1. disk[i] \in Seq(I!Written) /\ stamp[i] \in Nat /\ I!Source(i) = disk[i]
    BY <1>1, <1>3, SourcesAre
  <2>2. I!Revision(i) = <<"file", stamp[i], Len(disk[i])>>
    BY <1>3 DEF I!Revision
  <2>. DEFINE alive == i \in live
  <2>3. Fresh(i) = [revision |-> <<"file", stamp[i], Len(disk[i])>>, live |-> alive,
                    docs |-> I!Documents(disk[i])]
    BY <2>1, <2>2 DEF Fresh
  <2>4. alive \in BOOLEAN
    OBVIOUS
  <2>5. Fresh(i) \in I!Rows
    <3>. HIDE DEF alive
    <3>. QED  BY <2>1, <2>3, <2>4, RowsAre
  <2>6. Fresh(i).revision[2] = stamp[i]
    BY <2>2, Seconds DEF Fresh
  <2>. QED  BY <1>3, <2>5, <2>6, PartsAssumption DEF Fresh
<1>. QED  BY <1>2, <1>3

LEMMA ReconciledWell ==
    ASSUME I!Inv, I!Searched, UNCHANGED <<live, history, disk, stamp, torn, crashes>>
    PROVE  /\ rows' \in [SessionIds -> I!Rows \cup {Nil}]
           /\ I!Known'
           /\ \A i \in SessionIds \ lost :
                 /\ (rows'[i] # Nil) = (i \in I!Desired /\ I!Readable(i))
                 /\ rows'[i] # Nil => rows'[i].docs = I!Documents(I!Source(i)) /\ rows'[i].live = (i \in live)
<1>1. I!Types /\ I!Known
  BY DEF I!Inv
<1>2. rows' = I!Reconciled /\ lost' = {i \in lost : rows[i] = rows'[i]}
  BY DEF I!Searched
<1>3. /\ I!Desired' = I!Desired
      /\ \A i : I!Source(i)' = I!Source(i) /\ I!Readable(i)' = I!Readable(i)
  BY DEF I!Desired, I!Source, I!Readable
<1>4. ASSUME NEW i \in SessionIds, i \notin I!Desired  PROVE rows'[i] = Nil
  BY <1>2, <1>4 DEF I!Reconciled
<1>5. ASSUME NEW i \in I!Desired, ~I!Kept(i)
      PROVE  rows'[i] = IF I!Readable(i) THEN Fresh(i) ELSE Nil
  BY <1>1, <1>2, <1>5 DEF I!Reconciled, Fresh, I!Desired, I!Types
<1>6. ASSUME NEW i \in I!Desired, I!Kept(i)
      PROVE  rows'[i] = rows[i] /\ rows[i] # Nil /\ rows[i].live = (i \in live) /\ rows[i].revision = I!Revision(i)
  BY <1>1, <1>2, <1>6 DEF I!Reconciled, I!Kept, I!Desired, I!Types
<1>7. ASSUME NEW i \in I!Desired \ lost, I!Kept(i)
      PROVE  I!Readable(i) /\ rows[i].docs = I!Documents(I!Source(i))
  <2>1. i \in SessionIds /\ I!RowKnown(i)
    BY <1>1, <1>6, <1>7 DEF I!Known, I!Desired, I!Types
  <2>2. CASE i \in live
    <3>0. rows[i].revision = <<"live", Len(history[i]), I!Generation(history[i])>>
      BY <1>6, <1>7, <2>2 DEF I!Revision
    <3>1. rows[i].revision[2] = Len(history[i])
      BY <3>0, Seconds
    <3>2. rows[i].docs = I!Documents(SubSeq(I!Source(i), 1, Len(history[i])))
      BY <1>6, <1>7, <2>1, <2>2, <3>1 DEF I!RowKnown
    <3>. QED  BY <1>1, <2>1, <2>2, <3>2, SourcesAre, PrefixesStay DEF I!Readable
  <2>3. CASE i \notin live
    <3>0. rows[i].revision = <<"file", stamp[i], Len(disk[i])>>
      BY <1>6, <1>7, <2>3 DEF I!Revision
    <3>1. rows[i].revision[2] = stamp[i]
      BY <3>0, Seconds
    <3>2. i \notin torn /\ rows[i].docs = I!Documents(disk[i])
      BY <1>6, <1>7, <2>1, <2>3, <3>1 DEF I!RowKnown
    <3>. QED  BY <1>1, <1>7, <2>1, <2>3, <3>2, SourcesAre DEF I!Readable, I!Desired
  <2>. QED  BY <2>2, <2>3
<1>8. rows' \in [SessionIds -> I!Rows \cup {Nil}]
  <2>1. rows' = [i \in SessionIds |-> rows'[i]]
    BY <1>2 DEF I!Reconciled
  <2>2. ASSUME NEW i \in SessionIds  PROVE rows'[i] \in I!Rows \cup {Nil}
    <3>1. CASE i \notin I!Desired
      BY <1>4, <3>1
    <3>2. CASE i \in I!Desired /\ I!Kept(i)
      BY <1>1, <1>6, <3>2 DEF I!Types
    <3>3. CASE i \in I!Desired /\ ~I!Kept(i)
      BY <1>1, <1>5, <3>3, FreshKnown
    <3>. QED  BY <3>1, <3>2, <3>3
  <2>. QED  BY <2>1, <2>2
<1>9. I!Known'
  <2>1. ASSUME NEW i \in I!Desired \ lost', rows'[i] # Nil  PROVE I!RowKnown(i)'
    <3>0. i \in I!Desired
      BY <2>1
    <3>1. i \in SessionIds
      BY <1>1 DEF I!Desired, I!Types
    <3>2. CASE ~I!Kept(i)
      <4>1. I!Readable(i) /\ rows'[i] = Fresh(i)
        BY <1>5, <2>1, <3>2
      <4>2. CASE i \in live
        <5>1. I!Source(i) = history[i] /\ history[i] \in Seq(I!Written)
          BY <1>1, <3>1, <4>2, SourcesAre
        <5>2. SubSeq(history[i], 1, Len(history[i])) = history[i] /\ Len(history[i]) \in 0..Len(history[i])
          BY <5>1, PrefixesStay
        <5>3. /\ rows'[i].revision[2] = Len(history[i]) /\ rows'[i].live = (i \in live)
              /\ rows'[i].docs = I!Documents(history[i])
          BY <1>1, <3>0, <4>1, <4>2, <5>1, FreshKnown
        <5>4. I!Source(i)' = history[i] /\ rows'[i].live
          BY <1>3, <4>2, <5>1, <5>3
        <5>. QED  BY <5>2, <5>3, <5>4 DEF I!RowKnown
      <4>3. CASE i \notin live
        <5>1. I!Source(i) = disk[i] /\ stamp[i] \in Nat /\ i \notin torn
          BY <1>1, <3>1, <4>1, <4>3, SourcesAre DEF I!Readable
        <5>2. /\ rows'[i].revision[2] = stamp[i] /\ rows'[i].live = (i \in live)
              /\ rows'[i].docs = I!Documents(disk[i])
          BY <1>1, <3>0, <4>1, <4>3, <5>1, FreshKnown
        <5>3. ~rows'[i].live
          BY <4>3, <5>2, Zenon
        <5>4. stamp[i] \in 0..stamp[i]
          BY <5>1
        <5>. QED  BY <5>1, <5>2, <5>3, <5>4 DEF I!RowKnown
      <4>. QED  BY <4>2, <4>3
    <3>3. CASE I!Kept(i)
      <4>1. rows'[i] = rows[i] /\ rows[i] # Nil /\ i \notin lost
        BY <1>2, <1>6, <2>1, <3>3
      <4>2. I!RowKnown(i)
        BY <1>1, <2>1, <4>1 DEF I!Known
      <4>. QED  BY <1>3, <4>1, <4>2 DEF I!RowKnown
    <3>. QED  BY <3>2, <3>3
  <2>. QED  BY <1>3, <2>1 DEF I!Known
<1>10. ASSUME NEW i \in SessionIds \ lost
       PROVE  /\ (rows'[i] # Nil) = (i \in I!Desired /\ I!Readable(i))
              /\ rows'[i] # Nil => rows'[i].docs = I!Documents(I!Source(i)) /\ rows'[i].live = (i \in live)
  <2>1. CASE i \notin I!Desired
    BY <1>4, <2>1
  <2>2. CASE i \in I!Desired /\ I!Kept(i)
    BY <1>6, <1>7, <2>2
  <2>3. CASE i \in I!Desired /\ ~I!Kept(i)
    BY <1>1, <1>5, <2>3, FreshKnown
  <2>. QED  BY <2>1, <2>2, <2>3
<1>. QED  BY <1>8, <1>9, <1>10

(* The generations: a search that changes the rows begins a new one.       *)
LEMMA SearchedWell ==
    ASSUME I!Inv, I!Searched, UNCHANGED <<live, history, disk, stamp, torn, crashes, upset>>,
           cursor' \in {cursor, Nil, [gen |-> mem', rows |-> rows']}
    PROVE  I!Inv' /\ (I!Accepts(cursor, mem') /\ ~upset => rows' = cursor.rows)
<1>1. I!Types /\ I!Paged
  BY DEF I!Inv
<1>2. /\ opened' = "yes" /\ lost' \subseteq lost
      /\ IF rows' = rows THEN gen' = gen /\ mem' = I!Base ELSE gen' = gen + 1 /\ mem' = I!Base + 1
      /\ opened # "broken"
  BY DEF I!Searched, I!Opens
<1>3. I!Base \in Nat /\ (~upset => I!Base = gen)
  BY <1>1, <1>2 DEF I!Types, I!Paged, I!Base
<1>4. gen' \in Nat /\ mem' \in Nat /\ (~upset => mem' = gen')
  BY <1>1, <1>2, <1>3 DEF I!Types
<1>5. I!Types'
  BY <1>1, <1>2, <1>4, ReconciledWell DEF I!Types
<1>6. ASSUME ~upset, cursor # Nil
      PROVE  cursor.gen \in 0..gen' /\ (cursor.gen = gen' => cursor.rows = rows')
  BY <1>1, <1>2, <1>6 DEF I!Paged, I!Types
<1>7. I!Paged'
  <2>1. ASSUME ~upset, cursor' # Nil
        PROVE  cursor'.gen \in 0..gen' /\ (cursor'.gen = gen' => cursor'.rows = rows')
    <3>1. CASE cursor' = cursor
      BY <1>6, <2>1, <3>1
    <3>2. CASE cursor' = [gen |-> mem', rows |-> rows']
      BY <1>4, <2>1, <3>2
    <3>. QED  BY <2>1, <3>1, <3>2
  <2>. QED  BY <1>4, <2>1 DEF I!Paged
<1>8. I!Accepts(cursor, mem') /\ ~upset => rows' = cursor.rows
  BY <1>4, <1>6 DEF I!Accepts
<1>. QED  BY <1>5, <1>7, <1>8, ReconciledWell DEF I!Inv

(* Between two searches the rows stay, and what they say stays true of the *)
(* sessions that are not lost.                                             *)
LEMMA KnownStays ==
    ASSUME I!Types, I!Known, UNCHANGED rows, lost \subseteq lost',
           NEW i \in SessionIds, i \in I!Desired', i \notin lost', rows[i] # Nil,
           i \in I!Desired \/ rows[i] = Nil,
           rows[i].live => /\ Len(I!Source(i)) <= Len(I!Source(i)') /\ Len(I!Source(i)') \in Nat
                           /\ \A n \in 0..Len(I!Source(i)) : SubSeq(I!Source(i)', 1, n) = SubSeq(I!Source(i), 1, n),
           ~rows[i].live => /\ stamp[i] <= stamp'[i] /\ stamp'[i] \in Nat
                            /\ stamp[i] = stamp'[i] => disk'[i] = disk[i] /\ (i \in torn' => i \in torn)
    PROVE  I!RowKnown(i)'
<1>1. I!RowKnown(i) /\ stamp[i] \in Nat /\ Len(I!Source(i)) \in Nat
  BY SourcesAre DEF I!Known
<1>2. CASE rows[i].live
  <2>. DEFINE n == rows[i].revision[2]
  <2>1. n \in 0..Len(I!Source(i)) /\ rows[i].docs = I!Documents(SubSeq(I!Source(i), 1, n))
    BY <1>1, <1>2 DEF I!RowKnown
  <2>2. n \in 0..Len(I!Source(i)') /\ SubSeq(I!Source(i)', 1, n) = SubSeq(I!Source(i), 1, n)
    BY <1>1, <1>2, <2>1
  <2>3. rows'[i].docs = I!Documents(SubSeq(I!Source(i)', 1, n))
    BY <2>1, <2>2
  <2>. QED  BY <1>2, <2>2, <2>3 DEF I!RowKnown
<1>3. CASE ~rows[i].live
  <2>. DEFINE n == rows[i].revision[2]
  <2>1. n \in 0..stamp[i] /\ (n = stamp[i] => i \notin torn /\ rows[i].docs = I!Documents(disk[i]))
    BY <1>1, <1>3 DEF I!RowKnown
  <2>2. n \in 0..stamp'[i] /\ (n = stamp'[i] => i \notin torn' /\ rows[i].docs = I!Documents(disk'[i]))
    BY <1>1, <1>3, <2>1
  <2>. QED  BY <1>3, <2>2 DEF I!RowKnown
<1>. QED  BY <1>2, <1>3

(* What is left to show of a step that leaves the index alone.             *)
LEMMA IndexLeft ==
    ASSUME I!Inv, I!Types', UNCHANGED <<rows, gen, cursor, upset>>,
           opened' = "yes" => opened = "yes" /\ mem' = mem,
           \A i \in SessionIds : i \in I!Desired' /\ i \notin lost' /\ rows[i] # Nil => I!RowKnown(i)'
    PROVE  I!Inv'
<1>1. I!Paged'
  BY DEF I!Inv, I!Paged
<1>2. I!Known'
  <2>1. I!Desired' \subseteq SessionIds
    BY DEF I!Types, I!Desired
  <2>. QED  BY <2>1 DEF I!Known
<1>. QED  BY <1>1, <1>2 DEF I!Inv

LEMMA AppendsWell ==
    ASSUME I!Inv, NEW id \in SessionIds, I!AppendTo(id)
    PROVE  I!Inv'
<1>1. I!Types /\ I!Known
  BY DEF I!Inv
<1>2. /\ id \in live /\ UNCHANGED <<live, disk, stamp, torn, crashes, file, rows, gen, opened, mem, cursor, lost, upset>>
      /\ history[id] \in Seq(I!Written) /\ Len(history[id]) \in Nat
  BY <1>1, SourcesAre DEF I!AppendTo, I!index
<1>3. PICK e \in I!Written : history' = [history EXCEPT ![id] = Append(history[id], e)]
  <2>1. PICK kind \in {"message", "replace", "erase", "other"}, text \in Phrases, from, upto \in 0..MaxLog :
           history' = [history EXCEPT ![id] = Append(history[id],
                          [seq |-> Len(history[id]), kind |-> kind, from |-> from, upto |-> upto, text |-> text])]
    BY DEF I!AppendTo
  <2>2. [seq |-> Len(history[id]), kind |-> kind, from |-> from, upto |-> upto, text |-> text] \in I!Written
    BY <1>2 DEF I!Written
  <2>. QED  BY <2>1, <2>2
<1>4. /\ Append(history[id], e) \in Seq(I!Written)
      /\ Len(Append(history[id], e)) = Len(history[id]) + 1
      /\ \A n \in 0..Len(history[id]) : SubSeq(Append(history[id], e), 1, n) = SubSeq(history[id], 1, n)
  BY <1>2, <1>3, PrefixesStay
<1>5. history' \in [SessionIds -> Seq(I!Written)] /\ history'[id] = Append(history[id], e)
  BY <1>1, <1>3, <1>4 DEF I!Types
<1>6. I!Types'
  BY <1>1, <1>2, <1>5 DEF I!Types
<1>7. ASSUME NEW i \in SessionIds, i \in I!Desired', i \notin lost', rows[i] # Nil  PROVE I!RowKnown(i)'
  <2>1. i \in I!Desired
    BY <1>2, <1>7 DEF I!Desired
  <2>2. CASE i = id
    <3>1. I!Source(i) = history[i] /\ I!Source(i)' = Append(history[i], e)
      BY <1>2, <1>5, <2>2 DEF I!Source
    <3>2. Len(I!Source(i)') = Len(I!Source(i)) + 1
      BY <1>4, <2>2, <3>1
    <3>3. /\ Len(I!Source(i)) <= Len(I!Source(i)') /\ Len(I!Source(i)') \in Nat
          /\ \A n \in 0..Len(I!Source(i)) : SubSeq(I!Source(i)', 1, n) = SubSeq(I!Source(i), 1, n)
      BY <1>2, <1>4, <2>2, <3>1, <3>2
    <3>4. stamp[i] <= stamp'[i] /\ stamp'[i] \in Nat
      BY <1>1, <1>2, SourcesAre
    <3>. QED  BY <1>1, <1>2, <1>7, <2>1, <3>3, <3>4, KnownStays
  <2>3. CASE i # id
    <3>1. I!Source(i)' = I!Source(i)
      BY <1>1, <1>2, <1>3, <2>3 DEF I!Source, I!Types
    <3>2. stamp[i] <= stamp'[i] /\ stamp'[i] \in Nat /\ Len(I!Source(i)) \in Nat
      BY <1>1, <1>2, SourcesAre
    <3>. QED  BY <1>1, <1>2, <1>7, <2>1, <3>1, <3>2, KnownStays
  <2>. QED  BY <2>2, <2>3
<1>. QED  BY <1>2, <1>6, <1>7, IndexLeft

(* A session that stays as it is, as its rows are concerned.               *)
LEMMA SameKnown ==
    ASSUME I!Types, I!Known, UNCHANGED rows, lost \subseteq lost', NEW i \in SessionIds,
           i \in I!Desired, i \notin lost', rows[i] # Nil, rows[i].live => I!Source(i)' = I!Source(i),
           stamp'[i] \in Nat, stamp[i] <= stamp'[i], disk'[i] = disk[i] \/ stamp[i] < stamp'[i],
           i \in torn' => i \in torn \/ stamp[i] < stamp'[i],
           i \in I!Desired'
    PROVE  I!RowKnown(i)'
<1>1. Len(I!Source(i)) \in Nat /\ stamp[i] \in Nat
  BY SourcesAre
<1>2. stamp[i] = stamp'[i] => disk'[i] = disk[i] /\ (i \in torn' => i \in torn)
  BY <1>1
<1>. QED  BY <1>1, <1>2, KnownStays

LEMMA BeginsWell ==
    ASSUME I!Inv, NEW id \in SessionIds, I!Begin(id)
    PROVE  I!Inv'
<1>1. I!Types /\ I!Known
  BY DEF I!Inv
<1>2. /\ id \notin live /\ stamp[id] = 0 /\ live' = live \cup {id}
      /\ history' = [history EXCEPT ![id] = <<>>]
      /\ stamp' = [stamp EXCEPT ![id] = IF id \in Persisted THEN 1 ELSE 0]
      /\ lost' = IF rows[id] # Nil THEN lost \cup {id} ELSE lost
      /\ UNCHANGED <<disk, torn, crashes, file, rows, gen, opened, mem, cursor, upset>>
  BY DEF I!Begin, I!index
<1>3. history' \in [SessionIds -> Seq(I!Written)]
  <2>1. <<>> \in Seq(I!Written)
    OBVIOUS
  <2>. QED  BY <1>1, <1>2, <2>1 DEF I!Types
<1>4. stamp' \in [SessionIds -> Nat] /\ \A i \in SessionIds \ Persisted : stamp'[i] = 0
  BY <1>1, <1>2 DEF I!Types
<1>5. I!Types'
  BY <1>1, <1>2, <1>3, <1>4 DEF I!Types
<1>6. ASSUME NEW i \in SessionIds, i \in I!Desired', i \notin lost', rows[i] # Nil  PROVE I!RowKnown(i)'
  <2>1. i # id
    BY <1>2, <1>6
  <2>2. stamp'[i] = stamp[i] /\ stamp[i] \in Nat /\ I!Source(i)' = I!Source(i)
    BY <1>1, <1>2, <2>1 DEF I!Types, I!Source
  <2>3. i \in I!Desired
    BY <1>2, <1>6, <2>1, <2>2 DEF I!Desired
  <2>4. lost \subseteq lost' /\ stamp[i] <= stamp'[i]
    BY <1>2, <2>2
  <2>. QED  BY <1>1, <1>2, <1>6, <2>2, <2>3, <2>4, SameKnown
<1>. QED  BY <1>2, <1>5, <1>6, IndexLeft

LEMMA FlushesWell ==
    ASSUME I!Inv, NEW id \in SessionIds, I!FlushOf(id)
    PROVE  I!Inv'
<1>1. I!Types /\ I!Known
  BY DEF I!Inv
<1>2. /\ id \in live /\ id \in Persisted /\ disk[id] # history[id]
      /\ disk' = [disk EXCEPT ![id] = history[id]]
      /\ stamp' = [stamp EXCEPT ![id] = stamp[id] + 1]
      /\ UNCHANGED <<live, history, torn, crashes, file, rows, gen, opened, mem, cursor, lost, upset>>
  BY DEF I!FlushOf, I!Stored, I!index
<1>3. disk' \in [SessionIds -> Seq(I!Written)]
  BY <1>1, <1>2 DEF I!Types
<1>4. stamp' \in [SessionIds -> Nat] /\ \A i \in SessionIds \ Persisted : stamp'[i] = 0
  BY <1>1, <1>2 DEF I!Types
<1>5. I!Types'
  BY <1>1, <1>2, <1>3, <1>4 DEF I!Types
<1>6. ASSUME NEW i \in SessionIds, i \in I!Desired', i \notin lost', rows[i] # Nil  PROVE I!RowKnown(i)'
  <2>1. stamp[i] \in Nat /\ stamp'[i] \in Nat /\ stamp[i] <= stamp'[i]
    BY <1>1, <1>2 DEF I!Types
  <2>2. disk'[i] = disk[i] \/ stamp[i] < stamp'[i]
    BY <1>1, <1>2, <2>1 DEF I!Types
  <2>3. I!Source(i)' = I!Source(i)
    BY <1>1, <1>2 DEF I!Types, I!Source
  <2>4. i \in I!Desired
    BY <1>1, <1>2, <1>6 DEF I!Desired, I!Types
  <2>. QED  BY <1>1, <1>2, <1>6, <2>1, <2>2, <2>3, <2>4, SameKnown
<1>. QED  BY <1>2, <1>5, <1>6, IndexLeft

LEMMA ClosesWell ==
    ASSUME I!Inv, NEW id \in SessionIds, I!Close(id)
    PROVE  I!Inv'
<1>1. I!Types /\ I!Known
  BY DEF I!Inv
<1>2. /\ id \in live /\ live' = live \ {id} /\ history' = [history EXCEPT ![id] = <<>>]
      /\ UNCHANGED <<torn, crashes, file, rows, gen, opened, mem, cursor, lost, upset>>
      /\ id \notin Persisted => UNCHANGED <<disk, stamp>>
      /\ id \in Persisted =>
            /\ disk' = [disk EXCEPT ![id] = history[id]]
            /\ stamp' = [stamp EXCEPT ![id] = IF stamp[id] = 0 \/ disk[id] # history[id]
                                              THEN stamp[id] + 1 ELSE stamp[id]]
  BY DEF I!Close, I!Stored, I!index
<1>3. history' \in [SessionIds -> Seq(I!Written)] /\ disk' \in [SessionIds -> Seq(I!Written)]
  <2>1. <<>> \in Seq(I!Written)
    OBVIOUS
  <2>. QED  BY <1>1, <1>2, <2>1 DEF I!Types
<1>4. stamp' \in [SessionIds -> Nat] /\ \A i \in SessionIds \ Persisted : stamp'[i] = 0
  <2>1. CASE id \in Persisted
    BY <1>1, <1>2, <2>1 DEF I!Types
  <2>2. CASE id \notin Persisted
    BY <1>1, <1>2, <2>2 DEF I!Types
  <2>. QED  BY <2>1, <2>2
<1>5. I!Types'
  BY <1>1, <1>2, <1>3, <1>4 DEF I!Types
<1>6. ASSUME NEW i \in SessionIds, i \in I!Desired', i \notin lost', rows[i] # Nil  PROVE I!RowKnown(i)'
  <2>1. stamp[i] \in Nat /\ stamp'[i] \in Nat /\ stamp[i] <= stamp'[i]
    BY <1>1, <1>2 DEF I!Types
  <2>2. i = id => id \in Persisted
    BY <1>2, <1>4, <1>6 DEF I!Desired
  <2>3. (disk'[i] = disk[i] \/ stamp[i] < stamp'[i]) /\ i \in I!Desired
    <3>1. CASE i = id
      <4>1. disk'[i] = history[i]
        BY <1>1, <1>2, <2>2, <3>1 DEF I!Types
      <4>2. disk[i] = history[i] \/ stamp'[i] = stamp[i] + 1
        BY <1>1, <1>2, <2>2, <3>1 DEF I!Types
      <4>. QED  BY <1>2, <2>1, <3>1, <4>1, <4>2 DEF I!Desired
    <3>2. CASE i # id
      <4>1. disk'[i] = disk[i] /\ stamp'[i] = stamp[i]
        BY <1>1, <1>2, <3>2 DEF I!Types
      <4>. QED  BY <1>2, <1>6, <3>2, <4>1 DEF I!Desired
    <3>. QED  BY <3>1, <3>2
  <2>4. I!Source(i)' = I!Source(i)
    <3>1. CASE i = id
      BY <1>1, <1>2, <2>2, <3>1 DEF I!Types, I!Source
    <3>2. CASE i # id
      BY <1>1, <1>2, <3>2 DEF I!Types, I!Source
    <3>. QED  BY <3>1, <3>2
  <2>. QED  BY <1>1, <1>2, <1>6, <2>1, <2>3, <2>4, SameKnown
<1>. QED  BY <1>2, <1>5, <1>6, IndexLeft

LEMMA RestoresWell ==
    ASSUME I!Inv, NEW id \in SessionIds, I!Restore(id)
    PROVE  I!Inv'
<1>1. I!Types /\ I!Known
  BY DEF I!Inv
<1>2. /\ id \notin live /\ stamp[id] > 0 /\ live' = live \cup {id}
      /\ history' = [history EXCEPT ![id] = disk[id]]
      /\ UNCHANGED <<disk, stamp, torn, crashes, file, rows, gen, opened, mem, cursor, lost, upset>>
  BY DEF I!Restore, I!index
<1>3. I!Types'
  <2>1. history' \in [SessionIds -> Seq(I!Written)]
    BY <1>1, <1>2 DEF I!Types
  <2>2. live' \subseteq SessionIds
    BY <1>1, <1>2 DEF I!Types
  <2>. QED  BY <1>1, <1>2, <2>1, <2>2 DEF I!Types
<1>4. ASSUME NEW i \in SessionIds, i \in I!Desired', i \notin lost', rows[i] # Nil  PROVE I!RowKnown(i)'
  <2>1. stamp[i] \in Nat /\ stamp[i] <= stamp'[i] /\ stamp'[i] \in Nat
    BY <1>1, <1>2 DEF I!Types
  <2>2. I!Source(i)' = I!Source(i)
    BY <1>1, <1>2 DEF I!Types, I!Source
  <2>3. i \in I!Desired
    BY <1>1, <1>2, <1>4 DEF I!Desired
  <2>. QED  BY <1>1, <1>2, <1>4, <2>1, <2>2, <2>3, SameKnown
<1>. QED  BY <1>2, <1>3, <1>4, IndexLeft

LEMMA CrashesWell ==
    ASSUME I!Inv, I!Crash
    PROVE  I!Inv'
<1>1. I!Types /\ I!Known
  BY DEF I!Inv
<1>2. /\ live' = {} /\ history' = [i \in SessionIds |-> <<>>]
      /\ lost' = lost \cup {i \in live : rows[i] # Nil /\ rows[i].live /\ disk[i] # history[i]}
      /\ opened' = "no" /\ mem' = 0 /\ UNCHANGED <<disk, file, rows, gen, cursor, upset>>
  BY DEF I!Crash
<1>3. PICK t \in SUBSET {i \in live \cap Persisted : disk[i] # history[i]} :
         torn' = torn \cup t /\ stamp' = [i \in SessionIds |-> IF i \in t THEN stamp[i] + 1 ELSE stamp[i]]
  BY DEF I!Crash
<1>4. history' \in [SessionIds -> Seq(I!Written)]
  <2>1. <<>> \in Seq(I!Written)
    OBVIOUS
  <2>. QED  BY <1>2, <2>1
<1>5. stamp' \in [SessionIds -> Nat] /\ \A i \in SessionIds \ Persisted : stamp'[i] = 0
  BY <1>1, <1>3 DEF I!Types
<1>6. torn' \subseteq SessionIds /\ lost' \subseteq SessionIds
  BY <1>1, <1>2, <1>3 DEF I!Types
<1>7. I!Types'
  BY <1>1, <1>2, <1>4, <1>5, <1>6 DEF I!Types
<1>8. ASSUME NEW i \in SessionIds, i \in I!Desired', i \notin lost', rows[i] # Nil  PROVE I!RowKnown(i)'
  <2>1. /\ stamp[i] \in Nat /\ stamp'[i] \in Nat /\ stamp[i] <= stamp'[i]
        /\ i \in t => stamp[i] < stamp'[i]
        /\ i \notin t => stamp'[i] = stamp[i]
    BY <1>1, <1>3 DEF I!Types
  <2>2. i \in I!Desired
    BY <1>2, <1>3, <1>8, <2>1 DEF I!Desired
  <2>3. rows[i].live => I!Source(i)' = I!Source(i)
    BY <1>2, <1>8 DEF I!Source
  <2>4. i \in torn' => i \in torn \/ stamp[i] < stamp'[i]
    BY <1>3, <2>1
  <2>. QED  BY <1>1, <1>2, <1>8, <2>1, <2>2, <2>3, <2>4, SameKnown
<1>. QED  BY <1>2, <1>7, <1>8, IndexLeft

LEMMA FailsWell ==
    ASSUME I!Inv, I!SearchFails \/ I!OpenFails \/ I!Reload
    PROVE  I!Inv'
<1>1. I!Types /\ I!Known /\ I!Paged
  BY DEF I!Inv
<1>2. /\ UNCHANGED <<live, history, disk, stamp, torn, crashes, rows, gen, cursor, lost>>
      /\ opened' \in {"no", "yes", "broken"}
  BY DEF I!SearchFails, I!OpenFails, I!Reload, I!world
<1>3. mem' \in Nat /\ upset' \in BOOLEAN
  <2>1. CASE I!SearchFails
    BY <1>1, <2>1 DEF I!Types, I!SearchFails, I!Base
  <2>2. CASE I!OpenFails \/ I!Reload
    BY <1>1, <2>2 DEF I!Types, I!OpenFails, I!Reload
  <2>. QED  BY <2>1, <2>2
<1>4. I!Types'
  BY <1>1, <1>2, <1>3 DEF I!Types
<1>5. I!Known'
  BY <1>1, <1>2 DEF I!Known, I!Desired, I!RowKnown, I!Source
<1>6. I!Paged'
  <2>1. CASE I!SearchFails
    <3>1. ASSUME ~upset'  PROVE ~upset /\ mem' = gen
      BY <1>1, <2>1, <3>1 DEF I!SearchFails, I!Paged, I!Base, I!Opens
    <3>. QED  BY <1>1, <1>2, <3>1 DEF I!Paged
  <2>2. CASE I!OpenFails \/ I!Reload
    BY <1>1, <1>2, <2>2 DEF I!Paged, I!OpenFails, I!Reload
  <2>. QED  BY <2>1, <2>2
<1>. QED  BY <1>4, <1>5, <1>6 DEF I!Inv

LEMMA SearchesWell ==
    ASSUME I!Inv, I!Search \/ I!SearchOn \/ I!SearchStale
    PROVE  I!Inv' /\ I!IndexCurrent
<1>1. /\ I!Searched /\ UNCHANGED <<live, history, disk, stamp, torn, crashes, upset>>
      /\ cursor' \in {cursor, Nil, [gen |-> mem', rows |-> rows']}
  BY DEF I!Search, I!SearchOn, I!SearchStale, I!world
<1>2. I!SearchOn /\ ~upset => rows' = cursor.rows
  BY <1>1, SearchedWell DEF I!SearchOn
<1>3. \A i \in SessionIds \ lost :
         /\ (rows'[i] # Nil) = (i \in I!Desired /\ I!Readable(i))
         /\ rows'[i] # Nil => rows'[i].docs = I!Documents(I!Source(i)) /\ rows'[i].live = (i \in live)
  BY <1>1, ReconciledWell
<1>. QED  BY <1>1, <1>2, <1>3, SearchedWell DEF I!IndexCurrent

(* What a search answers from is what there is.                            *)
LEMMA IndexStep == I!Inv /\ [I!Next]_sessionIndex => I!Inv' /\ I!IndexCurrent
<1>. SUFFICES ASSUME I!Inv, [I!Next]_sessionIndex  PROVE I!Inv' /\ I!IndexCurrent
  OBVIOUS
<1>1. I!IndexCurrent
  <2>1. CASE I!Search \/ I!SearchOn
    BY <2>1, SearchesWell
  <2>2. CASE ~(I!Search \/ I!SearchOn)
    BY <2>2 DEF I!IndexCurrent
  <2>. QED  BY <2>1, <2>2
<1>2. CASE I!Next
  <2>1. CASE I!Search \/ I!SearchOn \/ I!SearchStale
    BY <2>1, SearchesWell
  <2>2. CASE I!SearchFails \/ I!OpenFails \/ I!Reload
    BY <1>1, <2>2, FailsWell
  <2>3. CASE I!Crash
    BY <1>1, <2>3, CrashesWell
  <2>4. ASSUME NEW id \in SessionIds,
               I!Begin(id) \/ I!AppendTo(id) \/ I!FlushOf(id) \/ I!Close(id) \/ I!Restore(id)
        PROVE  I!Inv'
    BY <2>4, BeginsWell, AppendsWell, FlushesWell, ClosesWell, RestoresWell
  <2>. QED  BY <1>1, <1>2, <2>1, <2>2, <2>3, <2>4 DEF I!Next
<1>3. CASE UNCHANGED sessionIndex
  <2>1. I!Types'
    BY <1>3 DEF sessionIndex, I!Inv, I!Types
  <2>2. I!Known' /\ I!Paged'
    BY <1>3 DEF sessionIndex, I!Inv, I!Known, I!Paged, I!Desired, I!RowKnown, I!Source
  <2>. QED  BY <1>1, <2>1, <2>2 DEF I!Inv
<1>. QED  BY <1>1, <1>2, <1>3

HIDE DEF live, history, disk, stamp, torn, file, rows, gen, opened, mem, cursor, crashes, lost, upset

----------------------------------------------------------------------------
(* Every non-empty set of numbers has a least one.                         *)
LEMMA LeastOf == ASSUME NEW T \in SUBSET Nat, T # {}  PROVE \E n \in T : \A k \in T : n <= k
<1>. DEFINE R == OpToRel(<, Nat)
<1>1. IsWellFoundedOn(R, Nat)
  BY NatLessThanWellFounded
<1>2. \A j, k \in Nat : <<j, k>> \in R <=> j < k
  BY DEF OpToRel
<1>. HIDE DEF R
<1>3. PICK n \in T : \A k \in T : <<k, n>> \notin R
  BY <1>1, WFMin
<1>4. \A k \in T : ~(k < n)
  BY <1>2, <1>3
<1>. QED  BY <1>3, <1>4

----------------------------------------------------------------------------
(* Projection: the cell of a session is what its log gives.  That reading a*)
(* log in order gives what its last list and its last turn say is proved by*)
(* climbing from the empty log, which rests on the least number of a set.  *)
logs == r1      next_seq == r2      kept == r3      parallel == r4      registered == r5      cells == r6
early == r7     todoWork == r8
todos == <<logs, next_seq, kept, parallel, registered, cells, early, todoWork>>
USE DEF logs, next_seq, kept, parallel, registered, cells, early, todoWork

(* A non-empty set of positions has a last one.                            *)
LEMMA LastOf ==
    ASSUME NEW n \in Nat, NEW T \in SUBSET (1..n), T # {}
    PROVE  X!Max(T) \in T /\ \A k \in T : k <= X!Max(T)
<1>. DEFINE D == {d \in Nat : n - d \in T}
<1>1. D \in SUBSET Nat /\ D # {}
  <2>1. PICK k \in T : TRUE
    OBVIOUS
  <2>2. n - k \in Nat /\ n - (n - k) = k
    OBVIOUS
  <2>. QED  BY <2>1, <2>2
<1>2. PICK d \in D : \A e \in D : d <= e
  <2>. HIDE DEF D
  <2>. QED  BY <1>1, LeastOf
<1>3. ASSUME NEW k \in T  PROVE k <= n - d
  <2>1. n - k \in Nat /\ n - (n - k) = k
    OBVIOUS
  <2>2. n - k \in D
    BY <2>1
  <2>. QED  BY <1>2, <2>2
<1>4. n - d \in T /\ \A k \in T : n - d >= k
  BY <1>2, <1>3
<1>5. PICK x \in T : \A k \in T : x >= k
  BY <1>4
<1>6. X!Max(T) \in T /\ \A k \in T : X!Max(T) >= k
  BY <1>5 DEF X!Max
<1>. QED  BY <1>6

(* What stands after one event more.                                       *)
LEMMA StandsAfter ==
    ASSUME NEW s \in Seq(X!Entries), NEW e \in X!Entries
    PROVE  X!Standing(Append(s, e)) = X!Applied(X!Standing(s), e)
<1>. DEFINE n == Len(s)
            t == Append(s, e)
            Writes(q) == {i \in DOMAIN q : q[i].type = "todo/write"}
            Turns(q) == {i \in DOMAIN q : q[i].type = "turn/start"}
<1>1. /\ n \in Nat /\ DOMAIN s = 1..n /\ DOMAIN t = 1..(n + 1) /\ t[n + 1] = e
      /\ \A i \in 1..n : t[i] = s[i]
  OBVIOUS
<1>2. /\ X!Standing(s) = IF Writes(s) = {} \/ (Turns(s) # {} /\ X!Max(Turns(s)) > X!Max(Writes(s)))
                         THEN X!NoList ELSE s[X!Max(Writes(s))].todos
      /\ X!Standing(t) = IF Writes(t) = {} \/ (Turns(t) # {} /\ X!Max(Turns(t)) > X!Max(Writes(t)))
                         THEN X!NoList ELSE t[X!Max(Writes(t))].todos
  BY DEF X!Standing
<1>3. /\ Writes(s) \in SUBSET (1..n) /\ Turns(s) \in SUBSET (1..n)
      /\ Writes(t) = IF e.type = "todo/write" THEN Writes(s) \cup {n + 1} ELSE Writes(s)
      /\ Turns(t) = IF e.type = "turn/start" THEN Turns(s) \cup {n + 1} ELSE Turns(s)
  <2>. HIDE DEF t, n
  <2>1. ASSUME NEW i
        PROVE  /\ i \in Writes(t) <=> (i \in Writes(s) \/ (i = n + 1 /\ e.type = "todo/write"))
               /\ i \in Turns(t) <=> (i \in Turns(s) \/ (i = n + 1 /\ e.type = "turn/start"))
    <3>1. CASE i \in 1..n
      <4>1. i # n + 1 /\ i \in DOMAIN t /\ t[i] = s[i] /\ i \in DOMAIN s
        BY <1>1, <3>1
      <4>. QED  BY <4>1
    <3>2. CASE i = n + 1
      <4>1. i \notin DOMAIN s /\ i \in DOMAIN t /\ t[i] = e
        BY <1>1, <3>2
      <4>. QED  BY <3>2, <4>1
    <3>3. CASE i \notin 1..n /\ i # n + 1
      <4>1. i \notin DOMAIN s /\ i \notin DOMAIN t
        BY <1>1, <3>3
      <4>. QED  BY <3>3, <4>1
    <3>. QED  BY <3>1, <3>2, <3>3
  <2>2. Writes(s) \subseteq 1..n /\ Turns(s) \subseteq 1..n
    BY <1>1
  <2>. HIDE DEF Writes, Turns
  <2>. QED  BY <2>1, <2>2
<1>. DEFINE Latest(T) == X!Max(T)
<1>. HIDE DEF n, t, Writes, Turns
<1>4. CASE e.type = "turn/start"
  <2>1. Writes(t) = Writes(s) /\ Turns(t) = Turns(s) \cup {n + 1} /\ Turns(t) \in SUBSET (1..(n + 1)) /\ n + 1 \in Nat
    BY <1>1, <1>3, <1>4
  <2>2. n + 1 <= Latest(Turns(t)) /\ Latest(Turns(t)) \in 1..(n + 1)
    BY <2>1, LastOf
  <2>3. Writes(s) # {} => Latest(Writes(s)) \in 1..n
    BY <1>1, <1>3, LastOf
  <2>4. X!Standing(t) = X!NoList
    BY <1>1, <1>2, <2>1, <2>2, <2>3
  <2>. QED  BY <1>4, <2>4 DEF X!Applied, t
<1>5. CASE e.type = "todo/write"
  <2>1. Turns(t) = Turns(s) /\ Writes(t) = Writes(s) \cup {n + 1} /\ Writes(t) \in SUBSET (1..(n + 1)) /\ n + 1 \in Nat
    BY <1>1, <1>3, <1>5
  <2>2. n + 1 <= Latest(Writes(t)) /\ Latest(Writes(t)) \in 1..(n + 1)
    BY <2>1, LastOf
  <2>3. Turns(s) # {} => Latest(Turns(s)) \in 1..n
    BY <1>1, <1>3, LastOf
  <2>4. Latest(Writes(t)) = n + 1
    BY <1>1, <2>2
  <2>5. X!Standing(t) = e.todos
    BY <1>1, <1>2, <2>1, <2>3, <2>4
  <2>. QED  BY <1>5, <2>5 DEF X!Applied, t
<1>6. CASE e.type \notin {"turn/start", "todo/write"}
  <2>1. Turns(t) = Turns(s) /\ Writes(t) = Writes(s)
    BY <1>3, <1>6
  <2>2. Writes(s) # {} => t[Latest(Writes(s))] = s[Latest(Writes(s))]
    BY <1>1, <1>3, LastOf
  <2>3. X!Standing(t) = X!Standing(s)
    BY <1>2, <2>1, <2>2
  <2>. QED  BY <1>6, <2>3 DEF X!Applied, t
<1>. QED  BY <1>4, <1>5, <1>6

LEMMA NothingStands == X!Standing(<< >>) = X!NoList
BY DEF X!Standing

(* Reading a log from its start gives what stands.                         *)
LEMMA FoldedStands ==
    ASSUME NEW s \in Seq(X!Entries)
    PROVE  X!Folded(X!NoList, s) = X!Standing(s)
<1>. DEFINE n == Len(s)
            w == [i \in 0..n |-> X!Standing(SubSeq(s, 1, i))]
            Eq(f) == f = [i \in 0..n |-> IF i = 0 THEN X!NoList ELSE X!Applied(f[i - 1], s[i])]
            c == CHOOSE f : Eq(f)
<1>0. n \in Nat /\ SubSeq(s, 1, n) = s /\ SubSeq(s, 1, 0) = << >>
  OBVIOUS
<1>1. ASSUME NEW i \in 1..n  PROVE w[i] = X!Applied(w[i - 1], s[i])
  <2>1. i - 1 \in 0..n /\ i \in 0..n
    BY <1>0
  <2>2. /\ SubSeq(s, 1, i - 1) \in Seq(X!Entries) /\ s[i] \in X!Entries
        /\ SubSeq(s, 1, i) = Append(SubSeq(s, 1, i - 1), s[i])
    OBVIOUS
  <2>3. X!Standing(SubSeq(s, 1, i)) = X!Applied(X!Standing(SubSeq(s, 1, i - 1)), s[i])
    BY <2>2, StandsAfter
  <2>. QED  BY <2>1, <2>3
<1>2. w[0] = X!NoList
  <2>1. 0 \in 0..n
    BY <1>0
  <2>. QED  BY <1>0, <2>1, NothingStands
<1>3. Eq(w)
  <2>1. \A i \in 0..n : w[i] = IF i = 0 THEN X!NoList ELSE X!Applied(w[i - 1], s[i])
    <3>. HIDE DEF w
    <3>1. \A i \in 0..n : i = 0 \/ i \in 1..n
      BY <1>0
    <3>. QED  BY <1>1, <1>2, <3>1
  <2>. QED  BY <2>1
<1>4. Eq(c)
  <2>. HIDE DEF Eq, w
  <2>. QED  BY <1>3
<1>5. X!Folded(X!NoList, s) = c[n]
  BY DEF X!Folded
<1>6. w[n] = X!Standing(s)
  <2>1. n \in 0..n
    BY <1>0
  <2>. QED  BY <1>0, <2>1
<1>7. c = [i \in 0..n |-> IF i = 0 THEN X!NoList ELSE X!Applied(c[i - 1], s[i])]
  <2>. HIDE DEF c
  <2>. QED  BY <1>4
<1>. HIDE DEF c, w, n, Eq
<1>. DEFINE T == {i \in 0..n : c[i] # w[i]}
<1>8. ASSUME T # {}  PROVE FALSE
  <2>0. T \in SUBSET Nat
    BY <1>0
  <2>1. PICK i \in T : \A k \in T : i <= k
    BY <1>8, <2>0, LeastOf
  <2>2. i \in 1..n
    BY <1>0, <1>2, <1>7, <2>1
  <2>3. i - 1 \in 0..n /\ i - 1 \notin T
    BY <1>0, <2>1, <2>2
  <2>4. c[i - 1] = w[i - 1]
    BY <2>3
  <2>5. c[i] = X!Applied(c[i - 1], s[i])
    BY <1>0, <1>7, <2>2
  <2>. QED  BY <1>1, <2>1, <2>2, <2>4, <2>5
<1>9. c[n] = w[n]
  BY <1>0, <1>8
<1>. QED  BY <1>5, <1>6, <1>9

LEMMA TodosStart == X!Init => X!Inv
BY DEF X!Init, X!Inv, X!Current, X!Entered

LEMMA EntriesAre ==
    ASSUME NEW n \in Nat
    PROVE  /\ \A type \in {"turn/start", "turn/end", "session/end-seed"} : X!Event(n, type, X!NoList) \in X!Entries
           /\ \A list \in Lists : X!Event(n, "todo/write", list) \in X!Entries
BY DEF X!Event, X!Entries

(* A session that is entered, with whatever log.                           *)
LEMMA EntersWell ==
    ASSUME X!Inv, NEW s, s \notin X!Entered, NEW seed \in Seq(X!Entries), X!Enter(s, seed),
           UNCHANGED <<kept, registered>>
    PROVE  X!Inv'
<1>1. /\ logs' = [i \in DOMAIN logs \cup {s} |-> IF i = s THEN seed ELSE logs[i]]
      /\ next_seq' = [i \in DOMAIN logs \cup {s} |-> IF i = s THEN Len(seed) ELSE next_seq[i]]
      /\ cells' = X!Seeded(s, seed)
      /\ early' = IF registered THEN early \ {s} ELSE early \cup {s}
      /\ s \notin DOMAIN logs /\ Len(seed) \in Nat
  BY DEF X!Enter, X!Entered
<1>2. /\ DOMAIN cells = IF registered THEN DOMAIN logs \ early ELSE {}
      /\ \A i \in DOMAIN cells : cells[i] = X!Standing(logs[i])
      /\ \A i \in DOMAIN logs : next_seq[i] \in Nat /\ logs[i] \in Seq(X!Entries)
      /\ \A i \in DOMAIN kept : kept[i] \in Seq(X!Entries)
  BY DEF X!Inv, X!Current, X!Entered
<1>3. /\ DOMAIN logs' = DOMAIN logs \cup {s} /\ DOMAIN next_seq' = DOMAIN logs \cup {s}
      /\ logs'[s] = seed /\ \A i \in DOMAIN logs : logs'[i] = logs[i]
      /\ \A i \in DOMAIN logs' : next_seq'[i] \in Nat /\ logs'[i] \in Seq(X!Entries)
  BY <1>1, <1>2
<1>4. X!Current'
  <2>1. CASE ~registered
    <3>1. cells' = cells /\ DOMAIN cells = {} /\ ~registered'
      BY <1>1, <1>2, <2>1 DEF X!Seeded
    <3>. QED  BY <3>1 DEF X!Current
  <2>2. CASE registered
    <3>1. s \notin DOMAIN cells /\ DOMAIN cells = DOMAIN logs \ early /\ early' = early \ {s} /\ registered'
      BY <1>1, <1>2, <2>2
    <3>2. cells' = [i \in DOMAIN cells \cup {s} |-> IF i = s THEN X!Folded(X!NoList, seed) ELSE cells[i]]
      BY <1>1, <2>2, <3>1 DEF X!Seeded
    <3>3. cells'[s] = X!Standing(logs'[s])
      BY <1>3, <3>2, FoldedStands
    <3>4. ASSUME NEW i \in DOMAIN cells, i # s  PROVE cells'[i] = X!Standing(logs'[i])
      <4>1. i \in DOMAIN logs /\ logs'[i] = logs[i] /\ cells'[i] = cells[i]
        BY <1>3, <3>1, <3>2, <3>4
      <4>. QED  BY <1>2, <4>1
    <3>5. DOMAIN cells' = DOMAIN logs' \ early'
      BY <1>1, <1>3, <3>1, <3>2
    <3>. QED  BY <3>1, <3>2, <3>3, <3>4, <3>5 DEF X!Current, X!Entered
  <2>. QED  BY <2>1, <2>2
<1>. QED  BY <1>2, <1>3, <1>4 DEF X!Inv, X!Entered

LEMMA AppendedWell ==
    ASSUME X!Inv, NEW s \in X!Entered, NEW e \in X!Entries, logs' = [logs EXCEPT ![s] = Append(@, e)],
           next_seq' = [next_seq EXCEPT ![s] = @ + 1], cells' = X!Driven(s, e), UNCHANGED <<kept, registered, early>>
    PROVE  X!Inv'
<1>1. /\ DOMAIN cells = IF registered THEN DOMAIN logs \ early ELSE {}
      /\ \A i \in DOMAIN cells : cells[i] = X!Standing(logs[i])
      /\ DOMAIN next_seq = DOMAIN logs
      /\ \A i \in DOMAIN logs : next_seq[i] \in Nat /\ logs[i] \in Seq(X!Entries)
      /\ s \in DOMAIN logs
  BY DEF X!Inv, X!Current, X!Entered
<1>2. /\ DOMAIN logs' = DOMAIN logs /\ DOMAIN next_seq' = DOMAIN logs
      /\ logs'[s] = Append(logs[s], e) /\ Append(logs[s], e) \in Seq(X!Entries)
      /\ \A i \in DOMAIN logs : i # s => logs'[i] = logs[i]
      /\ \A i \in DOMAIN logs : next_seq'[i] \in Nat
  BY <1>1, AppendProperties
<1>3. \A i \in DOMAIN logs : logs'[i] \in Seq(X!Entries)
  BY <1>1, <1>2
<1>4. DOMAIN cells' = DOMAIN cells
  BY DEF X!Driven
<1>5. ASSUME NEW i \in DOMAIN cells  PROVE cells'[i] = X!Standing(logs'[i])
  <2>0. i \in DOMAIN logs
    BY <1>1
  <2>1. CASE i = s
    <3>1. cells'[i] = X!Applied(X!Standing(logs[i]), e)
      BY <1>1, <2>1 DEF X!Driven
    <3>. QED  BY <1>1, <1>2, <2>1, <3>1, StandsAfter
  <2>2. CASE i # s
    <3>1. cells'[i] = cells[i]
      BY <2>2 DEF X!Driven
    <3>. QED  BY <1>1, <1>2, <2>0, <2>2, <3>1
  <2>. QED  BY <2>1, <2>2
<1>6. X!Current'
  BY <1>1, <1>2, <1>4, <1>5 DEF X!Current, X!Entered
<1>. QED  BY <1>2, <1>3, <1>6 DEF X!Inv, X!Entered

LEMMA TodosStep == X!Inv /\ [X!Next]_todos => X!Inv'
<1>. SUFFICES ASSUME X!Inv, [X!Next]_todos  PROVE X!Inv'
  OBVIOUS
<1>0. /\ DOMAIN cells = IF registered THEN DOMAIN logs \ early ELSE {}
      /\ \A i \in DOMAIN cells : cells[i] = X!Standing(logs[i])
      /\ DOMAIN next_seq = DOMAIN logs
      /\ \A i \in DOMAIN logs : next_seq[i] \in Nat /\ logs[i] \in Seq(X!Entries)
      /\ \A i \in DOMAIN kept : kept[i] \in Seq(X!Entries)
  BY DEF X!Inv, X!Current, X!Entered
<1>1. ASSUME NEW s \in ListSessions, X!Create(s)  PROVE X!Inv'
  <2>1. << >> \in Seq(X!Entries)
    OBVIOUS
  <2>. QED  BY <1>1, <2>1, EntersWell DEF X!Create
<1>2. ASSUME NEW s \in ListSessions, X!Restore(s)  PROVE X!Inv'
  <2>1. kept[s] \in Seq(X!Entries) /\ X!Prepared(kept[s], FALSE) = kept[s]
    BY <1>0, <1>2 DEF X!Restore, X!Prepared
  <2>. QED  BY <1>2, <2>1, EntersWell DEF X!Restore
<1>3. ASSUME NEW s \in ListSessions, NEW p \in X!Entered, X!Fork(p, s)  PROVE X!Inv'
  <2>1. logs[p] \in Seq(X!Entries) /\ Len(logs[p]) \in Nat
    BY <1>0 DEF X!Entered
  <2>2. PICK cut \in 0..Len(logs[p]) : X!Enter(s, X!Prepared(SubSeq(logs[p], 1, cut), TRUE))
    BY <1>3 DEF X!Fork
  <2>3. SubSeq(logs[p], 1, cut) \in Seq(X!Entries) /\ Len(SubSeq(logs[p], 1, cut)) \in Nat
    BY <2>1
  <2>4. X!Event(Len(SubSeq(logs[p], 1, cut)), "session/end-seed", X!NoList) \in X!Entries
    BY <2>3, EntriesAre
  <2>5. X!Prepared(SubSeq(logs[p], 1, cut), TRUE) \in Seq(X!Entries)
    BY <2>3, <2>4, AppendProperties DEF X!Prepared
  <2>. QED  BY <1>3, <2>2, <2>5, EntersWell DEF X!Fork
<1>4. ASSUME NEW s \in X!Entered, NEW type \in {"turn/start", "turn/end"}, X!Append_(s, type, X!NoList)  PROVE X!Inv'
  <2>1. X!Event(next_seq[s], type, X!NoList) \in X!Entries
    BY <1>0, EntriesAre DEF X!Entered
  <2>. QED  BY <1>4, <2>1, AppendedWell DEF X!Append_
<1>5. ASSUME NEW s \in X!Entered, NEW list \in Lists, X!Append_(s, "todo/write", list)  PROVE X!Inv'
  <2>1. X!Event(next_seq[s], "todo/write", list) \in X!Entries
    BY <1>0, EntriesAre DEF X!Entered
  <2>. QED  BY <1>5, <2>1, AppendedWell DEF X!Append_
<1>6. ASSUME NEW s \in X!Entered, X!Invalid(s)  PROVE X!Inv'
  <2>1. DOMAIN next_seq' = DOMAIN logs /\ \A i \in DOMAIN logs : next_seq'[i] \in Nat
    BY <1>0, <1>6 DEF X!Invalid
  <2>2. UNCHANGED <<logs, kept, registered, cells, early>>
    BY <1>6 DEF X!Invalid
  <2>. QED  BY <1>0, <2>1, <2>2 DEF X!Inv, X!Current, X!Entered
<1>7. ASSUME NEW s \in X!Entered, X!Save(s)  PROVE X!Inv'
  <2>1. \A i \in DOMAIN kept' : kept'[i] \in Seq(X!Entries)
    BY <1>0, <1>7 DEF X!Save, X!Entered
  <2>2. UNCHANGED <<logs, next_seq, registered, cells, early>>
    BY <1>7 DEF X!Save
  <2>. QED  BY <1>0, <2>1, <2>2 DEF X!Inv, X!Current, X!Entered
<1>8. ASSUME NEW s \in X!Entered, X!Dispose(s)  PROVE X!Inv'
  <2>1. /\ logs' = [i \in DOMAIN logs \ {s} |-> logs[i]] /\ next_seq' = [i \in DOMAIN logs \ {s} |-> next_seq[i]]
        /\ cells' = [i \in DOMAIN cells \ {s} |-> cells[i]] /\ early' = early \ {s}
        /\ UNCHANGED <<kept, registered>>
    BY <1>8 DEF X!Dispose, X!Dropped, X!Restrict, X!Entered
  <2>2. X!Current'
    BY <1>0, <2>1 DEF X!Current, X!Entered
  <2>. QED  BY <1>0, <2>1, <2>2 DEF X!Inv, X!Entered
<1>9. ASSUME X!Load \/ X!Unload  PROVE X!Inv'
  <2>1. /\ early' = DOMAIN logs /\ DOMAIN cells' = {} /\ UNCHANGED <<logs, next_seq, kept>>
    BY <1>0, <1>9 DEF X!Load, X!Unload, X!Entered
  <2>2. X!Current'
    BY <2>1 DEF X!Current, X!Entered
  <2>. QED  BY <1>0, <2>1, <2>2 DEF X!Inv, X!Entered
<1>10. ASSUME UNCHANGED todos  PROVE X!Inv'
  BY <1>10 DEF todos, X!Inv, X!Current, X!Entered
<1>11. ASSUME NEW s \in X!Entered, X!Turn(s) \/ X!Write(s)  PROVE X!Inv'
  BY <1>4, <1>5, <1>11 DEF X!Turn, X!Write
<1>. QED  BY <1>1, <1>2, <1>3, <1>6, <1>7, <1>8, <1>9, <1>10, <1>11 DEF X!Next

HIDE DEF logs, next_seq, kept, parallel, registered, cells, early, todoWork

----------------------------------------------------------------------------
(* Skill: the catalog before the model is that of its last step, and names *)
(* exactly what the tool then loads.                                       *)
skills == <<r1, r2, r3, r4, r5, r6>>

LEMMA LeastPlace == ASSUME NEW T \in SUBSET Nat, T # {}  PROVE U!Min(T) \in T
BY LeastOf DEF U!Min

LEMMA SkillsStart == U!Init => U!Inv
BY DEF U!Init, U!Inv, U!Disks

LEMMA WinnersBear ==
    ASSUME NEW d, NEW n \in U!Listed(d)
    PROVE  \E p \in Places : U!At(d, p).name = n /\ U!Winner(d, n) = U!At(d, p)
<1>1. U!Bearers(d, n) \subseteq Nat /\ U!Bearers(d, n) # {}
  BY PartsAssumption DEF U!Listed, U!Bearers
<1>2. U!Min(U!Bearers(d, n)) \in U!Bearers(d, n)
  BY <1>1, LeastPlace
<1>. QED  BY <1>2 DEF U!Winner, U!Bearers

LEMMA CatalogNames ==
    ASSUME NEW d, NEW n \in SkillNames
    PROVE  n \in {s.name : s \in U!Catalog(d)} <=> n \in U!Listed(d) /\ U!Winner(d, n).invocable
<1>1. ASSUME NEW s \in U!Catalog(d), n = s.name  PROVE n \in U!Listed(d) /\ U!Winner(d, n).invocable
  BY <1>1 DEF U!Catalog
<1>2. ASSUME n \in U!Listed(d), U!Winner(d, n).invocable  PROVE n \in {s.name : s \in U!Catalog(d)}
  <2>. DEFINE s == [name |-> n, about |-> U!Winner(d, n).about]
  <2>1. s \in U!Catalog(d)
    BY <1>2 DEF U!Catalog
  <2>2. s.name = n
    OBVIOUS
  <2>. HIDE DEF s
  <2>. QED  BY <2>1, <2>2
<1>. QED  BY <1>1, <1>2

LEMMA SkillsStep == U!Inv /\ [U!Next]_skills => U!Inv' /\ U!Entitled
<1>. SUFFICES ASSUME U!Inv, [U!Next]_skills  PROVE U!Inv' /\ U!Entitled
  OBVIOUS
<1>1. /\ r1 \in U!Disks /\ r2 \in Seq(U!Catalogs)
      /\ r3 # Nil /\ U!Catalog(r3) # {} => r2 # << >> /\ U!Last(r2) = U!Catalog(r3)
      /\ r4 # Nil => r4.name \in U!Listed(r4.listed) /\ U!Winner(r4.listed, r4.name).invocable
  BY DEF U!Inv
<1>2. ASSUME U!Step  PROVE U!Inv'
  <2>1. /\ r2' = U!Injected(r2, U!Catalog(r1)) /\ r3' = r1 /\ r1' = r1 /\ r4' = r4
    BY <1>2 DEF U!Step
  <2>2. U!Catalog(r1) \in U!Catalogs
    BY <1>1 DEF U!Catalogs
  <2>3. /\ Append(r2, U!Catalog(r1)) \in Seq(U!Catalogs) /\ Append(r2, U!Catalog(r1)) # << >>
        /\ U!Last(Append(r2, U!Catalog(r1))) = U!Catalog(r1)
    BY <1>1, <2>2 DEF U!Last
  <2>4. r2' \in Seq(U!Catalogs) /\ (U!Catalog(r1) # {} => r2' # << >> /\ U!Last(r2') = U!Catalog(r1))
    BY <1>1, <2>1, <2>3 DEF U!Injected
  <2>. QED  BY <1>1, <2>1, <2>4 DEF U!Inv
<1>3. ASSUME NEW n \in SkillNames, U!Ask(n)  PROVE U!Inv'
  BY <1>1, <1>3 DEF U!Ask, U!Inv
<1>4. ASSUME U!Load  PROVE U!Inv'
  BY <1>1, <1>4 DEF U!Load, U!Inv
<1>5. ASSUME U!Edit  PROVE U!Inv'
  BY <1>1, <1>5 DEF U!Edit, U!Inv, U!Disks
<1>6. ASSUME U!Splice  PROVE U!Inv'
  <2>1. U!Front(r2) \in Seq(U!Catalogs)
    BY <1>1, <1>6 DEF U!Splice, U!Front
  <2>. QED  BY <1>1, <1>6, <2>1 DEF U!Splice, U!Inv
<1>7. ASSUME UNCHANGED skills  PROVE U!Inv'
  BY <1>7 DEF skills, U!Inv
<1>8. ASSUME NEW n \in SkillNames, U!Ask(n), r1 = r3, U!Catalog(r1) # {}
      PROVE  (r4' # Nil) <=> (n \in {s.name : s \in U!Last(r2)})
  <2>1. U!Last(r2) = U!Catalog(r1)
    BY <1>1, <1>8 DEF U!Ask
  <2>2. (r4' # Nil) <=> (n \in U!Listed(r1) /\ U!Winner(r1, n).invocable)
    <3>1. [name |-> n, listed |-> r1] # Nil
      BY <1>1, PartsAssumption
    <3>. QED  BY <1>8, <3>1 DEF U!Ask
  <2>. QED  BY <2>1, <2>2, CatalogNames
<1>9. ASSUME U!Load, r1 = r4.listed
      PROVE  \E p \in Places : U!At(r1, p).name = r4.name /\ U!At(r1, p).invocable /\ r5' = U!At(r1, p).text
  <2>1. r4.name \in U!Listed(r1) /\ U!Winner(r1, r4.name).invocable
    BY <1>1, <1>9 DEF U!Load
  <2>2. r5' = U!Winner(r1, r4.name).text
    BY <1>9, <2>1 DEF U!Load
  <2>. QED  BY <2>1, <2>2, WinnersBear
<1>10. U!Entitled
  BY <1>8, <1>9 DEF U!Entitled
<1>. QED  BY <1>2, <1>3, <1>4, <1>5, <1>6, <1>7, <1>10 DEF U!Next

----------------------------------------------------------------------------
(* GoalTool: what the tools find in the log from the number after the turn's*)
(* start on was said in this turn, however many numbers were skipped.      *)
journal == r1       skipped == r2     since == r3      root == r4       goal == r5       armed == r6
heard == r7         work == r8
goals == <<journal, skipped, since, root, goal, armed, heard, work>>
USE DEF journal, skipped, since, root, goal, armed, heard, work

LEMMA GoalsStart == V!Init => V!Inv
<1>. SUFFICES ASSUME V!Init  PROVE V!Inv
  OBVIOUS
<1>1. V!None \in V!Snapshot /\ V!NoGoal \in V!GoalState /\ V!NoGoal.current.phase = "complete"
  BY DEF V!None, V!Snapshot, V!Phases, V!NoGoal, V!GoalState
<1>2. V!Silence \in [human : BOOLEAN, round : Nat \X Nat]
  BY DEF V!Silence
<1>3. journal \in Seq(V!Events)
  BY DEF V!Init
<1>4. /\ skipped \in Nat /\ since = V!Closed /\ root \in BOOLEAN /\ goal = V!NoGoal /\ armed = FALSE
      /\ heard = V!Silence
  BY DEF V!Init
<1>. QED  BY <1>1, <1>2, <1>3, <1>4 DEF V!Inv, V!Types, V!Overheard

LEMMA GoalsWith ==
    ASSUME NEW g \in V!GoalState, NEW c \in V!Snapshot, NEW n \in Nat
    PROVE  /\ [g EXCEPT !.current = c, !.seen = n, !.rounds = 0] \in V!GoalState
           /\ [g EXCEPT !.current = c, !.seen = n, !.rounds = 0].current = c
           /\ [g EXCEPT !.current = c, !.rounds = 0] \in V!GoalState
           /\ [g EXCEPT !.current = c, !.rounds = 0].current = c
<1>1. ASSUME NEW h \in V!GoalState
      PROVE  /\ [h EXCEPT !.rounds = 0] \in V!GoalState /\ [h EXCEPT !.rounds = 0].current = h.current
             /\ [h EXCEPT !.seen = n] \in V!GoalState /\ [h EXCEPT !.seen = n].current = h.current
             /\ [h EXCEPT !.current = c] \in V!GoalState /\ [h EXCEPT !.current = c].current = c
  BY DEF V!GoalState
<1>2. /\ [g EXCEPT !.current = c, !.rounds = 0] = [[g EXCEPT !.current = c] EXCEPT !.rounds = 0]
      /\ [g EXCEPT !.current = c, !.seen = n, !.rounds = 0] =
            [[[g EXCEPT !.current = c] EXCEPT !.seen = n] EXCEPT !.rounds = 0]
  OBVIOUS
<1>. QED  BY <1>1, <1>2

(* A change and what is read leave a goal.                                 *)
LEMMA GoalsKeep ==
    ASSUME V!Types, NEW op \in V!Operations
    PROVE  LET next == V!Changed(goal, op, V!Logged(goal, op, MaxRounds))
           IN  /\ next \in V!GoalState /\ (V!HasGoal(next) \/ next.current.phase = "complete")
               /\ op # "resume" => ~(goal.current.phase = "paused" /\ next.current.phase = "active")
<1>. DEFINE new == V!Logged(goal, op, MaxRounds)
            next == V!Changed(goal, op, new)
<1>1. /\ goal \in V!GoalState /\ goal.current \in V!Snapshot /\ goal.current.id \in Nat /\ goal.current.rev \in Nat
      /\ goal.current.max \in Nat /\ goal.seen \in Nat /\ goal.current.phase \in V!Phases
      /\ V!HasGoal(goal) \/ goal.current.phase = "complete"
  BY DEF V!Types, V!GoalState, V!Snapshot
<1>2. new \in V!Snapshot
  BY <1>1, PartsAssumption DEF V!Logged, V!PhaseAfter, V!Snapshot, V!Phases
<1>3. CASE next = goal \/ next = [goal EXCEPT !.failed = TRUE]
  BY <1>1, <1>3 DEF V!GoalState, V!HasGoal
<1>4. CASE V!Follows(goal, op, new) /\ ~goal.failed
  <2>1. CASE op = "create"
    <3>1. next = [goal EXCEPT !.current = new, !.seen = new.id, !.rounds = 0] /\ new.id \in Nat
      BY <1>2, <1>4, <2>1 DEF V!Changed, V!Snapshot
    <3>2. new.id # 0 /\ goal.current.phase = "complete"
      BY <1>1, <1>4, <2>1 DEF V!Follows
    <3>3. next \in V!GoalState /\ next.current = new
      <4>. HIDE DEF new, next
      <4>. QED  BY <1>1, <1>2, <3>1, GoalsWith
    <3>. QED  BY <1>2, <3>1, <3>2, <3>3 DEF V!HasGoal
  <2>2. CASE op = "clear"
    <3>1. next = [goal EXCEPT !.current = V!None, !.rounds = 0]
      BY <1>4, <2>2 DEF V!Changed
    <3>2. V!None \in V!Snapshot /\ V!None.phase = "complete"
      BY DEF V!None, V!Snapshot, V!Phases
    <3>3. next \in V!GoalState /\ next.current = V!None
      BY <1>1, <3>1, <3>2, GoalsWith
    <3>. QED  BY <3>2, <3>3 DEF V!HasGoal
  <2>3. CASE op \notin {"create", "clear"}
    <3>1. next = [goal EXCEPT !.current = new]
      BY <1>4, <2>3 DEF V!Changed
    <3>2. V!HasGoal(goal) /\ new.id = goal.current.id
      BY <1>4, <2>3 DEF V!Follows
    <3>3. op # "resume" => (new.phase = "active" => goal.current.phase = "active")
      BY <2>3, <3>2 DEF V!Logged, V!PhaseAfter, V!Operations
    <3>. QED  BY <1>1, <1>2, <3>1, <3>2, <3>3 DEF V!GoalState, V!HasGoal
  <2>. QED  BY <2>1, <2>2, <2>3
<1>. QED  BY <1>3, <1>4 DEF V!Changed

LEMMA RoundsKeep ==
    ASSUME V!Types, NEW m \in V!Events
    PROVE  LET next == V!RoundRead(goal, m)
           IN  next \in V!GoalState /\ (V!HasGoal(next) \/ next.current.phase = "complete")
BY DEF V!Types, V!RoundRead, V!GoalState, V!HasGoal, V!Events

(* What the log gains in a turn that is open, besides messages.            *)
LEMMA JournalGrows ==
    ASSUME V!Inv, NEW e \in V!Events, e.kind \notin {"human", "round"}, journal' = Append(journal, e),
           UNCHANGED <<skipped, since, heard>>
    PROVE  journal' \in Seq(V!Events) /\ V!Overheard'
<1>1. journal \in Seq(V!Events) /\ skipped \in Nat /\ since \in Nat \cup {V!Closed}
  BY DEF V!Inv, V!Types
<1>2. /\ journal' \in Seq(V!Events) /\ Len(journal') = Len(journal) + 1 /\ Len(journal) \in Nat
      /\ \A i \in 1..Len(journal) : journal'[i] = journal[i]
      /\ journal'[Len(journal) + 1] = e
  BY <1>1, AppendProperties
<1>3. V!Overheard'
  <2>. SUFFICES ASSUME since # V!Closed  PROVE V!Overheard'
    BY DEF V!Overheard
  <2>1. /\ since \in Nat /\ since + 4 <= Len(journal) + skipped
        /\ \A i \in (since + 2)..Len(journal) :
              /\ journal[i].kind = "human" => heard.human
              /\ journal[i].kind = "round" => heard.round = <<journal[i].goal, journal[i].rev>>
        /\ heard.human => skipped > 2 \/ \E i \in (since + 2)..Len(journal) : journal[i].kind = "human"
    BY <1>1 DEF V!Inv, V!Overheard, V!SinceStart
  <2>2. since + 4 <= Len(journal') + skipped
    BY <1>1, <1>2, <2>1
  <2>3. ASSUME NEW i \in (since + 2)..Len(journal')
        PROVE  /\ journal'[i].kind = "human" => heard.human
               /\ journal'[i].kind = "round" => heard.round = <<journal'[i].goal, journal'[i].rev>>
    <3>1. CASE i = Len(journal) + 1
      BY <1>2, <3>1
    <3>2. CASE i # Len(journal) + 1
      <4>1. i \in (since + 2)..Len(journal) /\ journal'[i] = journal[i]
        BY <1>2, <2>1, <2>3, <3>2
      <4>. QED  BY <2>1, <4>1
    <3>. QED  BY <3>1, <3>2
  <2>4. ASSUME heard.human, ~(skipped > 2)  PROVE \E i \in (since + 2)..Len(journal') : journal'[i].kind = "human"
    <3>1. PICK i \in (since + 2)..Len(journal) : journal[i].kind = "human"
      BY <2>1, <2>4
    <3>2. i \in (since + 2)..Len(journal') /\ journal'[i] = journal[i]
      BY <1>2, <2>1, <3>1
    <3>. QED  BY <3>1, <3>2
  <2>. QED  BY <2>2, <2>3, <2>4 DEF V!Overheard, V!SinceStart
<1>. QED  BY <1>2, <1>3

LEMMA FourMore ==
    ASSUME NEW S, NEW s \in Seq(S), NEW a \in S, NEW b \in S, NEW c \in S, NEW d \in S
    PROVE  /\ s \o <<a, b, c, d>> \in Seq(S) /\ Len(s \o <<a, b, c, d>>) = Len(s) + 4 /\ Len(s) \in Nat
           /\ (s \o <<a, b, c, d>>)[Len(s) + 2] = b
           /\ (s \o <<a, b, c, d>>)[Len(s) + 3] = c
           /\ (s \o <<a, b, c, d>>)[Len(s) + 4] = d
<1>1. <<a, b, c, d>> \in Seq(S) /\ Len(<<a, b, c, d>>) = 4 /\ Len(s) \in Nat
  OBVIOUS
<1>. QED  BY <1>1, ConcatProperties

LEMMA ThreeMore ==
    ASSUME NEW S, NEW s \in Seq(S), NEW a \in S, NEW b \in S, NEW c \in S
    PROVE  /\ s \o <<a, b, c>> \in Seq(S) /\ Len(s \o <<a, b, c>>) = Len(s) + 3 /\ Len(s) \in Nat
           /\ \A i \in 1..Len(s) : (s \o <<a, b, c>>)[i] = s[i]
           /\ (s \o <<a, b, c>>)[Len(s) + 1] = a
           /\ (s \o <<a, b, c>>)[Len(s) + 2] = b
           /\ (s \o <<a, b, c>>)[Len(s) + 3] = c
<1>1. <<a, b, c>> \in Seq(S) /\ Len(<<a, b, c>>) = 3 /\ Len(s) \in Nat
  OBVIOUS
<1>. QED  BY <1>1, ConcatProperties

LEMMA EventsAre ==
    /\ \A k \in {"turn", "claim", "step", "human", "notice", "goal", "end"} :
          V!Event(k) \in V!Events /\ V!Event(k).kind = k
    /\ V!Types => V!Round \in V!Events /\ V!Round.kind = "round"
<1>1. V!Types => goal.current.id \in Nat /\ goal.current.rev \in Nat /\ goal.rounds + 1 \in Nat
  BY DEF V!Types, V!GoalState, V!Snapshot
<1>. QED  BY <1>1 DEF V!Event, V!Events, V!Round

LEMMA TurnsStartWell ==
    ASSUME V!Inv, V!TurnStarts
    PROVE  V!Inv'
<1>1. /\ journal \in Seq(V!Events) /\ skipped \in Nat /\ V!Types
      /\ since' = Len(journal) + skipped /\ UNCHANGED <<skipped, root, armed>>
  BY DEF V!Inv, V!Types, V!TurnStarts
<1>2. PICK m \in {V!Event("human"), V!Event("notice")} \cup (IF V!RoundDue THEN {V!Round} ELSE {}) :
         /\ journal' = journal \o <<V!Event("turn"), V!Event("claim"), V!Event("step"), m>>
         /\ V!Read(m, V!Silence)
  BY DEF V!TurnStarts
<1>3. m \in V!Events /\ m.goal \in Nat /\ m.rev \in Nat /\ m.kind \in {"human", "notice", "round"}
  <2>1. m \in V!Events /\ m.kind \in {"human", "notice", "round"}
    BY <1>1, <1>2, EventsAre
  <2>. QED  BY <2>1 DEF V!Events
<1>4. /\ journal' \in Seq(V!Events) /\ Len(journal') = Len(journal) + 4 /\ Len(journal) \in Nat
      /\ journal'[Len(journal) + 2].kind = "claim" /\ journal'[Len(journal) + 3].kind = "step"
      /\ journal'[Len(journal) + 4] = m
  <2>1. /\ V!Event("turn") \in V!Events /\ V!Event("claim") \in V!Events /\ V!Event("step") \in V!Events
        /\ V!Event("claim").kind = "claim" /\ V!Event("step").kind = "step"
    BY EventsAre
  <2>. QED  BY <1>1, <1>2, <1>3, <2>1, FourMore
<1>5. heard' = [human |-> m.kind = "human", round |-> IF m.kind = "round" THEN <<m.goal, m.rev>> ELSE <<0, 0>>]
  BY <1>2 DEF V!Read, V!Silence
<1>6. goal' = V!RoundRead(goal, m)
  BY <1>2 DEF V!Read
<1>7. V!Types'
  <2>1. heard' \in [human : BOOLEAN, round : Nat \X Nat]
    BY <1>3, <1>5
  <2>2. goal' \in V!GoalState /\ (V!HasGoal(goal') \/ goal'.current.phase = "complete")
    BY <1>1, <1>3, <1>6, RoundsKeep
  <2>3. since' \in Nat
    BY <1>1, <1>4
  <2>. QED  BY <1>1, <1>4, <2>1, <2>2, <2>3 DEF V!Types
<1>8. V!Overheard'
  <2>1. since' + 4 <= Len(journal') + skipped'
    BY <1>1, <1>4
  <2>2. ASSUME NEW i \in (since' + 2)..Len(journal')
        PROVE  /\ journal'[i].kind = "human" => heard'.human
               /\ journal'[i].kind = "round" => heard'.round = <<journal'[i].goal, journal'[i].rev>>
    <3>1. i \in {Len(journal) + 2, Len(journal) + 3, Len(journal) + 4}
      BY <1>1, <1>4, <2>2
    <3>. QED  BY <1>3, <1>4, <1>5, <3>1
  <2>3. ASSUME heard'.human, ~(skipped' > 2)
        PROVE  \E i \in (since' + 2)..Len(journal') : journal'[i].kind = "human"
    <3>1. Len(journal) + 4 \in (since' + 2)..Len(journal')
      BY <1>1, <1>4, <2>3
    <3>2. m.kind = "human"
      BY <1>5, <2>3
    <3>. QED  BY <1>4, <3>1, <3>2
  <2>. QED  BY <2>1, <2>2, <2>3 DEF V!Overheard, V!SinceStart
<1>. QED  BY <1>7, <1>8 DEF V!Inv

LEMMA SteeredWell ==
    ASSUME V!Inv, V!Steered
    PROVE  V!Inv'
<1>1. /\ journal \in Seq(V!Events) /\ skipped \in Nat /\ V!Types /\ since \in Nat /\ since # V!Closed
      /\ heard \in [human : BOOLEAN, round : Nat \X Nat]
      /\ UNCHANGED <<skipped, since, root, armed>>
  BY DEF V!Inv, V!Types, V!Steered
<1>2. PICK m \in {V!Event("human"), V!Event("notice")} :
         journal' = journal \o <<V!Event("claim"), V!Event("step"), m>> /\ V!Read(m, heard)
  BY DEF V!Steered
<1>3. m \in V!Events /\ m.kind \in {"human", "notice"}
  BY <1>2, EventsAre
<1>4. /\ journal' \in Seq(V!Events) /\ Len(journal') = Len(journal) + 3 /\ Len(journal) \in Nat
      /\ \A i \in 1..Len(journal) : journal'[i] = journal[i]
      /\ journal'[Len(journal) + 1].kind = "claim" /\ journal'[Len(journal) + 2].kind = "step"
      /\ journal'[Len(journal) + 3] = m
  <2>1. /\ V!Event("claim") \in V!Events /\ V!Event("step") \in V!Events
        /\ V!Event("claim").kind = "claim" /\ V!Event("step").kind = "step"
    BY EventsAre
  <2>. QED  BY <1>1, <1>2, <1>3, <2>1, ThreeMore
<1>5. /\ heard' \in [human : BOOLEAN, round : Nat \X Nat] /\ heard'.round = heard.round
      /\ heard'.human <=> (heard.human \/ m.kind = "human")
  BY <1>1, <1>2, <1>3 DEF V!Read
<1>6. goal' = V!RoundRead(goal, m)
  BY <1>2 DEF V!Read
<1>7. V!Types'
  <2>1. goal' \in V!GoalState /\ (V!HasGoal(goal') \/ goal'.current.phase = "complete")
    BY <1>1, <1>3, <1>6, RoundsKeep
  <2>. QED  BY <1>1, <1>4, <1>5, <2>1 DEF V!Types
<1>8. V!Overheard'
  <2>0. /\ since + 4 <= Len(journal) + skipped
        /\ \A i \in (since + 2)..Len(journal) :
              /\ journal[i].kind = "human" => heard.human
              /\ journal[i].kind = "round" => heard.round = <<journal[i].goal, journal[i].rev>>
        /\ heard.human => skipped > 2 \/ \E i \in (since + 2)..Len(journal) : journal[i].kind = "human"
    BY <1>1 DEF V!Inv, V!Overheard, V!SinceStart
  <2>1. since + 4 <= Len(journal') + skipped
    BY <1>1, <1>4, <2>0
  <2>2. ASSUME NEW i \in (since + 2)..Len(journal')
        PROVE  /\ journal'[i].kind = "human" => heard'.human
               /\ journal'[i].kind = "round" => heard'.round = <<journal'[i].goal, journal'[i].rev>>
    <3>1. CASE i \in (since + 2)..Len(journal)
      <4>1. journal'[i] = journal[i]
        BY <1>1, <1>4, <3>1
      <4>. QED  BY <1>5, <2>0, <3>1, <4>1
    <3>2. CASE i \in {Len(journal) + 1, Len(journal) + 2, Len(journal) + 3}
      BY <1>3, <1>4, <1>5, <3>2
    <3>3. i \in (since + 2)..Len(journal) \/ i \in {Len(journal) + 1, Len(journal) + 2, Len(journal) + 3}
      BY <1>1, <1>4, <2>2
    <3>. QED  BY <3>1, <3>2, <3>3
  <2>3. ASSUME heard'.human, ~(skipped > 2)
        PROVE  \E i \in (since + 2)..Len(journal') : journal'[i].kind = "human"
    <3>1. CASE m.kind = "human"
      <4>1. Len(journal) + 3 \in (since + 2)..Len(journal')
        BY <1>1, <1>4, <2>0, <2>3
      <4>. QED  BY <1>4, <3>1, <4>1
    <3>2. CASE heard.human
      <4>1. PICK i \in (since + 2)..Len(journal) : journal[i].kind = "human"
        BY <2>0, <2>3, <3>2
      <4>2. i \in (since + 2)..Len(journal') /\ journal'[i] = journal[i]
        BY <1>1, <1>4, <4>1
      <4>. QED  BY <4>1, <4>2
    <3>. QED  BY <1>5, <2>3, <3>1, <3>2
  <2>. QED  BY <1>1, <2>1, <2>2, <2>3 DEF V!Overheard, V!SinceStart
<1>. QED  BY <1>7, <1>8 DEF V!Inv

(* An operation, whoever commits it.                                       *)
LEMMA CommitsWell ==
    ASSUME V!Inv, NEW op \in V!Operations, V!Commit(op),
           UNCHANGED <<skipped, since, root, heard>>
    PROVE  /\ V!Inv'
           /\ op # "resume" => ~(goal.current.phase = "paused" /\ goal'.current.phase = "active")
<1>1. /\ V!Types /\ journal' = Append(journal, V!Event("goal"))
      /\ goal' = V!Changed(goal, op, V!Logged(goal, op, MaxRounds)) /\ armed' = V!ArmedAfter(op, armed)
  BY DEF V!Inv, V!Commit
<1>2. journal' \in Seq(V!Events) /\ V!Overheard'
  BY <1>1, EventsAre, JournalGrows
<1>3. /\ goal' \in V!GoalState /\ (V!HasGoal(goal') \/ goal'.current.phase = "complete")
      /\ op # "resume" => ~(goal.current.phase = "paused" /\ goal'.current.phase = "active")
  BY <1>1, GoalsKeep
<1>4. armed' \in BOOLEAN
  BY <1>1 DEF V!ArmedAfter, V!Types
<1>5. V!Types'
  BY <1>1, <1>2, <1>3, <1>4 DEF V!Types
<1>. QED  BY <1>2, <1>3, <1>5 DEF V!Inv

LEMMA GoalsStep == V!Inv /\ [V!Next]_goals => V!Inv' /\ V!Entitled
<1>. SUFFICES ASSUME V!Inv, [V!Next]_goals  PROVE V!Inv' /\ V!Entitled
  OBVIOUS
<1>1. ASSUME NEW op \in V!ModelOps, NEW exact \in BOOLEAN, V!Call(op, exact)
      PROVE  /\ V!Inv'
             /\ \/ root /\ heard.human
                \/ op \in {"complete", "block"} /\ heard.round = <<goal.current.id, goal.current.rev>>
             /\ ~(goal.current.phase = "paused" /\ goal'.current.phase = "active")
  <2>1. /\ since # V!Closed /\ V!Authorised(op) /\ V!Admits(op, exact) /\ V!Commit(op)
        /\ UNCHANGED <<skipped, since, root, heard>>
    BY <1>1 DEF V!Call
  <2>2. /\ op \in V!Operations
        /\ ~(op = "resume" /\ goal.current.phase = "paused")
    BY <2>1 DEF V!Admits, V!ModelOps, V!Operations
  <2>3. /\ V!Inv'
        /\ op # "resume" => ~(goal.current.phase = "paused" /\ goal'.current.phase = "active")
    BY <2>1, <2>2, CommitsWell
  <2>4. \A i \in V!SinceStart :
           /\ journal[i].kind = "human" => heard.human
           /\ journal[i].kind = "round" => heard.round = <<journal[i].goal, journal[i].rev>>
    BY <2>1 DEF V!Inv, V!Overheard
  <2>5. CASE V!HasHuman
    BY <2>2, <2>3, <2>4, <2>5 DEF V!HasHuman
  <2>6. CASE op \in {"complete", "block"} /\ V!InRound
    <3>1. PICK i \in V!SinceStart : journal[i].kind = "round" /\
              <<journal[i].goal, journal[i].rev, journal[i].round>> =
                 <<goal.current.id, goal.current.rev, goal.rounds>>
      BY <2>6 DEF V!InRound
    <3>2. journal[i].goal = goal.current.id /\ journal[i].rev = goal.current.rev
      BY <3>1
    <3>3. heard.round = <<goal.current.id, goal.current.rev>>
      BY <2>4, <3>1, <3>2
    <3>. QED  BY <2>2, <2>3, <2>6, <3>3
  <2>. QED  BY <2>1, <2>5, <2>6 DEF V!Authorised
<1>2. ASSUME V!TurnEnds, root, heard.human  PROVE V!HasHuman \/ skipped > 2
  BY <1>2 DEF V!Inv, V!Overheard, V!TurnEnds, V!HasHuman
<1>3. V!Entitled
  BY <1>1, <1>2 DEF V!Entitled
<1>4. ASSUME NEW op \in {"create", "pause", "resume", "complete", "clear"}, V!Command(op)  PROVE V!Inv'
  BY <1>4, CommitsWell DEF V!Command, V!Operations
<1>5. ASSUME V!Disarm  PROVE V!Inv'
  BY <1>5 DEF V!Inv, V!Types, V!Overheard, V!SinceStart, V!Disarm
<1>6. ASSUME V!Exhausted  PROVE V!Inv'
  BY <1>6, CommitsWell DEF V!Exhausted, V!Operations
<1>7. ASSUME V!TurnEnds  PROVE V!Inv'
  <2>1. V!Types /\ journal \in Seq(V!Events)
    BY DEF V!Inv, V!Types
  <2>2. journal' \in Seq(V!Events)
    BY <1>7, <2>1, EventsAre, AppendProperties DEF V!TurnEnds
  <2>3. V!Silence \in [human : BOOLEAN, round : Nat \X Nat]
    BY DEF V!Silence
  <2>4. since' = V!Closed /\ heard' = V!Silence /\ UNCHANGED <<skipped, root, goal, armed>>
    BY <1>7 DEF V!TurnEnds
  <2>5. V!Types'
    BY <2>1, <2>2, <2>3, <2>4 DEF V!Types
  <2>. QED  BY <2>4, <2>5 DEF V!Inv, V!Overheard
<1>8. ASSUME V!Refused  PROVE V!Inv'
  <2>1. V!Types /\ V!Overheard /\ skipped \in Nat /\ Len(journal) \in Nat /\ since \in Nat \cup {V!Closed}
    BY DEF V!Inv, V!Types
  <2>2. skipped' = skipped + 1 /\ UNCHANGED <<journal, since, root, goal, armed, heard>>
    BY <1>8 DEF V!Refused
  <2>3. V!Types'
    BY <2>1, <2>2 DEF V!Types
  <2>4. V!Overheard'
    BY <2>1, <2>2 DEF V!Overheard, V!SinceStart, V!Closed
  <2>. QED  BY <2>3, <2>4 DEF V!Inv
<1>9. ASSUME UNCHANGED goals  PROVE V!Inv'
  BY <1>9 DEF goals, V!Inv, V!Types, V!Overheard, V!SinceStart
<1>. QED  BY <1>1, <1>3, <1>4, <1>5, <1>6, <1>7, <1>8, <1>9, TurnsStartWell, SteeredWell DEF V!Next

HIDE DEF journal, skipped, since, root, goal, armed, heard, work

----------------------------------------------------------------------------
(* FileGuard: what a session has observed is what it read or wrote last, as*)
(* soon as the reports under way have arrived, and a guarded call that was *)
(* let through writes over a text its session holds.                       *)
text == r1      texts == r2     call == r3      reports == r4   observed == r5
policy == r6    unloaded == r7  holds == r8
fileGuard == <<text, texts, call, reports, observed, policy, unloaded, holds>>
USE DEF text, texts, call, reports, observed, policy, unloaded, holds

LEMMA FilesStart == F!Init => F!Inv
<1>. SUFFICES ASSUME F!Init  PROVE F!Inv
  OBVIOUS
<1>1. F!Types
  BY PartsAssumption DEF F!Init, F!Types, F!NoCall, F!Callers, F!Versions, F!Absent, F!Unseen
<1>2. text # F!Unseen /\ text \in Nat
  BY PartsAssumption DEF F!Init, F!Absent, F!Unseen
<1>3. F!Got
  BY <1>2 DEF F!Init, F!Got
<1>4. F!Reported /\ F!Admitted
  BY DEF F!Init, F!Reported, F!Admitted, F!NoCall, F!Callers
<1>. QED  BY <1>1, <1>3, <1>4 DEF F!Inv

(* Texts, the two marks and the absence of a text are told apart.          *)
LEMMA VersionsDiffer ==
    ASSUME F!Types
    PROVE  /\ texts \in Nat \ {0} /\ text \in Nat
           /\ F!Unseen \in Nat /\ F!Blank \in Nat /\ F!Absent = 0
           /\ F!Unseen > texts /\ F!Blank > texts /\ F!Blank # F!Unseen
           /\ texts < MaxTexts => F!Unseen # texts + 1 /\ F!Blank # texts + 1
BY PartsAssumption DEF F!Types, F!Unseen, F!Blank, F!Absent

LEMMA SequencesGrow == \A S, T : S \subseteq T => Seq(S) \subseteq Seq(T)
<1>. SUFFICES ASSUME NEW S, NEW T, S \subseteq T, NEW s \in Seq(S)  PROVE s \in Seq(T)
  OBVIOUS
<1>1. \A k \in 1..Len(s) : s[k] \in T
  OBVIOUS
<1>. QED  BY <1>1, IsASeq

LEMMA ReportsAre ==
    ASSUME F!Types
    PROVE  \A k \in DOMAIN reports : reports[k].version \in F!Versions /\ reports[k].owner \in F!Callers
<1>. DEFINE R == [owner : F!Callers, version : F!Versions]
<1>1. reports \in Seq(R)
  BY DEF F!Types
<1>. HIDE DEF R
<1>2. \A k \in DOMAIN reports : reports[k] \in R
  BY <1>1
<1>. QED  BY <1>2 DEF R

(* A call goes on.                                                         *)
Calls ==
    [at : {"none", "guard", "data", "store", "stat"}, by : F!Callers, tool : {"read", "write", "edit"},
     existed : BOOLEAN, guarded : BOOLEAN, raced : BOOLEAN]
LEMMA RecordsGoOn ==
    ASSUME NEW A, NEW C, NEW T, NEW B, NEW a \in A, NEW e \in B, NEW g \in B, NEW x \in B,
           NEW c \in [at : A, by : C, tool : T, existed : B, guarded : B, raced : B]
    PROVE  /\ [c EXCEPT !.at = a, !.guarded = g, !.existed = e]
                 \in [at : A, by : C, tool : T, existed : B, guarded : B, raced : B]
           /\ [c EXCEPT !.at = a, !.raced = x, !.guarded = g]
                 \in [at : A, by : C, tool : T, existed : B, guarded : B, raced : B]
           /\ [c EXCEPT !.raced = x] \in [at : A, by : C, tool : T, existed : B, guarded : B, raced : B]
OBVIOUS
LEMMA CallsGoOn ==
    /\ F!NoCall \in Calls
    /\ \A c \in Calls, place \in {"none", "guard", "data", "store", "stat"}, e, g, x \in BOOLEAN :
          /\ [c EXCEPT !.at = place, !.guarded = g, !.existed = e] \in Calls
          /\ [c EXCEPT !.at = place, !.raced = x, !.guarded = g] \in Calls
          /\ [c EXCEPT !.raced = x] \in Calls
<1>1. F!NoCall \in Calls
  BY DEF Calls, F!NoCall, F!Callers
<1>2. ASSUME NEW c \in Calls, NEW place \in {"none", "guard", "data", "store", "stat"},
             NEW e \in BOOLEAN, NEW g \in BOOLEAN, NEW x \in BOOLEAN
      PROVE  /\ [c EXCEPT !.at = place, !.guarded = g, !.existed = e] \in Calls
             /\ [c EXCEPT !.at = place, !.raced = x, !.guarded = g] \in Calls
             /\ [c EXCEPT !.raced = x] \in Calls
  <2>. DEFINE B == BOOLEAN
              A == {"none", "guard", "data", "store", "stat"}
              T == {"read", "write", "edit"}
  <2>1. /\ c \in [at : A, by : F!Callers, tool : T, existed : B, guarded : B, raced : B]
        /\ place \in A /\ e \in B /\ g \in B /\ x \in B
    BY DEF Calls
  <2>. HIDE DEF A, B, T
  <2>2. /\ [c EXCEPT !.at = place, !.guarded = g, !.existed = e]
              \in [at : A, by : F!Callers, tool : T, existed : B, guarded : B, raced : B]
        /\ [c EXCEPT !.at = place, !.raced = x, !.guarded = g]
              \in [at : A, by : F!Callers, tool : T, existed : B, guarded : B, raced : B]
        /\ [c EXCEPT !.raced = x] \in [at : A, by : F!Callers, tool : T, existed : B, guarded : B, raced : B]
    BY <2>1, RecordsGoOn
  <2>. QED  BY <2>2 DEF A, B, T, Calls
<1>. QED  BY <1>1, <1>2

LEMMA GoesTo ==
    ASSUME call \in Calls, NEW place \in {"none", "guard", "data", "store", "stat"}, F!To(place)  PROVE call' \in Calls
<1>. DEFINE x == call.raced /\ place # "stat"
            g == call.guarded /\ place # "stat"
<1>1. call' = [call EXCEPT !.at = place, !.raced = x, !.guarded = g]
  BY DEF F!To, Calls
<1>2. x \in BOOLEAN /\ g \in BOOLEAN
  OBVIOUS
<1>. HIDE DEF x, g
<1>. QED  BY <1>1, <1>2, CallsGoOn

(* A report is sent, and one is heard.                                     *)
LEMMA Sent ==
    ASSUME F!Types, NEW o \in F!Callers, NEW v \in F!Versions, F!Observed(o, v)
    PROVE  /\ reports' \in Seq([owner : F!Callers, version : F!Versions])
           /\ \A k \in DOMAIN reports' :
                 reports'[k] = [owner |-> o, version |-> v] \/ (k \in DOMAIN reports /\ reports'[k] = reports[k])
           /\ policy => F!Newest(o, v)'
           /\ \A p \in F!Callers \ {o}, w \in F!Versions : F!Newest(p, w) => F!Newest(p, w)'
           /\ \A p \in F!Callers \ {o} : ~F!Pending(p) => ~F!Pending(p)'
<1>. DEFINE new == [owner |-> o, version |-> v]
<1>1. reports \in Seq([owner : F!Callers, version : F!Versions]) /\ new \in [owner : F!Callers, version : F!Versions]
  BY DEF F!Types
<1>2. CASE ~policy
  BY <1>1, <1>2 DEF F!Observed, F!Newest, F!Pending
<1>3. CASE policy
  <2>1. /\ reports' = Append(reports, new) /\ Len(reports') = Len(reports) + 1 /\ Len(reports) \in Nat
        /\ \A k \in 1..Len(reports) : reports'[k] = reports[k]
        /\ reports'[Len(reports) + 1] = new
        /\ reports' \in Seq([owner : F!Callers, version : F!Versions])
        /\ DOMAIN reports = 1..Len(reports) /\ DOMAIN reports' = 1..(Len(reports) + 1)
    BY <1>1, <1>3 DEF F!Observed
  <2>. HIDE DEF new
  <2>2. new.owner = o
    BY DEF new
  <2>3. F!Newest(o, v)'
    BY <2>1 DEF F!Newest, new
  <2>4. ASSUME NEW p \in F!Callers \ {o}, NEW w \in F!Versions, F!Newest(p, w)  PROVE F!Newest(p, w)'
    BY <2>1, <2>2, <2>4 DEF F!Newest
  <2>5. ASSUME NEW p \in F!Callers \ {o}, ~F!Pending(p)  PROVE ~F!Pending(p)'
    BY <2>1, <2>2, <2>5 DEF F!Pending
  <2>. QED  BY <2>1, <2>3, <2>4, <2>5 DEF new
<1>. QED  BY <1>2, <1>3

LEMMA FilesStep == F!Inv /\ [F!Next]_fileGuard => F!Inv'
<1>. SUFFICES ASSUME F!Inv, [F!Next]_fileGuard  PROVE F!Inv'
  OBVIOUS
<1>1. F!Types /\ F!Got /\ F!Reported /\ F!Admitted
  BY DEF F!Inv
<1>2. CASE UNCHANGED fileGuard
  BY <1>1, <1>2 DEF fileGuard, F!Inv, F!Types, F!Got, F!Reported, F!Admitted, F!Newest, F!Pending, F!Versions
<1>3. ASSUME NEW c \in F!Callers, NEW tool \in {"read", "write", "edit"}, F!Begin(c, tool)  PROVE F!Inv'
  <2>1. /\ UNCHANGED <<text, texts, observed, policy, unloaded, holds>>
        /\ call' = [F!NoCall EXCEPT !.at = IF tool = "read" THEN "data" ELSE "guard",
                                    !.by = c, !.tool = tool, !.existed = (tool = "write" /\ text # F!Absent)]
        /\ call.at = "none"
    BY <1>3 DEF F!Begin
  <2>2. /\ call'.at = (IF tool = "read" THEN "data" ELSE "guard") /\ call'.by = c /\ call'.tool = tool
        /\ call'.existed = (tool = "write" /\ text # F!Absent) /\ ~call'.guarded /\ ~call'.raced
    BY <2>1 DEF F!NoCall
  <2>3. F!Versions' = F!Versions /\ F!Absent \in F!Versions
    BY <2>1, VersionsDiffer, <1>1 DEF F!Versions, F!Types
  <2>4. CASE tool = "read" /\ text = F!Absent
    <3>1. F!Observed(c, F!Absent)
      BY <1>3, <2>4 DEF F!Begin
    <3>2. \A p \in F!Callers : holds[p] = "no"
      BY <1>1, <2>4 DEF F!Got
    <3>3. F!Types'
      BY <1>1, <2>1, <2>3, <3>1, Sent DEF F!Types, F!NoCall
    <3>4. F!Got'
      BY <1>1, <2>1, <2>4, <3>2 DEF F!Got
    <3>5. F!Reported'
      BY <1>1, <2>1, <3>2 DEF F!Reported, F!Callers
    <3>. QED  BY <2>2, <2>4, <3>3, <3>4, <3>5 DEF F!Inv, F!Admitted
  <2>5. CASE ~(tool = "read" /\ text = F!Absent)
    <3>1. UNCHANGED reports
      BY <1>3, <2>5 DEF F!Begin
    <3>2. F!Types'
      BY <1>1, <2>1, <2>3, <3>1 DEF F!Types, F!NoCall
    <3>3. F!Got' /\ F!Reported'
      BY <1>1, <2>1, <3>1 DEF F!Got, F!Reported, F!Newest, F!Pending
    <3>4. F!Admitted'
      BY <2>2, <2>1 DEF F!Admitted
    <3>. QED  BY <3>2, <3>3, <3>4 DEF F!Inv
  <2>. QED  BY <2>4, <2>5
<1>4. CASE F!Guard
  <2>1. UNCHANGED <<text, texts, reports, observed, policy, unloaded, holds>> /\ call.at = "guard"
    BY <1>4 DEF F!Guard
  <2>2. F!Types'
    <3>1. call \in Calls /\ policy \in BOOLEAN /\ F!Versions' = F!Versions
      BY <1>1, <2>1 DEF F!Types, Calls, F!Versions
    <3>2. call' \in Calls
      <4>1. CASE F!Ends
        BY <4>1, CallsGoOn DEF F!Ends
      <4>2. CASE call' = [call EXCEPT !.at = IF call.tool = "write" THEN "store" ELSE "data",
                                      !.guarded = policy, !.existed = FALSE]
        <5>. DEFINE place == IF call.tool = "write" THEN "store" ELSE "data"
        <5>1. place \in {"none", "guard", "data", "store", "stat"} /\ FALSE \in BOOLEAN
          OBVIOUS
        <5>2. call' = [call EXCEPT !.at = place, !.guarded = policy, !.existed = FALSE]
          BY <4>2
        <5>. HIDE DEF place
        <5>. QED  BY <3>1, <5>1, <5>2, CallsGoOn
      <4>. QED  BY <1>4, <4>1, <4>2 DEF F!Guard
    <3>. QED  BY <1>1, <2>1, <3>1, <3>2 DEF F!Types, Calls
  <2>3. F!Got' /\ F!Reported'
    BY <1>1, <2>1 DEF F!Got, F!Reported, F!Newest, F!Pending
  <2>4. CASE F!Ends
    BY <2>2, <2>3, <2>4 DEF F!Inv, F!Ends, F!NoCall, F!Admitted
  <2>5. CASE ~F!Ends
    <3>1. /\ call' = [call EXCEPT !.at = IF call.tool = "write" THEN "store" ELSE "data",
                                  !.guarded = policy, !.existed = FALSE]
          /\ policy => F!Admits
      BY <1>4, <2>5 DEF F!Guard
    <3>2. ASSUME ~call.raced, policy  PROVE text = F!Absent \/ holds[call.by] # "no"
      <4>1. CASE F!Seen(call.by) \in {F!Unseen, F!Absent}
        BY <1>1, <2>1, <3>1, <3>2, <4>1 DEF F!Admits, F!Admitted
      <4>2. CASE F!Seen(call.by) \notin {F!Unseen, F!Absent}
        BY <1>1, <3>1, <3>2, <4>2 DEF F!Admits, F!Seen, F!Got, F!Types, F!Callers
      <4>. QED  BY <4>1, <4>2
    <3>3. call'.raced = call.raced /\ call'.by = call.by /\ call'.guarded = policy /\ call'.at # "guard"
      BY <1>1, <3>1 DEF F!Types
    <3>4. call'.tool = call.tool /\ call.tool # "read"
      BY <1>1, <2>1, <3>1 DEF F!Types, F!Admitted
    <3>5. F!Admitted'
      BY <2>1, <3>2, <3>3, <3>4 DEF F!Admitted
    <3>. QED  BY <2>2, <2>3, <3>5 DEF F!Inv
  <2>. QED  BY <2>4, <2>5
<1>5. CASE F!Data
  <2>1. UNCHANGED <<text, texts, reports, observed, policy, unloaded>> /\ call.at = "data"
    BY <1>5 DEF F!Data
  <2>2. F!Types'
    <3>1. call \in Calls /\ F!Versions' = F!Versions
      BY <1>1, <2>1 DEF F!Types, Calls, F!Versions
    <3>2. call' \in Calls
      <4>1. CASE F!Ends
        BY <4>1, CallsGoOn DEF F!Ends
      <4>2. CASE F!To("stat") \/ F!To("store")
        BY <3>1, <4>2, GoesTo
      <4>. QED  BY <1>5, <4>1, <4>2 DEF F!Data
    <3>3. holds' \in [F!Callers -> {"no", "text", "version"}]
      BY <1>1, <1>5 DEF F!Data, F!Types
    <3>. QED  BY <1>1, <2>1, <3>1, <3>2, <3>3 DEF F!Types, Calls
  <2>3. CASE text # F!Absent /\ call.tool = "read" /\ F!To("stat") /\ holds' = [holds EXCEPT ![call.by] = "text"]
    <3>1. call'.at = "stat" /\ call'.by = call.by
      BY <1>1, <2>3 DEF F!To, F!Types
    <3>2. F!Got'
      BY <1>1, <2>1, <2>3 DEF F!Got, F!Types
    <3>3. F!Reported'
      BY <1>1, <2>1, <2>3, <3>1 DEF F!Reported, F!Types, F!Newest, F!Pending, F!Callers
    <3>4. F!Admitted'
      BY <1>1, <2>3, <3>1 DEF F!Admitted, F!To, F!Types
    <3>. QED  BY <2>2, <3>2, <3>3, <3>4 DEF F!Inv
  <2>4. CASE text # F!Absent /\ call.tool = "edit" /\ F!To("store") /\ UNCHANGED holds
    <3>1. call'.at = "store" /\ call'.by = call.by /\ call'.guarded = call.guarded /\ call'.raced = call.raced
      BY <1>1, <2>4 DEF F!To, F!Types
    <3>2. call'.tool = call.tool
      BY <1>1, <2>4 DEF F!To, F!Types
    <3>3. F!Admitted'
      BY <1>1, <2>1, <2>4, <3>1, <3>2 DEF F!Admitted
    <3>4. F!Got' /\ F!Reported'
      BY <1>1, <2>1, <2>4, <3>1 DEF F!Got, F!Reported, F!Newest, F!Pending
    <3>. QED  BY <2>2, <3>3, <3>4 DEF F!Inv
  <2>5. CASE F!Ends /\ UNCHANGED holds
    BY <1>1, <2>1, <2>2, <2>5 DEF F!Inv, F!Admitted, F!Got, F!Reported, F!Newest, F!Pending, F!Ends, F!NoCall
  <2>. QED  BY <1>5, <2>3, <2>4, <2>5 DEF F!Data
<1>6. CASE F!Store
  <2>1. UNCHANGED <<reports, observed, policy, unloaded>> /\ call.at = "store"
    BY <1>6 DEF F!Store
  <2>2. CASE F!Ends /\ UNCHANGED <<text, texts, holds>>
    BY <1>1, <2>1, <2>2 DEF F!Inv, F!Types, F!Admitted, F!Got, F!Reported, F!Newest, F!Pending, F!Ends, F!NoCall,
                            F!Callers, F!Versions
  <2>3. CASE /\ texts < MaxTexts /\ texts' = texts + 1 /\ text' = texts'
             /\ \/ F!To("stat") /\ F!Changed(call.by, "text")
                \/ F!Ends /\ F!Changed(call.by, "no")
    <3>1. F!Versions \subseteq F!Versions' /\ texts + 1 \notin F!Versions /\ text' = texts + 1 /\ text' # F!Absent
      BY <1>1, <2>3, VersionsDiffer DEF F!Versions, F!Types, F!Unseen, F!Blank
    <3>2. F!Types'
      <4>1. call \in Calls
        BY <1>1 DEF F!Types, Calls
      <4>2. call' \in Calls
        BY <2>3, <4>1, CallsGoOn, GoesTo DEF F!Ends
      <4>3. holds' \in [F!Callers -> {"no", "text", "version"}]
        BY <2>3 DEF F!Changed
      <4>4. /\ reports' \in Seq([owner : F!Callers, version : F!Versions'])
            /\ observed' \in [Owners -> F!Versions']
        <5>1. [owner : F!Callers, version : F!Versions] \subseteq [owner : F!Callers, version : F!Versions']
          BY <3>1
        <5>2. Seq([owner : F!Callers, version : F!Versions]) \subseteq Seq([owner : F!Callers, version : F!Versions'])
          BY <5>1, SequencesGrow
        <5>. QED  BY <1>1, <2>1, <3>1, <5>2 DEF F!Types
      <4>5. texts' \in 1..MaxTexts /\ text' \in 0..texts'
        BY <1>1, <2>3, PartsAssumption DEF F!Types
      <4>. QED  BY <1>1, <2>1, <4>2, <4>3, <4>4, <4>5 DEF F!Types, Calls
    <3>3. F!Got'
      <4>1. \A o \in Owners : observed[o] \in F!Versions
        BY <1>1 DEF F!Types
      <4>2. \A k \in DOMAIN reports : reports[k].version \in F!Versions
        BY <1>1, ReportsAre
      <4>. QED  BY <2>1, <3>1, <4>1, <4>2 DEF F!Got
    <3>4. F!Reported' /\ F!Admitted'
      <4>1. CASE F!To("stat") /\ F!Changed(call.by, "text")
        <5>1. call'.at = "stat" /\ call'.by = call.by /\ \A p \in F!Callers : holds'[p] = "text" => p = call.by
          BY <1>1, <4>1 DEF F!To, F!Types, F!Changed
        <5>2. F!Reported'
          BY <1>1, <2>1, <5>1 DEF F!Reported, F!Callers
        <5>3. F!Admitted'
          BY <1>1, <4>1, <5>1 DEF F!Admitted, F!To, F!Types
        <5>. QED  BY <5>2, <5>3
      <4>2. CASE F!Ends /\ F!Changed(call.by, "no")
        BY <1>1, <2>1, <4>2 DEF F!Reported, F!Admitted, F!Changed, F!Ends, F!NoCall, F!Callers
      <4>. QED  BY <2>3, <4>1, <4>2
    <3>. QED  BY <3>2, <3>3, <3>4 DEF F!Inv
  <2>. QED  BY <1>6, <2>2, <2>3 DEF F!Store
<1>7. CASE F!Stat
  <2>. DEFINE o == call.by
              v == IF text = F!Absent THEN F!Blank ELSE text
  <2>1. /\ UNCHANGED <<text, texts, observed, policy, unloaded>> /\ call.at = "stat" /\ call' = F!NoCall
        /\ holds' = [holds EXCEPT ![o] = IF text # F!Absent /\ holds[o] = "no" THEN "version" ELSE holds[o]]
        /\ F!Observed(o, v)
    BY <1>1, <1>7 DEF F!Stat, F!Ends, F!Types
  <2>2. o \in F!Callers /\ v \in F!Versions /\ (text # F!Absent => v = text)
    BY <1>1, VersionsDiffer DEF F!Types, F!Versions
  <2>. HIDE DEF o, v
  <2>3. F!Versions' = F!Versions /\ holds' \in [F!Callers -> {"no", "text", "version"}]
    BY <1>1, <2>1, <2>2 DEF F!Types, F!Versions
  <2>4. F!Types'
    BY <1>1, <2>1, <2>2, <2>3, Sent DEF F!Types, F!NoCall, F!Callers
  <2>5. F!Got'
    <3>1. CASE text = F!Absent
      BY <1>1, <2>1, <3>1 DEF F!Got, F!Types
    <3>2. CASE text # F!Absent
      <4>1. \A p \in F!Callers : (holds[p] # "no" \/ p = o) => holds'[p] # "no"
        BY <1>1, <2>1, <2>2, <3>2 DEF F!Types
      <4>2. \A k \in DOMAIN reports' :
               \/ reports'[k] = [owner |-> o, version |-> v]
               \/ k \in DOMAIN reports /\ reports'[k] = reports[k] /\ reports[k].owner \in F!Callers
        BY <1>1, <2>1, <2>2, Sent, ReportsAre
      <4>3. ASSUME NEW k \in DOMAIN reports', reports'[k].version = text  PROVE holds'[reports'[k].owner] # "no"
        <5>1. CASE reports'[k] = [owner |-> o, version |-> v]
          BY <2>2, <4>1, <5>1
        <5>2. CASE k \in DOMAIN reports /\ reports'[k] = reports[k] /\ reports[k].owner \in F!Callers
          BY <1>1, <3>2, <4>1, <4>3, <5>2 DEF F!Got
        <5>. QED  BY <4>2, <5>1, <5>2
      <4>4. \A p \in Owners : observed'[p] = text => holds'[p] # "no"
        BY <1>1, <2>1, <3>2, <4>1 DEF F!Got, F!Callers
      <4>. QED  BY <2>1, <3>2, <4>3, <4>4 DEF F!Got
    <3>. QED  BY <3>1, <3>2
  <2>6. F!Reported'
    <3>1. ASSUME unloaded = 0, NEW p \in Owners \ {Direct}, holds'[p] = "text"
          PROVE  F!Newest(p, text)' \/ (~F!Pending(p)' /\ observed'[p] = text')
      <4>1. policy /\ holds[p] = "text" /\ text # F!Absent
        BY <1>1, <2>1, <2>2, <3>1 DEF F!Reported, F!Types, F!Got, F!Callers
      <4>2. CASE p = o
        BY <2>1, <2>2, <4>1, <4>2, <1>1, Sent DEF F!Newest
      <4>3. CASE p # o
        <5>1. F!Newest(p, text) \/ (~F!Pending(p) /\ observed[p] = text)
          BY <1>1, <3>1, <4>1, <4>3 DEF F!Reported, o
        <5>2. p \in F!Callers \ {o} /\ text \in F!Versions
          BY <1>1, <3>1, <4>3 DEF F!Callers, F!Types, F!Versions
        <5>. QED  BY <1>1, <2>1, <2>2, <5>1, <5>2, Sent DEF F!Newest
      <4>. QED  BY <4>2, <4>3
    <3>. QED  BY <1>1, <2>1, <3>1 DEF F!Reported
  <2>. QED  BY <2>1, <2>4, <2>5, <2>6 DEF F!Inv, F!Admitted, F!NoCall
<1>8. CASE F!Record
  <2>1. /\ UNCHANGED <<text, texts, call, policy, unloaded, holds>> /\ call.at = "none"
        /\ reports # << >> /\ reports' = Tail(reports)
        /\ observed' = IF reports[1].owner = Direct THEN observed
                       ELSE [observed EXCEPT ![reports[1].owner] = reports[1].version]
    BY <1>8 DEF F!Record
  <2>2. /\ reports \in Seq([owner : F!Callers, version : F!Versions]) /\ Len(reports) \in Nat \ {0}
        /\ DOMAIN reports = 1..Len(reports) /\ Len(reports') = Len(reports) - 1
        /\ DOMAIN reports' = 1..(Len(reports) - 1)
        /\ reports' \in Seq([owner : F!Callers, version : F!Versions])
        /\ \A k \in 1..(Len(reports) - 1) : reports'[k] = reports[k + 1]
        /\ reports[1] \in [owner : F!Callers, version : F!Versions]
    <3>. DEFINE R == [owner : F!Callers, version : F!Versions]
    <3>1. reports \in Seq(R)
      BY <1>1 DEF F!Types
    <3>. HIDE DEF R
    <3>2. /\ Len(reports) \in Nat \ {0} /\ DOMAIN reports = 1..Len(reports) /\ Len(reports') = Len(reports) - 1
          /\ DOMAIN reports' = 1..(Len(reports) - 1) /\ reports' \in Seq(R)
          /\ \A k \in 1..(Len(reports) - 1) : reports'[k] = reports[k + 1]
          /\ reports[1] \in R
      BY <2>1, <3>1
    <3>. QED  BY <3>1, <3>2 DEF R
  <2>3. F!Versions' = F!Versions
    BY <2>1 DEF F!Versions
  <2>4. F!Types'
    BY <1>1, <2>1, <2>2, <2>3 DEF F!Types, F!Callers
  <2>5. F!Got'
    <3>1. ASSUME text # F!Absent, NEW p \in Owners, observed'[p] = text  PROVE holds[p] # "no"
      BY <1>1, <2>1, <2>2, <3>1 DEF F!Got, F!Types, F!Callers
    <3>2. ASSUME text # F!Absent, NEW k \in DOMAIN reports', reports'[k].version = text
          PROVE  holds[reports'[k].owner] # "no"
      BY <1>1, <2>2, <3>2 DEF F!Got
    <3>. QED  BY <1>1, <2>1, <3>1, <3>2 DEF F!Got
  <2>6. F!Reported'
    <3>1. ASSUME unloaded = 0, NEW p \in Owners \ {Direct}, holds[p] = "text"
          PROVE  F!Newest(p, text)' \/ (~F!Pending(p)' /\ observed'[p] = text)
      <4>1. CASE ~F!Pending(p) /\ observed[p] = text
        BY <1>1, <2>1, <2>2, <4>1 DEF F!Pending, F!Types
      <4>2. CASE F!Newest(p, text)
        <5>1. PICK k \in DOMAIN reports : /\ reports[k] = [owner |-> p, version |-> text]
                                          /\ \A n \in DOMAIN reports : n > k => reports[n].owner # p
          BY <4>2 DEF F!Newest
        <5>2. CASE k = 1
          <6>1. ~F!Pending(p)'
            BY <2>2, <5>1, <5>2 DEF F!Pending
          <6>. QED  BY <1>1, <2>1, <3>1, <5>1, <5>2, <6>1 DEF F!Types
        <5>3. CASE k # 1
          <6>1. /\ k - 1 \in DOMAIN reports' /\ reports'[k - 1] = [owner |-> p, version |-> text]
                /\ \A n \in DOMAIN reports' : n > k - 1 => reports'[n].owner # p
            <7>1. k - 1 \in 1..(Len(reports) - 1) /\ k = (k - 1) + 1
              BY <2>2, <5>1, <5>3
            <7>2. ASSUME NEW n \in DOMAIN reports', n > k - 1  PROVE reports'[n].owner # p
              <8>1. n \in 1..(Len(reports) - 1) /\ n + 1 \in DOMAIN reports /\ n + 1 > k
                BY <2>2, <7>1, <7>2, <5>1
              <8>. QED  BY <2>2, <5>1, <8>1
            <7>. QED  BY <2>2, <5>1, <7>1, <7>2
          <6>. QED  BY <2>1, <6>1 DEF F!Newest
        <5>. QED  BY <5>2, <5>3
      <4>. QED  BY <1>1, <2>1, <3>1, <4>1, <4>2 DEF F!Reported
    <3>. QED  BY <1>1, <2>1, <3>1 DEF F!Reported
  <2>. QED  BY <1>1, <2>1, <2>4, <2>5, <2>6 DEF F!Inv, F!Admitted
<1>9. CASE F!Unload
  <2>1. /\ UNCHANGED <<text, texts, call, holds>> /\ unloaded' = unloaded + 1 /\ unloaded' # 0
        /\ policy' = FALSE /\ reports' = << >> /\ observed' = [o \in Owners |-> F!Unseen]
    BY <1>1, <1>9 DEF F!Unload, F!Types
  <2>2. F!Types' /\ text # F!Unseen
    <3>1. F!Versions' = F!Versions /\ F!Unseen \in F!Versions /\ text # F!Unseen
      BY <1>1, <2>1, VersionsDiffer DEF F!Types, F!Versions
    <3>2. /\ observed' \in [Owners -> F!Versions] /\ policy' \in BOOLEAN
          /\ reports' \in Seq([owner : F!Callers, version : F!Versions])
      <4>1. << >> \in Seq([owner : F!Callers, version : F!Versions])
        OBVIOUS
      <4>. QED  BY <2>1, <3>1, <4>1
    <3>. QED  BY <1>1, <2>1, <3>1, <3>2 DEF F!Types
  <2>3. F!Got'
    BY <1>1, <2>1, <2>2 DEF F!Got
  <2>. QED  BY <1>1, <2>1, <2>2, <2>3 DEF F!Inv, F!Reported, F!Admitted
<1>10. CASE F!Load
  BY <1>1, <1>10 DEF F!Load, F!Inv, F!Types, F!Got, F!Reported, F!Admitted, F!Newest, F!Pending, F!Versions
<1>11. CASE F!Outside
  <2>1. /\ UNCHANGED <<reports, observed, policy, unloaded>>
        /\ call' = [call EXCEPT !.raced = call.at # "none" /\ call.at # "stat" /\ call.tool # "read"]
        /\ \A p \in F!Callers : holds'[p] = "no" /\ holds' = [c \in F!Callers |-> "no"]
        /\ \/ texts < MaxTexts /\ texts' = texts + 1 /\ text' = texts + 1
           \/ text # F!Absent /\ text' = F!Absent /\ UNCHANGED texts
    BY <1>11 DEF F!Outside, F!Changed
  <2>2. /\ F!Versions \subseteq F!Versions' /\ (text' = F!Absent \/ text' \notin F!Versions)
        /\ texts' \in 1..MaxTexts /\ text' \in 0..texts'
    <3>1. MaxTexts \in Nat /\ texts \in 1..MaxTexts /\ text \in 0..texts
      BY <1>1, PartsAssumption DEF F!Types
    <3>2. CASE texts < MaxTexts /\ texts' = texts + 1 /\ text' = texts + 1
      BY <1>1, <3>1, <3>2, VersionsDiffer DEF F!Versions, F!Unseen, F!Blank
    <3>3. CASE text # F!Absent /\ text' = F!Absent /\ UNCHANGED texts
      BY <1>1, <3>1, <3>3, VersionsDiffer DEF F!Versions
    <3>. QED  BY <2>1, <3>2, <3>3
  <2>3. F!Types'
    <3>1. call' \in Calls
      <4>. DEFINE x == call.at # "none" /\ call.at # "stat" /\ call.tool # "read"
      <4>1. x \in BOOLEAN /\ call' = [call EXCEPT !.raced = x]
        BY <2>1
      <4>2. call \in Calls
        BY <1>1 DEF F!Types, Calls
      <4>. HIDE DEF x
      <4>. QED  BY <4>1, <4>2, CallsGoOn
    <3>2. /\ reports' \in Seq([owner : F!Callers, version : F!Versions'])
          /\ observed' \in [Owners -> F!Versions']
      <4>1. [owner : F!Callers, version : F!Versions] \subseteq [owner : F!Callers, version : F!Versions']
        BY <2>2
      <4>2. Seq([owner : F!Callers, version : F!Versions]) \subseteq Seq([owner : F!Callers, version : F!Versions'])
        BY <4>1, SequencesGrow
      <4>. QED  BY <1>1, <2>1, <2>2, <4>2 DEF F!Types
    <3>. QED  BY <1>1, <2>1, <2>2, <3>1, <3>2 DEF F!Types, Calls
  <2>4. F!Got'
    <3>1. \A o \in Owners : observed[o] \in F!Versions
      BY <1>1 DEF F!Types
    <3>2. \A k \in DOMAIN reports : reports[k].version \in F!Versions
      BY <1>1, ReportsAre
    <3>. QED  BY <2>1, <2>2, <3>1, <3>2 DEF F!Got
  <2>5. F!Reported'
    BY <1>1, <2>1 DEF F!Reported, F!Callers
  <2>6. F!Admitted'
    <3>1. call'.at = call.at /\ call'.tool = call.tool /\ call'.guarded = call.guarded
          /\ call'.raced = (call.at # "none" /\ call.at # "stat" /\ call.tool # "read")
      BY <1>1, <2>1 DEF F!Types
    <3>2. call'.raced \/ call'.at \notin {"guard", "data", "store"} \/ call'.tool = "read"
      BY <3>1
    <3>. QED  BY <1>1, <3>1, <3>2 DEF F!Admitted
  <2>. QED  BY <2>3, <2>4, <2>5, <2>6 DEF F!Inv
<1>. QED  BY <1>2, <1>3, <1>4, <1>5, <1>6, <1>7, <1>8, <1>9, <1>10, <1>11 DEF F!Next

(* What an overwriting call and a refused one may count on.                *)
LEMMA FilesPromise == F!Inv /\ [F!Next]_fileGuard => F!NothingUnseenLost
<1>. SUFFICES ASSUME F!Inv, [F!Next]_fileGuard  PROVE F!NothingUnseenLost
  OBVIOUS
<1>1. ASSUME F!Overwrites, call.guarded, ~call.raced  PROVE text = F!Absent \/ holds[call.by] # "no"
  BY <1>1 DEF F!Overwrites, F!Inv, F!Admitted
<1>2. ASSUME F!Refuses, call.by # Direct, unloaded = 0, holds[call.by] = "text"  PROVE F!Pending(call.by)
  <2>1. call.at = "guard" /\ call'.at = "none"
    BY <1>2 DEF F!Refuses
  <2>2. call.by \in Owners \ {Direct} /\ F!Types
    BY <1>2 DEF F!Inv, F!Types, F!Callers
  <2>3. F!Guard
    BY <2>1, <2>2 DEF F!Next, fileGuard, F!Begin, F!Data, F!Store, F!Stat, F!Record, F!Unload, F!Load, F!Outside, F!Types
  <2>4. policy /\ ~F!Admits
    BY <2>1, <2>2, <2>3 DEF F!Guard, F!Types
  <2>5. text # F!Absent
    BY <1>2, <2>2 DEF F!Inv, F!Got, F!Callers
  <2>6. text # F!Unseen
    BY <2>2, VersionsDiffer DEF F!Types
  <2>7. ~F!Pending(call.by) => observed[call.by] = text
    BY <1>2, <2>1, <2>2 DEF F!Inv, F!Reported, F!Newest, F!Pending
  <2>. QED  BY <2>2, <2>4, <2>5, <2>6, <2>7 DEF F!Admits, F!Seen
<1>. QED  BY <1>1, <1>2 DEF F!NothingUnseenLost

HIDE DEF text, texts, call, reports, observed, policy, unloaded, holds

----------------------------------------------------------------------------
(* A behaviour is one of a single part.                                    *)
PartsOK ==
    /\ part = "oneshot" => O!Inv
    /\ part = "jobs" => J!Inv
    /\ part = "lsp" => L!Inv
    /\ part = "index" => I!Inv
    /\ part = "todos" => X!Inv
    /\ part = "skills" => U!Inv
    /\ part = "goals" => V!Inv
    /\ part = "files" => F!Inv

LEMMA PartsStart == PartsInit => PartsOK
<1>. SUFFICES ASSUME PartsInit  PROVE PartsOK
  OBVIOUS
<1>1. /\ part = "oneshot" => O!Init
      /\ part = "jobs" => J!Init
      /\ part = "lsp" => L!Init
      /\ part = "index" => I!Init
      /\ part = "todos" => X!Init
      /\ part = "skills" => U!Init
      /\ part = "goals" => V!Init
      /\ part = "files" => F!Init
  BY DEF PartsInit
<1>. QED  BY <1>1, OneShotStarts, JobsStart, PoolStarts, IndexStarts, TodosStart, SkillsStart, GoalsStart, FilesStart
             DEF PartsOK

(* A step of a part is one of its module.                                  *)
LEMMA OneShotGoes == PartsOK /\ [PartsNext]_allVars /\ part = "oneshot" => [O!Next]_oneShot
BY DEF PartsNext, allVars, registers, oneShot, tools, denied, scoped, filter, stage, batch, doing, log, value,
                concluded, stop, steps, turns, changes, answer

LEMMA LspPoolGoes == PartsOK /\ [PartsNext]_allVars /\ part = "lsp" => [L!Next]_lspPool
BY DEF PartsNext, allVars, registers, lspPool, closed, pool, made, ready, disposed, failed, server, behind,
                locked, waiters, at, on, retried, bad

LEMMA SessionIndexGoes == PartsOK /\ [PartsNext]_allVars /\ part = "index" => [I!Next]_sessionIndex
BY DEF PartsNext, allVars, registers, sessionIndex, live, history, disk, stamp, torn, file, rows, gen, opened,
                mem, cursor, crashes, lost, upset

LEMMA TodosGoes == PartsOK /\ [PartsNext]_allVars /\ part = "todos" => [X!Next]_todos
BY DEF PartsNext, allVars, registers, todos, logs, next_seq, kept, parallel, registered, cells, early, todoWork

LEMMA SkillsGoes == PartsOK /\ [PartsNext]_allVars /\ part = "skills" => [U!Next]_skills
BY DEF PartsNext, allVars, registers, skills

LEMMA GoalsGoes == PartsOK /\ [PartsNext]_allVars /\ part = "goals" => [V!Next]_goals
BY DEF PartsNext, allVars, registers, goals, journal, skipped, since, root, goal, armed, heard, work

LEMMA FileGuardGoes == PartsOK /\ [PartsNext]_allVars /\ part = "files" => [F!Next]_fileGuard
BY DEF PartsNext, allVars, registers, fileGuard, text, texts, call, reports, observed, policy, unloaded, holds

LEMMA PartsStep == PartsOK /\ [PartsNext]_allVars => PartsOK'
<1>. SUFFICES ASSUME PartsOK, [PartsNext]_allVars  PROVE PartsOK'
  OBVIOUS
<1>1. part' = part
  BY DEF PartsNext, allVars
<1>2. part = "jobs" => J!Inv'
  <2>1. part = "jobs" => [J!Next]_registers
    BY DEF PartsNext, allVars
  <2>. QED  BY <2>1, JobsStep DEF PartsOK
<1>3. part = "oneshot" => O!Inv'
  BY OneShotGoes, OneShotStep DEF PartsOK
<1>4. part = "lsp" => L!Inv'
  BY LspPoolGoes, LspStep DEF PartsOK
<1>5. part = "index" => I!Inv'
  BY SessionIndexGoes, IndexStep DEF PartsOK
<1>6. part = "todos" => X!Inv'
  BY TodosGoes, TodosStep DEF PartsOK
<1>7. part = "skills" => U!Inv'
  BY SkillsGoes, SkillsStep DEF PartsOK
<1>8. part = "goals" => V!Inv'
  BY GoalsGoes, GoalsStep DEF PartsOK
<1>9. part = "files" => F!Inv'
  BY FileGuardGoes, FilesStep DEF PartsOK
<1>. QED  BY <1>1, <1>2, <1>3, <1>4, <1>5, <1>6, <1>7, <1>8, <1>9 DEF PartsOK

LEMMA PartsHold == PartsSpec => []PartsOK
<1>. QED  BY PartsStart, PartsStep, PTL DEF PartsSpec

(* A structured result is the one the child submitted and was told was     *)
(* taken: the recorded value is that of the call the log shows to have     *)
(* succeeded, and no answer is given without one (tools.cpp, subagents.cpp)*)
THEOREM ResultAuthoritative == PartsSpec => []Authoritative
<1>1. PartsOK => Authoritative
  BY DEF PartsOK, Authoritative, O!Inv
<1>. QED  BY <1>1, PartsHold, PTL

(* The end of a job is told once to whom it concerns: to the waiters it    *)
(* had, or else by a notice to the session that started it (jobs.cpp).     *)
THEOREM JobsInformed == PartsSpec => []Informed
<1>1. PartsOK => Informed
  BY DEF PartsOK, Informed, J!Inv
<1>. QED  BY <1>1, PartsHold, PTL

(* The lock of an LSP instance passes on and is never held by two: who     *)
(* waits for it is in the list of an open instance that some query holds,  *)
(* and a query that waits for ready() has an initialize to end             *)
(* (instance.cpp, provider.cpp).                                           *)
THEOREM LockPassesOn == PartsSpec => []LockPassed
<1>1. PartsOK => LockPassed
  BY PoolPromise DEF PartsOK, LockPassed
<1>. QED  BY <1>1, PartsHold, PTL

(* What is served from a stored or folded copy is what the log says, after *)
(* a crash, a rebuild and a reload too (sqlite.cpp, store.cpp).            *)
THEOREM CopiesCurrent == PartsSpec => Current
<1>1. PartsOK /\ [PartsNext]_allVars => (part = "index" => I!IndexCurrent) /\ (part = "todos" => X!Current')
  BY SessionIndexGoes, IndexStep, TodosGoes, TodosStep DEF PartsOK, X!Inv
<1>. QED  BY <1>1, PartsHold, PTL DEF PartsSpec, Current

(* No edit replaces content of a file that the session has not read, and   *)
(* none is refused where the session has it, once the reports have arrived *)
(* (coreutil.cpp, fs_observation_policy.cpp).                              *)
THEOREM NoUnseenLoss == PartsSpec => NothingUnseenLost
<1>1. PartsOK /\ [PartsNext]_allVars => (part = "files" => F!NothingUnseenLost)
  BY FileGuardGoes, FilesPromise DEF PartsOK
<1>. QED  BY <1>1, PartsHold, PTL DEF PartsSpec, NothingUnseenLost

(* What the model may use or change is what its turn entitles it to: the   *)
(* skills its catalog names, and the goal where a human spoke or its round *)
(* runs (skill.cpp, tool_goal.cpp).                                        *)
THEOREM TurnEntitled == PartsSpec => Entitled
<1>1. PartsOK /\ [PartsNext]_allVars => (part = "skills" => U!Entitled) /\ (part = "goals" => V!Entitled)
  BY SkillsGoes, SkillsStep, GoalsGoes, GoalsStep DEF PartsOK
<1>. QED  BY <1>1, PartsHold, PTL DEF PartsSpec, Entitled
===============================================================================
