--------------------------- MODULE RuntimeProofs ---------------------------
(* Theorems about the runtime engine, for every set of components.         *)
EXTENDS Runtime, FiniteSetTheorems, TLAPS

----------------------------------------------------------------------------
(* Facts about the operators of the model *)

(* A nonempty set of small naturals has a largest element: there is a      *)
(* nearest scope.                                                          *)
LEMMA LargestExists ==
    ASSUME NEW n \in Nat, NEW S \in SUBSET (0..n), S # {}
    PROVE  \E s \in S : \A t \in S : t <= s
<1> DEFINE Above(s) == {t \in S : t > s}
           R == StrictSubsetOrdering(S)
           T == {Above(s) : s \in S}
<1>1. IsFiniteSet(S)
  <2>1. IsFiniteSet(0..n)
    BY FS_Interval
  <2> QED BY <2>1, FS_Subset
<1>2. IsWellFoundedOn(R, FiniteSubsetsOf(S))
  BY FS_StrictSubsetOrderingWellFounded
<1>3. T \subseteq FiniteSubsetsOf(S) /\ T # {}
  <2>1. \A s \in S : Above(s) \subseteq S /\ IsFiniteSet(Above(s))
    BY <1>1, FS_Subset
  <2> QED BY <2>1 DEF FiniteSubsetsOf
<1>4. PICK A \in T : \A B \in T : <<B, A>> \notin R
  BY <1>2, <1>3, WFMin
<1>5. PICK s \in S : A = Above(s)
  OBVIOUS
<1>6. ASSUME NEW t \in S, t > s PROVE FALSE
  <2>0. \A x \in S : x \in Int
    OBVIOUS
  <2>1. ASSUME NEW x \in Above(t) PROVE x \in Above(s)
    <3>1. x \in Int /\ t \in Int /\ s \in Int /\ x > t
      BY <2>0
    <3>2. x > s
      BY <3>1, <1>6
    <3> QED BY <3>2
  <2>2. t \in Above(s) /\ t \notin Above(t)
    BY <1>6, <2>0
  <2>3. <<Above(t), A>> \in R
    BY <2>1, <2>2, <1>5 DEF StrictSubsetOrdering
  <2> QED BY <2>3, <1>4
<1> QED BY <1>6

(* A lookup finds a binding, or nothing.                                   *)
LEMMA LookupType ==
    ASSUME TypeOK, NEW f \in Id, NEW k \in Keys
    PROVE  Lookup(f, k) \in Binding
<1> DEFINE bound == {s \in rec[f].chain : bindings[s][k] # Unbound}
<1>1. Unbound \in Binding
  BY BoundAssumption DEF Unbound, Binding
<1>2. rec[f].chain \subseteq 0..MaxFiber
  BY DEF TypeOK, FiberRecord, Scopes
<1>3. CASE bound # {}
  <2>1. \E s \in bound : \A t \in bound : t <= s
    BY <1>2, <1>3, LargestExists, BoundAssumption
  <2>2. (CHOOSE s \in bound : \A t \in bound : t <= s) \in Scopes
    BY <2>1, <1>2 DEF Scopes
  <2> QED BY <2>2, <1>3 DEF Lookup, TypeOK
<1> QED BY <1>1, <1>3 DEF Lookup

(* A resolved view maps keys to fibers.                                    *)
LEMMA ResolveType ==
    ASSUME TypeOK, NEW f \in Id
    PROVE  Resolve(f) \in [Keys -> 0..MaxFiber]
<1> SUFFICES ASSUME NEW k \in Keys PROVE Resolve(f)[k] \in 0..MaxFiber
  BY DEF Resolve
<1> DEFINE b == Lookup(f, k)
<1>1. b \in Binding
  BY LookupType
<1>2. b.provider \in 0..MaxFiber
  BY <1>1 DEF Binding
<1>3. 0 \in 0..MaxFiber
  BY BoundAssumption
<1> QED BY <1>2, <1>3 DEF Resolve

(* The counter of an unload starts from a number.                          *)
LEMMA CountType ==
    ASSUME NEW S, S \subseteq Id
    PROVE  Cardinality(S) \in Nat
<1>1. IsFiniteSet(1..MaxFiber)
  BY FS_Interval, BoundAssumption
<1> QED BY <1>1, FS_Subset, FS_CardinalityType DEF Id

(* The frame on top of the stack, and what lies under it.                  *)
LEMMA TopType ==
    ASSUME TypeOK, calls # <<>>
    PROVE  /\ Top \in Frame /\ Tail(calls) \in Seq(Frame)
           /\ Top.f \in Id /\ Top.flag \in BOOLEAN /\ Top.who \in Waiter
           /\ Top.todo \in SUBSET (Nat \X Id)
<1>1. calls \in Seq(Frame)
  BY DEF TypeOK
<1>2. Head(calls) \in Frame /\ Tail(calls) \in Seq(Frame)
  BY <1>1
<1> QED BY <1>2 DEF Top, Frame

(* What an availability check may answer.                                  *)
LEMMA AvailabilityType ==
    ASSUME NEW c PROVE Availability(c) \subseteq BOOLEAN
<1>1. CASE c \in Gated
  BY <1>1 DEF Availability
<1>2. CASE c \notin Gated
  BY <1>2 DEF Availability
<1> QED BY <1>1, <1>2

(* What the handlers and frames push is a frame.                           *)
LEMMA FrameType ==
    ASSUME NEW f \in Id
    PROVE  /\ \A op \in Op : Call(op, f) \in Frame
           /\ \A flag \in BOOLEAN : BeginUnload(f, flag) \in Frame
           /\ \A op \in Op, todo \in SUBSET (Nat \X Id) : Loop(op, f, todo) \in Frame
           /\ \A w \in Waiter : Await(f, w) \in Frame
<1>1. \A op \in Op : Call(op, f) \in Frame
  BY DEF Call, Frame, Waiter
<1>2. \A flag \in BOOLEAN : BeginUnload(f, flag) \in Frame
  BY DEF BeginUnload, Call, Frame, Waiter, Op
<1>3. \A op \in Op, todo \in SUBSET (Nat \X Id) : Loop(op, f, todo) \in Frame
  BY DEF Loop, Call, Frame, Waiter
<1>4. \A w \in Waiter : Await(f, w) \in Frame
  BY DEF Await, Call, Frame, Op
<1> QED BY <1>1, <1>2, <1>3, <1>4

(* One turn of a loop leaves a frame with less to do.                      *)
LEMMA RestType ==
    ASSUME TypeOK, calls # <<>>, NEW p
    PROVE  [Top EXCEPT !.todo = @ \ {p}] \in Frame
BY TopType DEF Frame

(* Replacing the top frame by well-formed frames keeps the stack one.      *)
LEMMA BecomeType ==
    ASSUME TypeOK, calls # <<>>, NEW frames \in Seq(Frame), Become(frames)
    PROVE  calls' \in Seq(Frame)
BY TopType DEF Become

(* Returning pops one frame.                                               *)
LEMMA ReturnType ==
    ASSUME TypeOK, calls # <<>>, Return
    PROVE  calls' \in Seq(Frame)
BY TopType DEF Return

(* One record is replaced.                                                 *)
LEMMA RecType ==
    ASSUME TypeOK, NEW f \in Id, NEW r \in FiberRecord
    PROVE  /\ rec[f] \in FiberRecord
           /\ [rec EXCEPT ![f] = r] \in [Id -> FiberRecord]
BY DEF TypeOK

(* The keys a loop of notify or release walks.                             *)
LEMMA LoopType ==
    ASSUME NEW f, NEW keys
    PROVE  /\ Notified(f, keys) \in SUBSET (Nat \X Id)
           /\ Edges(f) \in SUBSET (Nat \X Id)
BY BoundAssumption DEF Notified, Edges

(* The two ways an unload rewrites the bindings of a fiber.                *)
LEMMA BindingsType ==
    ASSUME TypeOK, NEW f \in Id, NEW st \in {"active", "retiring"}
    PROVE  /\ WithState(f, st) \in [Scopes -> [Keys -> Binding]]
           /\ Withdrawn(f) \in [Scopes -> [Keys -> Binding]]
<1> DEFINE s == ScopeOf(f)
<1>1. bindings \in [Scopes -> [Keys -> Binding]]
  BY DEF TypeOK
<1>2. Unbound \in Binding
  BY BoundAssumption DEF Unbound, Binding
<1>3. \A b \in Binding : [b EXCEPT !.state = st] \in Binding
  BY DEF Binding
<1>4. ASSUME s \in Scopes
      PROVE  /\ [k \in Keys |-> IF k \in Bound(f) THEN [bindings[s][k] EXCEPT !.state = st]
                                ELSE bindings[s][k]] \in [Keys -> Binding]
             /\ [k \in Keys |-> IF k \in Bound(f) THEN Unbound ELSE bindings[s][k]]
                    \in [Keys -> Binding]
  BY <1>1, <1>2, <1>3, <1>4
<1> QED BY <1>1, <1>4 DEF WithState, Withdrawn
----------------------------------------------------------------------------
(* Type correctness *)

(* Every frame of the cascade keeps the types.                             *)
LEMMA CascadeKeepsType ==
    TypeOK /\ Cascade => TypeOK'
<1> SUFFICES ASSUME TypeOK, Cascade PROVE TypeOK'
  OBVIOUS
<1> USE DEF Running
<1> DEFINE f == Top.f
<1>1. calls # <<>>
  BY DEF Cascade, EvaluateKeeps, EvaluateUnloads, StartLoading, StartLoadingNull,
         StartLoadingThrows, BeginUnloadKeeps, BeginUnloadActive, CascadeNext, CascadeDone,
         FinishKeeps, Finish, ReleaseNext, ReleaseDone, NotifyNext, NotifyDone, FinishTail,
         TransitionFinished, AwaitGate
<1>2. /\ f \in Id /\ Top.flag \in BOOLEAN /\ Top.who \in Waiter
      /\ Top.todo \in SUBSET (Nat \X Id)
  BY <1>1, TopType
<1>3. /\ rec[f] \in FiberRecord
      /\ \A r \in FiberRecord : [rec EXCEPT ![f] = r] \in [Id -> FiberRecord]
  BY <1>2 DEF TypeOK
<1>4. CASE EvaluateKeeps
  BY <1>1, <1>4, ReturnType DEF EvaluateKeeps, TypeOK
<1>5. CASE EvaluateUnloads
  <2>0. Satisfiable(f) \in BOOLEAN
    BY DEF Satisfiable
  <2>1. BeginUnload(f, Satisfiable(f)) \in Frame
    BY <1>2, <2>0, FrameType
  <2>2. calls' \in Seq(Frame)
    BY <1>1, <1>5, <2>1, TopType DEF EvaluateUnloads, Become
  <2> QED BY <1>5, <2>2 DEF EvaluateUnloads, TypeOK
<1>6. CASE StartLoading
  <2> DEFINE r == [rec[f] EXCEPT !.state = "loading", !.committed = Resolve(f),
                                 !.apply_failed = FALSE, !.stop = FALSE, !.applying = TRUE]
  <2>1. r \in FiberRecord
    BY <1>2, <1>3, ResolveType DEF FiberRecord, State
  <2>2. rec' = [rec EXCEPT ![f] = r]
    BY <1>6 DEF StartLoading
  <2>3. rec' \in [Id -> FiberRecord]
    BY <1>3, <2>1, <2>2
  <2>4. bindings' \in [Scopes -> [Keys -> Binding]]
    <3>1. PICK early \in SUBSET Provides[rec[f].comp], av \in Availability(rec[f].comp) :
            bindings' = [bindings EXCEPT ![ScopeOf(f)] = [k \in Keys |->
                IF k \in early
                THEN [provider |-> f, state |-> "loading", available |-> av]
                ELSE bindings[ScopeOf(f)][k]]]
      BY <1>6 DEF StartLoading
    <3>2. av \in BOOLEAN
      BY AvailabilityType
    <3>3. f \in 0..MaxFiber
      BY <1>2, BoundAssumption DEF Id
    <3>4. [provider |-> f, state |-> "loading", available |-> av] \in Binding
      BY <3>2, <3>3 DEF Binding
    <3> QED BY <3>1, <3>4 DEF TypeOK
  <2>5. calls' \in Seq(Frame)
    BY <1>1, <1>6, ReturnType DEF StartLoading
  <2> QED BY <1>6, <2>3, <2>4, <2>5 DEF StartLoading, TypeOK
<1>7. CASE StartLoadingNull
  <2>1. [rec[f] EXCEPT !.stop = FALSE] \in FiberRecord
    BY <1>3 DEF FiberRecord
  <2>2. rec' = [rec EXCEPT ![f] = [rec[f] EXCEPT !.stop = FALSE]]
    BY <1>7 DEF StartLoadingNull
  <2>3. calls' \in Seq(Frame)
    BY <1>1, <1>7, ReturnType DEF StartLoadingNull
  <2> QED BY <1>3, <1>7, <2>1, <2>2, <2>3 DEF StartLoadingNull, TypeOK
<1>8. CASE StartLoadingThrows
  <2> DEFINE r == [rec[f] EXCEPT !.state = "loading", !.stop = FALSE, !.committed = Resolve(f)]
  <2>1. r \in FiberRecord
    BY <1>2, <1>3, ResolveType DEF FiberRecord, State
  <2>2. rec' = [rec EXCEPT ![f] = r]
    BY <1>8 DEF StartLoadingThrows
  <2> HIDE DEF r
  <2> QED BY <1>3, <1>8, <2>1, <2>2 DEF StartLoadingThrows, TypeOK
<1>9. CASE BeginUnloadKeeps
  <2> DEFINE r == [rec[f] EXCEPT
                    !.reactivate = Reactivation(f, Top.flag),
                    !.state = IF rec[f].state = "loading" THEN "unloading" ELSE rec[f].state,
                    !.done = IF rec[f].state = "loading" THEN FALSE ELSE rec[f].done,
                    !.stop = IF rec[f].state = "loading" THEN TRUE ELSE rec[f].stop]
  <2>1. Reactivation(f, Top.flag) \in {-1, 0, 1}
    BY <1>3 DEF Reactivation, FiberRecord
  <2>2. r \in FiberRecord
    BY <1>3, <2>1, ZenonT(60) DEF FiberRecord, State
  <2>3. rec' = [rec EXCEPT ![f] = r]
    BY <1>9 DEF BeginUnloadKeeps
  <2>4. calls' \in Seq(Frame)
    BY <1>1, <1>9, ReturnType DEF BeginUnloadKeeps
  <2> HIDE DEF r
  <2> QED BY <1>3, <1>9, <2>2, <2>3, <2>4 DEF BeginUnloadKeeps, TypeOK
<1>10. CASE BeginUnloadActive
  <2> DEFINE installed == {c \in rec[f].consumers \cap fibers : rec[c].state # "inactive"}
             r == [rec[f] EXCEPT !.reactivate = Reactivation(f, Top.flag),
                                 !.state = "unloading", !.done = FALSE,
                                 !.remaining = Cardinality(installed)]
  <2>1. Reactivation(f, Top.flag) \in {-1, 0, 1}
    BY <1>3 DEF Reactivation, FiberRecord
  <2>2. rec[f].consumers \subseteq Id
    BY <1>3 DEF FiberRecord
  <2>3. Cardinality(installed) \in Nat
    BY <2>2, CountType
  <2>4. r \in FiberRecord
    BY <1>3, <2>1, <2>3 DEF FiberRecord, State
  <2>5. rec' = [rec EXCEPT ![f] = r]
    BY <1>10 DEF BeginUnloadActive
  <2>6. {0} \X rec[f].consumers \in SUBSET (Nat \X Id)
    BY <2>2
  <2>7. Loop("cascade", f, {0} \X rec[f].consumers) \in Frame
    BY <1>2, <2>6, FrameType DEF Op
  <2>8. calls' \in Seq(Frame)
    BY <1>1, <1>10, <2>7, TopType DEF BeginUnloadActive, Become
  <2>9. bindings' \in [Scopes -> [Keys -> Binding]]
    BY <1>2, <1>10, BindingsType DEF BeginUnloadActive
  <2> HIDE DEF r
  <2> QED BY <1>3, <1>10, <2>4, <2>5, <2>8, <2>9 DEF BeginUnloadActive, TypeOK
<1>11. CASE CascadeNext
  <2> DEFINE c == First(Top.todo)[2]
             unload == BeginUnload(c, TRUE)
             rest == [Top EXCEPT !.todo = @ \ {First(Top.todo)}]
  <2>1. rest \in Frame
    BY <1>1, RestType
  <2>2. c \in fibers => unload \in Frame
    BY FrameType DEF TypeOK
  <2>3. calls' \in Seq(Frame)
    <3>1. calls' = (IF c \in fibers THEN <<unload, rest>> ELSE <<rest>>) \o Tail(calls)
      BY <1>11 DEF CascadeNext, Become
    <3> HIDE DEF unload, rest, c
    <3> QED BY <1>1, <2>1, <2>2, <3>1, TopType
  <2> QED BY <1>11, <2>3 DEF CascadeNext, TypeOK
<1>12. CASE CascadeDone
  <2>1. [rec[f] EXCEPT !.stop = TRUE] \in FiberRecord
    BY <1>3 DEF FiberRecord
  <2>2. rec' = [rec EXCEPT ![f] = [rec[f] EXCEPT !.stop = TRUE]]
    BY <1>12 DEF CascadeDone
  <2>3. Call("finish", f) \in Frame
    BY <1>2, FrameType DEF Op
  <2>4. calls' \in Seq(Frame)
    BY <1>1, <1>12, <2>3, TopType DEF CascadeDone, Become
  <2> QED BY <1>3, <1>12, <2>1, <2>2, <2>4 DEF CascadeDone, TypeOK
<1>13. CASE FinishKeeps
  BY <1>1, <1>13, ReturnType DEF FinishKeeps, TypeOK
<1>14. CASE Finish
  <2> DEFINE r == [rec[f] EXCEPT !.state = "inactive", !.committed = NothingCommitted,
                                 !.kids = {}, !.request = Orphaned(rec[f].request)]
  <2>1. NothingCommitted \in [Keys -> 0..MaxFiber]
    BY BoundAssumption DEF NothingCommitted
  <2>2. r \in FiberRecord
    BY <1>3, <2>1 DEF FiberRecord, State, Orphaned, Request
  <2>3. rec' = [rec EXCEPT ![f] = r]
    BY <1>14 DEF Finish
  <2>4. Loop("release", f, Edges(f)) \in Frame
    BY <1>2, LoopType, FrameType DEF Op
  <2>5. calls' \in Seq(Frame)
    BY <1>1, <1>14, <2>4, TopType DEF Finish, Become
  <2>6. bindings' \in [Scopes -> [Keys -> Binding]]
    BY <1>2, <1>14, BindingsType DEF Finish
  <2>7. posted' \subseteq Id
    BY <1>3, <1>14 DEF Finish, ChildrenPosted, FiberRecord, TypeOK
  <2> HIDE DEF r
  <2> QED BY <1>3, <1>14, <2>2, <2>3, <2>5, <2>6, <2>7 DEF Finish, TypeOK
<1>15. CASE ReleaseNext
  <2> DEFINE p == First(Top.todo)[2]
             rest == [Top EXCEPT !.todo = @ \ {First(Top.todo)}]
             r == [rec[p] EXCEPT !.consumers = rec[p].consumers \ {f},
                                 !.remaining = CountedOff(p)]
  <2>1. rest \in Frame
    BY <1>1, RestType
  <2>2. CASE p \in fibers
    <3>1. p \in Id /\ rec[p] \in FiberRecord
      BY <2>2 DEF TypeOK
    <3>2. CountedOff(p) \in Nat
      BY <3>1 DEF CountedOff, FiberRecord
    <3>3. r \in FiberRecord
      BY <3>1, <3>2 DEF FiberRecord
    <3>4. rec' = [rec EXCEPT ![p] = r]
      BY <1>15, <2>2 DEF ReleaseNext
    <3>5. rec' \in [Id -> FiberRecord]
      BY <3>1, <3>3, <3>4 DEF TypeOK
    <3>6. Call("finish", p) \in Frame
      BY <3>1, FrameType DEF Op
    <3>7. calls' \in Seq(Frame)
      <4>1. calls' = <<Call("finish", p), rest>> \o Tail(calls)
        BY <1>15, <2>2 DEF ReleaseNext, Become
      <4> HIDE DEF rest, p
      <4> QED BY <1>1, <2>1, <3>6, <4>1, TopType
    <3> QED BY <1>15, <3>5, <3>7 DEF ReleaseNext, TypeOK
  <2>3. CASE p \notin fibers
    <3>1. calls' \in Seq(Frame)
      <4>1. calls' = <<rest>> \o Tail(calls)
        BY <1>15, <2>3 DEF ReleaseNext, Become
      <4> HIDE DEF rest
      <4> QED BY <1>1, <2>1, <4>1, TopType
    <3> QED BY <1>15, <2>3, <3>1 DEF ReleaseNext, TypeOK
  <2> QED BY <2>2, <2>3
<1>16. CASE ReleaseDone
  <2> DEFINE r == [rec[f] EXCEPT !.done = TRUE, !.waiters = {}]
             keys == Provides[rec[f].comp]
  <2>1. r \in FiberRecord
    BY <1>3 DEF FiberRecord
  <2>2. rec' = [rec EXCEPT ![f] = r]
    BY <1>16 DEF ReleaseDone
  <2>3. Loop("notify", f, Notified(f, keys)) \in Frame /\ Call("tail", f) \in Frame
    BY <1>2, LoopType, FrameType DEF Op
  <2>4. calls' \in Seq(Frame)
    BY <1>1, <1>16, <2>3, TopType DEF ReleaseDone, Become
  <2>5. /\ host' \in [Hosts -> {"free", "retire", "wait_idle"}]
        /\ fibers' \subseteq Id
    BY <1>16 DEF ReleaseDone, OpenGate, Erased, TypeOK
  <2> HIDE DEF r
  <2> QED BY <1>3, <1>16, <2>1, <2>2, <2>4, <2>5 DEF ReleaseDone, TypeOK
<1>17. CASE NotifyNext
  <2>1. [Top EXCEPT !.todo = @ \ {First(Top.todo)}] \in Frame
    BY <1>1, RestType
  <2>2. \A c \in fibers : Call("evaluate", c) \in Frame
    BY FrameType DEF TypeOK, Op
  <2>3. calls' \in Seq(Frame)
    BY <1>1, <1>17, <2>1, <2>2, TopType DEF NotifyNext, Become
  <2> QED BY <1>17, <2>3 DEF NotifyNext, TypeOK
<1>18. CASE NotifyDone
  BY <1>1, <1>18, ReturnType DEF NotifyDone, TypeOK
<1>19. CASE FinishTail
  <2> DEFINE r == [rec[f] EXCEPT !.reactivate = IF rec[f].reactivate > 0 THEN 0
                                                ELSE rec[f].reactivate]
  <2>1. r \in FiberRecord
    BY <1>3 DEF FiberRecord
  <2>2. rec' = [rec EXCEPT ![f] = r]
    BY <1>19 DEF FinishTail
  <2>3. Call("evaluate", f) \in Frame /\ Call("finished", f) \in Frame
    BY <1>2, FrameType DEF Op
  <2>4. calls' \in Seq(Frame)
    BY <1>1, <1>19, <2>3, TopType DEF FinishTail, Become
  <2> HIDE DEF r
  <2> QED BY <1>3, <1>19, <2>1, <2>2, <2>4 DEF FinishTail, TypeOK
<1>20. CASE TransitionFinished
  <2>1. calls' \in Seq(Frame)
    BY <1>1, <1>20, ReturnType DEF TransitionFinished
  <2> QED BY <1>20, <2>1 DEF TransitionFinished, TypeOK
<1>21. CASE AwaitGate
  <2> DEFINE r == [rec[f] EXCEPT !.waiters = rec[f].waiters \cup {Top.who}]
  <2>1. r \in FiberRecord
    BY <1>2, <1>3 DEF FiberRecord
  <2>2. rec' = rec \/ rec' = [rec EXCEPT ![f] = r]
    BY <1>21 DEF AwaitGate
  <2>3. rec' \in [Id -> FiberRecord]
    BY <1>3, <2>1, <2>2 DEF TypeOK
  <2>4. calls' \in Seq(Frame)
    BY <1>1, <1>21, ReturnType DEF AwaitGate
  <2>5. /\ host' \in [Hosts -> {"free", "retire", "wait_idle"}]
        /\ fibers' \subseteq Id
    BY <1>21 DEF AwaitGate, Erased, TypeOK
  <2> QED BY <1>21, <2>3, <2>4, <2>5 DEF AwaitGate, TypeOK
<1> QED
  BY <1>4, <1>5, <1>6, <1>7, <1>8, <1>9, <1>10, <1>11, <1>12, <1>13, <1>14, <1>15,
     <1>16, <1>17, <1>18, <1>19, <1>20, <1>21 DEF Cascade

(* A mount takes an id that exists, and starts from one frame.             *)
LEMMA InstallType ==
    ASSUME TypeOK, next_id \in Id, Install
    PROVE  /\ fibers' \subseteq Id /\ next_id' \in 1..(MaxFiber + 1)
           /\ calls' \in Seq(Frame)
<1>1. Call("evaluate", next_id) \in Frame
  BY FrameType DEF Op
<1> QED BY <1>1, BoundAssumption DEF Install, TypeOK, Id

(* A mount that is within the bound takes an id that exists.               *)
LEMMA IdLeftType ==
    ASSUME TypeOK, IdLeft PROVE next_id \in Id
<1>1. Cardinality({f \in Id : rec[f].request # "none"}) \in Nat
  BY CountType
<1> QED BY <1>1, BoundAssumption DEF IdLeft, TypeOK, Id

(* A fresh record.                                                         *)
LEMMA NewFiberType ==
    ASSUME NEW c \in Comp \cup {NoComp}, NEW chain \in SUBSET Scopes, NEW parent \in 0..MaxFiber
    PROVE  NewFiber(c, chain, parent) \in FiberRecord
<1>1. NothingCommitted \in [Keys -> 0..MaxFiber]
  BY BoundAssumption DEF NothingCommitted
<1> QED BY <1>1 DEF NewFiber, FiberRecord, State, Request

(* A provision rewrites one binding.                                       *)
LEMMA BindType ==
    ASSUME TypeOK, NEW s, NEW k \in Keys, NEW b \in Binding,
           bindings' = [bindings EXCEPT ![s][k] = b]
    PROVE  bindings' \in [Scopes -> [Keys -> Binding]]
BY DEF TypeOK

(* A mount keeps the types.                                                *)
LEMMA MountKeepsType ==
    ASSUME TypeOK, Mounted
    PROVE  /\ \A c \in Roots : Mount(c) => TypeOK'
           /\ \A f \in Id : MountChild(f) => TypeOK'
<1>1. ASSUME NEW c \in Roots, Mount(c) PROVE TypeOK'
  <2>1. next_id \in Id
    BY <1>1, IdLeftType DEF Mount
  <2>2. c \in Comp \cup {NoComp} /\ {0} \in SUBSET Scopes /\ 0 \in 0..MaxFiber
    BY ComponentAssumption, BoundAssumption DEF Scopes
  <2>3. NewFiber(c, {0}, 0) \in FiberRecord
    BY <2>2, NewFiberType
  <2>4. rec' \in [Id -> FiberRecord]
    BY <1>1, <2>3 DEF Mount, TypeOK
  <2> QED BY <1>1, <2>1, <2>4, InstallType DEF Mount, TypeOK
<1>2. ASSUME NEW f \in Id, MountChild(f) PROVE TypeOK'
  <2> DEFINE child == NewFiber(Child[rec[f].comp], rec[f].chain \cup {next_id}, f)
             kids == IF rec[f].request # "orphan" THEN rec[f].kids \cup {next_id} ELSE rec[f].kids
             r == [rec[f] EXCEPT !.request = "none", !.kids = kids]
  <2>0. rec[f] \in FiberRecord /\ f \in 0..MaxFiber
    BY BoundAssumption DEF TypeOK, Id
  <2>1. next_id \in Id /\ Child[rec[f].comp] \in Comp
    BY <1>2 DEF MountChild, Mounted
  <2>2. rec[f].chain \cup {next_id} \in SUBSET Scopes
    BY <2>0, <2>1, BoundAssumption DEF FiberRecord, Scopes, Id
  <2>3. child \in FiberRecord
    BY <2>0, <2>1, <2>2, NewFiberType
  <2>4. kids \subseteq Id
    BY <2>0, <2>1 DEF FiberRecord
  <2>5. r \in FiberRecord
    BY <2>0, <2>4 DEF FiberRecord, Request
  <2>6. rec' = [g \in Id |-> IF g = next_id THEN child ELSE IF g # f THEN rec[g] ELSE r]
    BY <1>2 DEF MountChild
  <2> HIDE DEF child, r
  <2>7. rec' \in [Id -> FiberRecord]
    BY <2>3, <2>5, <2>6 DEF TypeOK
  <2> QED BY <1>2, <2>1, <2>7, InstallType DEF MountChild, TypeOK
<1> QED BY <1>1, <1>2

(* The handlers that concern a mounted fiber, the mounts left aside.       *)
Handler(f) ==
    \/ RequestChild(f) \/ RetireChild(f) \/ ApplyCompletes(f) \/ Cancel(f)
    \/ \E k \in Keys : Provide(f, k) \/ ProvideLate(f, k) \/ ReleaseEarly(f, k) \/ Promote(f, k)
    \/ \E h \in Hosts : Retire(h, f) \/ WaitIdle(h)

(* Every one of them keeps the types.                                      *)
LEMMA HandlerKeepsType ==
    ASSUME TypeOK, NEW f \in Id, Handler(f)
    PROVE  TypeOK'
<1>1. rec[f] \in FiberRecord /\ f \in 0..MaxFiber
  BY BoundAssumption DEF TypeOK, Id
<1>3. ASSUME RequestChild(f) PROVE TypeOK'
  <2>1. \A q \in Request : [rec[f] EXCEPT !.request = q] \in FiberRecord
    BY <1>1 DEF FiberRecord
  <2>2. \E q \in Request : rec' = [rec EXCEPT ![f] = [rec[f] EXCEPT !.request = q]]
    BY <1>3 DEF RequestChild, Request
  <2> QED BY <1>3, <2>1, <2>2, RecType DEF RequestChild, TypeOK
<1>5. ASSUME NEW k \in Keys, Provide(f, k) PROVE TypeOK'
  <2>1. PICK av \in Availability(rec[f].comp) :
          bindings' = [bindings EXCEPT ![ScopeOf(f)][k] =
                        [provider |-> f, state |-> "loading", available |-> av]]
    BY <1>5 DEF Provide
  <2>2. av \in BOOLEAN
    BY AvailabilityType
  <2>3. [provider |-> f, state |-> "loading", available |-> av] \in Binding
    BY <1>1, <2>2 DEF Binding
  <2>4. bindings' \in [Scopes -> [Keys -> Binding]]
    BY <2>1, <2>3, BindType
  <2> QED BY <1>5, <2>4 DEF Provide, TypeOK
<1>6. ASSUME NEW k \in Keys, ProvideLate(f, k) PROVE TypeOK'
  <2>1. [provider |-> f, state |-> "active", available |-> TRUE] \in Binding
    BY <1>1 DEF Binding
  <2>2. bindings' \in [Scopes -> [Keys -> Binding]]
    BY <1>6, <2>1, BindType DEF ProvideLate
  <2> QED BY <1>6, <2>2 DEF ProvideLate, TypeOK
<1>7. ASSUME NEW k \in Keys, ReleaseEarly(f, k) PROVE TypeOK'
  <2>1. Unbound \in Binding
    BY BoundAssumption DEF Unbound, Binding
  <2>2. bindings' \in [Scopes -> [Keys -> Binding]]
    BY <1>7, <2>1, BindType DEF ReleaseEarly
  <2> QED BY <1>7, <2>2 DEF ReleaseEarly, TypeOK
<1>8. ASSUME NEW k \in Keys, Promote(f, k) PROVE TypeOK'
  <2>1. ASSUME NEW b \in Binding PROVE [b EXCEPT !.available = TRUE] \in Binding
    BY DEF Binding
  <2> DEFINE b == bindings[ScopeOf(f)][k]
  <2>2. bindings' = [bindings EXCEPT ![ScopeOf(f)][k] = [b EXCEPT !.available = TRUE]]
    BY <1>8 DEF Promote
  <2>3. bindings' \in [Scopes -> [Keys -> Binding]]
    <3>1. CASE ScopeOf(f) \in Scopes
      <4>1. b \in Binding
        BY <3>1 DEF TypeOK
      <4>2. [b EXCEPT !.available = TRUE] \in Binding
        BY <4>1, <2>1
      <4> QED BY <2>2, <4>2, BindType
    <3>2. CASE ScopeOf(f) \notin Scopes
      BY <2>2, <3>2 DEF TypeOK
    <3> QED BY <3>1, <3>2
  <2>4. Loop("notify", f, Notified(f, {k})) \in Frame
    BY LoopType, FrameType DEF Op
  <2> QED BY <1>8, <2>3, <2>4 DEF Promote, TypeOK
<1>9. ASSUME Cancel(f) PROVE TypeOK'
  <2>1. [rec[f] EXCEPT !.stop = TRUE] \in FiberRecord
    BY <1>1 DEF FiberRecord
  <2>2. rec' = [rec EXCEPT ![f] = [rec[f] EXCEPT !.stop = TRUE]]
    BY <1>9 DEF Cancel
  <2> QED BY <1>9, <2>1, <2>2, RecType DEF Cancel, TypeOK
<1>10. ASSUME ApplyPublishes(f) PROVE TypeOK'
  <2> DEFINE keys == Provides[rec[f].comp]
  <2>1. bindings' \in [Scopes -> [Keys -> Binding]]
    BY <1>10, BindingsType DEF ApplyPublishes
  <2>2. [rec[f] EXCEPT !.state = "active", !.applying = FALSE] \in FiberRecord
    BY <1>1 DEF FiberRecord, State
  <2>3. \A g \in Id : [rec[g] EXCEPT !.consumers = rec[g].consumers \cup {f}] \in FiberRecord
    <3> SUFFICES ASSUME NEW g \in Id
                 PROVE  [rec[g] EXCEPT !.consumers = rec[g].consumers \cup {f}] \in FiberRecord
      OBVIOUS
    <3>1. rec[g] \in FiberRecord
      BY DEF TypeOK
    <3> QED BY <3>1 DEF FiberRecord
  <2>4. rec' \in [Id -> FiberRecord]
    BY <1>10, <2>2, <2>3 DEF ApplyPublishes, TypeOK
  <2>5. Loop("notify", f, Notified(f, keys)) \in Frame /\ Call("finished", f) \in Frame
    BY LoopType, FrameType DEF Op
  <2> QED BY <1>10, <2>1, <2>4, <2>5 DEF ApplyPublishes, TypeOK
<1>11. ASSUME NEW raised \in BOOLEAN, ApplyFails(f, raised) PROVE TypeOK'
  <2> DEFINE r == [rec[f] EXCEPT
                    !.state = "inactive", !.committed = NothingCommitted,
                    !.applying = FALSE, !.apply_failed = rec[f].apply_failed \/ raised,
                    !.done = TRUE, !.waiters = {},
                    !.kids = {}, !.request = Orphaned(rec[f].request)]
  <2>1. NothingCommitted \in [Keys -> 0..MaxFiber]
    BY BoundAssumption DEF NothingCommitted
  <2>2. r \in FiberRecord
    <3>1. Orphaned(rec[f].request) \in Request
      BY <1>1 DEF FiberRecord, Orphaned, Request
    <3>2. rec[f].apply_failed \/ raised \in BOOLEAN
      OBVIOUS
    <3> QED  BY <1>1, <2>1, <3>1, <3>2, ZenonT(60) DEF FiberRecord, State
  <2>3. rec' = [rec EXCEPT ![f] = r]
    BY <1>11 DEF ApplyFails
  <2>4. bindings' \in [Scopes -> [Keys -> Binding]]
    BY <1>11, BindingsType DEF ApplyFails
  <2>5. posted' \subseteq Id
    BY <1>1, <1>11 DEF ApplyFails, ChildrenPosted, FiberRecord, TypeOK
  <2>6. /\ host' \in [Hosts -> {"free", "retire", "wait_idle"}]
        /\ fibers' \subseteq Id
    BY <1>11 DEF ApplyFails, OpenGate, Erased, TypeOK
  <2>7. Call("evaluate", f) \in Frame /\ Call("finished", f) \in Frame
    BY FrameType DEF Op
  <2>8. calls' \in Seq(Frame)
    BY <1>11, <2>7 DEF ApplyFails
  <2> HIDE DEF r
  <2>9. rec' \in [Id -> FiberRecord]
    BY <2>2, <2>3, RecType
  <2> QED BY <1>11, <2>4, <2>5, <2>6, <2>8, <2>9 DEF ApplyFails, TypeOK
<1> DEFINE retired == [rec[f] EXCEPT !.reactivate = -1]
           unload == BeginUnload(f, FALSE)
<1>12. retired \in FiberRecord
  BY <1>1 DEF FiberRecord
<1>13. unload \in Frame /\ \A w \in Waiter : Await(f, w) \in Frame
  BY FrameType
<1>14. ASSUME NEW h \in Hosts, Retire(h, f) PROVE TypeOK'
  <2>1. CASE rec[f].state = "inactive"
    BY <1>14, <2>1 DEF Retire, Erased, TypeOK
  <2>2. CASE rec[f].state # "inactive"
    <3>1. rec' = [rec EXCEPT ![f] = retired]
      BY <1>14, <2>2 DEF Retire
    <3>2. calls' = <<unload, Await(f, h)>>
      BY <1>14, <2>2 DEF Retire
    <3> HIDE DEF unload, retired
    <3>3. calls' \in Seq(Frame)
      BY <1>13, <3>2 DEF Waiter
    <3> QED BY <1>12, <1>14, <2>2, <3>1, <3>3, RecType DEF Retire, TypeOK
  <2> QED BY <2>1, <2>2
<1>15. ASSUME RetireChild(f) PROVE TypeOK'
  <2>1. CASE f \notin fibers
    BY <1>15, <2>1 DEF RetireChild, TypeOK
  <2>2. CASE f \in fibers
    <3>1. rec' = [rec EXCEPT ![f] = retired]
      BY <1>15, <2>2 DEF RetireChild
    <3>2. calls' = <<unload, Await(f, "parent")>>
      BY <1>15, <2>2 DEF RetireChild
    <3> HIDE DEF unload, retired
    <3>3. calls' \in Seq(Frame)
      BY <1>13, <3>2 DEF Waiter
    <3> QED BY <1>12, <1>15, <2>2, <3>1, <3>3, RecType DEF RetireChild, TypeOK
  <2> QED BY <2>1, <2>2
<1>16. ASSUME NEW h \in Hosts, WaitIdle(h) PROVE TypeOK'
  BY <1>16 DEF WaitIdle, TypeOK
<1> QED
  BY <1>3, <1>5, <1>6, <1>7, <1>8, <1>9, <1>10, <1>11, <1>14, <1>15, <1>16
     DEF Handler, ApplyCompletes

----------------------------------------------------------------------------
(* The retired mark *)

(* What a step may do to the record of a fiber that is not being mounted.  *)
KeepsRecord(g) ==
    /\ rec'[g].comp = rec[g].comp
    /\ rec'[g].request # "none" =>
            rec[g].request # "none" \/ (g \in fibers /\ Child[rec[g].comp] # NoComp)
    /\ rec[g].reactivate = -1 => rec'[g].reactivate = -1
    /\ rec[g].reactivate = -1 /\ rec'[g].state \in {"loading", "active"}
            => rec'[g].state = rec[g].state

(* The cascade never marks a fiber retired, never takes the mark away, and *)
(* moves no retired fiber to loading or active; begin_unload leaves its    *)
(* fiber in neither.                                                       *)
LEMMA CascadeKeepsRecords ==
    ASSUME TypeOK, Cascade
    PROVE  /\ fibers' \subseteq fibers /\ next_id' = next_id
           /\ \A g \in Id : /\ KeepsRecord(g)
                            /\ rec'[g].reactivate = -1 => rec[g].reactivate = -1
           /\ Running("begin_unload") => rec'[Top.f].state \notin {"loading", "active"}
<1> USE DEF Running
<1> DEFINE f == Top.f
           Keeps(p, r) == /\ r.comp = rec[p].comp
                          /\ r.request # "none" => rec[p].request # "none"
                          /\ rec[p].reactivate = -1 <=> r.reactivate = -1
                          /\ rec[p].reactivate = -1 /\ r.state \in {"loading", "active"}
                                => r.state = rec[p].state
           Goal == /\ fibers' \subseteq fibers /\ next_id' = next_id
                   /\ \A g \in Id : /\ KeepsRecord(g)
                                    /\ rec'[g].reactivate = -1 => rec[g].reactivate = -1
                   /\ calls # <<>> /\ Head(calls).op = "begin_unload"
                        => rec'[Top.f].state \notin {"loading", "active"}
<1>1. calls # <<>>
  BY DEF Cascade, EvaluateKeeps, EvaluateUnloads, StartLoading, StartLoadingNull,
         StartLoadingThrows, BeginUnloadKeeps, BeginUnloadActive, CascadeNext, CascadeDone,
         FinishKeeps, Finish, ReleaseNext, ReleaseDone, NotifyNext, NotifyDone, FinishTail,
         TransitionFinished, AwaitGate
<1>2. f \in Id
  BY <1>1, TopType
<1>3. rec[f] \in FiberRecord /\ rec[f].reactivate \in {-1, 0, 1} /\ rec[f].state \in State
  BY <1>2 DEF TypeOK, FiberRecord
<1>4. (* one record is replaced *)
      ASSUME NEW p \in Id, NEW r, Keeps(p, r), rec' = [rec EXCEPT ![p] = r],
             fibers' \subseteq fibers, next_id' = next_id,
             Head(calls).op = "begin_unload" => p = f /\ r.state \notin {"loading", "active"}
      PROVE  Goal
  BY <1>2, <1>4 DEF KeepsRecord, TypeOK
<1>5. (* none is *)
      ASSUME rec' = rec, fibers' \subseteq fibers, next_id' = next_id,
             Head(calls).op # "begin_unload"
      PROVE  Goal
  BY <1>5 DEF KeepsRecord
<1>6. CASE EvaluateKeeps \/ EvaluateUnloads \/ CascadeNext \/ FinishKeeps \/ NotifyNext
           \/ NotifyDone \/ TransitionFinished
  BY <1>5, <1>6 DEF EvaluateKeeps, EvaluateUnloads, CascadeNext, FinishKeeps, NotifyNext,
                    NotifyDone, TransitionFinished
<1>7. CASE StartLoading
  <2> DEFINE r == [rec[f] EXCEPT !.state = "loading", !.committed = Resolve(f),
                                 !.apply_failed = FALSE, !.stop = FALSE, !.applying = TRUE]
  <2>1. rec[f].reactivate # -1
    BY <1>3, <1>7 DEF StartLoading, Loadable
  <2>2. Keeps(f, r)
    BY <1>3, <2>1 DEF FiberRecord
  <2>3. rec' = [rec EXCEPT ![f] = r]
    BY <1>7 DEF StartLoading
  <2> HIDE DEF r, Keeps
  <2> QED BY <1>2, <1>4, <1>7, <2>2, <2>3 DEF StartLoading
<1>8. CASE StartLoadingNull
  <2> DEFINE r == [rec[f] EXCEPT !.stop = FALSE]
  <2>1. Keeps(f, r)
    BY <1>3 DEF FiberRecord
  <2>2. rec' = [rec EXCEPT ![f] = r]
    BY <1>8 DEF StartLoadingNull
  <2> HIDE DEF r, Keeps
  <2> QED BY <1>2, <1>4, <1>8, <2>1, <2>2 DEF StartLoadingNull
<1>9. CASE StartLoadingThrows
  <2> DEFINE r == [rec[f] EXCEPT !.state = "loading", !.stop = FALSE, !.committed = Resolve(f)]
  <2>0. rec[f].reactivate # -1
    BY <1>3, <1>9 DEF StartLoadingThrows, Loadable
  <2>1. Keeps(f, r)
    BY <1>3, <2>0 DEF FiberRecord
  <2>2. rec' = [rec EXCEPT ![f] = r]
    BY <1>9 DEF StartLoadingThrows
  <2> HIDE DEF r, Keeps
  <2> QED BY <1>2, <1>4, <1>9, <2>1, <2>2 DEF StartLoadingThrows
<1>10. Reactivation(f, Top.flag) \in {-1, 0, 1}
       /\ (rec[f].reactivate = -1 <=> Reactivation(f, Top.flag) = -1)
  BY <1>3 DEF Reactivation
<1>11. CASE BeginUnloadKeeps
  <2> DEFINE r == [rec[f] EXCEPT
                    !.reactivate = Reactivation(f, Top.flag),
                    !.state = IF rec[f].state = "loading" THEN "unloading" ELSE rec[f].state,
                    !.done = IF rec[f].state = "loading" THEN FALSE ELSE rec[f].done,
                    !.stop = IF rec[f].state = "loading" THEN TRUE ELSE rec[f].stop]
  <2>1. Keeps(f, r)
    BY <1>3, <1>10 DEF FiberRecord
  <2>2. r.state \notin {"loading", "active"}
    BY <1>3, <1>11 DEF FiberRecord, BeginUnloadKeeps
  <2>3. rec' = [rec EXCEPT ![f] = r]
    BY <1>11 DEF BeginUnloadKeeps
  <2> HIDE DEF r, Keeps
  <2> QED BY <1>2, <1>4, <1>11, <2>1, <2>2, <2>3 DEF BeginUnloadKeeps
<1>12. CASE BeginUnloadActive
  <2> DEFINE installed == {c \in rec[f].consumers \cap fibers : rec[c].state # "inactive"}
             r == [rec[f] EXCEPT !.reactivate = Reactivation(f, Top.flag),
                                 !.state = "unloading", !.done = FALSE,
                                 !.remaining = Cardinality(installed)]
  <2>1. Keeps(f, r)
    BY <1>3, <1>10 DEF FiberRecord
  <2>2. r.state \notin {"loading", "active"}
    BY <1>3 DEF FiberRecord
  <2>3. rec' = [rec EXCEPT ![f] = r]
    BY <1>12 DEF BeginUnloadActive
  <2> HIDE DEF r, Keeps
  <2> QED BY <1>2, <1>4, <1>12, <2>1, <2>2, <2>3 DEF BeginUnloadActive
<1>13. CASE CascadeDone
  <2> DEFINE r == [rec[f] EXCEPT !.stop = TRUE]
  <2>1. Keeps(f, r)
    BY <1>3 DEF FiberRecord
  <2>2. rec' = [rec EXCEPT ![f] = r]
    BY <1>13 DEF CascadeDone
  <2> HIDE DEF r, Keeps
  <2> QED BY <1>2, <1>4, <1>13, <2>1, <2>2 DEF CascadeDone
<1>14. CASE Finish
  <2> DEFINE r == [rec[f] EXCEPT !.state = "inactive", !.committed = NothingCommitted,
                                 !.kids = {}, !.request = Orphaned(rec[f].request)]
  <2>1. Keeps(f, r)
    BY <1>3 DEF FiberRecord, Orphaned
  <2>2. rec' = [rec EXCEPT ![f] = r]
    BY <1>14 DEF Finish
  <2> HIDE DEF r, Keeps
  <2> QED BY <1>2, <1>4, <1>14, <2>1, <2>2 DEF Finish
<1>15. CASE ReleaseNext
  <2> DEFINE p == First(Top.todo)[2]
             r == [rec[p] EXCEPT !.consumers = rec[p].consumers \ {f},
                                 !.remaining = CountedOff(p)]
  <2>1. CASE p \in fibers
    <3>1. p \in Id /\ rec[p] \in FiberRecord
      BY <2>1 DEF TypeOK
    <3>2. Keeps(p, r)
      BY <3>1 DEF FiberRecord
    <3>3. rec' = [rec EXCEPT ![p] = r]
      BY <1>15, <2>1 DEF ReleaseNext
    <3> HIDE DEF r, Keeps, p
    <3> QED BY <1>4, <1>15, <3>1, <3>2, <3>3 DEF ReleaseNext
  <2>2. CASE p \notin fibers
    BY <1>5, <1>15, <2>2 DEF ReleaseNext
  <2> QED BY <2>1, <2>2
<1>16. CASE ReleaseDone
  <2> DEFINE r == [rec[f] EXCEPT !.done = TRUE, !.waiters = {}]
  <2>1. Keeps(f, r)
    BY <1>3 DEF FiberRecord
  <2>2. rec' = [rec EXCEPT ![f] = r]
    BY <1>16 DEF ReleaseDone
  <2> HIDE DEF r, Keeps
  <2> QED BY <1>2, <1>4, <1>16, <2>1, <2>2 DEF ReleaseDone, OpenGate, Erased
<1>17. CASE FinishTail
  <2> DEFINE r == [rec[f] EXCEPT !.reactivate = IF rec[f].reactivate > 0 THEN 0
                                                ELSE rec[f].reactivate]
  <2>1. Keeps(f, r)
    BY <1>3 DEF FiberRecord
  <2>2. rec' = [rec EXCEPT ![f] = r]
    BY <1>17 DEF FinishTail
  <2> HIDE DEF r, Keeps
  <2> QED BY <1>2, <1>4, <1>17, <2>1, <2>2 DEF FinishTail
<1>18. CASE AwaitGate
  <2> DEFINE r == [rec[f] EXCEPT !.waiters = rec[f].waiters \cup {Top.who}]
  <2>1. Keeps(f, r)
    BY <1>3 DEF FiberRecord
  <2>2. rec' = rec \/ rec' = [rec EXCEPT ![f] = r]
    BY <1>18 DEF AwaitGate
  <2>3. fibers' \subseteq fibers /\ next_id' = next_id /\ Head(calls).op # "begin_unload"
    BY <1>18 DEF AwaitGate, Erased
  <2> HIDE DEF r, Keeps
  <2> QED BY <1>2, <1>4, <1>5, <2>1, <2>2, <2>3
<1> QED
  BY <1>6, <1>7, <1>8, <1>9, <1>11, <1>12, <1>13, <1>14, <1>15, <1>16, <1>17, <1>18 DEF Cascade

(* Nor does a handler, but for retire() and retire_child, whose next step  *)
(* is begin_unload; publish() finds no retired fiber loading.              *)
LEMMA HandlerKeepsRecords ==
    ASSUME TypeOK, RetireUnderway, NEW f \in Id, Handler(f)
    PROVE  /\ fibers' \subseteq fibers /\ next_id' = next_id /\ ~Running("begin_unload")
           /\ \A g \in Id : /\ KeepsRecord(g)
                            /\ rec'[g].reactivate = -1 =>
                                    \/ rec[g].reactivate = -1
                                    \/ Running("begin_unload")' /\ Top'.f = g
<1> DEFINE Keeps(r) == /\ r.comp = rec[f].comp
                       /\ r.request # "none" => \/ rec[f].request # "none"
                                                \/ f \in fibers /\ Child[rec[f].comp] # NoComp
                       /\ rec[f].reactivate = -1 => r.reactivate = -1
                       /\ rec[f].reactivate = -1 /\ r.state \in {"loading", "active"}
                                => r.state = rec[f].state
                       /\ r.reactivate = -1 => rec[f].reactivate = -1
           Goal == /\ fibers' \subseteq fibers /\ next_id' = next_id
                   /\ \A g \in Id : /\ KeepsRecord(g)
                                    /\ rec'[g].reactivate = -1 =>
                                            \/ rec[g].reactivate = -1
                                            \/ Running("begin_unload")' /\ Top'.f = g
<1>1. rec[f] \in FiberRecord
  BY DEF TypeOK
<1>2. calls = <<>>
  BY DEF Handler, ApplyCompletes, StrandFree, RequestChild, RetireChild, Cancel, ApplyPublishes, ApplyFails, Provide,
         ProvideLate, ReleaseEarly, Promote, Retire, WaitIdle
<1>3. ~Running("begin_unload")
  BY <1>2 DEF Running
<1>4. (* one record is replaced *)
      ASSUME NEW r, Keeps(r), rec' = [rec EXCEPT ![f] = r],
             fibers' \subseteq fibers, next_id' = next_id
      PROVE  Goal
  BY <1>4 DEF KeepsRecord, TypeOK
<1>5. (* none is *)
      ASSUME rec' = rec, fibers' \subseteq fibers, next_id' = next_id
      PROVE  Goal
  BY <1>5 DEF KeepsRecord
<1>6. CASE \/ \E k \in Keys : Provide(f, k) \/ ProvideLate(f, k) \/ ReleaseEarly(f, k) \/ Promote(f, k)
           \/ \E h \in Hosts : WaitIdle(h)
  BY <1>3, <1>5, <1>6 DEF Provide, ProvideLate, ReleaseEarly, Promote, WaitIdle
<1>7. CASE RequestChild(f)
  <2>1. f \in fibers /\ Child[rec[f].comp] # NoComp
    BY <1>7 DEF RequestChild
  <2>2. \A q \in Request : Keeps([rec[f] EXCEPT !.request = q])
    BY <1>1, <2>1 DEF FiberRecord
  <2>3. \E q \in Request : rec' = [rec EXCEPT ![f] = [rec[f] EXCEPT !.request = q]]
    BY <1>7 DEF RequestChild, Request
  <2> HIDE DEF Keeps
  <2> QED BY <1>3, <1>4, <1>7, <2>2, <2>3 DEF RequestChild
<1>8. CASE Cancel(f)
  <2> DEFINE r == [rec[f] EXCEPT !.stop = TRUE]
  <2>1. Keeps(r)
    BY <1>1 DEF FiberRecord
  <2>2. rec' = [rec EXCEPT ![f] = r]
    BY <1>8 DEF Cancel
  <2> HIDE DEF r, Keeps
  <2> QED BY <1>3, <1>4, <1>8, <2>1, <2>2 DEF Cancel
<1>9. CASE ApplyPublishes(f)
  <2>1. rec[f].reactivate # -1
    BY <1>3, <1>9 DEF ApplyPublishes, RetireUnderway
  <2> DEFINE published == [rec[f] EXCEPT !.state = "active", !.applying = FALSE]
             provider(g) == [rec[g] EXCEPT !.consumers = rec[g].consumers \cup {f}]
  <2>2. \A g \in Id : rec'[g] \in {rec[g], provider(g)} \/ (g = f /\ rec'[g] = published)
    BY <1>9 DEF ApplyPublishes
  <2>3. ASSUME NEW g \in Id, rec'[g] = provider(g) PROVE KeepsRecord(g) /\ rec'[g].reactivate = rec[g].reactivate
    <3>1. rec[g] \in FiberRecord
      BY DEF TypeOK
    <3>2. /\ rec'[g].comp = rec[g].comp /\ rec'[g].request = rec[g].request
          /\ rec'[g].state = rec[g].state /\ rec'[g].reactivate = rec[g].reactivate
      BY <2>3, <3>1 DEF FiberRecord
    <3> QED BY <3>2 DEF KeepsRecord
  <2>4. ASSUME rec'[f] = published PROVE KeepsRecord(f) /\ rec'[f].reactivate = rec[f].reactivate
    <3>1. /\ rec'[f].comp = rec[f].comp /\ rec'[f].request = rec[f].request
          /\ rec'[f].reactivate = rec[f].reactivate
      BY <1>1, <2>4 DEF FiberRecord
    <3> QED BY <2>1, <3>1 DEF KeepsRecord
  <2>5. ASSUME NEW g \in Id, rec'[g] = rec[g] PROVE KeepsRecord(g)
    BY <2>5 DEF KeepsRecord
  <2> HIDE DEF published, provider
  <2> QED BY <1>3, <1>9, <2>2, <2>3, <2>4, <2>5 DEF ApplyPublishes
<1>10. ASSUME NEW raised \in BOOLEAN, ApplyFails(f, raised) PROVE ~Running("begin_unload") /\ Goal
  <2> DEFINE r == [rec[f] EXCEPT
                    !.state = "inactive", !.committed = NothingCommitted,
                    !.applying = FALSE, !.apply_failed = rec[f].apply_failed \/ raised,
                    !.done = TRUE, !.waiters = {},
                    !.kids = {}, !.request = Orphaned(rec[f].request)]
  <2>1. Keeps(r)
    BY <1>1 DEF FiberRecord, Orphaned
  <2>2. rec' = [rec EXCEPT ![f] = r]
    BY <1>10 DEF ApplyFails
  <2>3. fibers' \subseteq fibers /\ next_id' = next_id
    BY <1>10 DEF ApplyFails, OpenGate, Erased
  <2> HIDE DEF r, Keeps
  <2> QED BY <1>3, <1>4, <2>1, <2>2, <2>3
<1>11. (* the fiber is marked and begin_unload called *)
       ASSUME rec' = [rec EXCEPT ![f].reactivate = -1], fibers' = fibers, next_id' = next_id,
              NEW w, calls' = <<BeginUnload(f, FALSE), Await(f, w)>>
       PROVE  Goal
  <2> DEFINE r == [rec[f] EXCEPT !.reactivate = -1]
  <2>1. /\ r.comp = rec[f].comp /\ r.request = rec[f].request
        /\ r.state = rec[f].state /\ r.reactivate = -1
    BY <1>1 DEF FiberRecord
  <2>2. rec' = [rec EXCEPT ![f] = r]
    BY <1>11
  <2>3. Running("begin_unload")' /\ Top'.f = f
    BY <1>11 DEF Running, Top, BeginUnload, Call
  <2> HIDE DEF r
  <2> QED BY <1>11, <2>1, <2>2, <2>3 DEF KeepsRecord, TypeOK
<1>12. ASSUME NEW h \in Hosts, Retire(h, f) PROVE ~Running("begin_unload") /\ Goal
  <2>1. CASE rec[f].state = "inactive"
    BY <1>3, <1>5, <1>12, <2>1 DEF Retire, Erased
  <2>2. CASE rec[f].state # "inactive"
    <3> HIDE DEF Goal
    <3>1. Goal
      BY <1>11, <1>12, <2>2 DEF Retire
    <3> QED BY <1>3, <3>1 DEF Goal
  <2> QED BY <2>1, <2>2
<1>13. CASE RetireChild(f)
  <2>1. CASE f \notin fibers
    BY <1>3, <1>5, <1>13, <2>1 DEF RetireChild
  <2>2. CASE f \in fibers
    <3> HIDE DEF Goal
    <3>1. Goal
      BY <1>11, <1>13, <2>2 DEF RetireChild
    <3> QED BY <1>3, <3>1 DEF Goal
  <2> QED BY <2>1, <2>2
<1> QED
  BY <1>6, <1>7, <1>8, <1>9, <1>10, <1>12, <1>13 DEF Handler, ApplyCompletes
----------------------------------------------------------------------------
(* The theorems *)

(* Nothing is mounted, nothing is retired.                                 *)
LEMMA Initially == Init => IInv
<1> SUFFICES ASSUME Init PROVE IInv
  OBVIOUS
<1>1. NoComp \in Comp \cup {NoComp} /\ {} \in SUBSET Scopes /\ 0 \in 0..MaxFiber
  BY BoundAssumption
<1>2. NoFiber \in FiberRecord
  BY <1>1, NewFiberType DEF NoFiber
<1>3. Unbound \in Binding
  BY BoundAssumption DEF Unbound, Binding
<1>4. TypeOK
  BY <1>2, <1>3, BoundAssumption DEF Init, TypeOK
<1>5. NoFiber.request = "none" /\ NoFiber.reactivate = 0
  BY DEF NoFiber, NewFiber
<1>6. Mounted /\ RetireUnderway /\ IdsHandedOut
  BY <1>5 DEF Init, Mounted, RetireUnderway, IdsHandedOut
<1> QED BY <1>4, <1>6 DEF IInv

(* A mount is the one handler that starts a record.                        *)
LEMMA MountKeepsInv ==
    ASSUME IInv, NEW n, n = next_id, n \in Id,
           NEW r, r.comp \in Comp, r.request = "none", r.reactivate = 0,
           rec'[n] = r,
           \A g \in Id \ {n} : /\ rec'[g].comp = rec[g].comp
                              /\ rec'[g].request \in {"none", rec[g].request}
                              /\ rec'[g].reactivate = rec[g].reactivate
                              /\ rec'[g].state = rec[g].state,
           StrandFree, Install
    PROVE  /\ Mounted' /\ RetireUnderway' /\ IdsHandedOut'
           /\ \A g \in fibers : StaysRetired(g)
<1>1. ASSUME NEW g \in fibers PROVE g # n /\ g \in Id
  <2>1. g < n
    BY DEF IInv, IdsHandedOut
  <2>2. g \in Id
    BY DEF IInv, TypeOK
  <2> QED BY <2>1, <2>2, BoundAssumption DEF Id
<1>2. Mounted'
  <2>1. ASSUME NEW g \in Id, g # n
        PROVE  /\ g \in fibers' => rec'[g].comp \in Comp
               /\ rec'[g].request # "none" =>
                      rec'[g].comp \in Comp /\ Child[rec'[g].comp] \in Comp
    BY <2>1 DEF IInv, Mounted, Install
  <2>2. /\ n \in fibers' => rec'[n].comp \in Comp
        /\ rec'[n].request = "none"
    OBVIOUS
  <2> QED BY <2>1, <2>2 DEF Mounted
<1>3. RetireUnderway'
  <2>1. ASSUME NEW g \in Id
        PROVE  ~(rec'[g].reactivate = -1 /\ rec'[g].state \in {"loading", "active"})
    <3>1. ~(rec[g].reactivate = -1 /\ rec[g].state \in {"loading", "active"})
      BY DEF IInv, RetireUnderway, Running, StrandFree
    <3>2. CASE g = n
      BY <3>2
    <3>3. CASE g # n
      BY <3>1, <3>3
    <3> QED BY <3>2, <3>3
  <2> QED BY <2>1 DEF RetireUnderway
<1>4. IdsHandedOut'
  <2>1. fibers' = fibers \cup {n} /\ next_id' = n + 1 /\ n \in Int
    BY BoundAssumption DEF Install, Id
  <2>2. \A g \in fibers : g < n /\ g \in Int
    BY BoundAssumption DEF IInv, IdsHandedOut, TypeOK, Id
  <2> QED BY <2>1, <2>2 DEF IdsHandedOut
<1> QED BY <1>1, <1>2, <1>3, <1>4 DEF StaysRetired

(* A step that mounts nothing keeps the invariant, and the retired mark.   *)
LEMMA StepKeepsInv ==
    ASSUME IInv, TypeOK', fibers' \subseteq fibers, next_id' = next_id,
           \A g \in Id :
               /\ KeepsRecord(g)
               /\ rec'[g].reactivate = -1 =>
                       \/ /\ rec[g].reactivate = -1
                          /\ Running("begin_unload") /\ Top.f = g
                               => rec'[g].state \notin {"loading", "active"}
                       \/ Running("begin_unload")' /\ Top'.f = g
    PROVE  IInv' /\ \A g \in fibers : StaysRetired(g)
<1>1. Mounted'
  BY ComponentAssumption DEF IInv, Mounted, KeepsRecord
<1>2. RetireUnderway'
  BY DEF IInv, RetireUnderway, KeepsRecord, Running, Top
<1>3. IdsHandedOut'
  BY DEF IInv, IdsHandedOut
<1>4. \A g \in fibers : StaysRetired(g)
  BY DEF IInv, TypeOK, KeepsRecord, StaysRetired
<1> QED BY <1>1, <1>2, <1>3, <1>4 DEF IInv

(* Every step of the engine keeps the invariant and every retired mark.    *)
LEMMA NextKeepsInv ==
    ASSUME IInv, Next
    PROVE  IInv' /\ \A g \in fibers : StaysRetired(g)
<1> DEFINE Goal == IInv' /\ \A g \in fibers : StaysRetired(g)
<1>1. TypeOK /\ Mounted /\ RetireUnderway
  BY DEF IInv
<1>2. CASE Cascade
  BY <1>1, <1>2, CascadeKeepsType, CascadeKeepsRecords, StepKeepsInv
<1>3. ASSUME NEW c \in Roots, Mount(c) PROVE Goal
  <2> DEFINE r == NewFiber(c, {0}, 0)
  <2>1. TypeOK' /\ next_id \in Id
    BY <1>1, <1>3, MountKeepsType, IdLeftType DEF Mount
  <2>2. r.comp \in Comp /\ r.request = "none" /\ r.reactivate = 0
    BY ComponentAssumption DEF NewFiber
  <2>3. rec' = [rec EXCEPT ![next_id] = r]
    BY <1>3 DEF Mount
  <2> HIDE DEF r
  <2>4. /\ rec'[next_id] = r
        /\ \A g \in Id \ {next_id} : rec'[g] = rec[g]
    BY <1>1, <2>1, <2>3 DEF TypeOK
  <2>5. StrandFree /\ Install
    BY <1>3 DEF Mount
  <2>6. /\ Mounted' /\ RetireUnderway' /\ IdsHandedOut'
        /\ \A g \in fibers : StaysRetired(g)
    BY <2>1, <2>2, <2>4, <2>5, MountKeepsInv
  <2> QED BY <2>1, <2>6 DEF IInv
<1>4. ASSUME NEW f \in Id, MountChild(f) PROVE Goal
  <2> DEFINE r == NewFiber(Child[rec[f].comp], rec[f].chain \cup {next_id}, f)
             kids == IF rec[f].request # "orphan" THEN rec[f].kids \cup {next_id} ELSE rec[f].kids
             parent == [rec[f] EXCEPT !.request = "none", !.kids = kids]
  <2>1. TypeOK' /\ next_id \in Id
    BY <1>1, <1>4, MountKeepsType DEF MountChild
  <2>2. r.comp \in Comp /\ r.request = "none" /\ r.reactivate = 0
    BY <1>1, <1>4 DEF NewFiber, Mounted, MountChild
  <2>3. rec' = [g \in Id |-> IF g = next_id THEN r ELSE IF g # f THEN rec[g] ELSE parent]
    BY <1>4 DEF MountChild
  <2>4. /\ parent.comp = rec[f].comp /\ parent.request = "none"
        /\ parent.reactivate = rec[f].reactivate /\ parent.state = rec[f].state
    <3>1. rec[f] \in FiberRecord
      BY <1>1 DEF TypeOK
    <3> QED BY <3>1 DEF FiberRecord
  <2> HIDE DEF r, parent
  <2>5. /\ rec'[next_id] = r
        /\ \A g \in Id \ {next_id} :
             /\ rec'[g].comp = rec[g].comp /\ rec'[g].request \in {"none", rec[g].request}
             /\ rec'[g].reactivate = rec[g].reactivate /\ rec'[g].state = rec[g].state
    BY <2>1, <2>3, <2>4
  <2>6. StrandFree /\ Install
    BY <1>4 DEF MountChild
  <2>7. /\ Mounted' /\ RetireUnderway' /\ IdsHandedOut'
        /\ \A g \in fibers : StaysRetired(g)
    BY <2>1, <2>2, <2>5, <2>6, MountKeepsInv
  <2> QED BY <2>1, <2>7 DEF IInv
<1>5. ASSUME NEW f \in Id, Handler(f) PROVE Goal
  BY <1>1, <1>5, HandlerKeepsType, HandlerKeepsRecords, StepKeepsInv
<1> HIDE DEF Goal
<1>6. CASE \E h \in Hosts : WaitIdle(h)
  <2>1. 1 \in Id
    BY BoundAssumption DEF Id
  <2>2. Handler(1)
    BY <1>6 DEF Handler
  <2> QED BY <1>5, <2>1, <2>2 DEF Goal
<1> QED BY <1>2, <1>3, <1>4, <1>5, <1>6 DEF Next, Handler, Goal

(* So does a step of anything else.                                        *)
LEMMA StutterKeepsInv ==
    ASSUME IInv, UNCHANGED vars PROVE IInv' /\ \A g \in fibers : StaysRetired(g)
BY DEF vars, IInv, TypeOK, Mounted, RetireUnderway, IdsHandedOut, Running, Top, StaysRetired

(* The inductive invariant holds of every reachable state of the engine,   *)
(* whatever components it is given.                                        *)
THEOREM Invariance == Spec => []IInv
<1>1. IInv /\ [Next]_vars => IInv'
  BY NextKeepsInv, StutterKeepsInv
<1> QED BY Initially, <1>1, PTL DEF Spec

(* Every record, binding and frame keeps its shape: counters stay natural, *)
(* committed views name fibers or nothing, frames name fibers.             *)
THEOREM TypeCorrect == Spec => []TypeOK
<1>1. IInv => TypeOK
  BY DEF IInv
<1> QED BY Invariance, <1>1, PTL

(* retire() is final: no cascade, completion or remount brings a retired   *)
(* fiber back (runtime.cpp evaluate, begin_unload, publish).               *)
THEOREM RetirementSticky == Spec => RetiredStays
<1>1. IInv /\ [Next]_vars => [\A f \in fibers : StaysRetired(f)]_vars
  BY NextKeepsInv, StutterKeepsInv
<1> QED BY Invariance, <1>1, PTL DEF Spec, RetiredStays
=============================================================================
