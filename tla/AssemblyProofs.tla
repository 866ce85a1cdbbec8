---------------------------- MODULE AssemblyProofs ----------------------------
(***************************************************************************)
(* What the engine guarantees a static assembly of components: providers   *)
(* are withdrawn after their consumers, nothing is left behind, no frame   *)
(* dangles, and every fiber ends at the view it would resolve.             *)
(*                                                                         *)
(* The invariant describes every stack of frames the cascade can build.    *)
(* It speaks of the stack from the bottom, where a frame keeps its place   *)
(* while others come and go above it.                                      *)
(***************************************************************************)
EXTENDS RuntimeProofs

(* A static assembly: components that mount no children, need all they     *)
(* declare, find one source for each key, provide it until they are torn   *)
(* down, and take at most one service from each other.  Any of them may    *)
(* fail, be cancelled, be unavailable, or come from a factory that returns *)
(* null; the graph of their needs may be any, even cyclic.                 *)
StaticAssembly ==
    /\ SingleSource /\ Releaser = {}
    /\ \A c \in Comp : /\ Child[c] = NoComp
                       /\ Required[c] = Inject[c]
                       /\ Factory[c] # "throws"
    /\ \A c, p \in Comp : \A j, k \in Inject[c] \cap Provides[p] : j = k

----------------------------------------------------------------------------
(* The stack, from the bottom *)

height == Len(calls)
stack == [d \in 1..Len(calls) |-> calls[Len(calls) + 1 - d]]

(* The top of the stack.                                                   *)
LEMMA TopFrame ==
    ASSUME TypeOK, calls # <<>>
    PROVE  /\ height \in Nat \ {0} /\ Top = stack[height]
           /\ \A d \in 1..height : stack[d] \in Frame
           /\ Top.f \in Id /\ Top.todo \in SUBSET (Nat \X Id)
<1>1. calls \in Seq(Frame) /\ Len(calls) \in Nat /\ Len(calls) # 0
  BY DEF TypeOK
<1>2. stack[Len(calls)] = calls[1]
  BY <1>1 DEF stack
<1>3. Head(calls) = calls[1]
  BY <1>1
<1>4. ASSUME NEW d \in 1..Len(calls) PROVE stack[d] \in Frame
  <2>1. Len(calls) + 1 - d \in 1..Len(calls)
    BY <1>1
  <2> QED BY <1>1, <2>1 DEF stack
<1> QED BY <1>1, <1>2, <1>3, <1>4, TopType DEF height, Top

(* A frame replaced by others, or popped, disturbs none below it.          *)
LEMMA Returned ==
    ASSUME TypeOK, calls # <<>>, Return
    PROVE  /\ height' = height - 1
           /\ \A d \in 1..(height - 1) : stack'[d] = stack[d]
<1>1. calls \in Seq(Frame) /\ Len(calls) \in Nat /\ Len(calls) # 0
  BY DEF TypeOK
<1>2. calls' = Tail(calls) /\ Len(calls') = Len(calls) - 1
  BY <1>1 DEF Return
<1>3. ASSUME NEW d \in 1..(Len(calls) - 1) PROVE stack'[d] = stack[d]
  <2>1. stack'[d] = calls'[Len(calls) - d]
    BY <1>1, <1>2 DEF stack
  <2>2. calls'[Len(calls) - d] = calls[Len(calls) + 1 - d]
    BY <1>1, <1>2
  <2>3. stack[d] = calls[Len(calls) + 1 - d]
    BY <1>1 DEF stack
  <2> QED BY <2>1, <2>2, <2>3
<1> QED BY <1>2, <1>3 DEF height

LEMMA Replaced ==
    ASSUME TypeOK, calls # <<>>, NEW a \in Frame, Become(<<a>>)
    PROVE  /\ height' = height /\ stack'[height] = a
           /\ \A d \in 1..(height - 1) : stack'[d] = stack[d]
<1>1. calls \in Seq(Frame) /\ Len(calls) \in Nat /\ Len(calls) # 0
  BY DEF TypeOK
<1>2. calls' = <<a>> \o Tail(calls)
  BY DEF Become
<1>3. Len(calls') = Len(calls) /\ calls'[1] = a
  BY <1>1, <1>2
<1>4. ASSUME NEW d \in 1..(Len(calls) - 1) PROVE stack'[d] = stack[d]
  <2>1. stack'[d] = calls'[Len(calls) + 1 - d]
    BY <1>1, <1>3 DEF stack
  <2>2. calls'[Len(calls) + 1 - d] = calls[Len(calls) + 1 - d]
    BY <1>1, <1>2
  <2>3. stack[d] = calls[Len(calls) + 1 - d]
    BY <1>1 DEF stack
  <2> QED BY <2>1, <2>2, <2>3
<1>5. stack'[Len(calls)] = a
  BY <1>1, <1>3 DEF stack
<1> QED BY <1>3, <1>4, <1>5 DEF height

LEMMA Called ==
    ASSUME TypeOK, calls # <<>>, NEW a \in Frame, NEW b \in Frame, Become(<<a, b>>)
    PROVE  /\ height' = height + 1 /\ stack'[height + 1] = a /\ stack'[height] = b
           /\ \A d \in 1..(height - 1) : stack'[d] = stack[d]
<1>1. calls \in Seq(Frame) /\ Len(calls) \in Nat /\ Len(calls) # 0
  BY DEF TypeOK
<1>2. calls' = <<a, b>> \o Tail(calls)
  BY DEF Become
<1>3. Len(calls') = Len(calls) + 1 /\ calls'[1] = a /\ calls'[2] = b
  BY <1>1, <1>2
<1>4. ASSUME NEW d \in 1..(Len(calls) - 1) PROVE stack'[d] = stack[d]
  <2>1. stack'[d] = calls'[Len(calls) + 2 - d]
    BY <1>1, <1>3 DEF stack
  <2>2. calls'[Len(calls) + 2 - d] = calls[Len(calls) + 1 - d]
    BY <1>1, <1>2
  <2>3. stack[d] = calls[Len(calls) + 1 - d]
    BY <1>1 DEF stack
  <2> QED BY <2>1, <2>2, <2>3
<1>5. stack'[Len(calls) + 1] = a /\ stack'[Len(calls)] = b
  BY <1>1, <1>3 DEF stack
<1> QED BY <1>3, <1>4, <1>5 DEF height

(* A handler begins on an empty stack with one frame, or two.              *)
LEMMA Begun ==
    ASSUME NEW a, NEW b
    PROVE  /\ calls' = <<a>> => height' = 1 /\ stack'[1] = a
           /\ calls' = <<a, b>> => height' = 2 /\ stack'[2] = a /\ stack'[1] = b
           /\ calls' = <<>> => height' = 0
<1>1. ASSUME calls' = <<a>> PROVE height' = 1 /\ stack'[1] = a
  BY <1>1 DEF height, stack
<1>2. ASSUME calls' = <<a, b>> PROVE height' = 2 /\ stack'[2] = a /\ stack'[1] = b
  <2>1. Len(calls') = 2 /\ calls'[1] = a /\ calls'[2] = b
    BY <1>2
  <2> QED BY <2>1 DEF height, stack
<1>3. ASSUME calls' = <<>> PROVE height' = 0
  BY <1>3 DEF height
<1> QED BY <1>1, <1>2, <1>3

(* The fields of the frames that are pushed.                               *)
LEMMA FrameFields ==
    ASSUME NEW f
    PROVE  /\ \A op : Call(op, f).op = op /\ Call(op, f).f = f /\ Call(op, f).todo = {}
           /\ \A flag : /\ BeginUnload(f, flag).op = "begin_unload"
                        /\ BeginUnload(f, flag).f = f /\ BeginUnload(f, flag).todo = {}
           /\ \A op, todo : /\ Loop(op, f, todo).op = op /\ Loop(op, f, todo).f = f
                            /\ Loop(op, f, todo).todo = todo
           /\ \A w : Await(f, w).op = "await" /\ Await(f, w).f = f /\ Await(f, w).todo = {}
BY DEF Call, BeginUnload, Loop, Await

----------------------------------------------------------------------------
(* The invariant *)

Withdrawing(f) == rec[f].state = "unloading" /\ ~rec[f].applying

(* c declares a key that p provides.                                       *)
Needs(c, p) == Inject[rec[c].comp] \cap Provides[rec[p].comp] # {}

(* There are no children, hence one scope.                                 *)
Flat ==
    /\ posted = {}
    /\ \A f \in Id : rec[f].request = "none" /\ rec[f].kids = {}
    /\ \A f \in fibers : rec[f].chain = {0} /\ rec[f].parent = 0

(* A key has one source.                                                   *)
Distinct ==
    \A f, g \in fibers : f # g => Provides[rec[f].comp] \cap Provides[rec[g].comp] = {}

(* A fiber that is not inactive is committed to others, for exactly the    *)
(* keys it declares.                                                       *)
Committed(f) ==
    \A k \in Keys :
        /\ rec[f].state = "inactive" => rec[f].committed[k] = 0
        /\ rec[f].state # "inactive" =>
             /\ rec[f].committed[k] # 0 <=> k \in Inject[rec[f].comp]
             /\ rec[f].committed[k] # f

(* apply() runs in a fiber that is loading, or unloading since it loaded;  *)
(* an unmounted fiber is inactive.                                         *)
Loads(f) ==
    /\ rec[f].state = "loading" => rec[f].applying
    /\ rec[f].applying => rec[f].state \in {"loading", "unloading"}
    /\ rec[f].state # "inactive" => f \in fibers

(* A binding names a mounted fiber that declares the key, and is in the    *)
(* same phase of its life.                                                 *)
Phase(f) == IF rec[f].applying THEN "loading"
            ELSE IF rec[f].state = "active" THEN "active" ELSE "retiring"

BoundSoundly(k) ==
    LET b == bindings[0][k]
    IN  b # Unbound => /\ b.provider \in fibers /\ k \in Provides[rec[b.provider].comp]
                       /\ rec[b.provider].state # "inactive"
                       /\ b.state = Phase(b.provider)

(* A published fiber is counted by published providers that are bound.     *)
Installed(c) ==
    Published(c) =>
        \A k \in Inject[rec[c].comp] :
            LET p == rec[c].committed[k]
            IN  /\ p \in Id /\ Published(p) /\ c \in rec[p].consumers
                /\ bindings[0][k].provider = p /\ bindings[0][k].available

(* A release loop has yet to reach p.                                      *)
Releases(c, p) ==
    \E d \in 1..height : /\ stack[d].op = "release" /\ stack[d].f = c
                         /\ \E t \in stack[d].todo : t[2] = p

(* A provider counts published fibers committed to it, and those that are  *)
(* about to release it.                                                    *)
Counts(p) ==
    \A c \in rec[p].consumers :
        /\ Published(p)
        /\ \/ Published(c) /\ \E k \in Keys : rec[c].committed[k] = p
           \/ Releases(c, p)

Counted(p) ==
    rec[p].remaining = IF Withdrawing(p) THEN Cardinality(rec[p].consumers) ELSE 0

(* f stays down as long as the frame at d is there: it is retired, or the  *)
(* cascade of a provider it needs goes on below.                           *)
Blocked(f, d) ==
    \/ rec[f].reactivate = -1
    \/ \E e \in 1..(d - 1) : stack[e].op = "cascade" /\ Needs(f, stack[e].f)

(* Frames that act on a record find it mounted.                            *)
Held(d) ==
    LET op == stack[d].op
    IN  /\ op \notin {"evaluate", "finished"} => stack[d].f \in fibers
        /\ op = "await" => d = 1 /\ rec[stack[d].f].reactivate = -1
        /\ op \in {"begin_unload", "finish", "evaluate"} => d = height

(* An unload begins over cascades only, so over no release loop.           *)
Descends(d) ==
    stack[d].op \in {"begin_unload", "cascade"} =>
        \A e \in 1..(d - 1) : stack[e].op \in {"cascade", "await"}

(* What is being torn down stays down until the frame returns.             *)
StaysDown(d) ==
    LET op == stack[d].op
        f == stack[d].f
    IN  /\ op \in {"begin_unload", "cascade", "release"} => Blocked(f, d)
        /\ op \in {"finish", "cascade"} => ~rec[f].applying
        /\ op = "finish" /\ Withdrawing(f) => Blocked(f, d)
        /\ op = "cascade" => rec[f].state \in {"unloading", "inactive"}
        /\ op = "release" => rec[f].state = "inactive"

(* A cascade goes to consumers; what it has yet to reach and is still      *)
(* published still counts.                                                 *)
Cascades(d) ==
    stack[d].op = "cascade" =>
        \A t \in stack[d].todo :
            /\ t[2] \in fibers /\ Needs(t[2], stack[d].f)
            /\ Published(t[2]) => t[2] \in rec[stack[d].f].consumers

(* A release loop goes to each provider once, and every provider still     *)
(* counts the fiber; a fiber has one such loop.                            *)
Detaches(d) ==
    stack[d].op = "release" =>
        /\ \A t \in stack[d].todo : Published(t[2]) /\ stack[d].f \in rec[t[2]].consumers
        /\ \A t, u \in stack[d].todo : t[2] = u[2] => t = u
        /\ \A e \in 1..(d - 1) : stack[e].op = "release" => stack[e].f # stack[d].f

(* No active fiber is told of a change: the providers it has are the only  *)
(* ones there are.                                                         *)
Spares(d) ==
    /\ stack[d].op = "notify" => \A t \in stack[d].todo : rec[t[2]].state # "active"
    /\ stack[d].op \in {"evaluate", "tail"} => rec[stack[d].f].state # "active"

Stacked(d) == Held(d) /\ Descends(d) /\ StaysDown(d) /\ Cascades(d) /\ Detaches(d) /\ Spares(d)

(* Consumers rank above their providers, and cascades climb.               *)
RanksViews(r) ==
    \A c \in Id : Published(c) =>
        \A k \in Inject[rec[c].comp] : r[rec[c].committed[k]] < r[c]

RanksFrame(r, d) ==
    stack[d].op \in {"begin_unload", "cascade"} =>
        /\ \A e \in 1..(d - 1) : stack[e].op = "cascade" => r[stack[e].f] < r[stack[d].f]
        /\ \A t \in stack[d].todo : r[stack[d].f] < r[t[2]]

Ranked(r) == RanksViews(r) /\ \A d \in 1..height : RanksFrame(r, d)

Climbs == \E n \in Nat : \E r \in [Id -> 0..n] : Ranked(r)

(* A fiber that is withdrawing is in a cascade, or its last consumer is    *)
(* gone and it is about to be finished.                                    *)
Underway(p) ==
    Withdrawing(p) =>
        \/ \E d \in 1..height : stack[d].op = "cascade" /\ stack[d].f = p
        \/ /\ height > 0 /\ stack[height].op = "finish" /\ stack[height].f = p
           /\ rec[p].consumers = {}

(* The frame at e is at work on c, a consumer of p.                        *)
Pursues(e, c, p) ==
    /\ stack[e].f = c
    /\ \/ stack[e].op = "begin_unload" /\ rec[c].state = "active"
       \/ stack[e].op = "cascade" /\ Withdrawing(c)
       \/ stack[e].op = "finish" /\ Withdrawing(c) /\ rec[c].consumers = {}
       \/ stack[e].op = "release" /\ \E t \in stack[e].todo : t[2] = p

(* The cascade of p forgets none of its consumers.                         *)
Covers(d) ==
    stack[d].op = "cascade" /\ Withdrawing(stack[d].f) =>
        \A c \in rec[stack[d].f].consumers :
            \/ rec[c].state = "active" /\ \E t \in stack[d].todo : t[2] = c
            \/ \E e \in (d + 1)..height : Pursues(e, c, stack[d].f)

(* The release loop of c is on the stack.                                  *)
Unwinds(c) == \E d \in 1..height : stack[d].op = "release" /\ stack[d].f = c

(* The gate is closed while the fiber unloads, open when it is down; only  *)
(* a fiber whose apply() runs is waited for.                               *)
Gate(f) ==
    /\ rec[f].state = "unloading" => ~rec[f].done
    /\ f \in fibers /\ rec[f].state = "inactive" /\ ~rec[f].done => Unwinds(f)
    /\ rec[f].waiters # {} => rec[f].state = "unloading" /\ rec[f].applying

Plain == Flat /\ Distinct /\ \A f \in Id : Committed(f)

Records == \A f \in Id : Loads(f) /\ Installed(f) /\ Counts(f) /\ Counted(f) /\ Gate(f)
OneScope == \A s \in Scopes \ {0}, k \in Keys : bindings[s][k] = Unbound
Bindings == OneScope /\ \A k \in Keys : BoundSoundly(k)
Stack == \A d \in 1..height : Stacked(d)
Complete == (\A p \in Id : Underway(p)) /\ \A d \in 1..height : Covers(d)

AssemblyInv == Records /\ Bindings /\ Stack /\ Climbs /\ Complete

AInv == IInv /\ Plain /\ AssemblyInv

----------------------------------------------------------------------------
(* What the steps do to a record *)

KeepsPlace(g) == /\ rec'[g].comp = rec[g].comp /\ rec'[g].chain = rec[g].chain
                 /\ rec'[g].parent = rec[g].parent
KeepsChildren(g) == rec'[g].kids = rec[g].kids /\ rec'[g].request = rec[g].request
KeepsState(g) == /\ rec'[g].state = rec[g].state /\ rec'[g].applying = rec[g].applying
                 /\ rec'[g].committed = rec[g].committed
KeepsCount(g) == /\ rec'[g].consumers = rec[g].consumers
                 /\ rec'[g].remaining = rec[g].remaining
KeepsGate(g) == rec'[g].done = rec[g].done /\ rec'[g].waiters = rec[g].waiters
KeepsMark(g) == /\ rec'[g].reactivate = rec[g].reactivate
                /\ rec'[g].apply_failed = rec[g].apply_failed

Keeps(g) == /\ KeepsPlace(g) /\ KeepsChildren(g) /\ KeepsState(g)
            /\ KeepsCount(g) /\ KeepsGate(g) /\ KeepsMark(g)

(* An untouched record.                                                    *)
LEMMA Untouched == ASSUME NEW g, rec'[g] = rec[g] PROVE Keeps(g)
BY DEF Keeps, KeepsPlace, KeepsChildren, KeepsState, KeepsCount, KeepsGate, KeepsMark

(* evaluate, cascade, notify and the end of a transition.                  *)
LEMMA QuietEffect ==
    ASSUME TypeOK, calls # <<>>,
           \/ EvaluateKeeps \/ StartLoadingNull \/ CascadeNext \/ CascadeDone \/ FinishKeeps
           \/ NotifyNext \/ NotifyDone \/ TransitionFinished
    PROVE  /\ \A g \in Id : Keeps(g)
           /\ fibers' = fibers /\ bindings' = bindings /\ posted' = posted
<1>1. CASE EvaluateKeeps \/ CascadeNext \/ FinishKeeps \/ NotifyNext \/ NotifyDone \/ TransitionFinished
  BY <1>1, Untouched DEF EvaluateKeeps, CascadeNext, FinishKeeps, NotifyNext, NotifyDone, TransitionFinished
<1>2. Top.f \in Id /\ rec[Top.f] \in FiberRecord
  BY TopType DEF TypeOK
<1>3. CASE StartLoadingNull \/ CascadeDone
  <2>1. \E b \in BOOLEAN : rec' = [rec EXCEPT ![Top.f].stop = b]
    BY <1>3 DEF StartLoadingNull, CascadeDone
  <2>2. PICK b \in BOOLEAN : rec' = [rec EXCEPT ![Top.f].stop = b]
    BY <2>1
  <2>3. \A g \in Id \ {Top.f} : rec'[g] = rec[g]
    BY <2>2 DEF TypeOK
  <2>4. rec'[Top.f] = [rec[Top.f] EXCEPT !.stop = b]
    BY <1>2, <2>2 DEF TypeOK
  <2>5. Keeps(Top.f)
    BY <1>2, <2>4 DEF FiberRecord, Keeps, KeepsPlace, KeepsChildren, KeepsState, KeepsCount,
                      KeepsGate, KeepsMark
  <2>6. \A g \in Id : Keeps(g)
    BY <2>3, <2>5, Untouched
  <2> QED BY <1>3, <2>6 DEF StartLoadingNull, CascadeDone
<1> QED BY <1>1, <1>3

(* The end of finish_unload takes a raised flag down.                      *)
LEMMA TailEffect ==
    ASSUME TypeOK, calls # <<>>, FinishTail
    PROVE  LET f == Top.f
           IN  /\ \A g \in Id \ {f} : Keeps(g)
               /\ KeepsPlace(f) /\ KeepsChildren(f) /\ KeepsState(f) /\ KeepsCount(f) /\ KeepsGate(f)
               /\ rec'[f].reactivate = IF rec[f].reactivate > 0 THEN 0 ELSE rec[f].reactivate
               /\ rec'[f].apply_failed = rec[f].apply_failed
               /\ fibers' = fibers /\ bindings' = bindings /\ posted' = posted
<1> DEFINE f == Top.f
           r == [rec[f] EXCEPT !.reactivate = IF rec[f].reactivate > 0 THEN 0 ELSE rec[f].reactivate]
<1>1. f \in Id /\ rec[f] \in FiberRecord
  BY TopType DEF TypeOK
<1>2. rec' = [rec EXCEPT ![f] = r]
  BY DEF FinishTail
<1>3. rec'[f] = r /\ \A g \in Id \ {f} : rec'[g] = rec[g]
  BY <1>1, <1>2 DEF TypeOK
<1> QED BY <1>1, <1>3, Untouched
        DEF FiberRecord, KeepsPlace, KeepsChildren, KeepsState, KeepsCount, KeepsGate, FinishTail

(* start_loading.                                                          *)
LEMMA LoadEffect ==
    ASSUME TypeOK, calls # <<>>, StartLoading
    PROVE  LET f == Top.f
           IN  /\ \A g \in Id \ {f} : Keeps(g)
               /\ KeepsPlace(f) /\ KeepsChildren(f) /\ KeepsCount(f) /\ KeepsGate(f)
               /\ rec'[f].reactivate = rec[f].reactivate
               /\ rec'[f].state = "loading" /\ rec'[f].applying
               /\ rec'[f].committed = Resolve(f)
               /\ fibers' = fibers /\ posted' = posted
<1> DEFINE f == Top.f
           r == [rec[f] EXCEPT !.state = "loading", !.committed = Resolve(f),
                               !.apply_failed = FALSE, !.stop = FALSE, !.applying = TRUE]
<1>1. f \in Id /\ rec[f] \in FiberRecord
  BY TopType DEF TypeOK
<1>2. rec' = [rec EXCEPT ![f] = r]
  BY DEF StartLoading
<1>3. rec'[f] = r /\ \A g \in Id \ {f} : rec'[g] = rec[g]
  BY <1>1, <1>2 DEF TypeOK
<1>4. /\ KeepsPlace(f) /\ KeepsChildren(f) /\ KeepsCount(f) /\ KeepsGate(f)
      /\ rec'[f].reactivate = rec[f].reactivate
      /\ rec'[f].state = "loading" /\ rec'[f].applying
      /\ rec'[f].committed = Resolve(f)
  BY <1>1, <1>3 DEF FiberRecord, KeepsPlace, KeepsChildren, KeepsCount, KeepsGate
<1>5. fibers' = fibers /\ posted' = posted
  BY DEF StartLoading
<1> QED BY <1>3, <1>4, <1>5, Untouched

(* A factory that throws.                                                  *)
LEMMA ThrowEffect ==
    ASSUME TypeOK, calls # <<>>, StartLoadingThrows
    PROVE  LET f == Top.f
           IN  /\ \A g \in Id \ {f} : Keeps(g)
               /\ KeepsPlace(f) /\ KeepsChildren(f)
               /\ rec'[f].state = "loading" /\ rec'[f].committed = Resolve(f)
               /\ fibers' = fibers /\ posted' = posted
<1> DEFINE f == Top.f
           r == [rec[f] EXCEPT !.state = "loading", !.stop = FALSE, !.committed = Resolve(f)]
<1>1. f \in Id /\ rec[f] \in FiberRecord
  BY TopType DEF TypeOK
<1>2. rec' = [rec EXCEPT ![f] = r]
  BY DEF StartLoadingThrows
<1>3. rec'[f] = r /\ \A g \in Id \ {f} : rec'[g] = rec[g]
  BY <1>1, <1>2 DEF TypeOK
<1>4. /\ KeepsPlace(f) /\ KeepsChildren(f)
      /\ rec'[f].state = "loading" /\ rec'[f].committed = Resolve(f)
  BY <1>1, <1>3 DEF FiberRecord, KeepsPlace, KeepsChildren
<1>5. fibers' = fibers /\ posted' = posted
  BY DEF StartLoadingThrows
<1> QED BY <1>3, <1>4, <1>5, Untouched

(* begin_unload on a fiber that is not active.                             *)
LEMMA KeepsEffect ==
    ASSUME TypeOK, calls # <<>>, BeginUnloadKeeps
    PROVE  LET f == Top.f
           IN  /\ \A g \in Id \ {f} : Keeps(g)
               /\ KeepsPlace(f) /\ KeepsChildren(f) /\ KeepsCount(f)
               /\ rec'[f].applying = rec[f].applying /\ rec'[f].committed = rec[f].committed
               /\ rec'[f].reactivate = Reactivation(f, Top.flag)
               /\ rec'[f].apply_failed = rec[f].apply_failed
               /\ rec'[f].waiters = rec[f].waiters
               /\ rec[f].state = "loading" => rec'[f].state = "unloading" /\ ~rec'[f].done
               /\ rec[f].state # "loading" => KeepsState(f) /\ KeepsGate(f)
               /\ fibers' = fibers /\ bindings' = bindings /\ posted' = posted
<1> DEFINE f == Top.f
           r == [rec[f] EXCEPT
                    !.reactivate = Reactivation(f, Top.flag),
                    !.state = IF rec[f].state = "loading" THEN "unloading" ELSE rec[f].state,
                    !.done = IF rec[f].state = "loading" THEN FALSE ELSE rec[f].done,
                    !.stop = IF rec[f].state = "loading" THEN TRUE ELSE rec[f].stop]
<1>1. f \in Id /\ rec[f] \in FiberRecord
  BY TopType DEF TypeOK
<1>2. rec' = [rec EXCEPT ![f] = r]
  BY DEF BeginUnloadKeeps
<1>3. rec'[f] = r /\ \A g \in Id \ {f} : rec'[g] = rec[g]
  BY <1>1, <1>2 DEF TypeOK
<1>4. /\ KeepsPlace(f) /\ KeepsChildren(f) /\ KeepsCount(f)
      /\ rec'[f].applying = rec[f].applying /\ rec'[f].committed = rec[f].committed
      /\ rec'[f].reactivate = Reactivation(f, Top.flag)
      /\ rec'[f].apply_failed = rec[f].apply_failed
      /\ rec'[f].waiters = rec[f].waiters
  BY <1>1, <1>3 DEF FiberRecord, KeepsPlace, KeepsChildren, KeepsCount
<1>5. /\ rec[f].state = "loading" => rec'[f].state = "unloading" /\ ~rec'[f].done
      /\ rec[f].state # "loading" => rec'[f].state = rec[f].state /\ rec'[f].done = rec[f].done
  BY <1>1, <1>3 DEF FiberRecord
<1>6. fibers' = fibers /\ bindings' = bindings /\ posted' = posted
  BY DEF BeginUnloadKeeps
<1> QED BY <1>3, <1>4, <1>5, <1>6, Untouched DEF KeepsState, KeepsGate

(* begin_unload on an active fiber.                                        *)
LEMMA BeginEffect ==
    ASSUME TypeOK, calls # <<>>, BeginUnloadActive
    PROVE  LET f == Top.f
           IN  /\ \A g \in Id \ {f} : Keeps(g)
               /\ KeepsPlace(f) /\ KeepsChildren(f)
               /\ rec'[f].applying = rec[f].applying /\ rec'[f].committed = rec[f].committed
               /\ rec'[f].reactivate = Reactivation(f, Top.flag)
               /\ rec'[f].apply_failed = rec[f].apply_failed
               /\ rec'[f].waiters = rec[f].waiters
               /\ rec[f].state = "active" /\ rec'[f].state = "unloading" /\ ~rec'[f].done
               /\ rec'[f].consumers = rec[f].consumers
               /\ rec'[f].remaining =
                      Cardinality({c \in rec[f].consumers \cap fibers : rec[c].state # "inactive"})
               /\ fibers' = fibers /\ posted' = posted
<1> DEFINE f == Top.f
           n == Cardinality({c \in rec[f].consumers \cap fibers : rec[c].state # "inactive"})
           r == [rec[f] EXCEPT !.reactivate = Reactivation(f, Top.flag),
                               !.state = "unloading", !.done = FALSE, !.remaining = n]
<1>1. f \in Id /\ rec[f] \in FiberRecord
  BY TopType DEF TypeOK
<1>2. rec' = [rec EXCEPT ![f] = r]
  BY DEF BeginUnloadActive
<1>3. rec'[f] = r /\ \A g \in Id \ {f} : rec'[g] = rec[g]
  BY <1>1, <1>2 DEF TypeOK
<1> HIDE DEF n
<1>4. rec'[f].remaining = n
  BY <1>1, <1>3 DEF FiberRecord
<1>5. /\ KeepsPlace(f) /\ KeepsChildren(f)
      /\ rec'[f].applying = rec[f].applying /\ rec'[f].committed = rec[f].committed
      /\ rec'[f].reactivate = Reactivation(f, Top.flag)
      /\ rec'[f].apply_failed = rec[f].apply_failed
      /\ rec'[f].waiters = rec[f].waiters
      /\ rec'[f].state = "unloading" /\ ~rec'[f].done
      /\ rec'[f].consumers = rec[f].consumers
  BY <1>1, <1>3 DEF FiberRecord, KeepsPlace, KeepsChildren
<1> QED BY <1>3, <1>4, <1>5, Untouched DEF n, BeginUnloadActive

(* finish_unload, up to the release of its providers.                      *)
LEMMA FinishEffect ==
    ASSUME TypeOK, calls # <<>>, Finish
    PROVE  LET f == Top.f
           IN  /\ \A g \in Id \ {f} : Keeps(g)
               /\ KeepsPlace(f) /\ KeepsCount(f) /\ KeepsGate(f) /\ KeepsMark(f)
               /\ rec'[f].kids = {} /\ rec'[f].request = Orphaned(rec[f].request)
               /\ rec[f].state = "unloading" /\ rec[f].remaining = 0
               /\ rec'[f].state = "inactive" /\ rec'[f].applying = rec[f].applying
               /\ rec'[f].committed = NothingCommitted
               /\ fibers' = fibers /\ posted' = posted \cup rec[f].kids
<1> DEFINE f == Top.f
           r == [rec[f] EXCEPT !.state = "inactive", !.committed = NothingCommitted,
                               !.kids = {}, !.request = Orphaned(rec[f].request)]
<1>1. f \in Id /\ rec[f] \in FiberRecord
  BY TopType DEF TypeOK
<1>2. rec' = [rec EXCEPT ![f] = r]
  BY DEF Finish
<1>3. rec'[f] = r /\ \A g \in Id \ {f} : rec'[g] = rec[g]
  BY <1>1, <1>2 DEF TypeOK
<1>4. /\ KeepsPlace(f) /\ KeepsCount(f) /\ KeepsGate(f) /\ KeepsMark(f)
      /\ rec'[f].kids = {} /\ rec'[f].request = Orphaned(rec[f].request)
      /\ rec'[f].state = "inactive" /\ rec'[f].applying = rec[f].applying
      /\ rec'[f].committed = NothingCommitted
  BY <1>1, <1>3 DEF FiberRecord, KeepsPlace, KeepsCount, KeepsGate, KeepsMark
<1>5. /\ rec[f].state = "unloading" /\ rec[f].remaining = 0
      /\ fibers' = fibers /\ posted' = posted \cup rec[f].kids
  BY DEF Finish, MayFinish, ChildrenPosted
<1> QED BY <1>3, <1>4, <1>5, Untouched

(* One provider released.                                                  *)
LEMMA ReleaseEffect ==
    ASSUME TypeOK, calls # <<>>, ReleaseNext
    PROVE  LET p == First(Top.todo)[2]
           IN  /\ \A g \in Id \ {p} : Keeps(g)
               /\ p \notin fibers => \A g \in Id : Keeps(g)
               /\ p \in fibers =>
                    /\ KeepsPlace(p) /\ KeepsChildren(p) /\ KeepsState(p) /\ KeepsGate(p) /\ KeepsMark(p)
                    /\ rec'[p].consumers = rec[p].consumers \ {Top.f}
                    /\ rec'[p].remaining = CountedOff(p)
               /\ fibers' = fibers /\ bindings' = bindings /\ posted' = posted
<1> DEFINE p == First(Top.todo)[2]
           r == [rec[p] EXCEPT !.consumers = rec[p].consumers \ {Top.f}, !.remaining = CountedOff(p)]
<1>1. CASE p \in fibers
  <2>1. p \in Id /\ rec[p] \in FiberRecord
    BY <1>1 DEF TypeOK
  <2>2. rec' = [rec EXCEPT ![p] = r]
    BY <1>1 DEF ReleaseNext
  <2>3. rec'[p] = r /\ \A g \in Id \ {p} : rec'[g] = rec[g]
    BY <2>1, <2>2 DEF TypeOK
  <2> HIDE DEF p
  <2>4. /\ KeepsPlace(p) /\ KeepsChildren(p) /\ KeepsState(p) /\ KeepsGate(p) /\ KeepsMark(p)
        /\ rec'[p].consumers = rec[p].consumers \ {Top.f}
        /\ rec'[p].remaining = CountedOff(p)
    BY <2>1, <2>3 DEF FiberRecord, KeepsPlace, KeepsChildren, KeepsState, KeepsGate, KeepsMark
  <2> QED BY <1>1, <2>3, <2>4, Untouched DEF ReleaseNext, p
<1>2. CASE p \notin fibers
  BY <1>2, Untouched DEF ReleaseNext
<1> QED BY <1>1, <1>2

(* The gate opens.                                                         *)
LEMMA OpenEffect ==
    ASSUME TypeOK, calls # <<>>, ReleaseDone
    PROVE  LET f == Top.f
           IN  /\ \A g \in Id \ {f} : Keeps(g)
               /\ KeepsPlace(f) /\ KeepsChildren(f) /\ KeepsState(f) /\ KeepsCount(f) /\ KeepsMark(f)
               /\ rec'[f].done /\ rec'[f].waiters = {}
               /\ fibers' = IF rec[f].waiters = {} THEN fibers ELSE fibers \ {f}
               /\ bindings' = bindings /\ posted' = posted
<1> DEFINE f == Top.f
           r == [rec[f] EXCEPT !.done = TRUE, !.waiters = {}]
<1>1. f \in Id /\ rec[f] \in FiberRecord
  BY TopType DEF TypeOK
<1>2. rec' = [rec EXCEPT ![f] = r]
  BY DEF ReleaseDone
<1>3. rec'[f] = r /\ \A g \in Id \ {f} : rec'[g] = rec[g]
  BY <1>1, <1>2 DEF TypeOK
<1>4. /\ KeepsPlace(f) /\ KeepsChildren(f) /\ KeepsState(f) /\ KeepsCount(f) /\ KeepsMark(f)
      /\ rec'[f].done /\ rec'[f].waiters = {}
  BY <1>1, <1>3 DEF FiberRecord, KeepsPlace, KeepsChildren, KeepsState, KeepsCount, KeepsMark
<1>5. /\ fibers' = IF rec[f].waiters = {} THEN fibers ELSE fibers \ {f}
      /\ bindings' = bindings /\ posted' = posted
  BY DEF ReleaseDone, OpenGate, Erased
<1> QED BY <1>3, <1>4, <1>5, Untouched

(* The end of retire() and retire_child.                                   *)
LEMMA AwaitEffect ==
    ASSUME TypeOK, calls # <<>>, AwaitGate
    PROVE  LET f == Top.f
               erases == rec[f].done \/ (Top.who = "parent" /\ rec[f].state = "inactive")
           IN  /\ \A g \in Id \ {f} : Keeps(g)
               /\ KeepsPlace(f) /\ KeepsChildren(f) /\ KeepsState(f) /\ KeepsCount(f) /\ KeepsMark(f)
               /\ rec'[f].done = rec[f].done
               /\ erases => fibers' = fibers \ {f} /\ rec'[f].waiters = rec[f].waiters
               /\ ~erases => fibers' = fibers
               /\ bindings' = bindings /\ posted' = posted
<1> DEFINE f == Top.f
           erases == rec[f].done \/ (Top.who = "parent" /\ rec[f].state = "inactive")
           r == [rec[f] EXCEPT !.waiters = rec[f].waiters \cup {Top.who}]
<1>1. f \in Id /\ rec[f] \in FiberRecord
  BY TopType DEF TypeOK
<1>2. CASE erases
  <2>1. rec' = rec /\ fibers' = fibers \ {f} /\ bindings' = bindings /\ posted' = posted
    BY <1>2 DEF AwaitGate, Erased
  <2> QED BY <1>1, <1>2, <2>1, Untouched
          DEF Keeps, KeepsPlace, KeepsChildren, KeepsState, KeepsCount, KeepsMark
<1>3. CASE ~erases
  <2>1. rec' = [rec EXCEPT ![f] = r] /\ fibers' = fibers /\ bindings' = bindings /\ posted' = posted
    BY <1>3 DEF AwaitGate
  <2>2. rec'[f] = r /\ \A g \in Id \ {f} : rec'[g] = rec[g]
    BY <1>1, <2>1 DEF TypeOK
  <2> QED BY <1>1, <1>3, <2>1, <2>2, Untouched
          DEF FiberRecord, KeepsPlace, KeepsChildren, KeepsState, KeepsCount, KeepsMark
<1> QED BY <1>2, <1>3

(* provide(), release(), set_available(), wait_idle() and cancel().        *)
LEMMA CalmEffect ==
    ASSUME TypeOK, NEW f \in Id,
           \/ \E k \in Keys : Provide(f, k) \/ ProvideLate(f, k) \/ ReleaseEarly(f, k) \/ Promote(f, k)
           \/ \E h \in Hosts : WaitIdle(h)
           \/ Cancel(f)
    PROVE  (\A g \in Id : Keeps(g)) /\ fibers' = fibers /\ posted' = posted
<1>1. CASE \/ \E k \in Keys : Provide(f, k) \/ ProvideLate(f, k) \/ ReleaseEarly(f, k) \/ Promote(f, k)
           \/ \E h \in Hosts : WaitIdle(h)
  BY <1>1, Untouched DEF Provide, ProvideLate, ReleaseEarly, Promote, WaitIdle
<1>2. CASE Cancel(f)
  <2> DEFINE r == [rec[f] EXCEPT !.stop = TRUE]
  <2>1. rec' = [rec EXCEPT ![f] = r] /\ fibers' = fibers /\ posted' = posted
    BY <1>2 DEF Cancel
  <2>2. rec[f] \in FiberRecord /\ rec'[f] = r /\ \A g \in Id \ {f} : rec'[g] = rec[g]
    BY <2>1 DEF TypeOK
  <2>3. Keeps(f)
    BY <2>2 DEF FiberRecord, Keeps, KeepsPlace, KeepsChildren, KeepsState, KeepsCount, KeepsGate, KeepsMark
  <2> QED BY <2>1, <2>2, <2>3, Untouched
<1> QED BY <1>1, <1>2

(* A request for a child.                                                  *)
LEMMA RequestEffect ==
    ASSUME TypeOK, NEW f \in Id, RequestChild(f)
    PROVE  /\ \A g \in Id : KeepsPlace(g) /\ KeepsState(g)
           /\ fibers' = fibers /\ f \in fibers /\ Child[rec[f].comp] # NoComp
<1>1. PICK q \in Request : rec' = [rec EXCEPT ![f].request = q]
  BY DEF RequestChild, Request
<1> DEFINE r == [rec[f] EXCEPT !.request = q]
<1>2. rec[f] \in FiberRecord /\ rec'[f] = r /\ \A g \in Id \ {f} : rec'[g] = rec[g]
  BY <1>1 DEF TypeOK
<1>3. KeepsPlace(f) /\ KeepsState(f)
  BY <1>2 DEF FiberRecord, KeepsPlace, KeepsState
<1>4. fibers' = fibers /\ f \in fibers /\ Child[rec[f].comp] # NoComp
  BY DEF RequestChild
<1> QED BY <1>2, <1>3, <1>4, Untouched DEF Keeps

(* retire() and retire_child on a fiber that is not inactive: it is marked *)
(* and begin_unload called.                                                *)
Marks(f) ==
    /\ \A g \in Id \ {f} : Keeps(g)
    /\ KeepsPlace(f) /\ KeepsChildren(f) /\ KeepsState(f) /\ KeepsCount(f) /\ KeepsGate(f)
    /\ rec'[f].reactivate = -1 /\ f \in fibers /\ fibers' = fibers

LEMMA MarkEffect ==
    ASSUME TypeOK, NEW f \in Id, rec' = [rec EXCEPT ![f].reactivate = -1],
           f \in fibers, fibers' = fibers
    PROVE  Marks(f)
<1> DEFINE r == [rec[f] EXCEPT !.reactivate = -1]
<1>1. rec' = [rec EXCEPT ![f] = r]
  OBVIOUS
<1>2. rec[f] \in FiberRecord /\ rec'[f] = r /\ \A g \in Id \ {f} : rec'[g] = rec[g]
  BY <1>1 DEF TypeOK
<1>3. /\ KeepsPlace(f) /\ KeepsChildren(f) /\ KeepsState(f) /\ KeepsCount(f) /\ KeepsGate(f)
      /\ rec'[f].reactivate = -1
  BY <1>2 DEF FiberRecord, KeepsPlace, KeepsChildren, KeepsState, KeepsCount, KeepsGate
<1> QED BY <1>2, <1>3, Untouched DEF Marks

LEMMA RetireEffect ==
    ASSUME TypeOK, NEW f \in Id, NEW h \in Hosts, Retire(h, f)
    PROVE  /\ f \in fibers /\ bindings' = bindings /\ posted' = posted /\ calls = <<>>
           /\ \/ /\ \A g \in Id : Keeps(g)
                 /\ rec[f].state = "inactive" /\ fibers' = fibers \ {f} /\ calls' = <<>>
              \/ /\ Marks(f) /\ calls' = <<BeginUnload(f, FALSE), Await(f, h)>>
                 /\ rec[f].state # "inactive"
<1>1. f \in fibers /\ bindings' = bindings /\ posted' = posted /\ calls = <<>>
  BY DEF Retire, StrandFree
<1>2. CASE rec[f].state = "inactive"
  <2>1. rec' = rec /\ fibers' = fibers \ {f} /\ calls' = <<>>
    BY <1>1, <1>2 DEF Retire, Erased
  <2> QED BY <1>1, <1>2, <2>1, Untouched
<1>3. CASE rec[f].state # "inactive"
  <2>1. /\ rec' = [rec EXCEPT ![f].reactivate = -1] /\ fibers' = fibers
        /\ calls' = <<BeginUnload(f, FALSE), Await(f, h)>>
    BY <1>3 DEF Retire
  <2> QED BY <1>1, <1>3, <2>1, MarkEffect
<1> QED BY <1>2, <1>3

(* publish.                                                                *)
LEMMA PublishEffect ==
    ASSUME TypeOK, NEW f \in Id, ApplyPublishes(f)
    PROVE  /\ \A g \in Id \ {f} :
                /\ KeepsPlace(g) /\ KeepsChildren(g) /\ KeepsState(g) /\ KeepsGate(g) /\ KeepsMark(g)
                /\ rec'[g].remaining = rec[g].remaining
                /\ rec'[g].consumers = IF \E k \in Keys : rec[f].committed[k] = g /\ g \in fibers
                                       THEN rec[g].consumers \cup {f} ELSE rec[g].consumers
           /\ KeepsPlace(f) /\ KeepsChildren(f) /\ KeepsCount(f) /\ KeepsGate(f) /\ KeepsMark(f)
           /\ rec[f].state = "loading" /\ rec[f].applying
           /\ rec'[f].state = "active" /\ ~rec'[f].applying
           /\ rec'[f].committed = rec[f].committed
           /\ f \in fibers /\ fibers' = fibers /\ posted' = posted
<1> DEFINE published == [rec[f] EXCEPT !.state = "active", !.applying = FALSE]
           Serves(g) == \E k \in Keys : rec[f].committed[k] = g /\ g \in fibers
           provider(g) == [rec[g] EXCEPT !.consumers = rec[g].consumers \cup {f}]
<1>1. rec[f] \in FiberRecord /\ rec'[f] = published
  BY DEF ApplyPublishes, TypeOK
<1>2. ASSUME NEW g \in Id, g # f
      PROVE  rec[g] \in FiberRecord /\ rec'[g] = IF Serves(g) THEN provider(g) ELSE rec[g]
  BY <1>2 DEF ApplyPublishes, TypeOK
<1>3. ASSUME NEW g \in Id, g # f
      PROVE  /\ KeepsPlace(g) /\ KeepsChildren(g) /\ KeepsState(g) /\ KeepsGate(g) /\ KeepsMark(g)
             /\ rec'[g].remaining = rec[g].remaining
             /\ rec'[g].consumers = IF Serves(g) THEN rec[g].consumers \cup {f}
                                    ELSE rec[g].consumers
  <2> HIDE DEF Serves
  <2>1. CASE Serves(g)
    BY <1>2, <1>3, <2>1
       DEF FiberRecord, KeepsPlace, KeepsChildren, KeepsState, KeepsGate, KeepsMark
  <2>2. CASE ~Serves(g)
    BY <1>2, <1>3, <2>2 DEF KeepsPlace, KeepsChildren, KeepsState, KeepsGate, KeepsMark
  <2> QED BY <2>1, <2>2
<1>4. /\ KeepsPlace(f) /\ KeepsChildren(f) /\ KeepsCount(f) /\ KeepsGate(f) /\ KeepsMark(f)
      /\ rec'[f].state = "active" /\ ~rec'[f].applying
      /\ rec'[f].committed = rec[f].committed
  BY <1>1 DEF FiberRecord, KeepsPlace, KeepsChildren, KeepsCount, KeepsGate, KeepsMark
<1>5. /\ rec[f].state = "loading" /\ rec[f].applying
      /\ f \in fibers /\ fibers' = fibers /\ posted' = posted
  BY DEF ApplyPublishes
<1> QED BY <1>3, <1>4, <1>5

(* A load that failed.                                                     *)
LEMMA FailEffect ==
    ASSUME TypeOK, NEW f \in Id, NEW raised, ApplyFails(f, raised)
    PROVE  /\ \A g \in Id \ {f} : Keeps(g)
           /\ KeepsPlace(f) /\ KeepsCount(f)
           /\ rec'[f].reactivate = rec[f].reactivate
           /\ rec'[f].apply_failed = (rec[f].apply_failed \/ raised)
           /\ rec'[f].kids = {} /\ rec'[f].request = Orphaned(rec[f].request)
           /\ rec[f].applying /\ rec'[f].state = "inactive" /\ ~rec'[f].applying
           /\ rec'[f].committed = NothingCommitted /\ rec'[f].done /\ rec'[f].waiters = {}
           /\ f \in fibers /\ posted' = posted \cup rec[f].kids
           /\ fibers' = IF rec[f].waiters = {} THEN fibers ELSE fibers \ {f}
<1> DEFINE failed == rec[f].apply_failed \/ raised
           r == [rec[f] EXCEPT
                    !.state = "inactive", !.committed = NothingCommitted,
                    !.applying = FALSE, !.apply_failed = failed,
                    !.done = TRUE, !.waiters = {},
                    !.kids = {}, !.request = Orphaned(rec[f].request)]
<1>1. rec' = [rec EXCEPT ![f] = r]
  BY DEF ApplyFails
<1> HIDE DEF failed
<1>2. rec[f] \in FiberRecord /\ rec'[f] = r /\ \A g \in Id \ {f} : rec'[g] = rec[g]
  BY <1>1 DEF TypeOK
<1>3. /\ KeepsPlace(f) /\ KeepsCount(f)
      /\ rec'[f].reactivate = rec[f].reactivate
      /\ rec'[f].apply_failed = failed
      /\ rec'[f].kids = {} /\ rec'[f].request = Orphaned(rec[f].request)
      /\ rec'[f].state = "inactive" /\ ~rec'[f].applying
      /\ rec'[f].committed = NothingCommitted /\ rec'[f].done /\ rec'[f].waiters = {}
  BY <1>2 DEF FiberRecord, KeepsPlace, KeepsCount
<1>4. /\ rec[f].applying /\ f \in fibers /\ posted' = posted \cup rec[f].kids
      /\ fibers' = IF rec[f].waiters = {} THEN fibers ELSE fibers \ {f}
  BY DEF ApplyFails, ChildrenPosted, OpenGate, Erased
<1> QED BY <1>2, <1>3, <1>4, Untouched DEF failed

(* A mount starts a record with an id that is new.                         *)
LEMMA MountEffect ==
    ASSUME IInv, NEW c \in Roots, Mount(c)
    PROVE  LET n == next_id
           IN  /\ n \in Id /\ n \notin fibers /\ fibers' = fibers \cup {n}
               /\ \A g \in Id \ {n} : Keeps(g)
               /\ rec'[n] = NewFiber(c, {0}, 0)
               /\ calls = <<>> /\ calls' = <<Call("evaluate", n)>>
               /\ bindings' = bindings /\ posted' = posted
<1> DEFINE n == next_id
           r == NewFiber(c, {0}, 0)
<1>1. TypeOK /\ IdsHandedOut
  BY DEF IInv
<1>2. n \in Id
  BY <1>1, IdLeftType DEF Mount
<1>3. n \notin fibers
  <2>1. n \in Int
    BY <1>2 DEF Id
  <2> QED BY <1>1, <2>1 DEF IdsHandedOut
<1>4. rec' = [rec EXCEPT ![n] = r]
  BY DEF Mount
<1> HIDE DEF r
<1>5. rec'[n] = r /\ \A g \in Id \ {n} : rec'[g] = rec[g]
  BY <1>1, <1>2, <1>4 DEF TypeOK
<1>6. /\ fibers' = fibers \cup {n} /\ calls = <<>> /\ calls' = <<Call("evaluate", n)>>
      /\ bindings' = bindings /\ posted' = posted
  BY DEF Mount, Install, StrandFree
<1> QED BY <1>2, <1>3, <1>5, <1>6, Untouched DEF r

LEMMA MountChildEffect ==
    ASSUME IInv, NEW f \in Id, MountChild(f)
    PROVE  /\ next_id \in Id
           /\ rec'[next_id].state = "inactive" /\ rec'[next_id].committed = NothingCommitted
           /\ \A g \in Id \ {next_id} : KeepsPlace(g) /\ KeepsState(g)
<1> DEFINE n == next_id
           r == NewFiber(Child[rec[f].comp], rec[f].chain \cup {n}, f)
           kids == IF rec[f].request # "orphan" THEN rec[f].kids \cup {n} ELSE rec[f].kids
           parent == [rec[f] EXCEPT !.request = "none", !.kids = kids]
<1>1. TypeOK
  BY DEF IInv
<1>2. n \in Id
  BY DEF MountChild
<1>3. rec' = [g \in Id |-> IF g = n THEN r ELSE IF g # f THEN rec[g] ELSE parent]
  BY DEF MountChild
<1>4. r.state = "inactive" /\ r.committed = NothingCommitted
  BY DEF NewFiber
<1>5. /\ parent.comp = rec[f].comp /\ parent.state = rec[f].state
      /\ parent.applying = rec[f].applying /\ parent.committed = rec[f].committed
      /\ parent.chain = rec[f].chain /\ parent.parent = rec[f].parent
  BY <1>1 DEF TypeOK, FiberRecord
<1> HIDE DEF r, parent
<1> QED BY <1>2, <1>3, <1>4, <1>5 DEF KeepsState, KeepsPlace

----------------------------------------------------------------------------
(* Committed views *)

(* A fiber that resolves all it declares is committed to others for        *)
(* exactly that, provided all it declares is required.                     *)
LEMMA ResolvedView ==
    ASSUME Required = Inject, TypeOK, NEW f \in Id, f \in fibers, Mounted,
           Satisfiable(f), NEW k \in Keys
    PROVE  (Resolve(f)[k] # 0 <=> k \in Inject[rec[f].comp]) /\ Resolve(f)[k] # f
<1>1. rec[f].comp \in Comp
  BY DEF Mounted
<1>2. f # 0
  BY BoundAssumption DEF Id
<1>3. k \in Inject[rec[f].comp] => Resolve(f)[k] # 0
  BY DEF Satisfiable
<1>4. k \notin Inject[rec[f].comp] => Resolve(f)[k] = 0
  BY DEF Resolve
<1>5. Resolve(f)[k] # f
  BY <1>2 DEF Resolve
<1> QED BY <1>3, <1>4, <1>5

(* The ways a view may change.                                             *)
LEMMA ViewSame ==
    ASSUME NEW f \in Id, KeepsPlace(f), KeepsState(f), Committed(f)
    PROVE  Committed(f)'
BY DEF Committed, KeepsPlace, KeepsState

LEMMA ViewDropped ==
    ASSUME NEW f \in Id, rec'[f].state = "inactive", rec'[f].committed = NothingCommitted
    PROVE  Committed(f)'
BY DEF Committed, NothingCommitted

LEMMA ViewTaken ==
    ASSUME Required = Inject, TypeOK, NEW f \in Id, f \in fibers, Mounted, Satisfiable(f),
           KeepsPlace(f), rec'[f].state = "loading", rec'[f].committed = Resolve(f)
    PROVE  Committed(f)'
<1>1. \A k \in Keys : (Resolve(f)[k] # 0 <=> k \in Inject[rec[f].comp]) /\ Resolve(f)[k] # f
  BY ResolvedView
<1> QED BY <1>1 DEF Committed, KeepsPlace

LEMMA ViewCarried ==
    ASSUME NEW f \in Id, KeepsPlace(f), Committed(f), rec[f].state # "inactive",
           rec'[f].state # "inactive", rec'[f].committed = rec[f].committed
    PROVE  Committed(f)'
BY DEF Committed, KeepsPlace

(* The steps of the cascade have a frame to act on.                        *)
LEMMA CascadeRuns == ASSUME Cascade PROVE calls # <<>>
BY DEF Running, Cascade, EvaluateKeeps, EvaluateUnloads, StartLoading, StartLoadingNull,
       StartLoadingThrows, BeginUnloadKeeps, BeginUnloadActive, CascadeNext, CascadeDone,
       FinishKeeps, Finish, ReleaseNext, ReleaseDone, NotifyNext, NotifyDone, FinishTail,
       TransitionFinished, AwaitGate

(* The views stay whole.                                                   *)
LEMMA ViewsKept ==
    ASSUME Required = Inject, IInv, \A f \in Id : Committed(f), [Next]_vars
    PROVE  \A f \in Id : Committed(f)'
<1> DEFINE Goal == \A g \in Id : Committed(g)'
<1> SUFFICES Goal
  OBVIOUS
<1>0. TypeOK /\ Mounted
  BY DEF IInv
<1>1. (* no view changes *)
      ASSUME \A g \in Id : KeepsPlace(g) /\ KeepsState(g) PROVE Goal
  BY <1>1, ViewSame
<1>2. (* one does *)
      ASSUME NEW p \in Id, \A g \in Id \ {p} : KeepsPlace(g) /\ KeepsState(g), Committed(p)'
      PROVE  Goal
  BY <1>2, ViewSame
<1>3. \A g \in Id : Keeps(g) => KeepsPlace(g) /\ KeepsState(g)
  BY DEF Keeps
<1> HIDE DEF Goal
<1>4. CASE Cascade
  <2>1. calls # <<>>
    BY <1>4, CascadeRuns
  <2>2. PICK t \in Id : t = Top.f
    BY <1>0, <2>1, TopType
  <2>3. CASE \/ EvaluateKeeps \/ StartLoadingNull \/ CascadeNext \/ CascadeDone \/ FinishKeeps
             \/ NotifyNext \/ NotifyDone \/ TransitionFinished
    <3>1. \A g \in Id : Keeps(g)
      BY <1>0, <2>1, <2>3, QuietEffect
    <3> QED BY <1>1, <1>3, <3>1
  <2>4. CASE EvaluateUnloads
    <3>1. \A g \in Id : KeepsPlace(g) /\ KeepsState(g)
      BY <2>4 DEF EvaluateUnloads, KeepsPlace, KeepsState
    <3> QED BY <1>1, <3>1
  <2>5. CASE StartLoading \/ StartLoadingThrows
    <3>1. t \in fibers /\ Satisfiable(t)
      BY <2>2, <2>5 DEF StartLoading, StartLoadingThrows, Loadable
    <3>2. /\ \A g \in Id \ {t} : Keeps(g)
          /\ KeepsPlace(t) /\ rec'[t].state = "loading" /\ rec'[t].committed = Resolve(t)
      BY <1>0, <2>1, <2>2, <2>5, LoadEffect, ThrowEffect
    <3>3. Committed(t)'
      BY <1>0, <2>2, <3>1, <3>2, ViewTaken
    <3> QED BY <1>2, <1>3, <2>2, <3>2, <3>3
  <2>6. CASE BeginUnloadKeeps
    <3>1. /\ \A g \in Id \ {t} : Keeps(g)
          /\ KeepsPlace(t) /\ rec'[t].committed = rec[t].committed
          /\ rec[t].state = "loading" => rec'[t].state = "unloading"
          /\ rec[t].state # "loading" => KeepsState(t)
      BY <1>0, <2>1, <2>2, <2>6, KeepsEffect
    <3>2. Committed(t)'
      BY <2>2, <3>1, ViewSame, ViewCarried
    <3> QED BY <1>2, <1>3, <2>2, <3>1, <3>2
  <2>7. CASE BeginUnloadActive
    <3>1. /\ \A g \in Id \ {t} : Keeps(g)
          /\ KeepsPlace(t) /\ rec'[t].committed = rec[t].committed
          /\ rec[t].state = "active" /\ rec'[t].state = "unloading"
      BY <1>0, <2>1, <2>2, <2>7, BeginEffect
    <3>2. Committed(t)'
      BY <2>2, <3>1, ViewCarried
    <3> QED BY <1>2, <1>3, <2>2, <3>1, <3>2
  <2>8. CASE Finish
    <3>1. /\ \A g \in Id \ {t} : Keeps(g)
          /\ rec'[t].state = "inactive" /\ rec'[t].committed = NothingCommitted
      BY <1>0, <2>1, <2>2, <2>8, FinishEffect
    <3>2. Committed(t)'
      BY <2>2, <3>1, ViewDropped
    <3> QED BY <1>2, <1>3, <2>2, <3>1, <3>2
  <2>9. CASE ReleaseNext
    <3> DEFINE p == First(Top.todo)[2]
    <3>1. /\ \A g \in Id \ {p} : Keeps(g)
          /\ p \notin fibers => \A g \in Id : Keeps(g)
          /\ p \in fibers => KeepsPlace(p) /\ KeepsState(p)
      BY <1>0, <2>1, <2>9, ReleaseEffect
    <3>2. \A g \in Id : KeepsPlace(g) /\ KeepsState(g)
      BY <1>3, <3>1
    <3> QED BY <1>1, <3>2
  <2>10. CASE ReleaseDone \/ AwaitGate \/ FinishTail
    <3>1. (\A g \in Id \ {t} : Keeps(g)) /\ KeepsPlace(t) /\ KeepsState(t)
      BY <1>0, <2>1, <2>2, <2>10, OpenEffect, AwaitEffect, TailEffect
    <3> QED BY <1>1, <1>3, <3>1
  <2> QED BY <1>4, <2>3, <2>4, <2>5, <2>6, <2>7, <2>8, <2>9, <2>10 DEF Cascade
<1>5. ASSUME NEW c \in Roots, Mount(c) PROVE Goal
  <2>0. PICK n \in Id : n = next_id
    BY <1>5, MountEffect
  <2>1. (\A g \in Id \ {n} : Keeps(g)) /\ rec'[n] = NewFiber(c, {0}, 0)
    BY <1>5, <2>0, MountEffect
  <2>2. rec'[n].state = "inactive" /\ rec'[n].committed = NothingCommitted
    BY <2>1 DEF NewFiber
  <2>3. Committed(n)'
    BY <2>1, <2>2, ViewDropped
  <2> QED BY <1>2, <1>3, <2>1, <2>3
<1>6. ASSUME NEW p \in Id, MountChild(p) PROVE Goal
  <2>0. PICK n \in Id : n = next_id
    BY <1>6, MountChildEffect
  <2>1. /\ \A g \in Id \ {n} : KeepsPlace(g) /\ KeepsState(g)
        /\ rec'[n].state = "inactive" /\ rec'[n].committed = NothingCommitted
    BY <1>6, <2>0, MountChildEffect
  <2>2. Committed(n)'
    BY <2>1, ViewDropped
  <2> QED BY <1>2, <2>1, <2>2
<1>7. ASSUME NEW p \in Id, ApplyPublishes(p) PROVE Goal
  <2>1. /\ \A g \in Id \ {p} : KeepsPlace(g) /\ KeepsState(g)
        /\ KeepsPlace(p) /\ rec[p].state = "loading" /\ rec'[p].state = "active"
        /\ rec'[p].committed = rec[p].committed
    BY <1>0, <1>7, PublishEffect
  <2>2. Committed(p)'
    BY <2>1, ViewCarried
  <2> QED BY <1>2, <2>1, <2>2
<1>8. ASSUME NEW p \in Id, NEW raised \in BOOLEAN, ApplyFails(p, raised) PROVE Goal
  <2>1. /\ \A g \in Id \ {p} : Keeps(g)
        /\ rec'[p].state = "inactive" /\ rec'[p].committed = NothingCommitted
    BY <1>0, <1>8, FailEffect
  <2>2. Committed(p)'
    BY <2>1, ViewDropped
  <2> QED BY <1>2, <1>3, <2>1, <2>2
<1>9. ASSUME NEW p \in Id, RequestChild(p) PROVE Goal
  <2>1. \A g \in Id : KeepsPlace(g) /\ KeepsState(g)
    BY <1>0, <1>9, RequestEffect
  <2> QED BY <1>1, <2>1
<1>10. ASSUME NEW p \in Id,
             \/ \E k \in Keys : Provide(p, k) \/ ProvideLate(p, k) \/ ReleaseEarly(p, k) \/ Promote(p, k)
             \/ \E h \in Hosts : WaitIdle(h)
             \/ Cancel(p)
      PROVE  Goal
  <2>1. \A g \in Id : Keeps(g)
    BY <1>0, <1>10, CalmEffect
  <2> QED BY <1>1, <1>3, <2>1
<1>11. ASSUME NEW p \in Id, NEW h \in Hosts, Retire(h, p) PROVE Goal
  <2>1. (\A g \in Id : Keeps(g)) \/ Marks(p)
    BY <1>0, <1>11, RetireEffect
  <2>2. Marks(p) => (\A g \in Id \ {p} : Keeps(g)) /\ KeepsPlace(p) /\ KeepsState(p)
    BY DEF Marks
  <2>3. \A g \in Id : KeepsPlace(g) /\ KeepsState(g)
    BY <1>3, <2>1, <2>2
  <2> QED BY <1>1, <2>3
<1>12. ASSUME NEW p \in Id, RetireChild(p) PROVE Goal
  <2>1. CASE p \in fibers
    <3>1. rec' = [rec EXCEPT ![p].reactivate = -1] /\ fibers' = fibers
      BY <1>12, <2>1 DEF RetireChild
    <3>2. Marks(p)
      BY <1>0, <2>1, <3>1, MarkEffect
    <3>3. (\A g \in Id \ {p} : Keeps(g)) /\ KeepsPlace(p) /\ KeepsState(p)
      BY <3>2 DEF Marks
    <3> QED BY <1>1, <1>3, <3>3
  <2>2. CASE p \notin fibers
    <3>1. \A g \in Id : KeepsPlace(g) /\ KeepsState(g)
      BY <1>12, <2>2 DEF RetireChild, KeepsPlace, KeepsState
    <3> QED BY <1>1, <3>1
  <2> QED BY <2>1, <2>2
<1>13. CASE \E h \in Hosts : WaitIdle(h)
  <2>1. 1 \in Id
    BY BoundAssumption DEF Id
  <2>2. \A g \in Id : Keeps(g)
    BY <1>0, <1>13, <2>1, CalmEffect
  <2> QED BY <1>1, <1>3, <2>2
<1>14. CASE UNCHANGED vars
  <2>1. \A g \in Id : KeepsPlace(g) /\ KeepsState(g)
    BY <1>14 DEF vars, KeepsPlace, KeepsState
  <2> QED BY <1>1, <2>1
<1> QED BY <1>4, <1>5, <1>6, <1>7, <1>8, <1>9, <1>10, <1>11, <1>12, <1>13, <1>14
        DEF Next, ApplyCompletes

(* A view that is still provided is the one the fiber would resolve.       *)
LEMMA StillResolved ==
    ASSUME TypeOK, NEW f \in Id, Committed(f), rec[f].state # "inactive", ProvidersStillActive(f)
    PROVE  rec[f].committed = Resolve(f)
<1>1. rec[f].committed \in [Keys -> 0..MaxFiber]
  BY DEF TypeOK, FiberRecord
<1>2. ASSUME NEW k \in Keys PROVE Resolve(f)[k] = rec[f].committed[k]
  <2>1. CASE k \in Inject[rec[f].comp]
    <3>1. rec[f].committed[k] # 0 /\ rec[f].committed[k] # f
      BY <2>1 DEF Committed
    <3> QED BY <2>1, <3>1 DEF ProvidersStillActive, Resolve
  <2>2. CASE k \notin Inject[rec[f].comp]
    BY <2>2 DEF Committed, Resolve
  <2> QED BY <2>1, <2>2
<1>3. Resolve(f) = [k \in Keys |-> Resolve(f)[k]]
  BY DEF Resolve
<1> QED BY <1>1, <1>2, <1>3

(* Only a publishing fiber becomes active.                                 *)
LEMMA OnlyPublishing ==
    ASSUME IInv, Next, NEW f \in fibers, rec[f].state = "loading", rec'[f].state = "active"
    PROVE  ApplyPublishes(f)
<1> DEFINE t == Top.f
<1>0. TypeOK /\ f \in Id
  BY DEF IInv, TypeOK
<1>1. \A g \in Id : Keeps(g) => rec'[g].state = rec[g].state
  BY DEF Keeps, KeepsState
<1>2. \A g \in Id : KeepsState(g) => rec'[g].state = rec[g].state
  BY DEF KeepsState
<1>3. ASSUME Cascade PROVE FALSE
  <2>1. calls # <<>> /\ t \in Id
    BY <1>0, <1>3, CascadeRuns, TopType
  <2>2. ~(\/ EvaluateKeeps \/ StartLoadingNull \/ CascadeNext \/ CascadeDone \/ FinishKeeps
          \/ NotifyNext \/ NotifyDone \/ TransitionFinished)
    BY <1>0, <1>1, <2>1, QuietEffect
  <2>3. ~EvaluateUnloads
    BY DEF EvaluateUnloads
  <2>4. ~StartLoading /\ ~StartLoadingThrows
    BY <1>0, <1>1, <2>1, LoadEffect, ThrowEffect
  <2>5. ~BeginUnloadKeeps
    BY <1>0, <1>1, <1>2, <2>1, KeepsEffect
  <2>6. ~BeginUnloadActive /\ ~Finish
    BY <1>0, <1>1, <2>1, BeginEffect, FinishEffect
  <2>7. ~ReleaseNext
    BY <1>0, <1>1, <1>2, <2>1, ReleaseEffect
  <2>8. ~ReleaseDone /\ ~AwaitGate /\ ~FinishTail
    BY <1>0, <1>1, <1>2, <2>1, OpenEffect, AwaitEffect, TailEffect
  <2> QED BY <1>3, <2>2, <2>3, <2>4, <2>5, <2>6, <2>7, <2>8 DEF Cascade
<1>4. ASSUME NEW c \in Roots, Mount(c) PROVE FALSE
  <2>1. f # next_id
    BY <1>4, MountEffect
  <2> QED BY <1>0, <1>1, <1>4, <2>1, MountEffect
<1>5. ASSUME NEW p \in Id, MountChild(p) PROVE FALSE
  BY <1>0, <1>2, <1>5, MountChildEffect
<1>6. ASSUME NEW p \in Id, NEW raised \in BOOLEAN, ApplyFails(p, raised) PROVE FALSE
  BY <1>0, <1>1, <1>6, FailEffect
<1>7. ASSUME NEW p \in Id, RequestChild(p) PROVE FALSE
  BY <1>0, <1>2, <1>7, RequestEffect
<1>8. ASSUME NEW p \in Id,
             \/ \E k \in Keys : Provide(p, k) \/ ProvideLate(p, k) \/ ReleaseEarly(p, k) \/ Promote(p, k)
             \/ \E h \in Hosts : WaitIdle(h)
             \/ Cancel(p)
      PROVE  FALSE
  BY <1>0, <1>1, <1>8, CalmEffect
<1>9. ASSUME NEW p \in Id, NEW h \in Hosts, Retire(h, p) PROVE FALSE
  <2>1. (\A g \in Id : Keeps(g)) \/ Marks(p)
    BY <1>0, <1>9, RetireEffect
  <2>2. Marks(p) => (\A g \in Id \ {p} : Keeps(g)) /\ KeepsState(p)
    BY DEF Marks
  <2> QED BY <1>0, <1>1, <1>2, <2>1, <2>2
<1>10. ASSUME NEW p \in Id, RetireChild(p) PROVE FALSE
  <2>1. p \in fibers /\ rec' = [rec EXCEPT ![p].reactivate = -1] /\ fibers' = fibers
    BY <1>10 DEF RetireChild
  <2>2. Marks(p)
    BY <1>0, <2>1, MarkEffect
  <2>3. (\A g \in Id \ {p} : Keeps(g)) /\ KeepsState(p)
    BY <2>2 DEF Marks
  <2> QED BY <1>0, <1>1, <1>2, <2>3
<1>11. ASSUME NEW p \in Id, ApplyPublishes(p) PROVE p = f
  BY <1>0, <1>2, <1>11, PublishEffect
<1>12. ASSUME NEW h \in Hosts, WaitIdle(h) PROVE FALSE
  BY <1>0, <1>1, <1>8, <1>12
<1> QED BY <1>3, <1>4, <1>5, <1>6, <1>7, <1>8, <1>9, <1>10, <1>11, <1>12
        DEF Next, ApplyCompletes

(* A fiber publishes against the view its declarations resolve to at that  *)
(* moment, whatever was mounted, withdrawn or competing while it loaded,   *)
(* if no dependency is optional (runtime.cpp on_apply_completed).          *)
THEOREM ResolutionHolds == Required = Inject => (Spec => ResolutionCoherent)
<1> SUFFICES ASSUME Required = Inject PROVE Spec => ResolutionCoherent
  OBVIOUS
<1> DEFINE Views == \A f \in Id : Committed(f)
           Coherent == \A f \in fibers : rec[f].state = "loading" /\ rec'[f].state = "active" =>
                            rec[f].committed = Resolve(f)
<1>1. Init => Views
  <2>1. Init => \A f \in Id : rec[f].state = "inactive" /\ rec[f].committed = NothingCommitted
    BY DEF Init, NoFiber, NewFiber
  <2> QED BY <2>1 DEF Committed, NothingCommitted
<1>2. IInv /\ Views /\ [Next]_vars => Views'
  BY ViewsKept
<1>3. IInv /\ Views /\ [Next]_vars => [Coherent]_vars
  <2> SUFFICES ASSUME IInv, Views, Next, NEW f \in fibers,
                      rec[f].state = "loading", rec'[f].state = "active"
               PROVE  rec[f].committed = Resolve(f)
    OBVIOUS
  <2>1. TypeOK /\ f \in Id
    BY DEF IInv, TypeOK
  <2>2. ProvidersStillActive(f)
    BY OnlyPublishing DEF ApplyPublishes
  <2> QED BY <2>1, <2>2, StillResolved
<1> QED BY Invariance, <1>1, <1>2, <1>3, PTL DEF Spec, ResolutionCoherent

----------------------------------------------------------------------------
(* A static assembly stays plain *)

LEMMA AllRequired == StaticAssembly => Required = Inject
<1> SUFFICES ASSUME StaticAssembly PROVE Required = Inject
  OBVIOUS
<1>1. Required \in [Comp -> SUBSET Keys] /\ Inject \in [Comp -> SUBSET Keys]
  BY ComponentAssumption
<1>2. \A c \in Comp : Required[c] = Inject[c]
  BY DEF StaticAssembly
<1> QED BY <1>1, <1>2

(* What such an assembly never does.                                       *)
LEMMA Excluded ==
    ASSUME StaticAssembly, Mounted, Flat, NEW f \in Id, NEW k
    PROVE  /\ ~RequestChild(f) /\ ~MountChild(f) /\ ~RetireChild(f)
           /\ ~ProvideLate(f, k) /\ ~ReleaseEarly(f, k)
           /\ f \in fibers => Factory[rec[f].comp] # "throws"
<1>1. f \in fibers => rec[f].comp \in Comp
  BY DEF Mounted
<1>2. ~RequestChild(f)
  BY <1>1 DEF StaticAssembly, RequestChild
<1>3. ~MountChild(f)
  BY DEF Flat, MountChild
<1>4. ~RetireChild(f)
  BY DEF Flat, RetireChild
<1>5. ~ProvideLate(f, k) /\ ~ReleaseEarly(f, k)
  BY DEF StaticAssembly, ProvideLate, ReleaseEarly
<1>6. f \in fibers => Factory[rec[f].comp] # "throws"
  BY <1>1 DEF StaticAssembly
<1> QED BY <1>2, <1>3, <1>4, <1>5, <1>6

(* No fiber moves, none is added.                                          *)
PlacesStay ==
    /\ posted' = {} /\ fibers' \subseteq fibers
    /\ \A g \in Id : KeepsPlace(g) /\ rec'[g].kids = {} /\ rec'[g].request = "none"

LEMMA CascadeStays ==
    ASSUME StaticAssembly, TypeOK, Mounted, Flat, Cascade
    PROVE  PlacesStay
<1> DEFINE Stays(g) == KeepsPlace(g) /\ rec'[g].kids = {} /\ rec'[g].request = "none"
<1>1. calls # <<>>
  BY CascadeRuns
<1>2. PICK t \in Id : t = Top.f
  BY <1>1, TopType
<1>3. \A g \in Id : rec[g].kids = {} /\ rec[g].request = "none"
  BY DEF Flat
<1>4. \A g \in Id : KeepsPlace(g) /\ KeepsChildren(g) => Stays(g)
  BY <1>3 DEF KeepsChildren
<1>5. \A g \in Id : Keeps(g) => Stays(g)
  BY <1>4 DEF Keeps
<1>6. posted = {}
  BY DEF Flat
<1>7. fibers' \subseteq fibers /\ posted' = {} /\ \A g \in Id : Stays(g)
  <2> HIDE DEF Stays
  <2>1. CASE \/ EvaluateKeeps \/ StartLoadingNull \/ CascadeNext \/ CascadeDone \/ FinishKeeps
             \/ NotifyNext \/ NotifyDone \/ TransitionFinished
    BY <1>1, <1>5, <1>6, <2>1, QuietEffect
  <2>2. CASE EvaluateUnloads
    <3>1. rec' = rec /\ posted' = posted /\ fibers' = fibers
      BY <2>2 DEF EvaluateUnloads
    <3> QED BY <1>5, <1>6, <3>1, Untouched
  <2>3. CASE StartLoading \/ StartLoadingThrows
    <3>1. (\A g \in Id \ {t} : Keeps(g)) /\ KeepsPlace(t) /\ KeepsChildren(t)
          /\ fibers' = fibers /\ posted' = posted
      BY <1>1, <1>2, <2>3, LoadEffect, ThrowEffect
    <3> QED BY <1>2, <1>4, <1>5, <1>6, <3>1
  <2>4. CASE BeginUnloadKeeps
    <3>1. (\A g \in Id \ {t} : Keeps(g)) /\ KeepsPlace(t) /\ KeepsChildren(t)
          /\ fibers' = fibers /\ posted' = posted
      BY <1>1, <1>2, <2>4, KeepsEffect
    <3> QED BY <1>2, <1>4, <1>5, <1>6, <3>1
  <2>5. CASE BeginUnloadActive
    <3>1. (\A g \in Id \ {t} : Keeps(g)) /\ KeepsPlace(t) /\ KeepsChildren(t)
          /\ fibers' = fibers /\ posted' = posted
      BY <1>1, <1>2, <2>5, BeginEffect
    <3> QED BY <1>2, <1>4, <1>5, <1>6, <3>1
  <2>6. CASE Finish
    <3>1. /\ (\A g \in Id \ {t} : Keeps(g)) /\ KeepsPlace(t)
          /\ rec'[t].kids = {} /\ rec'[t].request = Orphaned(rec[t].request)
          /\ fibers' = fibers /\ posted' = posted \cup rec[t].kids
      BY <1>1, <1>2, <2>6, FinishEffect
    <3>2. Stays(t)
      BY <1>2, <1>3, <3>1 DEF Stays, Orphaned
    <3> QED BY <1>2, <1>3, <1>5, <1>6, <3>1, <3>2
  <2>7. CASE ReleaseNext
    <3>0. PICK p : p = First(Top.todo)[2]
      OBVIOUS
    <3>1. /\ \A g \in Id \ {p} : Keeps(g)
          /\ p \notin fibers => \A g \in Id : Keeps(g)
          /\ p \in fibers => KeepsPlace(p) /\ KeepsChildren(p)
          /\ fibers' = fibers /\ posted' = posted
      BY <1>1, <2>7, <3>0, ReleaseEffect
    <3> QED BY <1>4, <1>5, <1>6, <3>1
  <2>8. CASE ReleaseDone \/ AwaitGate \/ FinishTail
    <3>1. (\A g \in Id \ {t} : Keeps(g)) /\ KeepsPlace(t) /\ KeepsChildren(t)
          /\ fibers' \subseteq fibers /\ posted' = posted
      BY <1>1, <1>2, <2>8, OpenEffect, AwaitEffect, TailEffect
    <3> QED BY <1>2, <1>4, <1>5, <1>6, <3>1
  <2> QED BY <2>1, <2>2, <2>3, <2>4, <2>5, <2>6, <2>7, <2>8 DEF Cascade
<1> QED BY <1>7 DEF PlacesStay

(* The handlers that concern a mounted fiber.                              *)
LEMMA HandlerStays ==
    ASSUME StaticAssembly, TypeOK, Mounted, Flat, NEW f \in Id, Handler(f)
    PROVE  PlacesStay
<1> DEFINE Stays(g) == KeepsPlace(g) /\ rec'[g].kids = {} /\ rec'[g].request = "none"
<1>3. \A g \in Id : rec[g].kids = {} /\ rec[g].request = "none"
  BY DEF Flat
<1>4. \A g \in Id : KeepsPlace(g) /\ KeepsChildren(g) => Stays(g)
  BY <1>3 DEF KeepsChildren
<1>5. \A g \in Id : Keeps(g) => Stays(g)
  BY <1>4 DEF Keeps
<1>6. posted = {}
  BY DEF Flat
<1>7. fibers' \subseteq fibers /\ posted' = {} /\ \A g \in Id : Stays(g)
  <2> HIDE DEF Stays
  <2>1. CASE \/ \E k \in Keys : Provide(f, k) \/ Promote(f, k)
             \/ \E h \in Hosts : WaitIdle(h)
             \/ Cancel(f)
    BY <1>5, <1>6, <2>1, CalmEffect
  <2>2. CASE ApplyPublishes(f)
    <3>1. /\ \A g \in Id : KeepsPlace(g) /\ KeepsChildren(g)
          /\ fibers' = fibers /\ posted' = posted
      BY <2>2, PublishEffect
    <3> QED BY <1>4, <1>6, <3>1
  <2>3. ASSUME NEW raised \in BOOLEAN, ApplyFails(f, raised) PROVE fibers' \subseteq fibers /\ posted' = {} /\ \A g \in Id : Stays(g)
    <3>1. /\ (\A g \in Id \ {f} : Keeps(g)) /\ KeepsPlace(f)
          /\ rec'[f].kids = {} /\ rec'[f].request = Orphaned(rec[f].request)
          /\ fibers' \subseteq fibers /\ posted' = posted \cup rec[f].kids
      BY <2>3, FailEffect
    <3>2. Stays(f)
      BY <1>3, <3>1 DEF Stays, Orphaned
    <3> QED BY <1>3, <1>5, <1>6, <3>1, <3>2
  <2>4. ASSUME NEW h \in Hosts, Retire(h, f) PROVE fibers' \subseteq fibers /\ posted' = {} /\ \A g \in Id : Stays(g)
    <3>1. /\ ((\A g \in Id : Keeps(g)) /\ fibers' \subseteq fibers) \/ Marks(f)
          /\ posted' = posted
      BY <2>4, RetireEffect
    <3>2. Marks(f) => /\ (\A g \in Id \ {f} : Keeps(g)) /\ KeepsPlace(f) /\ KeepsChildren(f)
                      /\ fibers' = fibers
      BY DEF Marks
    <3> QED BY <1>4, <1>5, <1>6, <3>1, <3>2
  <2> QED BY <2>1, <2>2, <2>3, <2>4, Excluded DEF Handler, ApplyCompletes
<1> QED BY <1>7 DEF PlacesStay

(* A plain assembly stays plain.                                           *)
LEMMA PlainKept ==
    ASSUME StaticAssembly, IInv, Plain, [Next]_vars
    PROVE  Plain'
<1>1. TypeOK /\ Mounted /\ Flat /\ Distinct /\ fibers \subseteq Id
  BY DEF IInv, Plain, TypeOK
<1>2. \A f \in Id : Committed(f)'
  BY AllRequired, ViewsKept DEF Plain
<1>3. ASSUME PlacesStay PROVE Flat' /\ Distinct'
  <2>1. Flat'
    BY <1>1, <1>3 DEF PlacesStay, Flat, KeepsPlace
  <2>2. Distinct'
    BY <1>1, <1>3 DEF PlacesStay, Distinct, KeepsPlace
  <2> QED BY <2>1, <2>2
<1>4. CASE Cascade
  BY <1>1, <1>2, <1>3, <1>4, CascadeStays DEF Plain
<1>5. ASSUME NEW f \in Id, Handler(f) PROVE Plain'
  BY <1>1, <1>2, <1>3, <1>5, HandlerStays DEF Plain
<1>6. ASSUME NEW c \in Roots, Mount(c) PROVE Plain'
  <2>0. PICK n \in Id : n = next_id
    BY <1>6, MountEffect
  <2>1. /\ n \notin fibers /\ fibers' = fibers \cup {n} /\ posted' = posted
        /\ \A g \in Id \ {n} : Keeps(g)
        /\ rec'[n] = NewFiber(c, {0}, 0)
    BY <1>6, <2>0, MountEffect
  <2>2. /\ rec'[n].comp = c /\ rec'[n].chain = {0} /\ rec'[n].parent = 0
        /\ rec'[n].kids = {} /\ rec'[n].request = "none"
    BY <2>1 DEF NewFiber
  <2>3. \A g \in Id \ {n} : KeepsPlace(g) /\ KeepsChildren(g)
    BY <2>1 DEF Keeps
  <2>4. Flat'
    BY <1>1, <2>1, <2>2, <2>3 DEF Flat, KeepsPlace, KeepsChildren
  <2>5. \A f \in fibers : Provides[rec[f].comp] \cap Provides[c] = {}
    BY <1>1, <1>6 DEF Mount, StaticAssembly, Flat
  <2>6. \A f \in fibers : rec'[f].comp = rec[f].comp
    BY <1>1, <2>1, <2>3 DEF KeepsPlace
  <2>7. Distinct'
    BY <1>1, <2>1, <2>2, <2>5, <2>6 DEF Distinct
  <2> QED BY <1>2, <2>4, <2>7 DEF Plain
<1>7. CASE UNCHANGED vars
  <2>1. Flat' /\ Distinct'
    BY <1>1, <1>7 DEF vars, Flat, Distinct
  <2> QED BY <1>2, <2>1 DEF Plain
<1>8. ASSUME NEW f \in Id, MountChild(f) PROVE FALSE
  BY <1>1, <1>8, Excluded
<1>9. ASSUME NEW h \in Hosts, WaitIdle(h) PROVE \E f \in Id : Handler(f)
  <2>1. 1 \in Id
    BY BoundAssumption DEF Id
  <2> QED BY <1>9, <2>1 DEF Handler
<1> QED BY <1>4, <1>5, <1>6, <1>7, <1>8, <1>9 DEF Next, Handler

----------------------------------------------------------------------------
(* What the invariant says of a fiber and its providers *)

(* There is one scope.                                                     *)
LEMMA OneContext ==
    ASSUME Flat, NEW f \in fibers
    PROVE  /\ ScopeOf(f) = 0
           /\ \A k : Lookup(f, k) = bindings[0][k]
<1>1. rec[f].chain = {0}
  BY DEF Flat
<1>2. ScopeOf(f) = 0
  BY <1>1 DEF ScopeOf
<1>3. ASSUME NEW k PROVE Lookup(f, k) = bindings[0][k]
  <2> DEFINE bound == {s \in rec[f].chain : bindings[s][k] # Unbound}
  <2>1. CASE bindings[0][k] = Unbound
    <3>1. bound = {}
      BY <1>1, <2>1
    <3> QED BY <2>1, <3>1 DEF Lookup
  <2>2. CASE bindings[0][k] # Unbound
    <3>1. bound = {0}
      BY <1>1, <2>2
    <3>2. (CHOOSE s \in bound : \A t \in bound : t <= s) = 0
      BY <3>1
    <3> QED BY <3>1, <3>2 DEF Lookup
  <2> QED BY <2>1, <2>2
<1> QED BY <1>2, <1>3

(* A key that is bound is bound by the one fiber that declares it.         *)
LEMMA BoundBy ==
    ASSUME TypeOK, Bindings, NEW k \in Keys, bindings[0][k].provider # 0
    PROVE  LET p == bindings[0][k].provider
           IN  /\ p \in fibers /\ p \in Id /\ k \in Provides[rec[p].comp]
               /\ rec[p].state # "inactive" /\ bindings[0][k].state = Phase(p)
<1>1. bindings[0][k] # Unbound
  BY DEF Unbound
<1>2. BoundSoundly(k)
  BY DEF Bindings
<1> QED BY <1>1, <1>2 DEF BoundSoundly, TypeOK

(* Two fibers do not declare the same key.                                 *)
LEMMA Sole ==
    ASSUME Plain, NEW f \in fibers, NEW g \in fibers, NEW k,
           k \in Provides[rec[f].comp], k \in Provides[rec[g].comp]
    PROVE  f = g
BY DEF Plain, Distinct

(* Being published is being active or withdrawing.                         *)
LEMMA PublishedStates ==
    ASSUME NEW f \in Id, Loads(f)
    PROVE  /\ Published(f) <=> rec[f].state = "active" \/ Withdrawing(f)
           /\ Published(f) => f \in fibers /\ rec[f].state # "inactive"
           /\ rec[f].state = "loading" => ~Published(f)
BY DEF Loads, Published, Withdrawing

(* The providers of a published fiber.                                     *)
LEMMA ProvidersOf ==
    ASSUME AInv, NEW c \in Id, Published(c), NEW k \in Keys, rec[c].committed[k] # 0
    PROVE  LET p == rec[c].committed[k]
           IN  /\ p \in Id /\ p \in fibers /\ p # c /\ Published(p)
               /\ k \in Inject[rec[c].comp] /\ k \in Provides[rec[p].comp]
               /\ c \in rec[p].consumers
               /\ bindings[0][k].provider = p /\ bindings[0][k].available
<1> DEFINE p == rec[c].committed[k]
<1>1. rec[c].state # "inactive"
  BY DEF Published
<1>2. k \in Inject[rec[c].comp] /\ p # c
  BY <1>1 DEF AInv, Plain, Committed
<1>3. /\ p \in Id /\ Published(p) /\ c \in rec[p].consumers
      /\ bindings[0][k].provider = p /\ bindings[0][k].available
  BY <1>2 DEF AInv, AssemblyInv, Records, Installed
<1>4. p \in fibers /\ k \in Provides[rec[p].comp]
  BY <1>3, BoundBy DEF AInv, AssemblyInv, IInv
<1> QED BY <1>2, <1>3, <1>4

(* What a published fiber declares, it has.                                *)
LEMMA NeedsMet ==
    ASSUME AInv, NEW c \in Id, Published(c), NEW k \in Inject[rec[c].comp]
    PROVE  k \in Keys /\ rec[c].committed[k] # 0
<1>1. rec[c].state # "inactive" /\ c \in fibers
  BY PublishedStates DEF AInv, AssemblyInv, Records
<1>2. k \in Keys
  BY <1>1, ComponentAssumption DEF AInv, IInv, Mounted
<1> QED BY <1>1, <1>2 DEF AInv, Plain, Committed

(* A fiber being released by a loop is down.                               *)
LEMMA ReleasedDown ==
    ASSUME Stack, NEW c, NEW p, Releases(c, p)
    PROVE  rec[c].state = "inactive"
<1>1. PICK d \in 1..height : stack[d].op = "release" /\ stack[d].f = c
  BY DEF Releases
<1>2. StaysDown(d)
  BY DEF Stack, Stacked
<1> QED BY <1>1, <1>2 DEF StaysDown

(* The consumers of a provider.                                            *)
LEMMA ConsumersOf ==
    ASSUME AInv, NEW p \in Id, NEW c \in rec[p].consumers, rec[c].state # "inactive" \/ ~Releases(c, p)
    PROVE  /\ c \in Id /\ c \in fibers /\ Published(p) /\ Published(c)
           /\ \E k \in Keys : rec[c].committed[k] = p
<1>1. c \in Id
  BY DEF AInv, IInv, TypeOK, FiberRecord
<1>2. ~Releases(c, p)
  BY ReleasedDown DEF AInv, AssemblyInv
<1>3. Published(p) /\ Published(c) /\ \E k \in Keys : rec[c].committed[k] = p
  BY <1>2 DEF AInv, AssemblyInv, Records, Counts
<1> QED BY <1>1, <1>3, PublishedStates DEF AInv, AssemblyInv, Records

(* An active fiber is told of nothing: no other provider of its keys is    *)
(* active, and those it has are available.                                 *)
LEMMA NothingNew ==
    ASSUME AInv, NEW g \in fibers, rec[g].state = "active", NEW f \in fibers,
           NEW k \in Inject[rec[g].comp] \cap Provides[rec[f].comp]
    PROVE  Published(f) /\ bindings[0][k].provider = f /\ bindings[0][k].available /\ f # g
<1>1. g \in Id /\ Published(g)
  BY PublishedStates DEF AInv, AssemblyInv, Records, IInv, TypeOK
<1>2. k \in Keys /\ rec[g].committed[k] # 0
  BY <1>1, NeedsMet
<1> DEFINE p == rec[g].committed[k]
<1>3. /\ p \in fibers /\ p # g /\ Published(p) /\ k \in Provides[rec[p].comp]
      /\ bindings[0][k].provider = p /\ bindings[0][k].available
  BY <1>1, <1>2, ProvidersOf
<1>4. p = f
  BY <1>3, Sole DEF AInv
<1> QED BY <1>3, <1>4

(* A blocked fiber is not loaded: it is retired, or a provider it needs    *)
(* is going down.                                                          *)
LEMMA BlockedDown ==
    ASSUME StaticAssembly, AInv, NEW f \in fibers, Satisfiable(f), rec[f].reactivate # -1,
           NEW d \in 1..(height + 1)
    PROVE  ~Blocked(f, d)
<1> SUFFICES ASSUME NEW e \in 1..(d - 1), stack[e].op = "cascade", Needs(f, stack[e].f)
             PROVE  FALSE
  BY DEF Blocked
<1>1. height \in Nat /\ e \in 1..height
  BY DEF AInv, IInv, TypeOK, height
<1> DEFINE q == stack[e].f
<1>2. q \in fibers /\ ~rec[q].applying /\ rec[q].state \in {"unloading", "inactive"}
  BY <1>1 DEF AInv, AssemblyInv, Stack, Stacked, Held, StaysDown
<1>3. PICK k \in Inject[rec[f].comp] : k \in Provides[rec[q].comp]
  BY DEF Needs
<1>4. f \in Id /\ rec[f].comp \in Comp /\ TypeOK
  BY DEF AInv, IInv, TypeOK, Mounted
<1>5. k \in Keys /\ k \in Required[rec[f].comp]
  BY <1>4, ComponentAssumption DEF StaticAssembly
<1>6. Resolve(f)[k] # 0
  BY <1>5 DEF Satisfiable
<1>7. Lookup(f, k) = bindings[0][k]
  BY OneContext DEF AInv, Plain
<1>8. bindings[0][k].state = "active" /\ bindings[0][k].provider # 0
  BY <1>5, <1>6, <1>7 DEF Resolve
<1> DEFINE p == bindings[0][k].provider
<1>9. p \in fibers /\ k \in Provides[rec[p].comp] /\ Phase(p) = "active"
  BY <1>4, <1>5, <1>8, BoundBy DEF AInv, AssemblyInv
<1>10. p = q
  BY <1>2, <1>3, <1>9, Sole DEF AInv
<1> QED BY <1>2, <1>9, <1>10 DEF Phase

----------------------------------------------------------------------------
(* The frames beneath the one that runs *)

(* What is down stays down.                                                *)
Sinks(g) ==
    /\ ~rec[g].applying /\ rec[g].state \in {"unloading", "inactive"} =>
            ~rec'[g].applying /\ rec'[g].state \in {"unloading", "inactive"}
    /\ rec[g].state = "inactive" => rec'[g].state = "inactive"

(* The running release loop lets go of a provider.                         *)
LetsGo(c) == Top.op = "release" /\ Top.f = c

(* A step of the cascade publishes nothing, revives nothing a frame holds  *)
(* down, and lets go of no provider but by its release loop.               *)
Gentle ==
    /\ fibers' = fibers
    /\ \A g \in Id :
         /\ KeepsPlace(g)
         /\ rec[g].reactivate = -1 => rec'[g].reactivate = -1
         /\ rec'[g].state = "active" => rec[g].state = "active"
         /\ Published(g)' => Published(g)
         /\ \A c \in rec[g].consumers : Published(g)' /\ (c \in rec'[g].consumers \/ LetsGo(c))
         /\ Sinks(g) \/ \A d \in 1..height : ~Blocked(g, d)

(* The stack below d is the same.                                          *)
SameBelow(d) == \A e \in 1..(d - 1) : stack'[e] = stack[e]

LEMMA BlockedKept ==
    ASSUME TypeOK, calls # <<>>, NEW f \in Id, NEW d \in Nat, d - 1 <= height, SameBelow(d),
           \A g \in Id : KeepsPlace(g),
           rec[f].reactivate = -1 => rec'[f].reactivate = -1,
           Blocked(f, d)
    PROVE  Blocked(f, d)'
<1>1. \A g \in Id : rec'[g].comp = rec[g].comp
  BY DEF KeepsPlace
<1>2. CASE rec[f].reactivate = -1
  BY <1>2 DEF Blocked
<1>3. ASSUME NEW e \in 1..(d - 1), stack[e].op = "cascade", Needs(f, stack[e].f)
      PROVE  Blocked(f, d)'
  <2>1. stack'[e] = stack[e]
    BY DEF SameBelow
  <2>2. stack[e].f \in Id
    BY TopFrame DEF Frame
  <2>3. Needs(f, stack[e].f)'
    BY <1>1, <1>3, <2>1, <2>2 DEF Needs
  <2> QED BY <1>3, <2>1, <2>3 DEF Blocked
<1> QED BY <1>2, <1>3 DEF Blocked

(* Blocked below is blocked above.                                         *)
LEMMA BlockedAbove ==
    ASSUME NEW f, NEW d \in Nat, NEW e \in Nat, d <= e, Blocked(f, d)
    PROVE  Blocked(f, e)
<1>1. \A i \in 1..(d - 1) : i \in 1..(e - 1)
  OBVIOUS
<1> QED BY <1>1 DEF Blocked

LEMMA Beneath ==
    ASSUME AInv, calls # <<>>, Gentle, SameBelow(height), height' \in Nat, height' >= height - 1
    PROVE  \A d \in 1..(height - 1) : Stacked(d)'
<1>0. TypeOK /\ height \in Nat \ {0} /\ Top = stack[height]
  BY TopFrame DEF AInv, IInv
<1>1. \A d \in 1..height : Stacked(d)
  BY DEF AInv, AssemblyInv, Stack
<1> SUFFICES ASSUME NEW d \in 1..(height - 1) PROVE Stacked(d)'
  OBVIOUS
<1>2. /\ d \in 1..height /\ d \in 1..height' /\ d # height /\ Stacked(d) /\ Stacked(height)
      /\ d \in Nat /\ d - 1 <= height
  BY <1>0, <1>1
<1>3. PICK a \in Frame : a = stack[d] /\ stack'[d] = a
  BY <1>0, <1>2, TopFrame DEF SameBelow
<1>4. SameBelow(d)
  BY <1>0 DEF SameBelow
<1>5. a.f \in Id /\ a.todo \in SUBSET (Nat \X Id) /\ \A t \in a.todo : t[2] \in Id
  BY DEF Frame
<1>6. \A g \in Id : KeepsPlace(g) /\ rec'[g].comp = rec[g].comp
  BY DEF Gentle, KeepsPlace
<1>7. Held(d)'
  <2>1. a.op \notin {"begin_unload", "finish", "evaluate"}
    BY <1>2, <1>3 DEF Stacked, Held
  <2> QED BY <1>2, <1>3, <1>5, <2>1 DEF Gentle, Stacked, Held
<1>8. Descends(d)'
  BY <1>2, <1>3, <1>4 DEF SameBelow, Stacked, Descends
<1>9. StaysDown(d)'
  <2>1. StaysDown(d)
    BY <1>2 DEF Stacked
  <2>2. Blocked(a.f, d) => Blocked(a.f, d)'
    BY <1>0, <1>2, <1>4, <1>5, <1>6, BlockedKept DEF Gentle
  <2>3. a.op \notin {"begin_unload", "finish"}
    BY <1>2, <1>3 DEF Stacked, Held
  <2>4. a.op \in {"cascade", "release"} => Blocked(a.f, d)
    BY <1>3, <2>1 DEF StaysDown
  <2>5. a.op \in {"cascade", "release"} => Sinks(a.f)
    BY <1>2, <1>5, <2>4 DEF Gentle
  <2> QED BY <1>3, <2>1, <2>2, <2>3, <2>4, <2>5 DEF StaysDown, Sinks
<1>10. Cascades(d)'
  <2> SUFFICES ASSUME a.op = "cascade", NEW t \in a.todo
               PROVE  /\ t[2] \in fibers' /\ Needs(t[2], a.f)'
                      /\ Published(t[2])' => t[2] \in rec'[a.f].consumers
    BY <1>3 DEF Cascades
  <2>1. /\ t[2] \in fibers /\ Needs(t[2], a.f)
        /\ Published(t[2]) => t[2] \in rec[a.f].consumers
    BY <1>2, <1>3 DEF Stacked, Cascades
  <2>2. Needs(t[2], a.f)'
    BY <1>5, <1>6, <2>1 DEF Needs
  <2>3. Published(t[2])' => Published(t[2])
    BY <1>5 DEF Gentle
  <2>4. Published(t[2]) => ~LetsGo(t[2])
    <3>1. Top.op = "release" => rec[Top.f].state = "inactive"
      BY <1>0, <1>2 DEF Stacked, StaysDown
    <3> QED BY <3>1 DEF LetsGo, Published
  <2> QED BY <1>5, <2>1, <2>2, <2>3, <2>4 DEF Gentle
<1>11. Detaches(d)'
  <2> SUFFICES ASSUME a.op = "release"
               PROVE  /\ \A t \in a.todo : Published(t[2])' /\ a.f \in rec'[t[2]].consumers
                      /\ \A t, u \in a.todo : t[2] = u[2] => t = u
                      /\ \A e \in 1..(d - 1) : stack'[e].op = "release" => stack'[e].f # a.f
    BY <1>3 DEF Detaches
  <2>1. /\ \A t \in a.todo : Published(t[2]) /\ a.f \in rec[t[2]].consumers
        /\ \A t, u \in a.todo : t[2] = u[2] => t = u
        /\ \A e \in 1..(d - 1) : stack[e].op = "release" => stack[e].f # a.f
    BY <1>2, <1>3 DEF Stacked, Detaches
  <2>2. ~LetsGo(a.f)
    <3>1. Top.op = "release" => \A e \in 1..(height - 1) : stack[e].op = "release" => stack[e].f # Top.f
      BY <1>0, <1>2 DEF Stacked, Detaches
    <3> QED BY <1>3, <3>1 DEF LetsGo
  <2>3. \A t \in a.todo : Published(t[2])' /\ a.f \in rec'[t[2]].consumers
    BY <1>5, <2>1, <2>2 DEF Gentle
  <2> QED BY <1>4, <2>1, <2>3 DEF SameBelow
<1>12. Spares(d)'
  <2>1. Spares(d)
    BY <1>2 DEF Stacked
  <2> QED BY <1>3, <1>5, <2>1 DEF Gentle, Spares
<1> QED BY <1>7, <1>8, <1>9, <1>10, <1>11, <1>12 DEF Stacked

----------------------------------------------------------------------------
(* Steps of the cascade, in general *)

(* The release loops that were on the stack still are.                     *)
LoopsStay ==
    /\ \A c, p : Releases(c, p) => Releases(c, p)'
    /\ \A c : Unwinds(c) => Unwinds(c)'

LEMMA LoopsBeneath ==
    ASSUME TypeOK, calls # <<>>, SameBelow(height), height' \in Nat, height' >= height - 1,
           Top.op # "release"
    PROVE  LoopsStay
<1>0. height \in Nat \ {0} /\ Top = stack[height]
  BY TopFrame
<1>1. ASSUME NEW d \in 1..height, stack[d].op = "release"
      PROVE  d \in 1..height' /\ stack'[d] = stack[d]
  <2>1. d # height
    BY <1>0, <1>1
  <2> QED BY <1>0, <2>1 DEF SameBelow
<1>2. ASSUME NEW c, NEW p, Releases(c, p) PROVE Releases(c, p)'
  <2>1. PICK d \in 1..height : /\ stack[d].op = "release" /\ stack[d].f = c
                               /\ \E t \in stack[d].todo : t[2] = p
    BY <1>2 DEF Releases
  <2>2. d \in 1..height' /\ stack'[d] = stack[d]
    BY <1>1, <2>1
  <2> QED BY <2>1, <2>2 DEF Releases
<1>3. ASSUME NEW c, Unwinds(c) PROVE Unwinds(c)'
  <2>1. PICK d \in 1..height : stack[d].op = "release" /\ stack[d].f = c
    BY <1>3 DEF Unwinds
  <2>2. d \in 1..height' /\ stack'[d] = stack[d]
    BY <1>1, <2>1
  <2> QED BY <2>1, <2>2 DEF Unwinds
<1> QED BY <1>2, <1>3 DEF LoopsStay

(* Nothing but a mark changes.                                             *)
CalmStep ==
    /\ fibers' = fibers /\ bindings' = bindings
    /\ \A g \in Id : /\ KeepsPlace(g) /\ KeepsState(g) /\ KeepsCount(g) /\ KeepsGate(g)
                     /\ rec[g].reactivate = -1 => rec'[g].reactivate = -1

LEMMA CalmGentle ==
    ASSUME AInv, CalmStep PROVE Gentle
<1>1. \A g \in Id : rec'[g].state = rec[g].state /\ rec'[g].applying = rec[g].applying
                    /\ rec'[g].consumers = rec[g].consumers
  BY DEF CalmStep, KeepsState, KeepsCount
<1>2. \A g \in Id : (Published(g) <=> Published(g)') /\ Sinks(g)
  BY <1>1 DEF Published, Sinks
<1>3. \A g \in Id : \A c \in rec[g].consumers : Published(g)
  BY DEF AInv, AssemblyInv, Records, Counts
<1> QED BY <1>1, <1>2, <1>3 DEF CalmStep, Gentle

(* A record and its bindings, unless what they depend on changes.          *)
LEMMA LoadsKept ==
    ASSUME NEW g \in Id, Loads(g), KeepsState(g), g \in fibers => g \in fibers'
    PROVE  Loads(g)'
BY DEF Loads, KeepsState

LEMMA CountsKept ==
    ASSUME NEW g \in Id, Counts(g), rec'[g].consumers = rec[g].consumers,
           Published(g) => Published(g)',
           \A c \in rec[g].consumers :
               /\ Releases(c, g) => Releases(c, g)'
               /\ Published(c) => \/ Published(c)' /\ rec'[c].committed = rec[c].committed
                                  \/ Releases(c, g)'
    PROVE  Counts(g)'
BY DEF Counts

LEMMA CountedKept ==
    ASSUME NEW g \in Id, Counted(g), KeepsCount(g), Withdrawing(g)' <=> Withdrawing(g)
    PROVE  Counted(g)'
BY DEF Counted, KeepsCount

LEMMA GateKept ==
    ASSUME NEW g \in Id, Gate(g), KeepsState(g), KeepsGate(g), Unwinds(g) => Unwinds(g)',
           g \in fibers' => g \in fibers
    PROVE  Gate(g)'
BY DEF Gate, KeepsState, KeepsGate

LEMMA InstalledKept ==
    ASSUME NEW c \in Id, Installed(c), Mounted, Loads(c), TypeOK,
           KeepsPlace(c), Published(c)' => Published(c) /\ rec'[c].committed = rec[c].committed,
           \A p \in Id : c \in rec[p].consumers => Published(p)' /\ c \in rec'[p].consumers,
           \A k \in Keys, p \in Id :
               bindings[0][k].provider = p /\ bindings[0][k].available
               /\ Published(p) /\ c \in rec[p].consumers
                 => bindings'[0][k].provider = p /\ bindings'[0][k].available
    PROVE  Installed(c)'
<1> SUFFICES ASSUME Published(c)', NEW k \in Inject[rec[c].comp]
             PROVE  LET p == rec[c].committed[k]
                    IN  /\ p \in Id /\ Published(p)' /\ c \in rec'[p].consumers
                        /\ bindings'[0][k].provider = p /\ bindings'[0][k].available
  BY DEF Installed, KeepsPlace
<1>1. Published(c) /\ c \in fibers
  BY PublishedStates
<1>2. k \in Keys
  BY <1>1, ComponentAssumption DEF Mounted
<1> QED BY <1>1, <1>2 DEF Installed

LEMMA SoundlyKept ==
    ASSUME NEW k \in Keys, BoundSoundly(k), bindings'[0][k] = bindings[0][k], TypeOK,
           LET p == bindings[0][k].provider
           IN  p \in fibers => /\ p \in fibers' /\ KeepsPlace(p)
                               /\ rec'[p].state # "inactive"
                               /\ Phase(p)' = Phase(p)
    PROVE  BoundSoundly(k)'
<1> DEFINE b == bindings[0][k]
<1>1. CASE b = Unbound
  BY <1>1 DEF BoundSoundly
<1>2. CASE b # Unbound
  <2>1. PICK p \in fibers : p = b.provider
    BY <1>2 DEF BoundSoundly
  <2>2. /\ p \in fibers' /\ rec'[p].comp = rec[p].comp /\ rec'[p].state # "inactive"
        /\ Phase(p)' = Phase(p)
    BY <2>1 DEF KeepsPlace
  <2>3. k \in Provides[rec[p].comp] /\ b.state = Phase(p)
    BY <1>2, <2>1 DEF BoundSoundly
  <2> HIDE DEF b
  <2>4. bindings'[0][k].provider = p /\ bindings'[0][k] = b
    BY <2>1 DEF b
  <2> QED BY <2>1, <2>2, <2>3, <2>4 DEF BoundSoundly
<1> QED BY <1>1, <1>2

(* Hence everything, in a step where only a mark changes.                  *)
LEMMA CalmKeeps ==
    ASSUME AInv, CalmStep, LoopsStay
    PROVE  Records' /\ Bindings'
<1>0. TypeOK /\ Mounted /\ Records /\ Bindings /\ fibers \subseteq Id
  BY DEF AInv, AssemblyInv, IInv, TypeOK
<1>1. \A g \in Id : /\ KeepsPlace(g) /\ KeepsState(g) /\ KeepsCount(g) /\ KeepsGate(g)
                    /\ rec'[g].committed = rec[g].committed
                    /\ (Published(g)' <=> Published(g)) /\ (Withdrawing(g)' <=> Withdrawing(g))
                    /\ Phase(g)' = Phase(g) /\ rec'[g].state = rec[g].state
                    /\ rec'[g].consumers = rec[g].consumers
  BY DEF CalmStep, KeepsState, KeepsCount, Published, Withdrawing, Phase
<1>2. fibers' = fibers /\ bindings' = bindings
  BY DEF CalmStep
<1>3. ASSUME NEW f \in Id
      PROVE  Loads(f)' /\ Installed(f)' /\ Counts(f)' /\ Counted(f)' /\ Gate(f)'
  <2>0. Loads(f) /\ Installed(f) /\ Counts(f) /\ Counted(f) /\ Gate(f)
    BY <1>0 DEF Records
  <2>1. Loads(f)'
    BY <1>1, <1>2, <2>0, LoadsKept
  <2>2. \A p \in Id : f \in rec[p].consumers => Published(p)
    BY <1>0 DEF Records, Counts
  <2>3. Installed(f)'
    BY <1>0, <1>1, <1>2, <2>0, <2>2, InstalledKept
  <2>4. \A c \in rec[f].consumers : c \in Id
    BY <1>0 DEF TypeOK, FiberRecord
  <2>5. Counts(f)'
    BY <1>1, <2>0, <2>4, CountsKept DEF LoopsStay
  <2>6. Counted(f)'
    BY <1>1, <2>0, CountedKept
  <2>7. Gate(f)'
    BY <1>1, <1>2, <2>0, GateKept DEF LoopsStay
  <2> QED BY <2>1, <2>3, <2>5, <2>6, <2>7
<1>4. ASSUME NEW k \in Keys PROVE BoundSoundly(k)'
  <2>0. BoundSoundly(k)
    BY <1>0 DEF Bindings
  <2>1. rec[bindings[0][k].provider].state # "inactive" \/ bindings[0][k].provider \notin fibers
    <3>1. CASE bindings[0][k].provider = 0
      BY <1>0, <3>1, BoundAssumption DEF TypeOK, Id
    <3>2. CASE bindings[0][k].provider # 0
      BY <1>0, <3>2, BoundBy
    <3> QED BY <3>1, <3>2
  <2> QED BY <1>0, <1>1, <1>2, <2>0, <2>1, SoundlyKept
<1>5. OneScope'
  BY <1>0, <1>2 DEF Bindings, OneScope
<1> QED BY <1>3, <1>4, <1>5 DEF Records, Bindings

----------------------------------------------------------------------------
(* What a step of the cascade owes the frame it runs *)

(* A frame the step leaves on top is at work on c.                         *)
Pursued(c, p) == \E d \in height..height' : Pursues(d, c, p)'

(* No consumer is lost sight of.                                           *)
Pursuing ==
    \A p \in Id : \A c \in rec'[p].consumers :
        /\ Pursues(height, c, p) => Pursued(c, p)
        /\ rec[c].state = "active" => rec'[c].state = "active" \/ Pursued(c, p)
        /\ Withdrawing(c) => Withdrawing(c)' \/ Pursued(c, p)

(* What withdraws in the cascade withdrew before, or was active.           *)
Withdraws ==
    \A g \in Id : /\ rec'[g].consumers \subseteq rec[g].consumers
                  /\ Withdrawing(g)' => Withdrawing(g) \/ rec[g].state = "active"
                  /\ Published(g)' => rec'[g].committed = rec[g].committed

(* A withdrawing fiber other than the one the top frame withdraws.         *)
Continuing ==
    \A p \in Id : Withdrawing(p)' =>
        \/ Withdrawing(p) /\ ~(Top.op \in {"cascade", "finish"} /\ Top.f = p)
        \/ Underway(p)'

LEMMA UnderwayBeneath ==
    ASSUME AInv, calls # <<>>, SameBelow(height), height' \in Nat, height' >= height - 1, Continuing
    PROVE  \A p \in Id : Underway(p)'
<1>0. TypeOK /\ height \in Nat \ {0} /\ Top = stack[height]
  BY TopFrame DEF AInv, IInv
<1> SUFFICES ASSUME NEW p \in Id, Withdrawing(p)', ~Underway(p)' PROVE FALSE
  BY DEF Underway
<1>1. Withdrawing(p) /\ ~(Top.op \in {"cascade", "finish"} /\ Top.f = p)
  BY DEF Continuing
<1>2. Underway(p)
  BY DEF AInv, AssemblyInv, Complete
<1>3. PICK d \in 1..height : stack[d].op = "cascade" /\ stack[d].f = p
  BY <1>0, <1>1, <1>2 DEF Underway
<1>4. d # height
  BY <1>0, <1>1, <1>3
<1>5. d \in 1..height' /\ stack'[d] = stack[d]
  BY <1>0, <1>4 DEF SameBelow
<1> QED BY <1>3, <1>5 DEF Underway

LEMMA CoversBeneath ==
    ASSUME AInv, calls # <<>>, SameBelow(height), height' \in Nat, height' >= height - 1,
           Pursuing, Withdraws
    PROVE  \A d \in 1..(height - 1) : Covers(d)'
<1>0. TypeOK /\ height \in Nat \ {0} /\ Top = stack[height]
  BY TopFrame DEF AInv, IInv
<1>1. \A d \in 1..height : Stacked(d) /\ Covers(d)
  BY DEF AInv, AssemblyInv, Stack, Complete
<1> SUFFICES ASSUME NEW d \in 1..(height - 1), (stack'[d].op = "cascade"), Withdrawing(stack[d].f)',
                    NEW c \in rec'[stack'[d].f].consumers
             PROVE  \/ rec'[c].state = "active" /\ \E t \in stack'[d].todo : t[2] = c
                    \/ \E e \in (d + 1)..height' : Pursues(e, c, stack[d].f)'
  BY DEF Covers
<1>2. PICK p \in Id : p = stack[d].f /\ stack'[d] = stack[d]
  <2>1. stack[d] \in Frame /\ stack'[d] = stack[d]
    BY <1>0, TopFrame DEF SameBelow
  <2> QED BY <2>1 DEF Frame
<1>3. d \in 1..height /\ d \in 1..height'
  BY <1>0
<1>4. rec[p].state # "active"
  BY <1>1, <1>2, <1>3 DEF Stacked, StaysDown
<1>5. Withdrawing(p) /\ c \in rec[p].consumers /\ c \in rec'[p].consumers
  BY <1>2, <1>4 DEF Withdraws
<1>6. CASE Pursued(c, p)
  <2>1. PICK i \in height..height' : Pursues(i, c, p)'
    BY <1>6 DEF Pursued
  <2>2. i \in (d + 1)..height'
    BY <1>0
  <2> QED BY <1>2, <2>1, <2>2
<1>7. CASE rec[c].state = "active" /\ \E t \in stack[d].todo : t[2] = c
  <2>1. rec'[c].state = "active" \/ Pursued(c, p)
    BY <1>2, <1>5, <1>7 DEF Pursuing
  <2> QED BY <1>2, <1>6, <1>7, <2>1
<1>8. ASSUME NEW e \in (d + 1)..height, Pursues(e, c, p)
      PROVE  \/ Pursued(c, p)
             \/ \E i \in (d + 1)..height' : Pursues(i, c, p)'
  <2>1. CASE e = height
    BY <1>5, <1>8, <2>1 DEF Pursuing
  <2>2. CASE e # height
    <3>1. e \in 1..(height - 1) /\ e \in (d + 1)..height' /\ stack'[e] = stack[e] /\ e \in 1..height
      BY <1>0, <2>2 DEF SameBelow
    <3>2. stack[e].op \notin {"begin_unload", "finish"}
      BY <1>1, <2>2, <3>1 DEF Stacked, Held
    <3>3. CASE stack[e].op = "cascade"
      <4>1. Withdrawing(c) /\ stack[e].f = c
        BY <1>8, <3>3 DEF Pursues
      <4>2. Withdrawing(c)' => Pursues(e, c, p)'
        BY <3>1, <3>3, <4>1 DEF Pursues
      <4> QED BY <1>5, <3>1, <4>1, <4>2 DEF Pursuing
    <3>4. CASE stack[e].op = "release"
      <4>1. Pursues(e, c, p)'
        BY <1>8, <3>1, <3>4 DEF Pursues
      <4> QED BY <3>1, <4>1
    <3> QED BY <1>8, <3>2, <3>3, <3>4 DEF Pursues
  <2> QED BY <2>1, <2>2
<1> QED BY <1>1, <1>2, <1>3, <1>5, <1>6, <1>7, <1>8 DEF Covers

LEMMA RanksBeneath ==
    ASSUME AInv, calls # <<>>, Gentle, Withdraws, SameBelow(height),
           NEW r, Ranked(r)
    PROVE  RanksViews(r)' /\ \A d \in 1..(height - 1) : RanksFrame(r, d)'
<1>0. TypeOK /\ height \in Nat \ {0}
  BY TopFrame DEF AInv, IInv
<1>1. RanksViews(r)'
  BY DEF Ranked, RanksViews, Gentle, Withdraws, KeepsPlace
<1>2. ASSUME NEW d \in 1..(height - 1) PROVE RanksFrame(r, d)'
  <2>1. d \in 1..height /\ RanksFrame(r, d)
    BY <1>0 DEF Ranked
  <2>2. \A e \in 1..d : stack'[e] = stack[e]
    BY <1>0 DEF SameBelow
  <2>3. stack'[d] = stack[d] /\ \A e \in 1..(d - 1) : stack'[e] = stack[e]
    BY <2>2
  <2> QED BY <2>1, <2>3 DEF RanksFrame
<1> QED BY <1>1, <1>2

(* What a step must show of the frames it leaves on top.                   *)
Fits(d) ==
    /\ Stacked(d)' /\ Covers(d)'
    /\ \A n \in Nat : \A r \in [Id -> 0..n] : Ranked(r) => RanksFrame(r, d)'

LEMMA StepKeeps ==
    ASSUME AInv, calls # <<>>, Gentle, Withdraws, Pursuing, Continuing, Records', Bindings',
           SameBelow(height), height' \in Nat, height' >= height - 1,
           \A d \in height..height' : Fits(d)
    PROVE  AssemblyInv'
<1>0. height \in Nat \ {0}
  BY TopFrame DEF AInv, IInv
<1>1. \A d \in 1..height' : d \in 1..(height - 1) \/ d \in height..height'
  BY <1>0
<1>2. Stack'
  BY <1>1, Beneath DEF Stack, Fits
<1>3. Complete'
  BY <1>1, UnderwayBeneath, CoversBeneath DEF Complete, Fits
<1>4. Climbs'
  <2>0. PICK n \in Nat : \E r \in [Id -> 0..n] : Ranked(r)
    BY DEF AInv, AssemblyInv, Climbs
  <2>1. PICK r \in [Id -> 0..n] : Ranked(r)
    BY <2>0
  <2>2. RanksViews(r)' /\ \A d \in 1..(height - 1) : RanksFrame(r, d)'
    BY <2>1, RanksBeneath
  <2>3. \A d \in height..height' : RanksFrame(r, d)'
    BY <2>1 DEF Fits
  <2>4. Ranked(r)'
    BY <1>1, <2>2, <2>3 DEF Ranked
  <2> QED BY <2>4 DEF Climbs
<1> QED BY <1>2, <1>3, <1>4 DEF AssemblyInv

(* A frame that tears nothing down.                                        *)
LEMMA LightFits ==
    ASSUME NEW d, stack'[d].op \in {"evaluate", "notify", "tail", "finished"}, Held(d)', Spares(d)'
    PROVE  Fits(d)
BY DEF Fits, Stacked, Descends, StaysDown, Cascades, Detaches, Covers, RanksFrame

----------------------------------------------------------------------------
(* Steps that change no record *)

LEMMA SmallestExists ==
    ASSUME NEW S \in SUBSET Nat, S # {}
    PROVE  \E s \in S : \A t \in S : s <= t
<1>1. PICK n \in S : TRUE
  OBVIOUS
<1> DEFINE R == {i \in 0..n : n - i \in S}
<1>2. n \in Nat /\ 0 \in R /\ R \in SUBSET (0..n)
  BY <1>1
<1>3. R # {}
  BY <1>2
<1>4. PICK i \in R : \A j \in R : j <= i
  <2> HIDE DEF R
  <2> QED BY <1>2, <1>3, LargestExists
<1>5. n - i \in S /\ i \in 0..n
  BY <1>4
<1>6. ASSUME NEW t \in S PROVE n - i <= t
  <2>1. CASE t > n
    BY <1>2, <1>5, <2>1
  <2>2. CASE t <= n
    <3>1. n - t \in 0..n /\ n - (n - t) = t
      BY <1>2, <2>2
    <3>2. n - t \in R
      BY <3>1
    <3> QED BY <1>2, <1>4, <1>5, <3>1, <3>2
  <2> QED BY <1>2, <2>1, <2>2
<1> QED BY <1>5, <1>6

(* A loop takes something that is left of it.                              *)
LEMMA FirstIn ==
    ASSUME NEW todo \in SUBSET (Nat \X Id), todo # {}
    PROVE  First(todo) \in todo
<1> DEFINE S == {p[1] : p \in todo}
<1>1. S \in SUBSET Nat /\ S # {}
  OBVIOUS
<1>2. PICK m \in S : \A t \in S : m <= t
  BY <1>1, SmallestExists
<1> DEFINE T == {i \in Id : <<m, i>> \in todo}
<1>3. T \in SUBSET Nat /\ T # {}
  BY DEF Id
<1>4. PICK i \in T : \A t \in T : i <= t
  BY <1>3, SmallestExists
<1> DEFINE a == <<m, i>>
<1>5. a \in todo
  BY <1>4
<1>6. \A q \in todo : a[1] < q[1] \/ (a[1] = q[1] /\ a[2] <= q[2])
  <2> TAKE q \in todo
  <2>1. q[1] \in S /\ q[1] \in Nat /\ m \in Nat /\ q = <<q[1], q[2]>> /\ q[2] \in Id
    BY <1>1, <1>2
  <2>2. q[1] = m => q[2] \in T
    BY <2>1
  <2> QED BY <1>2, <1>4, <2>1, <2>2
<1> QED BY <1>5, <1>6 DEF First

(* What is left of a loop.                                                 *)
LEMMA RestFields ==
    ASSUME TypeOK, calls # <<>>, NEW p
    PROVE  LET rest == [Top EXCEPT !.todo = @ \ {p}]
           IN  rest.op = Top.op /\ rest.f = Top.f /\ rest.todo = Top.todo \ {p}
BY TopType DEF Frame

LEMMA CalmStepKeeps ==
    ASSUME AInv, calls # <<>>, CalmStep, Top.op # "release",
           SameBelow(height), height' \in Nat, height' >= height - 1,
           \A p \in Id : \A c \in rec[p].consumers : Pursues(height, c, p) => Pursued(c, p),
           \A p \in Id : Top.op \in {"cascade", "finish"} /\ Top.f = p /\ Withdrawing(p)
                            => Underway(p)',
           \A d \in height..height' : Fits(d)
    PROVE  AssemblyInv'
<1>1. Gentle
  BY CalmGentle
<1>2. \A g \in Id : /\ rec'[g].consumers = rec[g].consumers /\ rec'[g].state = rec[g].state
                    /\ (Withdrawing(g)' <=> Withdrawing(g))
                    /\ rec'[g].committed = rec[g].committed
  BY DEF CalmStep, KeepsState, KeepsCount, Withdrawing
<1>3. Withdraws
  BY <1>2 DEF Withdraws
<1>4. \A p \in Id : \A c \in rec[p].consumers : c \in Id
  BY DEF AInv, IInv, TypeOK, FiberRecord
<1>5. Pursuing
  BY <1>2, <1>4 DEF Pursuing
<1>6. Continuing
  BY <1>2 DEF Continuing
<1>7. Records' /\ Bindings'
  BY LoopsBeneath, CalmKeeps DEF AInv, IInv
<1> QED BY <1>1, <1>3, <1>5, <1>6, <1>7, StepKeeps

(* A step of a frame that tears nothing down.                              *)
LEMMA LightStep ==
    ASSUME AInv, calls # <<>>, CalmStep, Top.op \in {"evaluate", "notify", "tail", "finished"},
           SameBelow(height), height' \in Nat, height' >= height - 1,
           \A d \in height..height' : Fits(d)
    PROVE  AssemblyInv'
<1>1. Top = stack[height]
  BY TopFrame DEF AInv, IInv
<1>2. \A p, c : ~Pursues(height, c, p)
  BY <1>1 DEF Pursues
<1> QED BY <1>2, CalmStepKeeps

LEMMA QuietCalm ==
    ASSUME TypeOK, \A g \in Id : Keeps(g), fibers' = fibers, bindings' = bindings
    PROVE  CalmStep
<1>1. ASSUME NEW g \in Id
      PROVE  /\ KeepsPlace(g) /\ KeepsState(g) /\ KeepsCount(g) /\ KeepsGate(g)
             /\ rec[g].reactivate = -1 => rec'[g].reactivate = -1
  BY DEF Keeps, KeepsMark
<1> QED BY <1>1 DEF CalmStep

LEMMA ReturnKeeps ==
    ASSUME AInv, EvaluateKeeps \/ StartLoadingNull \/ NotifyDone \/ TransitionFinished
    PROVE  AssemblyInv'
<1>1. TypeOK
  BY DEF AInv, IInv
<1>2. calls # <<>> /\ Return /\ Top.op \in {"evaluate", "notify", "tail", "finished"}
  BY DEF EvaluateKeeps, StartLoadingNull, NotifyDone, TransitionFinished, Running, Top
<1>3. CalmStep
  BY <1>1, <1>2, QuietEffect, QuietCalm
<1>4. height' = height - 1 /\ SameBelow(height) /\ height \in Nat \ {0}
  BY <1>1, <1>2, Returned, TopFrame DEF SameBelow
<1>5. height' \in Nat /\ height' >= height - 1 /\ height..height' = {}
  BY <1>4
<1> QED BY <1>2, <1>3, <1>4, <1>5, LightStep

LEMMA NotifyNextKeeps ==
    ASSUME AInv, NotifyNext
    PROVE  AssemblyInv'
<1>1. TypeOK
  BY DEF AInv, IInv
<1>2. calls # <<>> /\ Top.op = "notify" /\ Top.todo # {}
  BY DEF NotifyNext, Running, Top
<1>3. CalmStep
  BY <1>1, <1>2, QuietEffect, QuietCalm
<1>3a. PICK h \in Nat \ {0} : h = height
  BY <1>1, <1>2, TopFrame
<1>4. height \in Nat \ {0} /\ Top = stack[height] /\ Stacked(height) /\ Top.f \in Id
      /\ Top.todo \in SUBSET (Nat \X Id)
  BY <1>1, <1>2, TopFrame DEF AInv, AssemblyInv, Stack
<1>5. PICK t : t = First(Top.todo) /\ t \in Top.todo
  BY <1>2, <1>4, FirstIn
<1>6. PICK c \in Id : c = t[2]
  BY <1>4, <1>5
<1>7. PICK rest : rest = [Top EXCEPT !.todo = @ \ {t}]
  OBVIOUS
<1>8. rest.op = "notify" /\ rest.f = Top.f /\ rest.todo = Top.todo \ {t} /\ rest \in Frame
  BY <1>1, <1>2, <1>7, RestFields, RestType
<1>9. \A u \in Top.todo : rec[u[2]].state # "active" /\ u[2] \in Id
  BY <1>2, <1>4 DEF Stacked, Spares
<1>10. \A g \in Id : rec'[g].state = rec[g].state
  BY <1>3 DEF CalmStep, KeepsState
<1>11. Top.f \in fibers /\ fibers' = fibers
  BY <1>2, <1>3, <1>4 DEF Stacked, Held, CalmStep
<1>12. CASE c \in fibers
  <2>1. PICK e \in Frame : e = Call("evaluate", c)
    BY FrameType DEF Op
  <2>2. e.op = "evaluate" /\ e.f = c
    BY <2>1, FrameFields
  <2>3. Become(<<e, rest>>)
    BY <1>5, <1>6, <1>7, <1>12, <2>1 DEF NotifyNext
  <2>4. height' = height + 1 /\ stack'[height + 1] = e /\ stack'[height] = rest /\ SameBelow(height)
    BY <1>1, <1>2, <1>8, <2>3, Called DEF SameBelow
  <2>5. Fits(h)
    <3>1. Held(h)' /\ Spares(h)'
      BY <1>3a, <1>8, <1>9, <1>10, <1>11, <2>4 DEF Held, Spares
    <3> QED BY <1>3a, <1>8, <2>4, <3>1, LightFits
  <2>6. Fits(h + 1)
    <3>1. (Held(h + 1) /\ Spares(h + 1))'
      BY <1>3a, <1>5, <1>6, <1>9, <1>10, <2>2, <2>4 DEF Held, Spares
    <3> QED BY <1>3a, <2>2, <2>4, <3>1, LightFits
  <2>7. \A d \in height..height' : Fits(d)
    BY <1>3a, <2>4, <2>5, <2>6
  <2> QED BY <1>2, <1>3, <1>4, <2>4, <2>7, LightStep
<1>13. CASE c \notin fibers
  <2>3. Become(<<rest>>)
    BY <1>5, <1>6, <1>7, <1>13 DEF NotifyNext
  <2>4. height' = height /\ stack'[height] = rest /\ SameBelow(height)
    BY <1>1, <1>2, <1>8, <2>3, Replaced DEF SameBelow
  <2>5. Fits(h)
    <3>1. Held(h)' /\ Spares(h)'
      BY <1>3a, <1>8, <1>9, <1>10, <1>11, <2>4 DEF Held, Spares
    <3> QED BY <1>3a, <1>8, <2>4, <3>1, LightFits
  <2>7. \A d \in height..height' : Fits(d)
    BY <1>3a, <2>4, <2>5
  <2> QED BY <1>2, <1>3, <1>4, <2>4, <2>7, LightStep
<1> QED BY <1>12, <1>13

(* The frame that runs, and what the invariant says of it.                 *)
LEMMA Setting ==
    ASSUME AInv, calls # <<>>
    PROVE  /\ TypeOK /\ height \in Nat \ {0} /\ Top = stack[height]
           /\ Top \in Frame /\ Top.f \in Id /\ Top.todo \in SUBSET (Nat \X Id)
           /\ \A d \in 1..height : Stacked(d) /\ Covers(d) /\ stack[d] \in Frame /\ stack[d].f \in Id
           /\ Stacked(height) /\ Covers(height)
<1>1. TypeOK
  BY DEF AInv, IInv
<1>2. /\ height \in Nat \ {0} /\ Top = stack[height] /\ height \in 1..height
      /\ \A d \in 1..height : stack[d] \in Frame
  BY <1>1, TopFrame
<1>3. \A d \in 1..height : Stacked(d) /\ Covers(d)
  BY DEF AInv, AssemblyInv, Stack, Complete
<1>4. \A a \in Frame : a.f \in Id
  BY DEF Frame
<1> QED BY <1>1, <1>2, <1>3, <1>4, TopType

LEMMA TailKeeps ==
    ASSUME AInv, FinishTail
    PROVE  AssemblyInv'
<1>1. calls # <<>> /\ Top.op = "tail"
  BY DEF FinishTail, Running, Top
<1>2. /\ TypeOK /\ Top = stack[height] /\ Stacked(height)
  BY <1>1, Setting
<1>3. PICK h \in Nat \ {0} : h = height
  BY <1>1, Setting
<1>4. PICK f \in Id : f = Top.f
  BY <1>1, Setting
<1>5. /\ \A g \in Id \ {f} : Keeps(g)
      /\ KeepsPlace(f) /\ KeepsState(f) /\ KeepsCount(f) /\ KeepsGate(f)
      /\ rec'[f].reactivate = IF rec[f].reactivate > 0 THEN 0 ELSE rec[f].reactivate
      /\ fibers' = fibers /\ bindings' = bindings
  BY <1>1, <1>2, <1>4, TailEffect
<1>6. CalmStep
  <2>1. rec[f].reactivate = -1 => rec'[f].reactivate = -1
    BY <1>5
  <2>2. \A g \in Id : Keeps(g) =>
            /\ KeepsPlace(g) /\ KeepsState(g) /\ KeepsCount(g) /\ KeepsGate(g)
            /\ rec[g].reactivate = -1 => rec'[g].reactivate = -1
    BY DEF Keeps, KeepsMark
  <2> QED BY <1>5, <2>1, <2>2 DEF CalmStep
<1>7. rec'[f].state # "active"
  BY <1>1, <1>2, <1>4, <1>5 DEF Stacked, Spares, KeepsState
<1>8. PICK a \in Frame : a = Call("evaluate", f)
  BY FrameType DEF Op
<1>9. PICK b \in Frame : b = Call("finished", f)
  BY FrameType DEF Op
<1>10. a.op = "evaluate" /\ a.f = f /\ b.op = "finished" /\ b.f = f
  BY <1>8, <1>9, FrameFields
<1>11. Become(<<a, b>>) \/ Become(<<b>>)
  BY <1>4, <1>8, <1>9 DEF FinishTail
<1>12. CASE Become(<<a, b>>)
  <2>1. height' = h + 1 /\ stack'[h + 1] = a /\ stack'[h] = b /\ SameBelow(h)
    BY <1>1, <1>2, <1>3, <1>12, Called DEF SameBelow
  <2>2. Fits(h)
    <3>1. Held(h)' /\ Spares(h)'
      BY <1>3, <1>10, <2>1 DEF Held, Spares
    <3> QED BY <1>10, <2>1, <3>1, LightFits
  <2>3. Fits(h + 1)
    <3>1. (Held(h + 1) /\ Spares(h + 1))'
      BY <1>3, <1>7, <1>10, <2>1 DEF Held, Spares
    <3> QED BY <1>10, <2>1, <3>1, LightFits
  <2>4. \A d \in height..height' : Fits(d)
    BY <1>3, <2>1, <2>2, <2>3
  <2> QED BY <1>1, <1>3, <1>6, <2>1, <2>4, LightStep
<1>13. CASE Become(<<b>>)
  <2>1. height' = h /\ stack'[h] = b /\ SameBelow(h)
    BY <1>1, <1>2, <1>3, <1>13, Replaced DEF SameBelow
  <2>2. Fits(h)
    <3>1. Held(h)' /\ Spares(h)'
      BY <1>3, <1>10, <2>1 DEF Held, Spares
    <3> QED BY <1>10, <2>1, <3>1, LightFits
  <2>4. \A d \in height..height' : Fits(d)
    BY <1>3, <2>1, <2>2
  <2> QED BY <1>1, <1>3, <1>6, <2>1, <2>4, LightStep
<1> QED BY <1>11, <1>12, <1>13

LEMMA CascadeNextKeeps ==
    ASSUME AInv, CascadeNext
    PROVE  AssemblyInv'
<1>1. calls # <<>> /\ Top.op = "cascade" /\ Top.todo # {}
  BY DEF CascadeNext, Running, Top
<1>2. /\ TypeOK /\ Top = stack[height] /\ Stacked(height) /\ Covers(height)
      /\ \A d \in 1..height : stack[d] \in Frame /\ stack[d].f \in Id
      /\ Top.todo \in SUBSET (Nat \X Id)
  BY <1>1, Setting
<1>3. PICK h \in Nat \ {0} : h = height
  BY <1>1, Setting
<1>4. PICK f \in Id : f = Top.f
  BY <1>1, Setting
<1>5. CalmStep
  BY <1>1, <1>2, QuietEffect, QuietCalm
<1>6. PICK t \in Top.todo : t = First(Top.todo)
  BY <1>1, <1>2, FirstIn
<1>7. PICK c \in Id : c = t[2]
  BY <1>2, <1>6
<1>8. PICK rest \in Frame : rest = [Top EXCEPT !.todo = @ \ {t}]
  BY <1>1, <1>2, RestType
<1>9. rest.op = "cascade" /\ rest.f = f /\ rest.todo = Top.todo \ {t}
  BY <1>1, <1>2, <1>4, <1>8, RestFields
<1>10. \A u \in Top.todo : /\ u[2] \in Id /\ u[2] \in fibers /\ Needs(u[2], f)
                           /\ Published(u[2]) => u[2] \in rec[f].consumers
  BY <1>1, <1>2, <1>4 DEF Stacked, Cascades
<1>11. PICK a \in Frame : a = BeginUnload(c, TRUE)
  BY FrameType
<1>12. a.op = "begin_unload" /\ a.f = c /\ a.todo = {}
  BY <1>11 DEF BeginUnload, Call
<1>13. Become(<<a, rest>>)
  BY <1>6, <1>7, <1>8, <1>10, <1>11 DEF CascadeNext
<1>14. height' = h + 1 /\ stack'[h + 1] = a /\ stack'[h] = rest /\ SameBelow(h)
  BY <1>1, <1>2, <1>3, <1>13, Called DEF SameBelow
<1>15. /\ fibers' = fibers
       /\ \A g \in Id : /\ KeepsPlace(g) /\ rec'[g].state = rec[g].state /\ rec'[g].comp = rec[g].comp
                        /\ rec'[g].applying = rec[g].applying
                        /\ rec'[g].consumers = rec[g].consumers
                        /\ (Published(g)' <=> Published(g)) /\ (Withdrawing(g)' <=> Withdrawing(g))
                        /\ rec[g].reactivate = -1 => rec'[g].reactivate = -1
  BY <1>5 DEF CalmStep, KeepsState, KeepsCount, KeepsPlace, Published, Withdrawing
<1>16. ASSUME NEW p \in Id, NEW q \in Id, Needs(p, q) PROVE Needs(p, q)'
  BY <1>15, <1>16 DEF Needs
<1>17. f \in fibers /\ ~rec[f].applying /\ rec[f].state \in {"unloading", "inactive"} /\ Blocked(f, h)
  BY <1>1, <1>2, <1>3, <1>4 DEF Stacked, Held, StaysDown
<1>18. Stacked(h)'
  <2>1. Held(h)'
    BY <1>9, <1>14, <1>15, <1>17 DEF Held
  <2>2. Descends(h)'
    BY <1>1, <1>2, <1>3, <1>14 DEF Stacked, Descends, SameBelow
  <2>3. StaysDown(h)'
    <3>1. Blocked(f, h)'
      BY <1>1, <1>2, <1>3, <1>14, <1>15, <1>17, BlockedKept
    <3> QED BY <1>9, <1>14, <1>15, <1>17, <3>1 DEF StaysDown
  <2>4. Cascades(h)'
    BY <1>9, <1>10, <1>14, <1>15, <1>16 DEF Cascades
  <2>5. Detaches(h)' /\ Spares(h)'
    BY <1>9, <1>14 DEF Detaches, Spares
  <2> QED BY <2>1, <2>2, <2>3, <2>4, <2>5 DEF Stacked
<1>19. Stacked(h + 1)'
  <2>1. (Held(h + 1))'
    BY <1>6, <1>7, <1>10, <1>12, <1>14, <1>15 DEF Held
  <2>2. (Descends(h + 1))'
    <3>1. \A e \in 1..h : stack'[e].op \in {"cascade", "await"}
      BY <1>1, <1>2, <1>3, <1>9, <1>14 DEF Stacked, Descends, SameBelow
    <3> QED BY <1>14, <3>1 DEF Descends
  <2>3. (StaysDown(h + 1))'
    <3>1. Needs(c, f)'
      BY <1>6, <1>7, <1>10, <1>16
    <3>2. h \in 1..(h + 1 - 1)
      BY <1>3
    <3>3. Blocked(c, h + 1)'
      BY <1>9, <1>14, <3>1, <3>2 DEF Blocked
    <3> QED BY <1>12, <1>14, <3>3 DEF StaysDown
  <2>4. (Cascades(h + 1) /\ Detaches(h + 1) /\ Spares(h + 1))'
    BY <1>12, <1>14 DEF Cascades, Detaches, Spares
  <2> QED BY <2>1, <2>2, <2>3, <2>4 DEF Stacked
<1>20. Covers(h)'
  <2> SUFFICES ASSUME Withdrawing(f)', NEW g \in rec'[f].consumers
               PROVE  \/ rec'[g].state = "active" /\ \E u \in rest.todo : u[2] = g
                      \/ \E e \in (h + 1)..height' : Pursues(e, g, f)'
    BY <1>9, <1>14 DEF Covers
  <2>1. g \in rec[f].consumers /\ Withdrawing(f) /\ g \in Id
    BY <1>2, <1>15 DEF TypeOK, FiberRecord
  <2>2. (h + 1)..height = {}
    BY <1>3
  <2>3. PICK u \in Top.todo : rec[g].state = "active" /\ u[2] = g
    BY <1>1, <1>2, <1>3, <1>4, <2>1, <2>2 DEF Covers
  <2>4. CASE u = t
    <3>1. Pursues(h + 1, g, f)'
      BY <1>7, <1>12, <1>14, <1>15, <2>1, <2>3, <2>4 DEF Pursues
    <3>2. h + 1 \in (h + 1)..height'
      BY <1>3, <1>14
    <3> QED BY <3>1, <3>2
  <2>5. CASE u # t
    BY <1>9, <1>15, <2>1, <2>3, <2>5
  <2> QED BY <2>4, <2>5
<1>21. ASSUME NEW n \in Nat, NEW r \in [Id -> 0..n], Ranked(r)
       PROVE  RanksFrame(r, h)' /\ RanksFrame(r, h + 1)'
  <2>1. RanksFrame(r, h)
    BY <1>3, <1>21 DEF Ranked
  <2>2. /\ \A e \in 1..(h - 1) : stack[e].op = "cascade" => r[stack[e].f] < r[f]
        /\ \A u \in Top.todo : r[f] < r[u[2]]
    BY <1>1, <1>2, <1>3, <1>4, <2>1 DEF RanksFrame
  <2>3. RanksFrame(r, h)'
    BY <1>9, <1>14, <2>2 DEF RanksFrame, SameBelow
  <2>4. \A e \in 1..(h - 1) : stack'[e] = stack[e] /\ stack[e].f \in Id
    BY <1>2, <1>3, <1>14 DEF SameBelow
  <2>5. \A e \in 1..(h - 1) : stack'[e].op = "cascade" => r[stack'[e].f] < r[c]
    <3> SUFFICES ASSUME NEW e \in 1..(h - 1), stack'[e].op = "cascade" PROVE r[stack'[e].f] < r[c]
      OBVIOUS
    <3>1. r[stack[e].f] < r[f] /\ r[f] < r[c]
      BY <1>6, <1>7, <2>2, <2>4
    <3>2. r[stack[e].f] \in Int /\ r[f] \in Int /\ r[c] \in Int
      BY <2>4
    <3> QED BY <2>4, <3>1, <3>2
  <2>6. r[f] < r[c]
    BY <1>6, <1>7, <2>2
  <2>7. \A e \in 1..h : stack'[e].op = "cascade" => r[stack'[e].f] < r[c]
    BY <1>9, <1>14, <2>5, <2>6
  <2>8. RanksFrame(r, h + 1)'
    BY <1>12, <1>14, <2>7 DEF RanksFrame
  <2> QED BY <2>3, <2>8
<1>22. (Covers(h + 1))'
  BY <1>12, <1>14 DEF Covers
<1>23. \A d \in height..height' : Fits(d)
  <2>1. Fits(h) /\ Fits(h + 1)
    BY <1>18, <1>19, <1>20, <1>21, <1>22 DEF Fits
  <2> QED BY <1>3, <1>14, <2>1
<1>24. \A p \in Id : \A g \in rec[p].consumers : Pursues(height, g, p) => Pursued(g, p)
  <2> SUFFICES ASSUME NEW p \in Id, NEW g \in rec[p].consumers, Pursues(height, g, p)
               PROVE  Pursued(g, p)
    OBVIOUS
  <2>1. f = g /\ Withdrawing(g)
    BY <1>1, <1>2, <1>4 DEF Pursues
  <2>2. Pursues(h, g, p)'
    BY <1>9, <1>14, <1>15, <2>1 DEF Pursues
  <2>3. h \in height..height'
    BY <1>3, <1>14
  <2> QED BY <2>2, <2>3 DEF Pursued
<1>25. Underway(f)'
  <2>1. h \in 1..height'
    BY <1>3, <1>14
  <2> QED BY <1>9, <1>14, <2>1 DEF Underway
<1>26. SameBelow(height) /\ height' \in Nat /\ height' >= height - 1
  BY <1>3, <1>14
<1> QED BY <1>1, <1>4, <1>5, <1>23, <1>24, <1>25, <1>26, CalmStepKeeps


LEMMA CalmFacts ==
    ASSUME CalmStep
    PROVE  /\ fibers' = fibers /\ bindings' = bindings
           /\ \A g \in Id : /\ KeepsPlace(g) /\ rec'[g].state = rec[g].state
                            /\ rec'[g].comp = rec[g].comp
                            /\ rec'[g].applying = rec[g].applying
                            /\ rec'[g].consumers = rec[g].consumers
                            /\ (Published(g)' <=> Published(g))
                            /\ (Withdrawing(g)' <=> Withdrawing(g))
                            /\ rec[g].reactivate = -1 => rec'[g].reactivate = -1
BY DEF CalmStep, KeepsState, KeepsCount, KeepsPlace, Published, Withdrawing

(* A frame finish that replaces one of the same fiber.                     *)
LEMMA FinishFits ==
    ASSUME NEW d, NEW f \in Id, stack'[d].op = "finish", stack'[d].f = f, d = height',
           f \in fibers', ~rec'[f].applying, Withdrawing(f)' => Blocked(f, d)'
    PROVE  Fits(d)
BY DEF Fits, Stacked, Held, Descends, StaysDown, Cascades, Detaches, Spares, Covers, RanksFrame

LEMMA CascadeDoneKeeps ==
    ASSUME AInv, CascadeDone
    PROVE  AssemblyInv'
<1>1. calls # <<>> /\ Top.op = "cascade" /\ Top.todo = {}
  BY DEF CascadeDone, Running, Top
<1>2. TypeOK /\ Top = stack[height] /\ Stacked(height) /\ Covers(height)
  BY <1>1, Setting
<1>3. PICK h \in Nat \ {0} : h = height
  BY <1>1, Setting
<1>4. PICK f \in Id : f = Top.f
  BY <1>1, Setting
<1>5. CalmStep
  BY <1>1, <1>2, QuietEffect, QuietCalm
<1>6. PICK a \in Frame : a = Call("finish", f)
  BY FrameType DEF Op
<1>7. a.op = "finish" /\ a.f = f
  BY <1>6, FrameFields
<1>8. Become(<<a>>)
  BY <1>4, <1>6 DEF CascadeDone
<1>9. height' = h /\ stack'[h] = a /\ SameBelow(h)
  BY <1>1, <1>2, <1>3, <1>8, Replaced DEF SameBelow
<1>10. f \in fibers /\ ~rec[f].applying /\ Blocked(f, h)
  BY <1>1, <1>2, <1>3, <1>4 DEF Stacked, Held, StaysDown
<1>11. /\ fibers' = fibers
       /\ \A g \in Id : /\ KeepsPlace(g)
                        /\ rec[g].reactivate = -1 => rec'[g].reactivate = -1
       /\ ~rec'[f].applying /\ rec'[f].consumers = rec[f].consumers
       /\ Withdrawing(f)' <=> Withdrawing(f)
  BY <1>5, <1>10, CalmFacts
<1>12. Withdrawing(f) => rec[f].consumers = {}
  <2>1. (h + 1)..height = {}
    BY <1>3
  <2> QED BY <1>1, <1>2, <1>3, <1>4, <2>1 DEF Covers
<1>13. Fits(h)
  <2>1. Blocked(f, h)'
    BY <1>1, <1>2, <1>3, <1>9, <1>10, <1>11, BlockedKept
  <2> QED BY <1>7, <1>9, <1>10, <1>11, <2>1, FinishFits
<1>14. \A d \in height..height' : Fits(d)
  BY <1>3, <1>9, <1>13
<1>15. \A p \in Id : \A g \in rec[p].consumers : Pursues(height, g, p) => Pursued(g, p)
  <2> SUFFICES ASSUME NEW p \in Id, NEW g \in rec[p].consumers, Pursues(height, g, p)
               PROVE  Pursued(g, p)
    OBVIOUS
  <2>1. f = g /\ Withdrawing(g)
    BY <1>1, <1>2, <1>4 DEF Pursues
  <2>2. Pursues(h, g, p)'
    BY <1>7, <1>9, <1>11, <1>12, <2>1 DEF Pursues
  <2>3. h \in height..height'
    BY <1>3, <1>9
  <2> QED BY <2>2, <2>3 DEF Pursued
<1>16. Withdrawing(f) => Underway(f)'
  BY <1>3, <1>7, <1>9, <1>11, <1>12 DEF Underway
<1>17. SameBelow(height) /\ height' \in Nat /\ height' >= height - 1
  BY <1>3, <1>9
<1> QED BY <1>1, <1>4, <1>5, <1>14, <1>15, <1>16, <1>17, CalmStepKeeps

LEMMA FinishKeepsKeeps ==
    ASSUME AInv, FinishKeeps
    PROVE  AssemblyInv'
<1>1. calls # <<>> /\ Top.op = "finish" /\ ~MayFinish(Top.f) /\ Return
  BY DEF FinishKeeps, Running, Top
<1>2. TypeOK /\ Top = stack[height] /\ height \in Nat \ {0}
  BY <1>1, Setting
<1>4. PICK f \in Id : f = Top.f
  BY <1>1, Setting
<1>5. CalmStep
  BY <1>1, <1>2, QuietEffect, QuietCalm
<1>6. height' = height - 1 /\ SameBelow(height)
  BY <1>1, <1>2, Returned DEF SameBelow
<1>7. ~(Withdrawing(f) /\ rec[f].consumers = {})
  <2>1. Counted(f)
    BY DEF AInv, AssemblyInv, Records
  <2>2. Cardinality({}) = 0
    BY FS_EmptySet
  <2> QED BY <1>1, <1>4, <2>1, <2>2 DEF Counted, MayFinish, Withdrawing
<1>8. \A p, g : ~Pursues(height, g, p)
  BY <1>1, <1>2, <1>4, <1>7 DEF Pursues
<1>9. Withdrawing(f) => Underway(f)'
  <2> SUFFICES ASSUME Withdrawing(f) PROVE Underway(f)'
    OBVIOUS
  <2>1. Underway(f)
    BY DEF AInv, AssemblyInv, Complete
  <2>2. PICK d \in 1..height : stack[d].op = "cascade" /\ stack[d].f = f
    BY <1>7, <2>1 DEF Underway
  <2>3. d # height
    BY <1>1, <1>2, <2>2
  <2>4. d \in 1..height' /\ stack'[d] = stack[d]
    BY <1>2, <1>6, <2>3 DEF SameBelow
  <2> QED BY <2>2, <2>4 DEF Underway
<1>10. /\ height' \in Nat /\ height' >= height - 1 /\ height..height' = {}
  BY <1>2, <1>6
<1> QED BY <1>1, <1>4, <1>5, <1>6, <1>8, <1>9, <1>10, CalmStepKeeps

(* begin_unload on a fiber that is down already, or unloading.             *)
LEMMA StillKeeps ==
    ASSUME AInv, BeginUnloadKeeps, rec[Top.f].state # "loading"
    PROVE  AssemblyInv'
<1>1. calls # <<>> /\ Top.op = "begin_unload" /\ rec[Top.f].state # "active" /\ Return
  BY DEF BeginUnloadKeeps, Running, Top
<1>2. TypeOK /\ Top = stack[height] /\ height \in Nat \ {0}
  BY <1>1, Setting
<1>4. PICK f \in Id : f = Top.f
  BY <1>1, Setting
<1>5. /\ \A g \in Id \ {f} : Keeps(g)
      /\ KeepsPlace(f) /\ KeepsCount(f) /\ KeepsState(f) /\ KeepsGate(f)
      /\ rec'[f].reactivate = Reactivation(f, Top.flag)
      /\ fibers' = fibers /\ bindings' = bindings
  BY <1>1, <1>2, <1>4, KeepsEffect
<1>6. CalmStep
  <2>1. rec[f].reactivate = -1 => rec'[f].reactivate = -1
    BY <1>5 DEF Reactivation
  <2>2. \A g \in Id : Keeps(g) =>
            /\ KeepsPlace(g) /\ KeepsState(g) /\ KeepsCount(g) /\ KeepsGate(g)
            /\ rec[g].reactivate = -1 => rec'[g].reactivate = -1
    BY DEF Keeps, KeepsMark
  <2> QED BY <1>5, <2>1, <2>2 DEF CalmStep
<1>7. height' = height - 1 /\ SameBelow(height)
  BY <1>1, <1>2, Returned DEF SameBelow
<1>8. \A p, g : ~Pursues(height, g, p)
  BY <1>1, <1>2, <1>4 DEF Pursues
<1>9. height' \in Nat /\ height' >= height - 1 /\ height..height' = {}
  BY <1>2, <1>7
<1> QED BY <1>1, <1>6, <1>7, <1>8, <1>9, CalmStepKeeps

----------------------------------------------------------------------------
(* Steps that change the state of one fiber *)

(* One fiber moves on, no consumer is added or lost.                       *)
Moves(t) ==
    /\ \A g \in Id \ {t} : Keeps(g)
    /\ KeepsPlace(t) /\ fibers' = fibers
    /\ Published(t)' <=> Published(t)
    /\ rec'[t].consumers = rec[t].consumers
    /\ Published(t) => rec'[t].committed = rec[t].committed
    /\ rec[t].reactivate = -1 => rec'[t].reactivate = -1

(* What is available from a published provider stays so.                   *)
Supplies ==
    \A k \in Keys, p \in Id :
        bindings[0][k].provider = p /\ bindings[0][k].available /\ Published(p) =>
            bindings'[0][k].provider = p /\ bindings'[0][k].available

LEMMA MovesFacts ==
    ASSUME NEW t \in Id, Moves(t)
    PROVE  \A g \in Id : /\ KeepsPlace(g) /\ (Published(g)' <=> Published(g))
                         /\ Published(g) => rec'[g].committed = rec[g].committed
                         /\ rec'[g].consumers = rec[g].consumers
                         /\ rec[g].reactivate = -1 => rec'[g].reactivate = -1
                         /\ g # t => /\ KeepsState(g) /\ KeepsCount(g) /\ KeepsGate(g)
                                     /\ rec'[g].state = rec[g].state /\ Sinks(g)
                                     /\ rec'[g].applying = rec[g].applying
                                     /\ Withdrawing(g)' <=> Withdrawing(g)
                                     /\ Phase(g)' = Phase(g)
<1>1. ASSUME NEW g \in Id, Keeps(g)
      PROVE  /\ KeepsPlace(g) /\ KeepsState(g) /\ KeepsCount(g) /\ KeepsGate(g)
             /\ rec'[g].state = rec[g].state /\ rec'[g].applying = rec[g].applying
             /\ rec'[g].committed = rec[g].committed /\ rec'[g].consumers = rec[g].consumers
             /\ rec[g].reactivate = -1 => rec'[g].reactivate = -1
  BY <1>1 DEF Keeps, KeepsState, KeepsCount, KeepsMark
<1>2. ASSUME NEW g \in Id, Keeps(g)
      PROVE  /\ (Published(g)' <=> Published(g)) /\ (Withdrawing(g)' <=> Withdrawing(g))
             /\ Phase(g)' = Phase(g) /\ Sinks(g)
  BY <1>1, <1>2 DEF Published, Withdrawing, Phase, Sinks
<1> QED BY <1>1, <1>2 DEF Moves

LEMMA MovesGently ==
    ASSUME AInv, NEW t \in Id, Moves(t), rec'[t].state = "active" => rec[t].state = "active",
           Sinks(t) \/ \A d \in 1..height : ~Blocked(t, d)
    PROVE  Gentle
<1>1. \A g \in Id : \A c \in rec[g].consumers : Published(g)
  BY DEF AInv, AssemblyInv, Records, Counts
<1>2. fibers' = fibers
  BY DEF Moves
<1> QED BY <1>1, <1>2, MovesFacts DEF Gentle

LEMMA OthersKeep ==
    ASSUME AInv, NEW t \in Id, Moves(t), Supplies,
           \A c, p : Releases(c, p) => Releases(c, p)',
           \A c \in Id \ {t} : Unwinds(c) => Unwinds(c)',
           Loads(t)', Counted(t)', Gate(t)'
    PROVE  Records'
<1>0. TypeOK /\ Mounted /\ Records
  BY DEF AInv, AssemblyInv, IInv
<1>1. fibers' = fibers
  BY DEF Moves
<1>2. \A p \in Id : \A c \in rec[p].consumers : c \in Id /\ Published(p)
  BY <1>0 DEF TypeOK, FiberRecord, Records, Counts
<1>3. ASSUME NEW f \in Id
      PROVE  Loads(f)' /\ Installed(f)' /\ Counts(f)' /\ Counted(f)' /\ Gate(f)'
  <2>0. Loads(f) /\ Installed(f) /\ Counts(f) /\ Counted(f) /\ Gate(f)
    BY <1>0 DEF Records
  <2>1. Loads(f)'
    BY <1>1, <2>0, LoadsKept, MovesFacts
  <2>2. \A p \in Id : f \in rec[p].consumers => Published(p)' /\ f \in rec'[p].consumers
    BY <1>2, MovesFacts
  <2>3. Published(f)' => Published(f) /\ rec'[f].committed = rec[f].committed
    BY MovesFacts
  <2>4. Installed(f)'
    <3>1. KeepsPlace(f)
      BY MovesFacts
    <3>2. \A k \in Keys, p \in Id :
               bindings[0][k].provider = p /\ bindings[0][k].available
               /\ Published(p) /\ f \in rec[p].consumers
                 => bindings'[0][k].provider = p /\ bindings'[0][k].available
      BY DEF Supplies
    <3> QED BY <1>0, <2>0, <2>2, <2>3, <3>1, <3>2, InstalledKept
  <2>5. \A c \in rec[f].consumers :
            /\ Releases(c, f) => Releases(c, f)'
            /\ Published(c) => Published(c)' /\ rec'[c].committed = rec[c].committed
    BY <1>2, MovesFacts
  <2>6. Counts(f)'
    BY <2>0, <2>5, CountsKept, MovesFacts
  <2>7. Counted(f)'
    BY <2>0, CountedKept, MovesFacts
  <2>8. Gate(f)'
    BY <1>1, <2>0, GateKept, MovesFacts
  <2> QED BY <2>1, <2>4, <2>6, <2>7, <2>8
<1> QED BY <1>3 DEF Records

(* A loading fiber is unloaded: apply() is asked to stop.                  *)
LEMMA LoadingKeeps ==
    ASSUME AInv, BeginUnloadKeeps, rec[Top.f].state = "loading"
    PROVE  AssemblyInv'
<1>1. calls # <<>> /\ Top.op = "begin_unload" /\ Return
  BY DEF BeginUnloadKeeps, Running, Top
<1>2. TypeOK /\ Top = stack[height] /\ height \in Nat \ {0}
  BY <1>1, Setting
<1>3. Records /\ Bindings
  BY DEF AInv, AssemblyInv
<1>4. PICK f \in Id : f = Top.f
  BY <1>1, Setting
<1>5. /\ \A g \in Id \ {f} : Keeps(g)
      /\ KeepsPlace(f) /\ KeepsCount(f)
      /\ rec'[f].applying = rec[f].applying /\ rec'[f].committed = rec[f].committed
      /\ rec'[f].reactivate = Reactivation(f, Top.flag)
      /\ rec'[f].waiters = rec[f].waiters
      /\ rec[f].state = "loading" /\ rec'[f].state = "unloading" /\ ~rec'[f].done
      /\ fibers' = fibers /\ bindings' = bindings
  BY <1>1, <1>2, <1>4, KeepsEffect
<1>6. rec[f].applying /\ f \in fibers
  BY <1>3, <1>5 DEF Records, Loads
<1>7. rec[f].reactivate = -1 => rec'[f].reactivate = -1
  BY <1>5 DEF Reactivation
<1>8. Moves(f)
  BY <1>5, <1>6, <1>7 DEF Moves, Published, KeepsCount
<1>9. Gentle
  BY <1>5, <1>6, <1>8, MovesGently DEF Sinks
<1>10. height' = height - 1 /\ SameBelow(height)
  BY <1>1, <1>2, Returned DEF SameBelow
<1>11. height' \in Nat /\ height' >= height - 1 /\ height..height' = {}
  BY <1>2, <1>10
<1>12. LoopsStay
  BY <1>1, <1>2, <1>10, <1>11, LoopsBeneath
<1>13. Records'
  <2>1. Loads(f)'
    BY <1>5, <1>6 DEF Loads
  <2>2. Counted(f)'
    BY <1>3, <1>5, <1>6 DEF Records, Counted, Withdrawing, KeepsCount
  <2>3. Gate(f)'
    BY <1>3, <1>5, <1>6 DEF Records, Gate
  <2> QED BY <1>5, <1>8, <1>12, <2>1, <2>2, <2>3, OthersKeep DEF Supplies, LoopsStay
<1>14. Bindings'
  <2>1. ASSUME NEW k \in Keys PROVE BoundSoundly(k)'
    <3>1. Phase(f)' = Phase(f)
      BY <1>5, <1>6 DEF Phase
    <3>2. CASE bindings[0][k].provider = 0
      BY <1>2, <1>3, <1>5, <3>2, SoundlyKept, BoundAssumption DEF TypeOK, Id, Bindings
    <3>3. CASE bindings[0][k].provider # 0
      <4>1. PICK p \in Id : p = bindings[0][k].provider /\ rec[p].state # "inactive"
        BY <1>2, <1>3, <3>3, BoundBy
      <4>2. rec'[p].state # "inactive" /\ Phase(p)' = Phase(p) /\ KeepsPlace(p)
        BY <1>5, <1>8, <3>1, <4>1, MovesFacts
      <4> QED BY <1>2, <1>3, <1>5, <4>1, <4>2, SoundlyKept DEF Bindings
    <3> QED BY <3>2, <3>3
  <2> QED BY <1>3, <1>5, <2>1 DEF Bindings, OneScope
<1>15. Withdraws
  <2>1. ~Withdrawing(f)'
    BY <1>5, <1>6 DEF Withdrawing
  <2> QED BY <1>8, <2>1, MovesFacts DEF Withdraws
<1>16. Pursuing
  <2>1. \A p, g : ~Pursues(height, g, p)
    BY <1>1, <1>2, <1>4, <1>5 DEF Pursues
  <2>2. ~Withdrawing(f) /\ rec[f].state # "active"
    BY <1>5, <1>6 DEF Withdrawing
  <2>3. \A p \in Id : \A g \in rec'[p].consumers : g \in Id
    BY <1>2, <1>8, MovesFacts DEF TypeOK, FiberRecord
  <2> QED BY <1>8, <2>1, <2>2, <2>3, MovesFacts DEF Pursuing
<1>17. Continuing
  <2>1. ~Withdrawing(f)'
    BY <1>5, <1>6 DEF Withdrawing
  <2> QED BY <1>1, <1>8, <2>1, MovesFacts DEF Continuing
<1> QED BY <1>1, <1>9, <1>10, <1>11, <1>13, <1>14, <1>15, <1>16, <1>17, StepKeeps

----------------------------------------------------------------------------
(* What a step does to the bindings *)

(* What f is not concerned with stays as it was.                           *)
Elsewhere(f) ==
    /\ fibers' = fibers
    /\ \A g \in Id : /\ KeepsPlace(g)
                     /\ g # f => rec'[g].state = rec[g].state /\ Phase(g)' = Phase(g)

(* f binds some of the keys it declares.                                   *)
Takes(f) ==
    /\ \A s \in Scopes \ {0} : bindings'[s] = bindings[s]
    /\ \A k \in Keys :
         \/ bindings'[0][k] = bindings[0][k]
         \/ /\ k \in Provides[rec[f].comp]
            /\ \E av \in BOOLEAN :
                 bindings'[0][k] = [provider |-> f, state |-> "loading", available |-> av]

LEMMA TakesSupplies ==
    ASSUME AInv, NEW f \in fibers, ~Published(f), Takes(f)
    PROVE  Supplies
<1> SUFFICES ASSUME NEW k \in Keys, NEW p \in Id, bindings[0][k].provider = p,
                    bindings[0][k].available, Published(p)
             PROVE  bindings'[0][k] = bindings[0][k]
  BY DEF Supplies
<1>1. p # 0
  BY BoundAssumption DEF Id
<1>2. p \in fibers /\ k \in Provides[rec[p].comp]
  BY <1>1, BoundBy DEF AInv, AssemblyInv, IInv
<1>3. k \notin Provides[rec[f].comp]
  BY <1>2, Sole DEF AInv
<1> QED BY <1>3 DEF Takes

LEMMA KeptBinding ==
    ASSUME AInv, NEW f \in Id, Elsewhere(f), NEW k \in Keys, bindings'[0][k] = bindings[0][k],
           bindings[0][k].provider = f => rec'[f].state # "inactive" /\ Phase(f)' = Phase(f)
    PROVE  BoundSoundly(k)'
<1>1. TypeOK /\ Bindings /\ BoundSoundly(k)
  BY DEF AInv, AssemblyInv, IInv, Bindings
<1>2. CASE bindings[0][k].provider = 0
  BY <1>1, <1>2, SoundlyKept, BoundAssumption DEF TypeOK, Id
<1>3. CASE bindings[0][k].provider # 0
  <2>1. PICK p \in Id : p = bindings[0][k].provider /\ rec[p].state # "inactive"
    BY <1>1, <1>3, BoundBy
  <2>2. rec'[p].state # "inactive" /\ Phase(p)' = Phase(p) /\ KeepsPlace(p) /\ fibers' = fibers
    BY <2>1 DEF Elsewhere
  <2> QED BY <1>1, <2>1, <2>2, SoundlyKept
<1> QED BY <1>2, <1>3

LEMMA TakesBind ==
    ASSUME AInv, NEW f \in Id, f \in fibers, Takes(f), Elsewhere(f),
           rec'[f].state # "inactive", Phase(f)' = "loading",
           rec[f].state # "inactive" => Phase(f) = "loading"
    PROVE  Bindings'
<1>1. TypeOK /\ Bindings
  BY DEF AInv, AssemblyInv, IInv
<1>2. ASSUME NEW k \in Keys PROVE BoundSoundly(k)'
  <2>1. CASE bindings'[0][k] = bindings[0][k]
    <3>1. f # 0
      BY BoundAssumption DEF Id
    <3>2. bindings[0][k].provider = f => rec[f].state # "inactive"
      BY <1>1, <3>1, BoundBy
    <3> QED BY <2>1, <3>2, KeptBinding
  <2>2. ASSUME k \in Provides[rec[f].comp], NEW av \in BOOLEAN,
               bindings'[0][k] = [provider |-> f, state |-> "loading", available |-> av]
        PROVE  BoundSoundly(k)'
    <3>1. bindings'[0][k].provider = f /\ bindings'[0][k].state = "loading"
      BY <2>2
    <3>2. f \in fibers' /\ k \in Provides[rec'[f].comp]
      BY <2>2 DEF Elsewhere, KeepsPlace
    <3> QED BY <3>1, <3>2 DEF BoundSoundly
  <2> QED BY <2>1, <2>2 DEF Takes
<1>3. OneScope'
  BY <1>1 DEF Takes, Bindings, OneScope
<1> QED BY <1>2, <1>3 DEF Bindings

LEMMA BindingFields ==
    ASSUME TypeOK, NEW k \in Keys, NEW st
    PROVE  LET b == [bindings[0][k] EXCEPT !.state = st]
           IN  /\ b.provider = bindings[0][k].provider /\ b.available = bindings[0][k].available
               /\ b.state = st
<1>1. 0 \in Scopes
  BY BoundAssumption DEF Scopes
<1>2. bindings[0][k] \in Binding
  BY <1>1 DEF TypeOK
<1> QED BY <1>2 DEF Binding

(* The bindings of f change their state.                                   *)
LEMMA Restated ==
    ASSUME AInv, NEW f \in Id, f \in fibers, NEW st, bindings' = WithState(f, st)
    PROVE  /\ \A s \in Scopes \ {0} : bindings'[s] = bindings[s]
           /\ \A k \in Keys :
                /\ bindings[0][k].provider = f =>
                     bindings'[0][k] = [bindings[0][k] EXCEPT !.state = st]
                /\ bindings[0][k].provider # f => bindings'[0][k] = bindings[0][k]
<1>1. ScopeOf(f) = 0 /\ f # 0 /\ TypeOK /\ 0 \in Scopes
  BY OneContext, BoundAssumption DEF AInv, Plain, IInv, Id, Scopes
<1>2. bindings' = [bindings EXCEPT ![0] =
          [k \in Keys |-> IF k \in Bound(f) THEN [bindings[0][k] EXCEPT !.state = st]
                          ELSE bindings[0][k]]]
  BY <1>1 DEF WithState
<1>3. /\ \A s \in Scopes \ {0} : bindings'[s] = bindings[s]
      /\ \A k \in Keys : bindings'[0][k] = IF k \in Bound(f) THEN [bindings[0][k] EXCEPT !.state = st]
                                           ELSE bindings[0][k]
  BY <1>1, <1>2 DEF TypeOK
<1>4. \A k \in Keys : bindings[0][k].provider = f <=> k \in Bound(f)
  BY <1>1, BoundBy DEF Bound, AInv, AssemblyInv
<1> QED BY <1>3, <1>4

LEMMA RestatedSupplies ==
    ASSUME AInv, NEW f \in Id, f \in fibers, NEW st, bindings' = WithState(f, st)
    PROVE  Supplies
<1>1. TypeOK
  BY DEF AInv, IInv
<1>2. ASSUME NEW k \in Keys
      PROVE  /\ bindings'[0][k].provider = bindings[0][k].provider
             /\ bindings'[0][k].available = bindings[0][k].available
  <2>1. /\ bindings[0][k].provider = f => bindings'[0][k] = [bindings[0][k] EXCEPT !.state = st]
        /\ bindings[0][k].provider # f => bindings'[0][k] = bindings[0][k]
    BY Restated
  <2>2. CASE bindings[0][k].provider = f
    <3>1. bindings'[0][k] = [bindings[0][k] EXCEPT !.state = st]
      BY <2>1, <2>2
    <3>2. /\ [bindings[0][k] EXCEPT !.state = st].provider = bindings[0][k].provider
          /\ [bindings[0][k] EXCEPT !.state = st].available = bindings[0][k].available
      BY <1>1, BindingFields
    <3> QED BY <3>1, <3>2
  <2>3. CASE bindings[0][k].provider # f
    BY <2>1, <2>3
  <2> QED BY <2>2, <2>3
<1> QED BY <1>2 DEF Supplies

LEMMA RestatedBind ==
    ASSUME AInv, NEW f \in Id, f \in fibers, NEW st, bindings' = WithState(f, st), Elsewhere(f),
           rec'[f].state # "inactive", Phase(f)' = st
    PROVE  Bindings'
<1>0. /\ \A s \in Scopes \ {0} : bindings'[s] = bindings[s]
      /\ \A k \in Keys :
                /\ bindings[0][k].provider = f =>
                     bindings'[0][k] = [bindings[0][k] EXCEPT !.state = st]
                /\ bindings[0][k].provider # f => bindings'[0][k] = bindings[0][k]
  BY Restated
<1>1. TypeOK /\ Bindings /\ f # 0
  BY BoundAssumption DEF AInv, AssemblyInv, IInv, Id
<1>2. ASSUME NEW k \in Keys PROVE BoundSoundly(k)'
  <2>1. CASE bindings[0][k].provider # f
    BY <1>0, <2>1, KeptBinding
  <2>2. CASE bindings[0][k].provider = f
    <3>1. bindings'[0][k] = [bindings[0][k] EXCEPT !.state = st]
      BY <1>0, <2>2
    <3>2. bindings'[0][k].provider = f /\ bindings'[0][k].state = st
      BY <1>1, <2>2, <3>1, BindingFields
    <3>3. k \in Provides[rec[f].comp]
      BY <1>1, <2>2, BoundBy
    <3>4. f \in fibers' /\ k \in Provides[rec'[f].comp]
      BY <3>3 DEF Elsewhere, KeepsPlace
    <3> QED BY <3>2, <3>4 DEF BoundSoundly
  <2> QED BY <2>1, <2>2
<1>3. OneScope'
  BY <1>0, <1>1 DEF Bindings, OneScope
<1> QED BY <1>2, <1>3 DEF Bindings

(* The bindings of f are gone.                                             *)
LEMMA Unbinds ==
    ASSUME AInv, NEW f \in Id, f \in fibers, bindings' = Withdrawn(f)
    PROVE  /\ \A s \in Scopes \ {0} : bindings'[s] = bindings[s]
           /\ \A k \in Keys :
                /\ bindings[0][k].provider = f => bindings'[0][k] = Unbound
                /\ bindings[0][k].provider # f => bindings'[0][k] = bindings[0][k]
<1>1. ScopeOf(f) = 0 /\ f # 0 /\ TypeOK /\ 0 \in Scopes
  BY OneContext, BoundAssumption DEF AInv, Plain, IInv, Id, Scopes
<1>2. bindings' = [bindings EXCEPT ![0] =
          [k \in Keys |-> IF k \in Bound(f) THEN Unbound ELSE bindings[0][k]]]
  BY <1>1 DEF Withdrawn
<1>3. /\ \A s \in Scopes \ {0} : bindings'[s] = bindings[s]
      /\ \A k \in Keys : bindings'[0][k] = IF k \in Bound(f) THEN Unbound ELSE bindings[0][k]
  BY <1>1, <1>2 DEF TypeOK
<1>4. \A k \in Keys : bindings[0][k].provider = f <=> k \in Bound(f)
  BY <1>1, BoundBy DEF Bound, AInv, AssemblyInv
<1> QED BY <1>3, <1>4

(* Elsewhere, and with f perhaps gone.                                     *)
LEMMA UnbindsBind ==
    ASSUME AInv, NEW f \in Id, f \in fibers, bindings' = Withdrawn(f),
           fibers \ {f} \subseteq fibers',
           \A g \in Id \ {f} : KeepsPlace(g) /\ rec'[g].state = rec[g].state /\ Phase(g)' = Phase(g)
    PROVE  Bindings'
<1>0. /\ \A s \in Scopes \ {0} : bindings'[s] = bindings[s]
      /\ \A k \in Keys : /\ bindings[0][k].provider = f => bindings'[0][k] = Unbound
                         /\ bindings[0][k].provider # f => bindings'[0][k] = bindings[0][k]
  BY Unbinds
<1>1. TypeOK /\ Bindings
  BY DEF AInv, AssemblyInv, IInv
<1>2. ASSUME NEW k \in Keys PROVE BoundSoundly(k)'
  <2>1. CASE bindings[0][k].provider = f
    BY <1>0, <2>1 DEF BoundSoundly
  <2>2. CASE bindings[0][k].provider = 0
    <3>1. f # 0 /\ 0 \notin fibers
      BY <1>1, BoundAssumption DEF TypeOK, Id
    <3> QED BY <1>0, <1>1, <2>2, <3>1, SoundlyKept DEF Bindings
  <2>3. CASE bindings[0][k].provider # 0 /\ bindings[0][k].provider # f
    <3>1. PICK p \in Id \ {f} : p = bindings[0][k].provider /\ rec[p].state # "inactive" /\ p \in fibers
      BY <1>1, <2>3, BoundBy
    <3>2. rec'[p].state # "inactive" /\ Phase(p)' = Phase(p) /\ KeepsPlace(p) /\ p \in fibers'
      BY <3>1
    <3> QED BY <1>0, <1>1, <2>3, <3>1, <3>2, SoundlyKept DEF Bindings
  <2> QED BY <2>1, <2>2, <2>3
<1>3. OneScope'
  BY <1>0, <1>1 DEF Bindings, OneScope
<1> QED BY <1>2, <1>3 DEF Bindings

----------------------------------------------------------------------------
(* start_loading *)

LEMMA LoadTakes ==
    ASSUME AInv, StartLoading, NEW t \in Id, t = Top.f
    PROVE  Takes(t)
<1>1. TypeOK /\ t \in fibers
  BY DEF AInv, IInv, StartLoading, Loadable
<1>2. ScopeOf(t) = 0 /\ 0 \in Scopes
  BY <1>1, OneContext, BoundAssumption DEF AInv, Plain, Scopes
<1>3. PICK early \in SUBSET Provides[rec[Top.f].comp], av \in Availability(rec[Top.f].comp) :
            bindings' = [bindings EXCEPT ![ScopeOf(Top.f)] = [k \in Keys |->
                    IF k \in early
                    THEN [provider |-> Top.f, state |-> "loading", available |-> av]
                    ELSE bindings[ScopeOf(Top.f)][k]]]
  BY Zenon DEF StartLoading
<1>4. bindings' = [bindings EXCEPT ![0] = [k \in Keys |->
                    IF k \in early
                    THEN [provider |-> t, state |-> "loading", available |-> av]
                    ELSE bindings[0][k]]]
  BY <1>2, <1>3
<1>5. av \in BOOLEAN
  BY DEF Availability
<1>6. /\ \A s \in Scopes \ {0} : bindings'[s] = bindings[s]
      /\ \A k \in Keys : bindings'[0][k] =
             IF k \in early THEN [provider |-> t, state |-> "loading", available |-> av]
             ELSE bindings[0][k]
  BY <1>1, <1>2, <1>4 DEF TypeOK
<1> QED BY <1>3, <1>5, <1>6 DEF Takes

LEMMA StartKeeps ==
    ASSUME StaticAssembly, AInv, StartLoading
    PROVE  AssemblyInv'
<1>1. calls # <<>> /\ Top.op = "evaluate" /\ Return /\ Loadable(Top.f)
  BY DEF StartLoading, Running, Top
<1>2. TypeOK /\ Top = stack[height] /\ height \in Nat \ {0}
  BY <1>1, Setting
<1>3. Records /\ Bindings
  BY DEF AInv, AssemblyInv
<1>4. PICK t \in Id : t = Top.f
  BY <1>1, Setting
<1>5. /\ \A g \in Id \ {t} : Keeps(g)
      /\ KeepsPlace(t) /\ KeepsCount(t) /\ KeepsGate(t)
      /\ rec'[t].reactivate = rec[t].reactivate
      /\ rec'[t].state = "loading" /\ rec'[t].applying
      /\ fibers' = fibers
  BY <1>1, <1>2, <1>4, LoadEffect
<1>6. /\ t \in fibers /\ rec[t].state = "inactive" /\ rec[t].reactivate # -1 /\ Satisfiable(t)
  BY <1>1, <1>4 DEF Loadable
<1>7. ~rec[t].applying /\ ~Published(t) /\ ~Withdrawing(t) /\ rec[t].waiters = {}
  BY <1>3, <1>6 DEF Records, Loads, Gate, Published, Withdrawing
<1>8. Moves(t)
  BY <1>5, <1>7 DEF Moves, Published, KeepsCount
<1>9. Gentle
  <2>1. \A d \in 1..height : ~Blocked(t, d)
    <3>1. \A d \in 1..height : d \in 1..(height + 1)
      BY <1>2
    <3> QED BY <1>6, <3>1, BlockedDown
  <2> QED BY <1>5, <1>8, <2>1, MovesGently
<1>10. height' = height - 1 /\ SameBelow(height)
  BY <1>1, <1>2, Returned DEF SameBelow
<1>11. height' \in Nat /\ height' >= height - 1 /\ height..height' = {}
  BY <1>2, <1>10
<1>12. LoopsStay
  BY <1>1, <1>2, <1>10, <1>11, LoopsBeneath
<1>13. Takes(t)
  BY <1>4, LoadTakes
<1>14. Records'
  <2>1. Loads(t)'
    BY <1>5, <1>6 DEF Loads
  <2>2. Counted(t)'
    BY <1>3, <1>5, <1>7 DEF Records, Counted, Withdrawing, KeepsCount
  <2>3. Gate(t)'
    BY <1>5, <1>7 DEF Gate, KeepsGate
  <2>4. Supplies
    BY <1>6, <1>7, <1>13, TakesSupplies
  <2> QED BY <1>8, <1>12, <2>1, <2>2, <2>3, <2>4, OthersKeep DEF LoopsStay
<1>15. Bindings'
  <2>1. Elsewhere(t)
    BY <1>5, <1>8, MovesFacts DEF Elsewhere
  <2>2. Phase(t)' = "loading" /\ rec'[t].state # "inactive"
    BY <1>5 DEF Phase
  <2> QED BY <1>6, <1>13, <2>1, <2>2, TakesBind
<1>16. ~Withdrawing(t)' /\ rec[t].state # "active"
  BY <1>5, <1>6 DEF Withdrawing
<1>17. Withdraws
  BY <1>8, <1>16, MovesFacts DEF Withdraws
<1>18. Pursuing
  <2>1. \A p, g : ~Pursues(height, g, p)
    BY <1>1, <1>2 DEF Pursues
  <2>2. \A p \in Id : \A g \in rec'[p].consumers : g \in Id
    BY <1>2, <1>8, MovesFacts DEF TypeOK, FiberRecord
  <2> QED BY <1>7, <1>8, <1>16, <2>1, <2>2, MovesFacts DEF Pursuing
<1>19. Continuing
  BY <1>1, <1>8, <1>16, MovesFacts DEF Continuing
<1> QED BY <1>1, <1>9, <1>10, <1>11, <1>14, <1>15, <1>17, <1>18, <1>19, StepKeeps

----------------------------------------------------------------------------
(* begin_unload on an active fiber *)

(* No release loop is on the stack, hence every consumer is published; and *)
(* it is active, for one that withdraws would rank below its provider.     *)
LEMMA ActiveConsumers ==
    ASSUME AInv, calls # <<>>, Top.op = "begin_unload", NEW f \in Id, f = Top.f,
           NEW c \in rec[f].consumers
    PROVE  /\ c \in Id /\ c \in fibers /\ Published(c) /\ rec[c].state = "active" /\ c # f
           /\ Needs(c, f)
           /\ \A n \in Nat : \A r \in [Id -> 0..n] : Ranked(r) => r[f] < r[c]
<1>1. TypeOK /\ Top = stack[height] /\ Stacked(height) /\ height \in Nat \ {0}
  BY Setting
<1>2. \A e \in 1..(height - 1) : stack[e].op \in {"cascade", "await"}
  BY <1>1 DEF Stacked, Descends
<1>3. \A d \in 1..height : d = height \/ d \in 1..(height - 1)
  BY <1>1
<1>4. ~Releases(c, f)
  BY <1>1, <1>2, <1>3 DEF Releases
<1>5. /\ c \in Id /\ c \in fibers /\ Published(c)
      /\ \E k \in Keys : rec[c].committed[k] = f
  BY <1>4, ConsumersOf
<1>6. PICK k \in Keys : rec[c].committed[k] = f
  BY <1>5
<1>7. f # 0
  BY BoundAssumption DEF Id
<1>8. f # c /\ k \in Inject[rec[c].comp] /\ k \in Provides[rec[f].comp]
  BY <1>5, <1>6, <1>7, ProvidersOf
<1>9. Needs(c, f)
  BY <1>8 DEF Needs
<1>10. ASSUME NEW n \in Nat, NEW r \in [Id -> 0..n], Ranked(r)
       PROVE  r[f] < r[c]
  BY <1>5, <1>6, <1>8, <1>10 DEF Ranked, RanksViews
<1>11. rec[c].state = "active"
  <2> SUFFICES ASSUME Withdrawing(c) PROVE FALSE
    BY <1>5, PublishedStates DEF AInv, AssemblyInv, Records
  <2>1. Underway(c)
    BY <1>5 DEF AInv, AssemblyInv, Complete
  <2>2. PICK d \in 1..height : stack[d].op = "cascade" /\ stack[d].f = c
    BY <1>1, <2>1 DEF Underway
  <2>3. d \in 1..(height - 1)
    BY <1>1, <1>3, <2>2
  <2>4. PICK n \in Nat : \E r \in [Id -> 0..n] : Ranked(r)
    BY DEF AInv, AssemblyInv, Climbs
  <2>5. PICK r \in [Id -> 0..n] : Ranked(r)
    BY <2>4
  <2>6. RanksFrame(r, height)
    BY <1>1, <2>5 DEF Ranked
  <2>7. r[c] < r[f]
    BY <1>1, <2>2, <2>3, <2>6 DEF RanksFrame
  <2>8. r[f] < r[c] /\ r[f] \in Int /\ r[c] \in Int
    BY <1>5, <1>10, <2>5
  <2> QED BY <2>7, <2>8
<1> QED BY <1>5, <1>8, <1>9, <1>10, <1>11

LEMMA BeginKeeps ==
    ASSUME AInv, BeginUnloadActive
    PROVE  AssemblyInv'
<1>1. calls # <<>> /\ Top.op = "begin_unload"
  BY DEF BeginUnloadActive, Running, Top
<1>2. TypeOK /\ Top = stack[height] /\ Stacked(height)
  BY <1>1, Setting
<1>3. PICK h \in Nat \ {0} : h = height
  BY <1>1, Setting
<1>4. PICK f \in Id : f = Top.f
  BY <1>1, Setting
<1>5. Records /\ Bindings
  BY DEF AInv, AssemblyInv
<1>6. /\ \A g \in Id \ {f} : Keeps(g)
      /\ KeepsPlace(f)
      /\ rec'[f].applying = rec[f].applying /\ rec'[f].committed = rec[f].committed
      /\ rec'[f].reactivate = Reactivation(f, Top.flag)
      /\ rec'[f].waiters = rec[f].waiters
      /\ rec[f].state = "active" /\ rec'[f].state = "unloading" /\ ~rec'[f].done
      /\ rec'[f].consumers = rec[f].consumers
      /\ rec'[f].remaining =
             Cardinality({c \in rec[f].consumers \cap fibers : rec[c].state # "inactive"})
      /\ fibers' = fibers
  BY <1>1, <1>2, <1>4, BeginEffect
<1>7. \A c \in rec[f].consumers :
        /\ c \in Id /\ c \in fibers /\ Published(c) /\ rec[c].state = "active" /\ c # f
        /\ Needs(c, f)
        /\ \A n \in Nat : \A r \in [Id -> 0..n] : Ranked(r) => r[f] < r[c]
  BY <1>1, <1>4, ActiveConsumers
<1>8. f \in fibers /\ Blocked(f, h)
  BY <1>1, <1>2, <1>3, <1>4 DEF Stacked, Held, StaysDown
<1>9. ~rec[f].applying /\ rec[f].waiters = {}
  BY <1>5, <1>6 DEF Records, Loads, Gate
<1>10. rec[f].reactivate = -1 => rec'[f].reactivate = -1
  BY <1>6 DEF Reactivation
<1>11. Published(f) /\ Published(f)' /\ Withdrawing(f)' /\ ~Withdrawing(f)
  BY <1>6, <1>9 DEF Published, Withdrawing
<1>12. Moves(f)
  BY <1>6, <1>10, <1>11 DEF Moves
<1>13. Gentle
  BY <1>6, <1>12, MovesGently DEF Sinks
<1>14. PICK a \in Frame : a = Loop("cascade", f, {0} \X rec[f].consumers)
  <2>1. {0} \X rec[f].consumers \in SUBSET (Nat \X Id)
    BY <1>7
  <2> QED BY <2>1, FrameType DEF Op
<1>15. a.op = "cascade" /\ a.f = f /\ a.todo = {0} \X rec[f].consumers
  BY <1>14, FrameFields
<1>16. Become(<<a>>) /\ bindings' = WithState(f, "retiring")
  BY <1>4, <1>14 DEF BeginUnloadActive
<1>17. height' = h /\ stack'[h] = a /\ SameBelow(h)
  BY <1>1, <1>2, <1>3, <1>16, Replaced DEF SameBelow
<1>18. SameBelow(height) /\ height' \in Nat /\ height' >= height - 1
  BY <1>3, <1>17
<1>19. LoopsStay
  BY <1>1, <1>2, <1>18, LoopsBeneath
<1>20. Records'
  <2>1. Loads(f)'
    BY <1>6, <1>8, <1>9 DEF Loads
  <2>2. Counted(f)'
    <3>1. {c \in rec[f].consumers \cap fibers : rec[c].state # "inactive"} = rec[f].consumers
      BY <1>7
    <3> QED BY <1>6, <1>11, <3>1, Zenon DEF Counted
  <2>3. Gate(f)'
    BY <1>6, <1>9 DEF Gate
  <2>4. Supplies
    BY <1>8, <1>16, RestatedSupplies
  <2> QED BY <1>12, <1>19, <2>1, <2>2, <2>3, <2>4, OthersKeep DEF LoopsStay
<1>21. Bindings'
  <2>1. Elsewhere(f)
    BY <1>6, <1>12, MovesFacts DEF Elsewhere
  <2>2. Phase(f)' = "retiring" /\ rec'[f].state # "inactive"
    BY <1>6, <1>9 DEF Phase
  <2> QED BY <1>8, <1>16, <2>1, <2>2, RestatedBind
<1>22. Withdraws
  BY <1>6, <1>12, MovesFacts DEF Withdraws
<1>23. Pursuing
  <2>1. \A p \in Id : \A g \in rec'[p].consumers : g \in Id
    BY <1>2, <1>12, MovesFacts DEF TypeOK, FiberRecord
  <2>2. \A p : Pursued(f, p)
    <3>1. h \in height..height'
      BY <1>3, <1>17
    <3>2. \A p : Pursues(h, f, p)'
      BY <1>11, <1>15, <1>17 DEF Pursues
    <3> QED BY <3>1, <3>2 DEF Pursued
  <2>3. \A g, p : Pursues(height, g, p) => g = f
    BY <1>2, <1>4 DEF Pursues
  <2> QED BY <1>12, <2>1, <2>2, <2>3, MovesFacts DEF Pursuing
<1>24. Continuing
  <2>1. Underway(f)'
    <3>1. h \in 1..height'
      BY <1>3, <1>17
    <3> QED BY <1>15, <1>17, <3>1 DEF Underway
  <2> QED BY <1>1, <1>12, <2>1, MovesFacts DEF Continuing
<1>25. Fits(h)
  <2>1. Held(h)' /\ Detaches(h)' /\ Spares(h)'
    BY <1>6, <1>8, <1>15, <1>17 DEF Held, Detaches, Spares
  <2>2. Descends(h)'
    BY <1>1, <1>2, <1>3, <1>17 DEF Stacked, Descends, SameBelow
  <2>3. StaysDown(h)'
    <3>1. \A g \in Id : KeepsPlace(g)
      BY <1>12, MovesFacts
    <3>2. Blocked(f, h)'
      BY <1>1, <1>2, <1>3, <1>8, <1>10, <1>17, <3>1, BlockedKept
    <3> QED BY <1>6, <1>9, <1>15, <1>17, <3>2 DEF StaysDown
  <2>4. Cascades(h)'
    <3>1. \A c \in rec[f].consumers : rec'[c].comp = rec[c].comp /\ rec'[f].comp = rec[f].comp
      BY <1>7, <1>12, MovesFacts DEF KeepsPlace
    <3>2. \A c \in rec[f].consumers : Needs(c, f)'
      BY <1>7, <3>1 DEF Needs
    <3> QED BY <1>6, <1>7, <1>15, <1>17, <3>2 DEF Cascades
  <2>5. Covers(h)'
    <3> SUFFICES ASSUME NEW c \in rec'[f].consumers
                 PROVE  rec'[c].state = "active" /\ \E t \in a.todo : t[2] = c
      BY <1>15, <1>17 DEF Covers
    <3>1. rec'[c].state = "active"
      BY <1>6, <1>7, <1>12, MovesFacts
    <3>2. <<0, c>> \in a.todo
      BY <1>6, <1>15
    <3> QED BY <3>1, <3>2
  <2>6. ASSUME NEW n \in Nat, NEW r \in [Id -> 0..n], Ranked(r) PROVE RanksFrame(r, h)'
    <3>1. RanksFrame(r, h)
      BY <1>3, <2>6 DEF Ranked
    <3>2. \A e \in 1..(h - 1) : stack'[e].op = "cascade" => r[stack'[e].f] < r[f]
      BY <1>1, <1>2, <1>3, <1>4, <1>17, <3>1 DEF RanksFrame, SameBelow
    <3>3. \A t \in a.todo : r[f] < r[t[2]]
      BY <1>7, <1>15, <2>6
    <3> QED BY <1>15, <1>17, <3>2, <3>3 DEF RanksFrame
  <2> QED BY <2>1, <2>2, <2>3, <2>4, <2>5, <2>6 DEF Fits, Stacked
<1>26. \A d \in height..height' : Fits(d)
  BY <1>3, <1>17, <1>25
<1> QED BY <1>1, <1>13, <1>18, <1>20, <1>21, <1>22, <1>23, <1>24, <1>26, StepKeeps

----------------------------------------------------------------------------
(* finish_unload *)

(* The fiber that finishes has no consumers left, and each of its          *)
(* providers counts it, once.                                              *)
LEMMA Finished ==
    ASSUME StaticAssembly, AInv, calls # <<>>, Top.op = "finish", MayFinish(Top.f),
           NEW f \in Id, f = Top.f
    PROVE  /\ f \in fibers /\ Blocked(f, height) /\ ~rec[f].applying /\ Withdrawing(f)
           /\ rec[f].waiters = {} /\ rec[f].consumers = {}
           /\ Edges(f) \in SUBSET (Nat \X Id)
           /\ \A t \in Edges(f) : /\ t[2] \in Id /\ t[2] # f
                                  /\ Published(t[2]) /\ f \in rec[t[2]].consumers
           /\ \A t, u \in Edges(f) : t[2] = u[2] => t = u
           /\ \A p \in Id : f \in rec[p].consumers => \E t \in Edges(f) : t[2] = p
           /\ \A e \in 1..(height - 1) : stack[e].op = "release" => stack[e].f # f
<1>1. TypeOK /\ Top = stack[height] /\ Stacked(height) /\ height \in Nat \ {0}
      /\ \A d \in 1..height : Stacked(d)
  BY Setting
<1>2. Records /\ Counted(f) /\ Gate(f) /\ Mounted
  BY DEF AInv, AssemblyInv, Records, IInv
<1>3. rec[f].state = "unloading" /\ rec[f].remaining = 0
  BY DEF MayFinish
<1>4. f \in fibers /\ ~rec[f].applying
  BY <1>1 DEF Stacked, Held, StaysDown
<1>5. Withdrawing(f) /\ Published(f)
  BY <1>3, <1>4 DEF Withdrawing, Published
<1>6. Blocked(f, height)
  BY <1>1, <1>5 DEF Stacked, StaysDown
<1>7. rec[f].waiters = {}
  BY <1>2, <1>4 DEF Gate
<1>8. rec[f].consumers = {}
  <2>1. IsFiniteSet(Id)
    BY FS_Interval, BoundAssumption DEF Id
  <2>2. rec[f].consumers \in SUBSET Id
    BY <1>1 DEF TypeOK, FiberRecord
  <2>3. IsFiniteSet(rec[f].consumers)
    BY <2>1, <2>2, FS_Subset
  <2>4. Cardinality(rec[f].consumers) = 0
    BY <1>2, <1>3, <1>5 DEF Counted
  <2> QED BY <2>3, <2>4, FS_EmptySet
<1>9. Edges(f) \in SUBSET (Nat \X Id)
  BY BoundAssumption DEF Edges
<1>10. ASSUME NEW t \in Edges(f)
       PROVE  /\ t[2] \in Id /\ t[2] # f /\ t = <<t[1], t[2]>>
              /\ Published(t[2]) /\ f \in rec[t[2]].consumers
              /\ t[1] \in Inject[rec[f].comp] \cap Provides[rec[t[2]].comp]
              /\ t[2] \in fibers
  <2>1. t[1] \in Keys /\ t[2] \in Id /\ rec[f].committed[t[1]] = t[2] /\ t = <<t[1], t[2]>>
    BY DEF Edges
  <2>2. t[2] # 0
    BY <2>1, BoundAssumption DEF Id
  <2> QED BY <1>5, <2>1, <2>2, ProvidersOf
<1>11. ASSUME NEW t \in Edges(f), NEW u \in Edges(f), t[2] = u[2] PROVE t = u
  <2>1. rec[f].comp \in Comp /\ rec[t[2]].comp \in Comp
    BY <1>2, <1>4, <1>10 DEF Mounted
  <2>2. /\ t[1] \in Inject[rec[f].comp] \cap Provides[rec[t[2]].comp]
        /\ u[1] \in Inject[rec[f].comp] \cap Provides[rec[t[2]].comp]
    BY <1>10, <1>11
  <2>3. t[1] = u[1]
    BY <2>1, <2>2 DEF StaticAssembly
  <2> QED BY <1>10, <1>11, <2>3
<1>12. ASSUME NEW p \in Id, f \in rec[p].consumers PROVE \E t \in Edges(f) : t[2] = p
  <2>1. rec[f].state # "inactive"
    BY <1>3
  <2>2. PICK k \in Keys : rec[f].committed[k] = p
    BY <1>12, <2>1, ConsumersOf
  <2>3. <<k, p>> \in Edges(f)
    BY <2>2 DEF Edges
  <2> QED BY <2>3
<1>13. ASSUME NEW e \in 1..(height - 1), stack[e].op = "release" PROVE stack[e].f # f
  <2>1. Stacked(e)
    BY <1>1
  <2> QED BY <1>3, <1>13, <2>1 DEF Stacked, StaysDown
<1> QED BY <1>4, <1>5, <1>6, <1>7, <1>8, <1>9, <1>10, <1>11, <1>12, <1>13

LEMMA FinishKeepsAssembly ==
    ASSUME StaticAssembly, AInv, Finish
    PROVE  AssemblyInv'
<1>1. calls # <<>> /\ Top.op = "finish" /\ MayFinish(Top.f)
  BY DEF Finish, Running, Top
<1>2. TypeOK /\ Top = stack[height] /\ Mounted
  BY <1>1, Setting DEF AInv, IInv
<1>3. PICK h \in Nat \ {0} : h = height
  BY <1>1, Setting
<1>4. PICK f \in Id : f = Top.f
  BY <1>1, Setting
<1>5. Records /\ Bindings /\ \A p \in Id : \A c \in rec[p].consumers : c \in Id /\ Published(p)
  BY <1>2 DEF AInv, AssemblyInv, Records, Counts, TypeOK, FiberRecord
<1>6. /\ f \in fibers /\ Blocked(f, height) /\ ~rec[f].applying /\ Withdrawing(f)
      /\ rec[f].waiters = {} /\ rec[f].consumers = {}
      /\ Edges(f) \in SUBSET (Nat \X Id)
      /\ \A t \in Edges(f) : /\ t[2] \in Id /\ t[2] # f
                             /\ Published(t[2]) /\ f \in rec[t[2]].consumers
      /\ \A t, u \in Edges(f) : t[2] = u[2] => t = u
      /\ \A p \in Id : f \in rec[p].consumers => \E t \in Edges(f) : t[2] = p
      /\ \A e \in 1..(height - 1) : stack[e].op = "release" => stack[e].f # f
  BY <1>1, <1>4, Finished
<1>7. /\ \A g \in Id \ {f} : Keeps(g)
      /\ KeepsPlace(f) /\ KeepsCount(f) /\ KeepsGate(f) /\ KeepsMark(f)
      /\ rec[f].remaining = 0
      /\ rec'[f].state = "inactive" /\ rec'[f].applying = rec[f].applying
      /\ fibers' = fibers
  BY <1>1, <1>2, <1>4, FinishEffect
<1>8. \A g \in Id \ {f} : /\ KeepsPlace(g) /\ KeepsState(g) /\ KeepsCount(g) /\ KeepsGate(g)
                          /\ rec'[g].state = rec[g].state /\ rec'[g].applying = rec[g].applying
                          /\ rec'[g].committed = rec[g].committed
                          /\ rec[g].reactivate = -1 => rec'[g].reactivate = -1
  BY <1>7 DEF Keeps, KeepsState, KeepsMark
<1>9. \A g \in Id \ {f} : /\ (Published(g)' <=> Published(g)) /\ (Withdrawing(g)' <=> Withdrawing(g))
                          /\ Phase(g)' = Phase(g) /\ Sinks(g)
  BY <1>8 DEF Published, Withdrawing, Phase, Sinks
<1>10. ~Published(f)' /\ ~Withdrawing(f)' /\ Sinks(f) /\ rec[f].state # "active"
       /\ (rec[f].reactivate = -1 => rec'[f].reactivate = -1)
  BY <1>6, <1>7 DEF Published, Withdrawing, Sinks, KeepsMark
<1>11. \A g \in Id : /\ KeepsPlace(g) /\ rec'[g].consumers = rec[g].consumers
                     /\ rec[g].reactivate = -1 => rec'[g].reactivate = -1
                     /\ Published(g)' => Published(g) /\ rec'[g].committed = rec[g].committed
                     /\ Withdrawing(g)' => Withdrawing(g)
  BY <1>7, <1>8, <1>9, <1>10 DEF KeepsCount
<1>12. \A p \in Id : \A c \in rec[p].consumers : p # f /\ Published(p)' /\ c \in rec'[p].consumers
  BY <1>5, <1>6, <1>9, <1>11
<1>13. Gentle
  <2>1. \A g \in Id : Sinks(g) /\ (rec'[g].state = "active" => rec[g].state = "active")
    BY <1>7, <1>8, <1>9, <1>10
  <2> QED BY <1>7, <1>11, <1>12, <2>1 DEF Gentle
<1>14. PICK a \in Frame : a = Loop("release", f, Edges(f))
  BY <1>6, FrameType DEF Op
<1>15. a.op = "release" /\ a.f = f /\ a.todo = Edges(f)
  BY <1>14, FrameFields
<1>16. Become(<<a>>) /\ bindings' = Withdrawn(f)
  BY <1>4, <1>14 DEF Finish
<1>17. height' = h /\ stack'[h] = a /\ SameBelow(h)
  BY <1>1, <1>2, <1>3, <1>16, Replaced DEF SameBelow
<1>18. SameBelow(height) /\ height' \in Nat /\ height' >= height - 1
       /\ h \in 1..height' /\ h \in height..height'
  BY <1>3, <1>17
<1>19. LoopsStay
  BY <1>1, <1>2, <1>18, LoopsBeneath
<1>20. \A p \in Id : f \in rec[p].consumers => Releases(f, p)' /\ Pursued(f, p)
  <2> SUFFICES ASSUME NEW p \in Id, f \in rec[p].consumers
               PROVE  Releases(f, p)' /\ Pursued(f, p)
    OBVIOUS
  <2>1. PICK t \in a.todo : t[2] = p
    BY <1>6, <1>15
  <2>2. Releases(f, p)'
    BY <1>15, <1>17, <1>18, <2>1 DEF Releases
  <2>3. Pursues(h, f, p)'
    BY <1>15, <1>17, <2>1 DEF Pursues
  <2> QED BY <1>18, <2>2, <2>3 DEF Pursued
<1>21. ASSUME NEW g \in Id
       PROVE  Loads(g)' /\ Installed(g)' /\ Counts(g)' /\ Counted(g)' /\ Gate(g)'
  <2>0. Loads(g) /\ Installed(g) /\ Counts(g) /\ Counted(g) /\ Gate(g)
    BY <1>5 DEF Records
  <2>1. Loads(g)'
    BY <1>6, <1>7, <1>8, <2>0, LoadsKept DEF Loads
  <2>2. Installed(g)'
    <3>1. \A k \in Keys, p \in Id :
               bindings[0][k].provider = p /\ bindings[0][k].available
               /\ Published(p) /\ g \in rec[p].consumers
                 => bindings'[0][k].provider = p /\ bindings'[0][k].available
      BY <1>6, <1>12, <1>16, Unbinds
    <3> QED BY <1>2, <1>11, <1>12, <2>0, <3>1, InstalledKept
  <2>3. Counts(g)'
    <3>1. CASE g = f
      BY <1>6, <1>11, <3>1 DEF Counts
    <3>2. CASE g # f
      <4>1. \A c \in rec[g].consumers :
               /\ Releases(c, g) => Releases(c, g)'
               /\ Published(c) => \/ Published(c)' /\ rec'[c].committed = rec[c].committed
                                  \/ Releases(c, g)'
        BY <1>5, <1>8, <1>9, <1>19, <1>20 DEF LoopsStay
      <4> QED BY <1>9, <1>11, <2>0, <3>2, <4>1, CountsKept
    <3> QED BY <3>1, <3>2
  <2>4. Counted(g)'
    <3>1. CASE g = f
      BY <1>7, <1>10, <3>1 DEF Counted, KeepsCount
    <3>2. CASE g # f
      BY <1>8, <1>9, <2>0, <3>2, CountedKept
    <3> QED BY <3>1, <3>2
  <2>5. Gate(g)'
    <3>1. CASE g = f
      <4>1. Unwinds(f)'
        BY <1>15, <1>17, <1>18 DEF Unwinds
      <4> QED BY <1>6, <1>7, <3>1, <4>1 DEF Gate, KeepsGate
    <3>2. CASE g # f
      BY <1>7, <1>8, <1>19, <2>0, <3>2, GateKept DEF LoopsStay
    <3> QED BY <3>1, <3>2
  <2> QED BY <2>1, <2>2, <2>3, <2>4, <2>5
<1>22. Records'
  BY <1>21 DEF Records
<1>23. Bindings'
  BY <1>6, <1>7, <1>8, <1>9, <1>16, UnbindsBind
<1>24. Withdraws
  BY <1>11 DEF Withdraws
<1>25. Pursuing
  <2>1. \A g, p : Pursues(height, g, p) => g = f
    BY <1>2, <1>4 DEF Pursues
  <2> QED BY <1>5, <1>8, <1>9, <1>10, <1>11, <1>20, <2>1 DEF Pursuing
<1>26. Continuing
  BY <1>4, <1>10, <1>11 DEF Continuing
<1>27. Fits(h)
  <2>1. Held(h)' /\ Descends(h)' /\ Cascades(h)' /\ Spares(h)'
    BY <1>6, <1>7, <1>15, <1>17 DEF Held, Descends, Cascades, Spares
  <2>2. StaysDown(h)'
    <3>1. Blocked(f, h)'
      BY <1>1, <1>2, <1>3, <1>6, <1>11, <1>17, BlockedKept
    <3> QED BY <1>7, <1>15, <1>17, <3>1 DEF StaysDown
  <2>3. Detaches(h)'
    <3>1. \A t \in a.todo : Published(t[2])' /\ f \in rec'[t[2]].consumers
      BY <1>6, <1>12, <1>15
    <3>2. \A t, u \in a.todo : t[2] = u[2] => t = u
      BY <1>6, <1>15
    <3>3. \A e \in 1..(h - 1) : stack'[e].op = "release" => stack'[e].f # f
      BY <1>3, <1>6, <1>17 DEF SameBelow
    <3> QED BY <1>15, <1>17, <3>1, <3>2, <3>3 DEF Detaches
  <2> QED BY <1>15, <1>17, <2>1, <2>2, <2>3 DEF Fits, Stacked, Covers, RanksFrame
<1>28. \A d \in height..height' : Fits(d)
  BY <1>3, <1>17, <1>27
<1> QED BY <1>1, <1>13, <1>18, <1>22, <1>23, <1>24, <1>25, <1>26, <1>28, StepKeeps

----------------------------------------------------------------------------
(* The release of a provider *)

(* Bindings that no step touches, of fibers that keep their phase.         *)
LEMMA SameBindings ==
    ASSUME AInv, bindings' = bindings, fibers' = fibers,
           \A g \in Id : KeepsPlace(g) /\ rec'[g].state = rec[g].state /\ Phase(g)' = Phase(g)
    PROVE  Bindings'
<1>1. TypeOK /\ Bindings
  BY DEF AInv, AssemblyInv, IInv
<1>2. ASSUME NEW k \in Keys PROVE BoundSoundly(k)'
  <2>1. CASE bindings[0][k].provider = 0
    BY <1>1, <2>1, SoundlyKept, BoundAssumption DEF TypeOK, Id, Bindings
  <2>2. CASE bindings[0][k].provider # 0
    <3>1. PICK p \in Id : p = bindings[0][k].provider /\ rec[p].state # "inactive"
      BY <1>1, <2>2, BoundBy
    <3> QED BY <1>1, <3>1, SoundlyKept DEF Bindings
  <2> QED BY <2>1, <2>2
<1> QED BY <1>1, <1>2 DEF Bindings, OneScope

LEMMA CountedOffKept ==
    ASSUME AInv, NEW p \in Id, NEW f \in rec[p].consumers,
           rec'[p].consumers = rec[p].consumers \ {f}, rec'[p].remaining = CountedOff(p),
           Withdrawing(p)' <=> Withdrawing(p)
    PROVE  Counted(p)'
<1>1. TypeOK /\ Counted(p)
  BY DEF AInv, AssemblyInv, Records, IInv
<1>2. IsFiniteSet(rec[p].consumers)
  <2>1. IsFiniteSet(Id)
    BY FS_Interval, BoundAssumption DEF Id
  <2>2. rec[p].consumers \in SUBSET Id
    BY <1>1 DEF TypeOK, FiberRecord
  <2> QED BY <2>1, <2>2, FS_Subset
<1>3. CASE Withdrawing(p)
  <2>1. PICK n \in Nat : n = Cardinality(rec[p].consumers)
    BY <1>2, FS_CardinalityType
  <2>2. n # 0
    BY <1>2, <2>1, FS_EmptySet
  <2>3. Cardinality(rec[p].consumers \ {f}) = n - 1
    BY <1>2, <2>1, FS_RemoveElement
  <2>4. rec[p].remaining = n
    BY <1>1, <1>3, <2>1 DEF Counted
  <2>5. CountedOff(p) = n - 1
    BY <2>2, <2>4 DEF CountedOff
  <2> QED BY <1>3, <2>3, <2>5 DEF Counted
<1>4. CASE ~Withdrawing(p)
  BY <1>1, <1>4 DEF Counted, CountedOff
<1> QED BY <1>3, <1>4

LEMMA ReleaseNextKeeps ==
    ASSUME AInv, ReleaseNext
    PROVE  AssemblyInv'
<1>1. calls # <<>> /\ Top.op = "release" /\ Top.todo # {}
  BY DEF ReleaseNext, Running, Top
<1>2. TypeOK /\ Mounted /\ Top = stack[height] /\ Stacked(height) /\ Top.todo \in SUBSET (Nat \X Id)
      /\ \A d \in 1..height : Stacked(d)
  BY <1>1, Setting DEF AInv, IInv
<1>3. PICK h \in Nat \ {0} : h = height
  BY <1>1, Setting
<1>4. PICK f \in Id : f = Top.f
  BY <1>1, Setting
<1>5. Records /\ Bindings /\ \A p \in Id : \A c \in rec[p].consumers : c \in Id /\ Published(p)
  BY <1>2 DEF AInv, AssemblyInv, Records, Counts, TypeOK, FiberRecord
<1>6. PICK t \in Top.todo : t = First(Top.todo)
  BY <1>1, <1>2, FirstIn
<1>7. PICK p \in Id : p = t[2]
  BY <1>2, <1>6
<1>8. /\ f \in fibers /\ Blocked(f, h) /\ rec[f].state = "inactive"
      /\ \A u \in Top.todo : Published(u[2]) /\ f \in rec[u[2]].consumers /\ u[2] \in Id
      /\ \A u, v \in Top.todo : u[2] = v[2] => u = v
      /\ \A e \in 1..(h - 1) : stack[e].op = "release" => stack[e].f # f
  BY <1>1, <1>2, <1>3, <1>4 DEF Stacked, Held, StaysDown, Detaches
<1>9. Published(p) /\ f \in rec[p].consumers /\ p \in fibers /\ p # f
  <2>1. Published(p) /\ f \in rec[p].consumers
    BY <1>6, <1>7, <1>8
  <2> QED BY <1>5, <1>8, <2>1, PublishedStates DEF Records
<1>10. /\ \A g \in Id \ {p} : Keeps(g)
       /\ KeepsPlace(p) /\ KeepsState(p) /\ KeepsGate(p) /\ KeepsMark(p)
       /\ rec'[p].consumers = rec[p].consumers \ {f}
       /\ rec'[p].remaining = CountedOff(p)
       /\ fibers' = fibers /\ bindings' = bindings
  BY <1>1, <1>2, <1>4, <1>6, <1>7, <1>9, ReleaseEffect
<1>11. \A g \in Id : /\ KeepsPlace(g) /\ KeepsState(g) /\ KeepsGate(g)
                     /\ rec'[g].state = rec[g].state /\ rec'[g].applying = rec[g].applying
                     /\ rec'[g].committed = rec[g].committed
                     /\ rec[g].reactivate = -1 => rec'[g].reactivate = -1
                     /\ g # p => KeepsCount(g) /\ rec'[g].consumers = rec[g].consumers
  BY <1>10 DEF Keeps, KeepsState, KeepsMark, KeepsCount
<1>12. \A g \in Id : /\ (Published(g)' <=> Published(g)) /\ (Withdrawing(g)' <=> Withdrawing(g))
                     /\ Phase(g)' = Phase(g) /\ Sinks(g)
                     /\ rec'[g].consumers \subseteq rec[g].consumers
                     /\ \A c \in rec[g].consumers : c # f => c \in rec'[g].consumers
  BY <1>10, <1>11 DEF Published, Withdrawing, Phase, Sinks
<1>13. Gentle
  <2>1. \A g \in Id : \A c \in rec[g].consumers : Published(g)' /\ (c \in rec'[g].consumers \/ LetsGo(c))
    BY <1>1, <1>4, <1>5, <1>12 DEF LetsGo
  <2> QED BY <1>10, <1>11, <1>12, <2>1 DEF Gentle
<1>14. PICK a \in Frame : a = Call("finish", p)
  BY FrameType DEF Op
<1>15. a.op = "finish" /\ a.f = p
  BY <1>14, FrameFields
<1>16. PICK rest \in Frame : rest = [Top EXCEPT !.todo = @ \ {t}]
  BY <1>1, <1>2, RestType
<1>17. rest.op = "release" /\ rest.f = f /\ rest.todo = Top.todo \ {t}
  BY <1>1, <1>2, <1>4, <1>16, RestFields
<1>18. Become(<<a, rest>>)
  BY <1>6, <1>7, <1>9, <1>14, <1>16 DEF ReleaseNext
<1>19. height' = h + 1 /\ stack'[h + 1] = a /\ stack'[h] = rest /\ SameBelow(h)
  BY <1>1, <1>2, <1>3, <1>18, Called DEF SameBelow
<1>20. SameBelow(height) /\ height' \in Nat /\ height' >= height - 1
       /\ h \in 1..height' /\ h \in height..height'
  BY <1>3, <1>19
<1>21. ASSUME NEW d \in 1..height, d # h PROVE d \in 1..height' /\ stack'[d] = stack[d]
  BY <1>3, <1>19, <1>21 DEF SameBelow
<1>22. ASSUME NEW c, NEW q, Releases(c, q), c # f \/ q # p PROVE Releases(c, q)'
  <2>1. PICK d \in 1..height : /\ stack[d].op = "release" /\ stack[d].f = c
                               /\ \E u \in stack[d].todo : u[2] = q
    BY <1>22 DEF Releases
  <2>2. CASE d = h
    <3>1. PICK u \in Top.todo : u[2] = q /\ c = f
      BY <1>2, <1>3, <1>4, <2>1, <2>2
    <3>2. u \in rest.todo
      BY <1>7, <1>17, <1>22, <3>1
    <3> QED BY <1>17, <1>19, <1>20, <3>1, <3>2 DEF Releases
  <2>3. CASE d # h
    BY <1>21, <2>1, <2>3 DEF Releases
  <2> QED BY <2>2, <2>3
<1>23. ASSUME NEW c, Unwinds(c) PROVE Unwinds(c)'
  <2>1. PICK d \in 1..height : stack[d].op = "release" /\ stack[d].f = c
    BY <1>23 DEF Unwinds
  <2>2. CASE d = h
    BY <1>2, <1>3, <1>4, <1>17, <1>19, <1>20, <2>1, <2>2 DEF Unwinds
  <2>3. CASE d # h
    BY <1>21, <2>1, <2>3 DEF Unwinds
  <2> QED BY <2>2, <2>3
<1>24. ASSUME NEW g \in Id
       PROVE  Loads(g)' /\ Installed(g)' /\ Counts(g)' /\ Counted(g)' /\ Gate(g)'
  <2>0. Loads(g) /\ Installed(g) /\ Counts(g) /\ Counted(g) /\ Gate(g)
    BY <1>5 DEF Records
  <2>1. Loads(g)'
    BY <1>10, <1>11, <2>0, LoadsKept
  <2>2. Installed(g)'
    <3>1. CASE g = f
      BY <1>8, <1>11, <3>1 DEF Installed, Published
    <3>2. CASE g # f
      <4>1. \A q \in Id : g \in rec[q].consumers => Published(q)' /\ g \in rec'[q].consumers
        BY <1>5, <1>12, <3>2
      <4>2. Published(g)' => Published(g) /\ rec'[g].committed = rec[g].committed
        BY <1>11, <1>12
      <4>3. KeepsPlace(g)
        BY <1>11
      <4> QED BY <1>2, <1>10, <2>0, <4>1, <4>2, <4>3, InstalledKept
    <3> QED BY <3>1, <3>2
  <2>3. Counts(g)'
    <3>1. CASE g = p
      <4> SUFFICES ASSUME NEW c \in rec'[p].consumers
                   PROVE  /\ Published(p)'
                          /\ \/ Published(c)' /\ \E k \in Keys : rec'[c].committed[k] = p
                             \/ Releases(c, p)'
        BY <3>1 DEF Counts
      <4>1. c \in rec[p].consumers /\ c # f /\ c \in Id
        BY <1>5, <1>10
      <4>2. (Published(c) /\ \E k \in Keys : rec[c].committed[k] = p) \/ Releases(c, p)
        BY <2>0, <3>1, <4>1 DEF Counts
      <4> QED BY <1>9, <1>11, <1>12, <1>22, <4>1, <4>2
    <3>2. CASE g # p
      <4>1. \A c \in rec[g].consumers :
               /\ Releases(c, g) => Releases(c, g)'
               /\ Published(c) => Published(c)' /\ rec'[c].committed = rec[c].committed
        BY <1>5, <1>11, <1>12, <1>22, <3>2
      <4>2. rec'[g].consumers = rec[g].consumers /\ (Published(g) => Published(g)')
        BY <1>11, <1>12, <3>2
      <4> QED BY <2>0, <4>1, <4>2, CountsKept
    <3> QED BY <3>1, <3>2
  <2>4. Counted(g)'
    <3>1. CASE g = p
      BY <1>9, <1>10, <1>12, <3>1, CountedOffKept
    <3>2. CASE g # p
      BY <1>11, <1>12, <2>0, <3>2, CountedKept
    <3> QED BY <3>1, <3>2
  <2>5. Gate(g)'
    BY <1>10, <1>11, <1>23, <2>0, GateKept
  <2> QED BY <2>1, <2>2, <2>3, <2>4, <2>5
<1>25. Records'
  BY <1>24 DEF Records
<1>26. Bindings'
  BY <1>10, <1>11, <1>12, SameBindings
<1>27. Withdraws
  BY <1>11, <1>12 DEF Withdraws
<1>28. Pursuing
  <2> SUFFICES ASSUME NEW q \in Id, NEW c \in rec'[q].consumers
               PROVE  /\ Pursues(height, c, q) => Pursued(c, q)
                      /\ rec[c].state = "active" => rec'[c].state = "active"
                      /\ Withdrawing(c) => Withdrawing(c)'
    BY DEF Pursuing
  <2>1. c \in Id
    BY <1>5, <1>12
  <2>2. ASSUME Pursues(height, c, q) PROVE Pursued(c, q)
    <3>1. c = f /\ \E u \in Top.todo : u[2] = q
      BY <1>1, <1>2, <1>4, <2>2 DEF Pursues
    <3>2. q # p
      BY <1>10, <3>1
    <3>3. \E u \in rest.todo : u[2] = q
      BY <1>7, <1>17, <3>1, <3>2
    <3>4. Pursues(h, c, q)'
      BY <1>17, <1>19, <3>1, <3>3 DEF Pursues
    <3> QED BY <1>20, <3>4 DEF Pursued
  <2> QED BY <1>11, <1>12, <2>1, <2>2
<1>29. Continuing
  BY <1>1, <1>12 DEF Continuing
<1>30. Blocked(f, h)'
  BY <1>1, <1>2, <1>3, <1>8, <1>11, <1>19, BlockedKept
<1>31. Fits(h)
  <2>1. Held(h)' /\ Descends(h)' /\ Cascades(h)' /\ Spares(h)'
    BY <1>8, <1>10, <1>17, <1>19 DEF Held, Descends, Cascades, Spares
  <2>2. StaysDown(h)'
    BY <1>8, <1>11, <1>17, <1>19, <1>30 DEF StaysDown
  <2>3. Detaches(h)'
    <3>1. \A u \in rest.todo : Published(u[2])' /\ f \in rec'[u[2]].consumers
      <4> TAKE u \in rest.todo
      <4>1. u \in Top.todo /\ u # t
        BY <1>17
      <4>2. u[2] # p /\ u[2] \in Id /\ Published(u[2]) /\ f \in rec[u[2]].consumers
        BY <1>7, <1>8, <4>1
      <4> QED BY <1>11, <1>12, <4>2
    <3>2. \A u, v \in rest.todo : u[2] = v[2] => u = v
      BY <1>8, <1>17
    <3>3. \A e \in 1..(h - 1) : stack'[e].op = "release" => stack'[e].f # f
      BY <1>8, <1>19 DEF SameBelow
    <3> QED BY <1>17, <1>19, <3>1, <3>2, <3>3 DEF Detaches
  <2> QED BY <1>17, <1>19, <2>1, <2>2, <2>3 DEF Fits, Stacked, Covers, RanksFrame
<1>32. Fits(h + 1)
  <2>1. Withdrawing(p)' => Blocked(p, h + 1)'
    <3> SUFFICES ASSUME Withdrawing(p) PROVE Blocked(p, h + 1)'
      BY <1>12
    <3>1. Underway(p)
      BY DEF AInv, AssemblyInv, Complete
    <3>2. PICK d \in 1..height : stack[d].op = "cascade" /\ stack[d].f = p
      BY <1>1, <1>2, <3>1 DEF Underway
    <3>3. Blocked(p, d) /\ d <= h /\ d \in Nat
      BY <1>2, <1>3, <3>2 DEF Stacked, StaysDown
    <3>4. Blocked(p, h)
      BY <3>3, BlockedAbove
    <3>5. Blocked(p, h)'
      BY <1>1, <1>2, <1>3, <1>11, <1>19, <3>4, BlockedKept
    <3>6. \A e \in 1..(h - 1) : e \in 1..(h + 1 - 1)
      OBVIOUS
    <3> QED BY <3>5, <3>6 DEF Blocked
  <2>2. p \in fibers' /\ ~rec'[p].applying
    BY <1>9, <1>10, <1>11 DEF Published
  <2> QED BY <1>15, <1>19, <2>1, <2>2, FinishFits
<1>33. \A d \in height..height' : Fits(d)
  BY <1>3, <1>19, <1>31, <1>32
<1> QED BY <1>1, <1>13, <1>20, <1>25, <1>26, <1>27, <1>28, <1>29, <1>33, StepKeeps

----------------------------------------------------------------------------
(* The gate *)

(* Nobody of a fiber's dependents is active once it is down.               *)
LEMMA NotifiedIdle ==
    ASSUME AInv, NEW f \in Id, f \in fibers, ~Published(f), NEW keys,
           keys \subseteq Provides[rec[f].comp], NEW t \in Notified(f, keys)
    PROVE  t[2] \in Id /\ rec[t[2]].state # "active"
<1>1. /\ t[2] \in Id /\ t[2] \in fibers /\ t[1] \in Inject[rec[t[2]].comp]
      /\ t[1] \in Provides[rec[f].comp]
  BY DEF Notified
<1> QED BY <1>1, NothingNew

LEMMA OpenKeeps ==
    ASSUME AInv, ReleaseDone
    PROVE  AssemblyInv'
<1>1. calls # <<>> /\ Top.op = "release" /\ Top.todo = {}
  BY DEF ReleaseDone, Running, Top
<1>2. TypeOK /\ Mounted /\ Top = stack[height] /\ Stacked(height)
  BY <1>1, Setting DEF AInv, IInv
<1>3. PICK h \in Nat \ {0} : h = height
  BY <1>1, Setting
<1>4. PICK f \in Id : f = Top.f
  BY <1>1, Setting
<1>5. Records
  BY DEF AInv, AssemblyInv
<1>6. f \in fibers /\ rec[f].state = "inactive"
  BY <1>1, <1>2, <1>4 DEF Stacked, Held, StaysDown
<1>7. ~rec[f].applying /\ ~Published(f) /\ ~Withdrawing(f) /\ rec[f].waiters = {}
  BY <1>5, <1>6 DEF Records, Loads, Gate, Published, Withdrawing
<1>8. /\ \A g \in Id \ {f} : Keeps(g)
      /\ KeepsPlace(f) /\ KeepsState(f) /\ KeepsCount(f) /\ KeepsMark(f)
      /\ rec'[f].done /\ rec'[f].waiters = {}
      /\ fibers' = fibers /\ bindings' = bindings
  BY <1>1, <1>2, <1>4, <1>7, OpenEffect
<1>9. ~Published(f)' /\ ~Withdrawing(f)' /\ Phase(f)' = Phase(f) /\ Sinks(f)
      /\ rec'[f].state = rec[f].state
  BY <1>6, <1>7, <1>8 DEF Published, Withdrawing, Phase, Sinks, KeepsState
<1>10. Moves(f)
  BY <1>7, <1>8, <1>9 DEF Moves, KeepsCount, KeepsMark
<1>11. Gentle
  BY <1>9, <1>10, MovesGently
<1>12. PICK a \in Frame : a = Loop("notify", f, Notified(f, Provides[rec[f].comp]))
  <2>1. rec[f].comp \in Comp
    BY <1>2, <1>6 DEF Mounted
  <2> QED BY <2>1, LoopType, FrameType DEF Op
<1>13. PICK b \in Frame : b = Call("tail", f)
  BY FrameType DEF Op
<1>14. /\ a.op = "notify" /\ a.f = f /\ a.todo = Notified(f, Provides[rec[f].comp])
       /\ b.op = "tail" /\ b.f = f
  BY <1>12, <1>13, FrameFields
<1>15. Become(<<a, b>>)
  BY <1>4, <1>12, <1>13 DEF ReleaseDone
<1>16. height' = h + 1 /\ stack'[h + 1] = a /\ stack'[h] = b /\ SameBelow(h)
  BY <1>1, <1>2, <1>3, <1>15, Called DEF SameBelow
<1>17. SameBelow(height) /\ height' \in Nat /\ height' >= height - 1
  BY <1>3, <1>16
<1>18. ASSUME NEW d \in 1..height, d # h PROVE d \in 1..height' /\ stack'[d] = stack[d]
  BY <1>3, <1>16, <1>18 DEF SameBelow
<1>19. ASSUME NEW c, NEW p, Releases(c, p) PROVE Releases(c, p)'
  <2>1. PICK d \in 1..height : /\ stack[d].op = "release" /\ stack[d].f = c
                               /\ \E u \in stack[d].todo : u[2] = p
    BY <1>19 DEF Releases
  <2>2. d # h
    BY <1>1, <1>2, <1>3, <2>1
  <2> QED BY <1>18, <2>1, <2>2 DEF Releases
<1>20. ASSUME NEW c, c # f, Unwinds(c) PROVE Unwinds(c)'
  <2>1. PICK d \in 1..height : stack[d].op = "release" /\ stack[d].f = c
    BY <1>20 DEF Unwinds
  <2>2. d # h
    BY <1>2, <1>3, <1>4, <1>20, <2>1
  <2> QED BY <1>18, <2>1, <2>2 DEF Unwinds
<1>21. Records'
  <2>0. Loads(f) /\ Counted(f)
    BY <1>5 DEF Records
  <2>1. Loads(f)'
    BY <1>8, <2>0, LoadsKept
  <2>2. Counted(f)'
    BY <1>7, <1>8, <1>9, <2>0, CountedKept
  <2>3. Gate(f)'
    BY <1>6, <1>8, <1>9 DEF Gate
  <2> QED BY <1>8, <1>10, <1>19, <1>20, <2>1, <2>2, <2>3, OthersKeep DEF Supplies
<1>22. \A g \in Id : KeepsPlace(g) /\ rec'[g].state = rec[g].state /\ Phase(g)' = Phase(g)
                     /\ (Withdrawing(g)' <=> Withdrawing(g))
  BY <1>7, <1>9, <1>10, MovesFacts
<1>23. Bindings'
  BY <1>8, <1>22, SameBindings
<1>24. Withdraws
  BY <1>10, <1>22, MovesFacts DEF Withdraws
<1>25. Pursuing
  <2>1. \A p, g : ~Pursues(height, g, p)
    BY <1>1, <1>2 DEF Pursues
  <2>2. \A p \in Id : \A g \in rec'[p].consumers : g \in Id
    BY <1>2, <1>10, MovesFacts DEF TypeOK, FiberRecord
  <2> QED BY <1>22, <2>1, <2>2 DEF Pursuing
<1>26. Continuing
  BY <1>1, <1>22 DEF Continuing
<1>27. Fits(h)
  <2>1. Held(h)' /\ Spares(h)'
    BY <1>3, <1>6, <1>8, <1>9, <1>14, <1>16 DEF Held, Spares
  <2> QED BY <1>14, <1>16, <2>1, LightFits
<1>28. Fits(h + 1)
  <2>1. \A t \in a.todo : t[2] \in Id /\ rec[t[2]].state # "active"
    BY <1>6, <1>7, <1>14, NotifiedIdle
  <2>2. (Held(h + 1) /\ Spares(h + 1))'
    BY <1>6, <1>8, <1>14, <1>16, <1>22, <2>1 DEF Held, Spares
  <2> QED BY <1>14, <1>16, <2>2, LightFits
<1>29. \A d \in height..height' : Fits(d)
  BY <1>3, <1>16, <1>27, <1>28
<1> QED BY <1>1, <1>11, <1>17, <1>21, <1>23, <1>24, <1>25, <1>26, <1>29, StepKeeps

(* Nothing withdraws: the frames need only be in order.                    *)
LEMMA FreshKeeps ==
    ASSUME Records', Bindings', Climbs', \A p \in Id : ~Withdrawing(p)',
           \A d \in 1..height' : Stacked(d)' /\ stack'[d].op # "cascade"
    PROVE  AssemblyInv'
<1>1. Stack'
  BY DEF Stack
<1>2. Complete'
  BY DEF Complete, Underway, Covers
<1> QED BY <1>1, <1>2 DEF AssemblyInv

(* No release loop is on the stack.                                        *)
NoLoops == (\A c, p : ~Releases(c, p)) /\ \A c : ~Unwinds(c)

(* Fibers that are down may leave, and one whose apply() runs be waited    *)
(* for.                                                                    *)
Leaves ==
    /\ \A g \in Id : /\ KeepsPlace(g) /\ KeepsState(g) /\ KeepsCount(g)
                      /\ rec'[g].done = rec[g].done
                      /\ \/ rec'[g].waiters = rec[g].waiters
                         \/ rec[g].state = "unloading" /\ rec[g].applying
    /\ fibers' \subseteq fibers
    /\ \A g \in fibers : rec[g].state # "inactive" => g \in fibers'
    /\ bindings' = bindings

LEMMA LeavesKeeps ==
    ASSUME AInv, NoLoops, Leaves
    PROVE  Records' /\ Bindings'
<1>1. TypeOK /\ Mounted /\ Records /\ Bindings
  BY DEF AInv, AssemblyInv, IInv
<1>2. /\ \A g \in Id : /\ KeepsPlace(g) /\ KeepsState(g) /\ KeepsCount(g)
                        /\ rec'[g].state = rec[g].state /\ rec'[g].done = rec[g].done
                        /\ rec'[g].applying = rec[g].applying
                        /\ rec'[g].committed = rec[g].committed
                        /\ rec'[g].consumers = rec[g].consumers
                        /\ \/ rec'[g].waiters = rec[g].waiters
                           \/ rec[g].state = "unloading" /\ rec[g].applying
      /\ bindings' = bindings
  BY DEF Leaves, KeepsState, KeepsCount
<1>3. \A g \in Id : /\ (Published(g)' <=> Published(g)) /\ (Withdrawing(g)' <=> Withdrawing(g))
                    /\ Phase(g)' = Phase(g)
  BY <1>2 DEF Published, Withdrawing, Phase
<1>4. fibers' \subseteq fibers /\ \A g \in fibers : rec[g].state # "inactive" => g \in fibers'
  BY DEF Leaves
<1>5. \A p \in Id : \A c \in rec[p].consumers : c \in Id /\ Published(p)
  BY <1>1 DEF TypeOK, FiberRecord, Records, Counts
<1>6. ASSUME NEW g \in Id
      PROVE  Loads(g)' /\ Installed(g)' /\ Counts(g)' /\ Counted(g)' /\ Gate(g)'
  <2>0. Loads(g) /\ Installed(g) /\ Counts(g) /\ Counted(g) /\ Gate(g)
    BY <1>1 DEF Records
  <2>1. Loads(g)'
    BY <1>2, <1>4, <2>0 DEF Loads
  <2>2. Installed(g)'
    <3>1. \A q \in Id : g \in rec[q].consumers => Published(q)' /\ g \in rec'[q].consumers
      BY <1>2, <1>3, <1>5
    <3>2. Published(g)' => Published(g) /\ rec'[g].committed = rec[g].committed
      BY <1>2, <1>3
    <3>3. KeepsPlace(g)
      BY <1>2
    <3> QED BY <1>1, <1>2, <2>0, <3>1, <3>2, <3>3, InstalledKept
  <2>3. Counts(g)'
    <3>1. \A c \in rec[g].consumers :
             /\ Releases(c, g) => Releases(c, g)'
             /\ Published(c) => Published(c)' /\ rec'[c].committed = rec[c].committed
      BY <1>2, <1>3, <1>5 DEF NoLoops
    <3> QED BY <1>2, <1>3, <2>0, <3>1, CountsKept
  <2>4. Counted(g)'
    BY <1>2, <1>3, <2>0, CountedKept
  <2>5. Gate(g)'
    BY <1>2, <1>4, <2>0 DEF NoLoops, Gate
  <2> QED BY <2>1, <2>2, <2>3, <2>4, <2>5
<1>7. ASSUME NEW k \in Keys PROVE BoundSoundly(k)'
  <2>1. CASE bindings[0][k].provider = 0
    BY <1>1, <1>2, <2>1, SoundlyKept, BoundAssumption DEF TypeOK, Id, Bindings
  <2>2. CASE bindings[0][k].provider # 0
    <3>1. PICK p \in Id : p = bindings[0][k].provider /\ rec[p].state # "inactive"
      BY <1>1, <2>2, BoundBy
    <3>2. KeepsPlace(p) /\ Phase(p)' = Phase(p) /\ rec'[p].state # "inactive"
          /\ (p \in fibers => p \in fibers')
      BY <1>2, <1>3, <1>4, <3>1
    <3> QED BY <1>1, <1>2, <3>1, <3>2, SoundlyKept DEF Bindings
  <2> QED BY <2>1, <2>2
<1> QED BY <1>1, <1>2, <1>6, <1>7 DEF Records, Bindings, OneScope

(* No fiber is published that was not, and no cascade has begun.           *)
LEMMA ClimbsKept ==
    ASSUME AInv,
           \A g \in Id : Published(g)' => /\ Published(g) /\ KeepsPlace(g)
                                         /\ rec'[g].committed = rec[g].committed,
           \A d \in 1..height' : /\ stack'[d].op # "cascade"
                                 /\ stack'[d].op = "begin_unload" => stack'[d].todo = {},
           height' \in Nat
    PROVE  Climbs'
<1>0. PICK n \in Nat : \E r \in [Id -> 0..n] : Ranked(r)
  BY DEF AInv, AssemblyInv, Climbs
<1>1. PICK r \in [Id -> 0..n] : Ranked(r)
  BY <1>0
<1>2. RanksViews(r)'
  BY <1>1 DEF Ranked, RanksViews, KeepsPlace
<1>3. \A d \in 1..height' : \A e \in 1..(d - 1) : e \in 1..height'
  OBVIOUS
<1>4. \A d \in 1..height' : RanksFrame(r, d)'
  BY <1>3 DEF RanksFrame
<1>5. Ranked(r)'
  BY <1>2, <1>4 DEF Ranked
<1> QED BY <1>5 DEF Climbs

LEMMA AwaitKeeps ==
    ASSUME AInv, AwaitGate
    PROVE  AssemblyInv'
<1>1. calls # <<>> /\ Top.op = "await" /\ Return
  BY DEF AwaitGate, Running, Top
<1>2. TypeOK /\ RetireUnderway /\ Top = stack[height] /\ Stacked(height)
  BY <1>1, Setting DEF AInv, IInv
<1>3. PICK f \in Id : f = Top.f
  BY <1>1, Setting
<1>4. Gate(f)
  BY DEF AInv, AssemblyInv, Records
<1>5. f \in fibers /\ height = 1 /\ rec[f].reactivate = -1
  BY <1>1, <1>2, <1>3 DEF Stacked, Held
<1>6. rec[f].state \in {"inactive", "unloading"}
  <2>1. ~Running("begin_unload")
    BY <1>1 DEF Running, Top
  <2>2. rec[f].state \in State
    BY <1>2 DEF TypeOK, FiberRecord
  <2> QED BY <1>2, <1>5, <2>1, <2>2 DEF RetireUnderway, State
<1>7. NoLoops /\ \A p \in Id : ~Withdrawing(p)
  <2>1. \A d \in 1..height : stack[d].op = "await"
    BY <1>1, <1>2, <1>5
  <2>2. height \in 1..height /\ height > 0
    BY <1>5
  <2>3. \A p \in Id : Underway(p)
    BY DEF AInv, AssemblyInv, Complete
  <2> QED BY <2>1, <2>2, <2>3 DEF NoLoops, Releases, Unwinds, Underway
<1> DEFINE erases == rec[f].done \/ (Top.who = "parent" /\ rec[f].state = "inactive")
<1>8. /\ \A g \in Id \ {f} : Keeps(g)
      /\ KeepsPlace(f) /\ KeepsState(f) /\ KeepsCount(f)
      /\ rec'[f].done = rec[f].done
      /\ erases => fibers' = fibers \ {f} /\ rec'[f].waiters = rec[f].waiters
      /\ ~erases => fibers' = fibers
      /\ bindings' = bindings
  BY <1>1, <1>2, <1>3, AwaitEffect
<1>9. erases => rec[f].state = "inactive"
  BY <1>4, <1>6 DEF Gate
<1>10. ~erases => rec[f].state = "unloading" /\ rec[f].applying
  BY <1>4, <1>5, <1>6, <1>7 DEF Gate, NoLoops, Withdrawing
<1> HIDE DEF erases
<1>11. Leaves
  BY <1>8, <1>9, <1>10 DEF Leaves, Keeps, KeepsGate
<1>12. Records' /\ Bindings'
  BY <1>7, <1>11, LeavesKeeps
<1>13. height' = 0
  BY <1>1, <1>2, <1>5, Returned
<1>14. \A g \in Id : /\ Published(g)' <=> Published(g)
                     /\ KeepsPlace(g) /\ rec'[g].committed = rec[g].committed
                     /\ Withdrawing(g)' <=> Withdrawing(g)
  BY <1>11 DEF Leaves, KeepsState, Published, Withdrawing
<1>15. Climbs'
  BY <1>13, <1>14, ClimbsKept
<1> QED BY <1>7, <1>12, <1>13, <1>14, <1>15, FreshKeeps

(* Every step of the cascade.                                              *)
LEMMA CascadeKeeps ==
    ASSUME StaticAssembly, AInv, Cascade
    PROVE  AssemblyInv'
<1>1. calls # <<>>
  BY CascadeRuns
<1>2. /\ Mounted /\ Flat /\ Top = stack[height] /\ Stacked(height) /\ Top.f \in Id
  BY <1>1, Setting DEF AInv, IInv, Plain
<1>3. ~EvaluateUnloads
  BY <1>2 DEF EvaluateUnloads, Running, Top, Stacked, Spares
<1>4. ~StartLoadingThrows
  BY <1>2, Excluded DEF StartLoadingThrows, Loadable
<1>5. BeginUnloadKeeps => AssemblyInv'
  BY StillKeeps, LoadingKeeps
<1> QED BY <1>3, <1>4, <1>5, ReturnKeeps, StartKeeps, BeginKeeps, CascadeNextKeeps, CascadeDoneKeeps,
           FinishKeepsKeeps, FinishKeepsAssembly, ReleaseNextKeeps, OpenKeeps, NotifyNextKeeps,
           TailKeeps, AwaitKeeps DEF Cascade

----------------------------------------------------------------------------
(* The handlers, from an empty stack *)

LEMMA AtRest ==
    ASSUME AInv, calls = <<>>
    PROVE  /\ height = 0 /\ NoLoops
           /\ \A p \in Id : ~Withdrawing(p) /\ (Published(p) <=> rec[p].state = "active")
           /\ \A p \in Id : \A c \in rec[p].consumers : Published(c) /\ c \in Id /\ Published(p)
<1>1. height = 0
  BY DEF height
<1>2. NoLoops
  BY <1>1 DEF NoLoops, Releases, Unwinds
<1>3. Records /\ Complete /\ TypeOK
  BY DEF AInv, AssemblyInv, IInv
<1>4. \A p \in Id : ~Withdrawing(p)
  BY <1>1, <1>3 DEF Complete, Underway
<1>5. \A p \in Id : Published(p) <=> rec[p].state = "active"
  BY <1>3, <1>4, PublishedStates DEF Records
<1>6. \A p \in Id : \A c \in rec[p].consumers : Published(c) /\ c \in Id /\ Published(p)
  BY <1>2, <1>3 DEF Records, Counts, NoLoops, TypeOK, FiberRecord
<1> QED BY <1>1, <1>2, <1>4, <1>5, <1>6

(* A handler after which every record is as it was, or down and gone, or   *)
(* waited for.                                                             *)
LEMMA LeavesRest ==
    ASSUME AInv, calls = <<>>, Leaves, height' \in Nat,
           \A d \in 1..height' : /\ Stacked(d)' /\ stack'[d].op # "cascade"
                                 /\ stack'[d].op = "begin_unload" => stack'[d].todo = {}
    PROVE  AssemblyInv'
<1>1. Records' /\ Bindings'
  BY AtRest, LeavesKeeps
<1>2. \A g \in Id : /\ Published(g)' <=> Published(g)
                    /\ KeepsPlace(g) /\ rec'[g].committed = rec[g].committed
                    /\ Withdrawing(g)' <=> Withdrawing(g)
  BY DEF Leaves, KeepsState, Published, Withdrawing
<1>3. Climbs'
  BY <1>2, ClimbsKept
<1> QED BY <1>1, <1>2, <1>3, AtRest, FreshKeeps

(* cancel() and wait_idle().                                               *)
LEMMA QuietKeeps ==
    ASSUME AInv, (\E f \in Id : Cancel(f)) \/ \E h \in Hosts : WaitIdle(h)
    PROVE  AssemblyInv'
<1>1. /\ \A g \in Id : Keeps(g)
      /\ fibers' = fibers /\ bindings' = bindings /\ calls = <<>> /\ calls' = <<>>
  <2>1. TypeOK
    BY DEF AInv, IInv
  <2>2. CASE \E f \in Id : Cancel(f)
    BY <2>1, <2>2, CalmEffect DEF Cancel, StrandFree
  <2>3. CASE \E h \in Hosts : WaitIdle(h)
    <3>1. 1 \in Id
      BY BoundAssumption DEF Id
    <3> QED BY <2>1, <2>3, <3>1, CalmEffect DEF WaitIdle, StrandFree
  <2> QED BY <2>2, <2>3
<1>2. Leaves
  BY <1>1 DEF Leaves, Keeps, KeepsGate
<1>3. height' = 0
  BY <1>1 DEF height
<1> QED BY <1>1, <1>2, <1>3, LeavesRest

LEMMA RetireKeeps ==
    ASSUME AInv, NEW f \in Id, NEW w \in Hosts, Retire(w, f)
    PROVE  AssemblyInv'
<1>1. /\ f \in fibers /\ bindings' = bindings /\ calls = <<>>
      /\ \/ /\ \A g \in Id : Keeps(g)
            /\ rec[f].state = "inactive" /\ fibers' = fibers \ {f} /\ calls' = <<>>
         \/ /\ Marks(f) /\ calls' = <<BeginUnload(f, FALSE), Await(f, w)>>
            /\ rec[f].state # "inactive"
  BY RetireEffect DEF AInv, IInv
<1>2. CASE /\ \A g \in Id : Keeps(g)
           /\ rec[f].state = "inactive" /\ fibers' = fibers \ {f} /\ calls' = <<>>
  <2>1. Leaves
    BY <1>1, <1>2 DEF Leaves, Keeps, KeepsGate
  <2>2. height' = 0
    BY <1>2 DEF height
  <2> QED BY <1>1, <2>1, <2>2, LeavesRest
<1>3. CASE Marks(f) /\ calls' = <<BeginUnload(f, FALSE), Await(f, w)>>
  <2>1. Leaves
    <3>1. f \in fibers /\ fibers' = fibers
      BY <1>3 DEF Marks
    <3>2. \A g \in Id : KeepsPlace(g) /\ KeepsState(g) /\ KeepsCount(g) /\ KeepsGate(g)
      BY <1>3 DEF Marks, Keeps
    <3> QED BY <1>1, <3>1, <3>2 DEF Leaves, KeepsGate
  <2>2. PICK a : a = BeginUnload(f, FALSE)
    OBVIOUS
  <2>3. PICK b : b = Await(f, w)
    OBVIOUS
  <2>4. /\ a.op = "begin_unload" /\ a.f = f /\ a.todo = {}
        /\ b.op = "await" /\ b.f = f /\ b.todo = {}
    BY <2>2, <2>3 DEF BeginUnload, Call, Await
  <2>5. height' = 2 /\ stack'[2] = a /\ stack'[1] = b
    BY <1>3, <2>2, <2>3, Begun
  <2>6. f \in fibers' /\ rec'[f].reactivate = -1
    BY <1>3 DEF Marks
  <2>7. Stacked(1)'
    BY <2>4, <2>5, <2>6 DEF Stacked, Held, Descends, StaysDown, Cascades, Detaches, Spares
  <2>8. Stacked(2)'
    <3>1. \A e \in 1..(2 - 1) : e = 1
      OBVIOUS
    <3>2. Held(2)' /\ Descends(2)' /\ StaysDown(2)'
      BY <2>4, <2>5, <2>6, <3>1 DEF Held, Descends, StaysDown, Blocked
    <3> QED BY <2>4, <2>5, <3>2 DEF Stacked, Cascades, Detaches, Spares
  <2>9. \A d \in 1..height' : d = 1 \/ d = 2
    BY <2>5
  <2> QED BY <1>1, <2>1, <2>4, <2>5, <2>7, <2>8, <2>9, LeavesRest
<1> QED BY <1>1, <1>2, <1>3

(* A handler that binds or makes available what f provides.                *)
LEMMA BindsKeeps ==
    ASSUME AInv, calls = <<>>, NEW f \in Id, \A g \in Id : Keeps(g), fibers' = fibers,
           Supplies, Bindings', height' \in Nat,
           \A d \in 1..height' : /\ Stacked(d)'
                                 /\ stack'[d].op \notin {"cascade", "begin_unload"}
    PROVE  AssemblyInv'
<1>1. Moves(f)
  BY DEF Moves, Keeps, KeepsState, KeepsCount, KeepsMark, Published
<1>2. /\ \A g \in Id : /\ KeepsPlace(g) /\ KeepsState(g) /\ KeepsCount(g) /\ KeepsGate(g)
                       /\ rec'[g].committed = rec[g].committed
                       /\ (Published(g)' <=> Published(g)) /\ (Withdrawing(g)' <=> Withdrawing(g))
  BY DEF Keeps, KeepsState, Published, Withdrawing
<1>3. Loads(f) /\ Counted(f) /\ Gate(f)
  BY DEF AInv, AssemblyInv, Records
<1>4. NoLoops
  BY AtRest
<1>5. Loads(f)' /\ Counted(f)' /\ Gate(f)'
  BY <1>2, <1>3, <1>4, LoadsKept, CountedKept, GateKept DEF NoLoops
<1>6. Records'
  BY <1>1, <1>4, <1>5, OthersKeep DEF NoLoops
<1>7. Climbs'
  BY <1>2, ClimbsKept
<1> QED BY <1>2, <1>6, <1>7, AtRest, FreshKeeps

LEMMA ProvideKeeps ==
    ASSUME AInv, NEW f \in Id, NEW k \in Keys, Provide(f, k)
    PROVE  AssemblyInv'
<1>1. TypeOK /\ Loads(f)
  BY DEF AInv, AssemblyInv, IInv, Records
<1>2. /\ \A g \in Id : Keeps(g)
      /\ fibers' = fibers
  BY <1>1, CalmEffect
<1>3. /\ calls = <<>> /\ calls' = <<>> /\ f \in fibers /\ rec[f].applying
      /\ k \in Provides[rec[f].comp]
  BY DEF Provide, StrandFree
<1>4. rec[f].state # "inactive" /\ ~Published(f) /\ Phase(f) = "loading"
  BY <1>1, <1>3 DEF Loads, Published, Phase
<1>5. ScopeOf(f) = 0 /\ 0 \in Scopes
  BY <1>3, OneContext, BoundAssumption DEF AInv, Plain, Scopes
<1>6. PICK av \in Availability(rec[f].comp) :
        bindings' = [bindings EXCEPT ![0][k] =
                        [provider |-> f, state |-> "loading", available |-> av]]
  BY <1>5 DEF Provide
<1>7. Takes(f)
  <2>1. av \in BOOLEAN
    BY DEF Availability
  <2>2. /\ \A s \in Scopes \ {0} : bindings'[s] = bindings[s]
        /\ \A j \in Keys : bindings'[0][j] =
             IF j = k THEN [provider |-> f, state |-> "loading", available |-> av] ELSE bindings[0][j]
    BY <1>1, <1>5, <1>6 DEF TypeOK
  <2> QED BY <1>3, <2>1, <2>2 DEF Takes
<1>8. \A g \in Id : /\ KeepsPlace(g) /\ rec'[g].state = rec[g].state /\ Phase(g)' = Phase(g)
  BY <1>2 DEF Keeps, KeepsState, Phase
<1>9. Bindings'
  <2>1. Elsewhere(f)
    BY <1>2, <1>8 DEF Elsewhere
  <2>2. rec'[f].state # "inactive" /\ Phase(f)' = "loading"
    BY <1>4, <1>8
  <2> QED BY <1>3, <1>4, <1>7, <2>1, <2>2, TakesBind
<1>10. Supplies
  BY <1>3, <1>4, <1>7, TakesSupplies
<1>11. height' = 0
  BY <1>3 DEF height
<1> QED BY <1>2, <1>3, <1>9, <1>10, <1>11, BindsKeeps

LEMMA PromoteKeeps ==
    ASSUME AInv, NEW f \in Id, NEW k \in Keys, Promote(f, k)
    PROVE  AssemblyInv'
<1>1. TypeOK /\ Bindings /\ Mounted
  BY DEF AInv, AssemblyInv, IInv
<1>2. /\ \A g \in Id : Keeps(g)
      /\ fibers' = fibers
  BY <1>1, CalmEffect
<1>3. /\ calls = <<>> /\ f \in fibers
      /\ calls' = <<Loop("notify", f, Notified(f, {k}))>>
  BY DEF Promote, StrandFree
<1>4. ScopeOf(f) = 0 /\ 0 \in Scopes
  BY <1>3, OneContext, BoundAssumption DEF AInv, Plain, Scopes
<1>5. /\ k \in Provides[rec[f].comp] /\ bindings[0][k].provider = f /\ ~bindings[0][k].available
      /\ bindings' = [bindings EXCEPT ![0][k].available = TRUE]
  BY <1>4 DEF Promote, Bound
<1>6. PICK b \in Binding : b = bindings[0][k]
  BY <1>1, <1>4 DEF TypeOK
<1>7. /\ \A s \in Scopes \ {0} : bindings'[s] = bindings[s]
      /\ \A j \in Keys : bindings'[0][j] =
             IF j = k THEN [b EXCEPT !.available = TRUE] ELSE bindings[0][j]
  BY <1>1, <1>4, <1>5, <1>6 DEF TypeOK
<1>8. [b EXCEPT !.available = TRUE].provider = b.provider /\ [b EXCEPT !.available = TRUE].state = b.state
  BY DEF Binding
<1>9. Supplies
  BY <1>5, <1>7 DEF Supplies
<1>10. \A g \in Id : /\ KeepsPlace(g) /\ rec'[g].state = rec[g].state /\ Phase(g)' = Phase(g)
                     /\ rec'[g].comp = rec[g].comp
  BY <1>2 DEF Keeps, KeepsPlace, KeepsState, Phase
<1>11. Bindings'
  <2>1. ASSUME NEW j \in Keys PROVE BoundSoundly(j)'
    <3>1. CASE j = k
      <4>1. bindings'[0][k].provider = f /\ bindings'[0][k].state = b.state
        BY <1>5, <1>6, <1>7, <1>8
      <4>2. b.state = Phase(f) /\ rec[f].state # "inactive"
        <5>1. f # 0
          BY BoundAssumption DEF Id
        <5> QED BY <1>1, <1>5, <1>6, <5>1, BoundBy
      <4>3. k \in Provides[rec'[f].comp] /\ f \in fibers' /\ rec'[f].state # "inactive"
            /\ Phase(f)' = Phase(f)
        BY <1>2, <1>3, <1>5, <1>10, <4>2
      <4> QED BY <3>1, <4>1, <4>2, <4>3 DEF BoundSoundly
    <3>2. CASE j # k
      <4>1. bindings'[0][j] = bindings[0][j]
        BY <1>7, <3>2
      <4>2. CASE bindings[0][j].provider = 0
        BY <1>1, <4>1, <4>2, SoundlyKept, BoundAssumption DEF TypeOK, Id, Bindings
      <4>3. CASE bindings[0][j].provider # 0
        <5>1. PICK p \in Id : p = bindings[0][j].provider /\ rec[p].state # "inactive"
          BY <1>1, <4>3, BoundBy
        <5> QED BY <1>1, <1>2, <1>10, <4>1, <5>1, SoundlyKept DEF Bindings
      <4> QED BY <4>2, <4>3
    <3> QED BY <3>1, <3>2
  <2> QED BY <1>1, <1>7, <2>1 DEF Bindings, OneScope
<1>12. PICK a : a = Loop("notify", f, Notified(f, {k}))
  OBVIOUS
<1>13. a.op = "notify" /\ a.f = f /\ a.todo = Notified(f, {k})
  BY <1>12, FrameFields
<1>14. height' = 1 /\ stack'[1] = a
  BY <1>3, <1>12, Begun
<1>15. \A t \in a.todo : t[2] \in Id /\ rec[t[2]].state # "active"
  <2> TAKE t \in a.todo
  <2>1. t[2] \in Id /\ t[2] \in fibers /\ k \in Inject[rec[t[2]].comp] /\ t[1] = k
    BY <1>13 DEF Notified
  <2>2. rec[t[2]].state = "active" => bindings[0][k].available
    BY <1>3, <1>5, <2>1, NothingNew
  <2> QED BY <1>5, <2>1, <2>2
<1>16. Stacked(1)'
  <2>1. Held(1)' /\ Spares(1)'
    BY <1>2, <1>3, <1>10, <1>13, <1>14, <1>15 DEF Held, Spares
  <2> QED BY <1>13, <1>14, <2>1 DEF Stacked, Descends, StaysDown, Cascades, Detaches
<1>17. \A d \in 1..height' : Stacked(d)' /\ stack'[d].op \notin {"cascade", "begin_unload"}
  BY <1>13, <1>14, <1>16
<1> QED BY <1>2, <1>3, <1>9, <1>11, <1>14, <1>17, BindsKeeps

LEMMA MountKeeps ==
    ASSUME AInv, NEW c \in Roots, Mount(c)
    PROVE  AssemblyInv'
<1>0. TypeOK /\ Mounted /\ Records /\ Bindings /\ IInv
  BY DEF AInv, AssemblyInv, IInv
<1>1. PICK n \in Id :
        /\ n \notin fibers /\ fibers' = fibers \cup {n}
        /\ \A g \in Id \ {n} : Keeps(g)
        /\ rec'[n] = NewFiber(c, {0}, 0)
        /\ calls = <<>> /\ calls' = <<Call("evaluate", n)>>
        /\ bindings' = bindings
  BY <1>0, MountEffect
<1>2. /\ rec'[n].state = "inactive" /\ ~rec'[n].applying /\ rec'[n].consumers = {}
      /\ rec'[n].remaining = 0 /\ rec'[n].done /\ rec'[n].waiters = {}
  BY <1>1 DEF NewFiber
<1>3. ~Published(n)' /\ ~Withdrawing(n)'
  BY <1>2 DEF Published, Withdrawing
<1>4. rec[n].state = "inactive" /\ ~Published(n) /\ rec[n].consumers = {}
  <2>1. Loads(n)
    BY <1>0 DEF Records
  <2>2. rec[n].state = "inactive"
    BY <1>1, <2>1 DEF Loads
  <2> QED BY <1>1, <2>2, AtRest DEF Published
<1>5. \A g \in Id \ {n} : /\ KeepsPlace(g) /\ KeepsState(g) /\ KeepsCount(g) /\ KeepsGate(g)
                          /\ rec'[g].state = rec[g].state
                          /\ rec'[g].committed = rec[g].committed
                          /\ rec'[g].consumers = rec[g].consumers
  BY <1>1 DEF Keeps, KeepsState, KeepsCount
<1>6. \A g \in Id \ {n} : /\ (Published(g)' <=> Published(g)) /\ (Withdrawing(g)' <=> Withdrawing(g))
                          /\ Phase(g)' = Phase(g)
  BY <1>5 DEF KeepsState, Published, Withdrawing, Phase
<1>7. \A p \in Id : \A g \in rec[p].consumers : p # n /\ g # n /\ Published(p)' /\ g \in rec'[p].consumers
  BY <1>1, <1>4, <1>5, <1>6, AtRest
<1>8. ASSUME NEW g \in Id
      PROVE  Loads(g)' /\ Installed(g)' /\ Counts(g)' /\ Counted(g)' /\ Gate(g)'
  <2>1. CASE g = n
    BY <1>2, <1>3, <2>1 DEF Loads, Installed, Counts, Counted, Gate
  <2>2. CASE g # n
    <3>0. Loads(g) /\ Installed(g) /\ Counts(g) /\ Counted(g) /\ Gate(g)
      BY <1>0 DEF Records
    <3>1. Loads(g)'
      BY <1>1, <1>5, <2>2, <3>0, LoadsKept
    <3>2. Installed(g)'
      <4>1. Published(g)' => Published(g) /\ rec'[g].committed = rec[g].committed
        BY <1>5, <1>6, <2>2
      <4>2. KeepsPlace(g)
        BY <1>5, <2>2
      <4> QED BY <1>0, <1>1, <1>7, <3>0, <4>1, <4>2, InstalledKept
    <3>3. Counts(g)'
      <4>1. \A d \in rec[g].consumers :
               /\ Releases(d, g) => Releases(d, g)'
               /\ Published(d) => Published(d)' /\ rec'[d].committed = rec[d].committed
        BY <1>1, <1>5, <1>6, <1>7, AtRest DEF NoLoops
      <4> QED BY <1>5, <1>6, <2>2, <3>0, <4>1, CountsKept
    <3>4. Counted(g)'
      BY <1>5, <1>6, <2>2, <3>0, CountedKept
    <3>5. Gate(g)'
      <4>1. NoLoops
        BY <1>1, AtRest
      <4> QED BY <1>1, <1>5, <2>2, <3>0, <4>1, GateKept DEF NoLoops
    <3> QED BY <3>1, <3>2, <3>3, <3>4, <3>5
  <2> QED BY <2>1, <2>2
<1>9. Records'
  BY <1>8 DEF Records
<1>10. ASSUME NEW k \in Keys PROVE BoundSoundly(k)'
  <2>1. CASE bindings[0][k].provider = 0
    BY <1>0, <1>1, <2>1, SoundlyKept, BoundAssumption DEF TypeOK, Id, Bindings
  <2>2. CASE bindings[0][k].provider # 0
    <3>1. PICK p \in Id : /\ p = bindings[0][k].provider /\ rec[p].state # "inactive"
                          /\ p \in fibers
      BY <1>0, <2>2, BoundBy
    <3>2. p # n
      BY <1>1, <3>1
    <3> QED BY <1>0, <1>1, <1>5, <1>6, <3>1, <3>2, SoundlyKept DEF Bindings
  <2> QED BY <2>1, <2>2
<1>11. Bindings'
  BY <1>0, <1>1, <1>10 DEF Bindings, OneScope
<1>12. PICK a : a = Call("evaluate", n)
  OBVIOUS
<1>13. a.op = "evaluate" /\ a.f = n
  BY <1>12, FrameFields
<1>14. height' = 1 /\ stack'[1] = a
  BY <1>1, <1>12, Begun
<1>15. Stacked(1)'
  BY <1>2, <1>13, <1>14
     DEF Stacked, Held, Descends, StaysDown, Cascades, Detaches, Spares
<1>16. \A d \in 1..height' : Stacked(d)' /\ stack'[d].op \notin {"cascade", "begin_unload"}
  BY <1>13, <1>14, <1>15
<1>17. Climbs'
  <2>1. \A g \in Id : Published(g)' => /\ Published(g) /\ KeepsPlace(g)
                                       /\ rec'[g].committed = rec[g].committed
    BY <1>3, <1>5, <1>6
  <2> QED BY <1>14, <1>16, <2>1, ClimbsKept
<1>18. \A p \in Id : ~Withdrawing(p)'
  BY <1>1, <1>3, <1>6, AtRest
<1> QED BY <1>9, <1>11, <1>16, <1>17, <1>18, FreshKeeps

LEMMA FailKeeps ==
    ASSUME AInv, NEW f \in Id, NEW raised, ApplyFails(f, raised)
    PROVE  AssemblyInv'
<1>0. TypeOK /\ Mounted /\ Records /\ Bindings
  BY DEF AInv, AssemblyInv, IInv
<1>1. /\ \A g \in Id \ {f} : Keeps(g)
      /\ KeepsPlace(f) /\ KeepsCount(f)
      /\ rec[f].applying /\ rec'[f].state = "inactive" /\ ~rec'[f].applying
      /\ rec'[f].done /\ rec'[f].waiters = {} /\ f \in fibers
      /\ fibers' = IF rec[f].waiters = {} THEN fibers ELSE fibers \ {f}
  BY <1>0, FailEffect
<1>2. calls = <<>> /\ bindings' = Withdrawn(f)
  BY DEF ApplyFails, StrandFree
<1>3. fibers' \subseteq fibers /\ fibers \ {f} \subseteq fibers'
  BY <1>1
<1>4. ~Published(f)' /\ ~Withdrawing(f)' /\ ~Published(f) /\ ~Withdrawing(f) /\ rec[f].consumers = {}
      /\ rec'[f].consumers = {}
  <2>1. ~Published(f)' /\ ~Withdrawing(f)' /\ ~Published(f)
    BY <1>1 DEF Published, Withdrawing
  <2> QED BY <1>1, <1>2, <2>1, AtRest DEF KeepsCount
<1>5. \A g \in Id \ {f} : /\ KeepsPlace(g) /\ KeepsState(g) /\ KeepsCount(g) /\ KeepsGate(g)
                          /\ rec'[g].state = rec[g].state
                          /\ rec'[g].committed = rec[g].committed
                          /\ rec'[g].consumers = rec[g].consumers
  BY <1>1 DEF Keeps, KeepsState, KeepsCount
<1>6. \A g \in Id \ {f} : /\ (Published(g)' <=> Published(g)) /\ (Withdrawing(g)' <=> Withdrawing(g))
                          /\ Phase(g)' = Phase(g)
  BY <1>5 DEF KeepsState, Published, Withdrawing, Phase
<1>7. \A p \in Id : \A g \in rec[p].consumers : p # f /\ g # f /\ Published(p)' /\ g \in rec'[p].consumers
  BY <1>2, <1>4, <1>5, <1>6, AtRest
<1>8. ASSUME NEW g \in Id
      PROVE  Loads(g)' /\ Installed(g)' /\ Counts(g)' /\ Counted(g)' /\ Gate(g)'
  <2>0. Loads(g) /\ Installed(g) /\ Counts(g) /\ Counted(g) /\ Gate(g)
    BY <1>0 DEF Records
  <2>1. CASE g = f
    <3>1. rec'[f].remaining = 0
      BY <1>1, <1>4, <2>0, <2>1 DEF Counted, KeepsCount
    <3> QED BY <1>1, <1>4, <2>1, <3>1 DEF Loads, Installed, Counts, Counted, Gate
  <2>2. CASE g # f
    <3>1. Loads(g)'
      BY <1>3, <1>5, <2>0, <2>2, LoadsKept
    <3>2. Installed(g)'
      <4>1. Published(g)' => Published(g) /\ rec'[g].committed = rec[g].committed
        BY <1>5, <1>6, <2>2
      <4>2. KeepsPlace(g)
        BY <1>5, <2>2
      <4>3. \A k \in Keys, p \in Id :
               bindings[0][k].provider = p /\ bindings[0][k].available
               /\ Published(p) /\ g \in rec[p].consumers
                 => bindings'[0][k].provider = p /\ bindings'[0][k].available
        BY <1>1, <1>2, <1>7, Unbinds
      <4> QED BY <1>0, <1>7, <2>0, <4>1, <4>2, <4>3, InstalledKept
    <3>3. Counts(g)'
      <4>1. \A d \in rec[g].consumers :
               /\ Releases(d, g) => Releases(d, g)'
               /\ Published(d) => Published(d)' /\ rec'[d].committed = rec[d].committed
        BY <1>2, <1>5, <1>6, <1>7, AtRest DEF NoLoops
      <4> QED BY <1>5, <1>6, <2>0, <2>2, <4>1, CountsKept
    <3>4. Counted(g)'
      BY <1>5, <1>6, <2>0, <2>2, CountedKept
    <3>5. Gate(g)'
      <4>1. NoLoops
        BY <1>2, AtRest
      <4> QED BY <1>3, <1>5, <2>0, <2>2, <4>1, GateKept DEF NoLoops
    <3> QED BY <3>1, <3>2, <3>3, <3>4, <3>5
  <2> QED BY <2>1, <2>2
<1>9. Records'
  BY <1>8 DEF Records
<1>10. Bindings'
  BY <1>1, <1>2, <1>3, <1>5, <1>6, UnbindsBind
<1>11. PICK a : a = Call("evaluate", f)
  OBVIOUS
<1>12. PICK b : b = Call("finished", f)
  OBVIOUS
<1>13. a.op = "evaluate" /\ a.f = f /\ b.op = "finished" /\ b.f = f
  BY <1>11, <1>12, FrameFields
<1>14. calls' = <<a, b>> \/ calls' = <<b>>
  BY <1>11, <1>12 DEF ApplyFails
<1>15. \/ height' = 2 /\ stack'[2] = a /\ stack'[1] = b
       \/ height' = 1 /\ stack'[1] = b
  BY <1>14, Begun
<1>16. Stacked(1)'
  BY <1>13, <1>15 DEF Stacked, Held, Descends, StaysDown, Cascades, Detaches, Spares
<1>17. height' = 2 => Stacked(2)'
  BY <1>1, <1>13, <1>15 DEF Stacked, Held, Descends, StaysDown, Cascades, Detaches, Spares
<1>18. \A d \in 1..height' : Stacked(d)' /\ stack'[d].op \notin {"cascade", "begin_unload"}
  <2>1. \A d \in 1..height' : d = 1 \/ (d = 2 /\ height' = 2)
    BY <1>15
  <2> QED BY <1>13, <1>15, <1>16, <1>17, <2>1
<1>19. Climbs'
  <2>1. \A g \in Id : Published(g)' => /\ Published(g) /\ KeepsPlace(g)
                                       /\ rec'[g].committed = rec[g].committed
    BY <1>4, <1>5, <1>6
  <2> QED BY <1>15, <1>18, <2>1, ClimbsKept
<1>20. \A p \in Id : ~Withdrawing(p)'
  BY <1>2, <1>4, <1>6, AtRest
<1> QED BY <1>9, <1>10, <1>18, <1>19, <1>20, FreshKeeps

(* publish: the fiber ranks above all others.                              *)
LEMMA PublishKeeps ==
    ASSUME AInv, NEW f \in Id, ApplyPublishes(f)
    PROVE  AssemblyInv'
<1>0. TypeOK /\ Mounted /\ Records /\ Bindings /\ Committed(f)
  BY DEF AInv, AssemblyInv, IInv, Plain
<1>1. /\ \A g \in Id \ {f} :
           /\ KeepsPlace(g) /\ KeepsState(g) /\ KeepsGate(g)
           /\ rec'[g].remaining = rec[g].remaining
           /\ rec'[g].consumers = IF \E k \in Keys : rec[f].committed[k] = g /\ g \in fibers
                                  THEN rec[g].consumers \cup {f} ELSE rec[g].consumers
      /\ KeepsPlace(f) /\ KeepsCount(f) /\ KeepsGate(f)
      /\ rec[f].state = "loading" /\ rec[f].applying
      /\ rec'[f].state = "active" /\ ~rec'[f].applying
      /\ rec'[f].committed = rec[f].committed
      /\ f \in fibers /\ fibers' = fibers
  BY <1>0, PublishEffect
<1>2. /\ calls = <<>> /\ bindings' = WithState(f, "active") /\ ProvidersStillActive(f)
      /\ calls' = <<Loop("notify", f, Notified(f, Provides[rec[f].comp])), Call("finished", f)>>
  BY DEF ApplyPublishes, StrandFree
<1>3. /\ ~Published(f) /\ ~Withdrawing(f) /\ Published(f)' /\ ~Withdrawing(f)' /\ rec[f].consumers = {}
      /\ rec'[f].consumers = {} /\ Phase(f)' = "active"
  <2>1. ~Published(f) /\ ~Withdrawing(f) /\ Published(f)' /\ ~Withdrawing(f)' /\ Phase(f)' = "active"
    BY <1>1 DEF Published, Withdrawing, Phase
  <2> QED BY <1>1, <1>2, <2>1, AtRest DEF KeepsCount
<1>4. ASSUME NEW k \in Keys, NEW p, p = rec[f].committed[k], p # 0
      PROVE  /\ p \in Id /\ p \in fibers /\ p # f /\ Published(p)
             /\ k \in Inject[rec[f].comp] /\ k \in Provides[rec[p].comp]
             /\ bindings[0][k].provider = p /\ bindings[0][k].available
  <2>1. p # f /\ k \in Inject[rec[f].comp]
    BY <1>0, <1>1, <1>4 DEF Committed
  <2>2. Lookup(f, k) = bindings[0][k]
    BY <1>1, OneContext DEF AInv, Plain
  <2>3. bindings[0][k].provider = p /\ bindings[0][k].state = "active" /\ bindings[0][k].available
    BY <1>2, <1>4, <2>2 DEF ProvidersStillActive
  <2>4. p \in Id /\ p \in fibers /\ k \in Provides[rec[p].comp] /\ Phase(p) = "active"
    BY <1>0, <1>4, <2>3, BoundBy
  <2>5. Published(p)
    BY <2>4 DEF Phase, Published
  <2> QED BY <2>1, <2>3, <2>4, <2>5
<1>5. \A g \in Id \ {f} : /\ rec'[g].state = rec[g].state
                          /\ rec'[g].committed = rec[g].committed
                          /\ rec[g].consumers \subseteq rec'[g].consumers
                          /\ (Published(g)' <=> Published(g)) /\ (Withdrawing(g)' <=> Withdrawing(g))
                          /\ Phase(g)' = Phase(g)
  BY <1>1 DEF KeepsState, Published, Withdrawing, Phase
<1>6. \A g \in Id : KeepsPlace(g) /\ rec'[g].comp = rec[g].comp
  BY <1>1 DEF KeepsPlace
<1>7. \A p \in Id : \A g \in rec[p].consumers : p # f /\ g # f /\ Published(p)' /\ g \in rec'[p].consumers
  BY <1>2, <1>3, <1>5, AtRest
<1>8. Supplies
  BY <1>1, <1>2, RestatedSupplies
<1>9. NoLoops
  BY <1>2, AtRest
<1>10. Installed(f)'
  <2> SUFFICES ASSUME NEW k \in Inject[rec[f].comp], NEW p, p = rec[f].committed[k]
               PROVE  /\ p \in Id /\ Published(p)' /\ f \in rec'[p].consumers
                      /\ bindings'[0][k].provider = p /\ bindings'[0][k].available
    BY <1>1, <1>6 DEF Installed
  <2>1. k \in Keys
    BY <1>0, <1>1, ComponentAssumption DEF Mounted
  <2>3. p # 0
    BY <1>0, <1>1, <2>1 DEF Committed
  <2>4. /\ p \in Id /\ p \in fibers /\ p # f /\ Published(p)
        /\ bindings[0][k].provider = p /\ bindings[0][k].available
    BY <1>4, <2>1, <2>3
  <2>5. f \in rec'[p].consumers
    BY <1>1, <2>1, <2>4
  <2>6. Published(p)'
    BY <1>5, <2>4
  <2>7. bindings'[0][k].provider = p /\ bindings'[0][k].available
    BY <1>8, <2>1, <2>4 DEF Supplies
  <2> QED BY <2>4, <2>5, <2>6, <2>7
<1>11. ASSUME NEW g \in Id
       PROVE  Loads(g)' /\ Installed(g)' /\ Counts(g)' /\ Counted(g)' /\ Gate(g)'
  <2>0. Loads(g) /\ Installed(g) /\ Counts(g) /\ Counted(g) /\ Gate(g)
    BY <1>0 DEF Records
  <2>1. CASE g = f
    <3>1. rec'[f].remaining = 0
      BY <1>1, <1>3, <2>0, <2>1 DEF Counted, KeepsCount
    <3>2. rec'[f].waiters = {}
      BY <1>1, <2>0, <2>1 DEF Gate, KeepsGate
    <3> QED BY <1>1, <1>3, <1>10, <2>1, <3>1, <3>2 DEF Loads, Counts, Counted, Gate
  <2>2. CASE g # f
    <3>1. Loads(g)'
      BY <1>1, <2>0, <2>2, LoadsKept
    <3>2. Installed(g)'
      <4>1. Published(g)' => Published(g) /\ rec'[g].committed = rec[g].committed
        BY <1>5, <2>2
      <4> QED BY <1>0, <1>6, <1>7, <1>8, <2>0, <4>1, InstalledKept DEF Supplies
    <3>3. Counts(g)'
      <4> SUFFICES ASSUME NEW c \in rec'[g].consumers
                   PROVE  /\ Published(g)'
                          /\ Published(c)' /\ \E k \in Keys : rec'[c].committed[k] = g
        BY DEF Counts
      <4>1. CASE c \in rec[g].consumers
        <5>1. /\ Published(c) /\ c \in Id /\ c # f /\ Published(g)
              /\ \E k \in Keys : rec[c].committed[k] = g
          BY <1>2, <1>7, <1>9, <2>0, <4>1, AtRest DEF Counts, NoLoops
        <5> QED BY <1>5, <2>2, <5>1
      <4>2. CASE c \notin rec[g].consumers
        <5>0. rec'[g].consumers = IF \E k \in Keys : rec[f].committed[k] = g /\ g \in fibers
                                  THEN rec[g].consumers \cup {f} ELSE rec[g].consumers
          BY <1>1, <2>2
        <5>1. c = f /\ \E k \in Keys : rec[f].committed[k] = g
          <6>1. c \in rec'[g].consumers
            OBVIOUS
          <6> QED BY ONLY <5>0, <6>1, <4>2, Zenon
        <5>2. g # 0
          BY BoundAssumption DEF Id
        <5>3. Published(g)
          BY <1>4, <5>1, <5>2
        <5> QED BY <1>1, <1>3, <1>5, <2>2, <5>1, <5>3
      <4> QED BY <4>1, <4>2
    <3>4. Counted(g)'
      <4>1. ~Withdrawing(g) /\ ~Withdrawing(g)'
        BY <1>2, <1>5, <2>2, AtRest
      <4> QED BY <1>1, <2>0, <2>2, <4>1 DEF Counted
    <3>5. Gate(g)'
      BY <1>1, <1>9, <2>0, <2>2, GateKept DEF NoLoops
    <3> QED BY <3>1, <3>2, <3>3, <3>4, <3>5
  <2> QED BY <2>1, <2>2
<1>12. Records'
  BY <1>11 DEF Records
<1>13. Bindings'
  <2>1. Elsewhere(f)
    BY <1>1, <1>5, <1>6 DEF Elsewhere
  <2> QED BY <1>1, <1>2, <1>3, <2>1, RestatedBind
<1>14. PICK a : a = Loop("notify", f, Notified(f, Provides[rec[f].comp]))
  OBVIOUS
<1>15. PICK b : b = Call("finished", f)
  OBVIOUS
<1>16. /\ a.op = "notify" /\ a.f = f /\ a.todo = Notified(f, Provides[rec[f].comp])
       /\ b.op = "finished" /\ b.f = f
  BY <1>14, <1>15, FrameFields
<1>17. height' = 2 /\ stack'[2] = a /\ stack'[1] = b
  BY <1>2, <1>14, <1>15, Begun
<1>18. \A t \in a.todo : rec'[t[2]].state # "active"
  <2> SUFFICES ASSUME NEW t \in Notified(f, Provides[rec[f].comp])
               PROVE  rec'[t[2]].state # "active"
    BY <1>16
  <2>1. t[2] \in Id /\ rec[t[2]].state # "active"
    BY <1>1, <1>3, NotifiedIdle
  <2>2. t[2] # f
    <3> SUFFICES ASSUME t[2] = f PROVE FALSE
      OBVIOUS
    <3>1. t[1] \in Keys /\ t[1] \in Inject[rec[f].comp] /\ t[1] \in Provides[rec[f].comp]
      BY DEF Notified
    <3>2. PICK p : p = rec[f].committed[t[1]]
      OBVIOUS
    <3>3. p # 0
      BY <1>0, <1>1, <3>1, <3>2 DEF Committed
    <3>4. p # f /\ p \in fibers /\ t[1] \in Provides[rec[p].comp]
      BY <1>4, <3>1, <3>2, <3>3
    <3> QED BY <1>1, <3>1, <3>4, Sole DEF AInv
  <2> QED BY <1>5, <2>1, <2>2
<1>19. Stacked(1)'
  BY <1>16, <1>17 DEF Stacked, Held, Descends, StaysDown, Cascades, Detaches, Spares
<1>20. Stacked(2)'
  <2>1. Held(2)' /\ Spares(2)'
    BY <1>1, <1>16, <1>17, <1>18 DEF Held, Spares
  <2> QED BY <1>16, <1>17, <2>1 DEF Stacked, Descends, StaysDown, Cascades, Detaches
<1>21. \A d \in 1..height' : Stacked(d)' /\ stack'[d].op \notin {"cascade", "begin_unload"}
  <2>1. \A d \in 1..height' : d = 1 \/ d = 2
    BY <1>17
  <2> QED BY <1>16, <1>17, <1>19, <1>20, <2>1
<1>22. Climbs'
  <2>0. PICK n \in Nat : \E r \in [Id -> 0..n] : Ranked(r)
    BY DEF AInv, AssemblyInv, Climbs
  <2>1. PICK r \in [Id -> 0..n] : Ranked(r)
    BY <2>0
  <2>2. PICK m \in Nat : m = n + 1
    OBVIOUS
  <2>3. PICK q \in [Id -> 0..m] : q = [g \in Id |-> IF g = f THEN m ELSE r[g]]
    <3> DEFINE w == [g \in Id |-> IF g = f THEN m ELSE r[g]]
    <3>1. \A g \in Id : r[g] \in 0..n
      BY <2>1
    <3>2. \A g \in Id : (IF g = f THEN m ELSE r[g]) \in 0..m
      BY <2>2, <3>1
    <3>3. w \in [Id -> 0..m]
      BY <3>2
    <3> QED BY <3>3
  <2>4. RanksViews(q)'
    <3> SUFFICES ASSUME NEW c \in Id, Published(c)', NEW k \in Inject[rec[c].comp]
                 PROVE  q[rec'[c].committed[k]] < q[c]
      BY <1>6 DEF RanksViews
    <3>1. CASE c = f
      <4>1. k \in Keys
        BY <1>0, <1>1, <3>1, ComponentAssumption DEF Mounted
      <4>2. PICK p : p = rec[f].committed[k]
        OBVIOUS
      <4>3. p # 0
        BY <1>0, <1>1, <3>1, <4>1, <4>2 DEF Committed
      <4>4. p \in Id /\ p # f
        BY <1>4, <4>1, <4>2, <4>3
      <4>5. q[p] = r[p] /\ q[f] = m /\ r[p] \in 0..n
        BY <2>1, <2>3, <4>4
      <4> QED BY <1>1, <2>2, <3>1, <4>2, <4>5
    <3>2. CASE c # f
      <4>1. Published(c) /\ rec'[c].committed = rec[c].committed
        BY <1>5, <3>2
      <4>2. k \in Keys /\ rec[c].committed[k] # 0
        BY <4>1, NeedsMet
      <4>3. PICK p \in Id : p = rec[c].committed[k] /\ Published(p)
        BY <4>1, <4>2, ProvidersOf
      <4>4. p # f
        BY <1>3, <4>3
      <4>5. r[p] < r[c]
        BY <2>1, <4>1, <4>3 DEF Ranked, RanksViews
      <4>6. q[p] = r[p] /\ q[c] = r[c]
        BY <2>3, <3>2, <4>3, <4>4
      <4> QED BY <4>1, <4>3, <4>5, <4>6
    <3> QED BY <3>1, <3>2
  <2>5. \A d \in 1..height' : RanksFrame(q, d)'
    BY <1>21 DEF RanksFrame
  <2>6. Ranked(q)'
    BY <2>4, <2>5 DEF Ranked
  <2> QED BY <2>6 DEF Climbs
<1>23. \A p \in Id : ~Withdrawing(p)'
  BY <1>2, <1>3, <1>5, AtRest
<1> QED BY <1>12, <1>13, <1>21, <1>22, <1>23, FreshKeeps

----------------------------------------------------------------------------
(* The invariant holds *)

LEMMA AssemblyStep ==
    ASSUME StaticAssembly, AInv, Next
    PROVE  AssemblyInv'
<1>0. Mounted /\ Flat
  BY DEF AInv, IInv, Plain
<1>1. CASE Cascade
  BY <1>1, CascadeKeeps
<1>2. ASSUME NEW c \in Roots, Mount(c) PROVE AssemblyInv'
  BY <1>2, MountKeeps
<1>3. ASSUME NEW f \in Id,
             \/ RequestChild(f) \/ MountChild(f) \/ RetireChild(f)
             \/ \E k \in Keys : ProvideLate(f, k) \/ ReleaseEarly(f, k)
      PROVE  AssemblyInv'
  BY <1>0, <1>3, Excluded
<1>4. ASSUME NEW f \in Id, ApplyCompletes(f) PROVE AssemblyInv'
  BY <1>4, PublishKeeps, FailKeeps DEF ApplyCompletes
<1>5. ASSUME NEW f \in Id, NEW k \in Keys, Provide(f, k) \/ Promote(f, k) PROVE AssemblyInv'
  BY <1>5, ProvideKeeps, PromoteKeeps
<1>6. ASSUME NEW f \in Id, NEW h \in Hosts, Retire(h, f) PROVE AssemblyInv'
  BY <1>6, RetireKeeps
<1>7. CASE (\E f \in Id : Cancel(f)) \/ \E h \in Hosts : WaitIdle(h)
  BY <1>7, QuietKeeps
<1> QED BY <1>1, <1>2, <1>3, <1>4, <1>5, <1>6, <1>7 DEF Next

(* A step that changes nothing.                                            *)
LEMMA AssemblyStutter ==
    ASSUME AssemblyInv, UNCHANGED vars
    PROVE  AssemblyInv'
<1>0. fibers' = fibers /\ rec' = rec /\ bindings' = bindings /\ calls' = calls
  BY DEF vars
<1>9. stack' = stack /\ height' = height
  BY <1>0 DEF stack, height
<1>1. Records'
  BY <1>0, <1>9 DEF AssemblyInv, Records, Loads, Installed, Counts, Counted, Gate, Releases, Unwinds,
              Published, Withdrawing
<1>2. Bindings'
  BY <1>0, <1>9 DEF AssemblyInv, Bindings, OneScope, BoundSoundly, Phase
<1>3. Stack'
  BY <1>0, <1>9 DEF AssemblyInv, Stack, Stacked, Held, Descends, StaysDown, Cascades, Detaches, Spares,
              Blocked, Needs, Published, Withdrawing
<1>4. Climbs'
  BY <1>0, <1>9 DEF AssemblyInv, Climbs, Ranked, RanksViews, RanksFrame, Published
<1>5. Complete'
  BY <1>0, <1>9 DEF AssemblyInv, Complete, Underway, Covers, Pursues, Withdrawing
<1> QED BY <1>1, <1>2, <1>3, <1>4, <1>5 DEF AssemblyInv

(* Nothing is mounted, nothing runs.                                       *)
LEMMA AssemblyInitially ==
    ASSUME Init PROVE AInv
<1>0. /\ fibers = {} /\ posted = {} /\ calls = <<>> /\ height = 0
      /\ \A s \in Scopes, k \in Keys : bindings[s][k] = Unbound
      /\ \A f \in Id : rec[f] = NoFiber
  BY DEF Init, height
<1>1. \A f \in Id : /\ rec[f].state = "inactive" /\ ~rec[f].applying /\ rec[f].consumers = {}
                    /\ rec[f].remaining = 0 /\ rec[f].done /\ rec[f].waiters = {}
                    /\ rec[f].request = "none" /\ rec[f].kids = {}
                    /\ rec[f].committed = NothingCommitted
  BY <1>0 DEF NoFiber, NewFiber
<1>2. \A f \in Id : ~Published(f) /\ ~Withdrawing(f)
  BY <1>1 DEF Published, Withdrawing
<1>3. IInv
  BY Initially
<1>4. Plain
  BY <1>0, <1>1 DEF Plain, Flat, Distinct, Committed, NothingCommitted
<1>5. Records
  BY <1>0, <1>1, <1>2 DEF Records, Loads, Installed, Counts, Counted, Gate
<1>6. Bindings
  <2>1. 0 \in Scopes
    BY BoundAssumption DEF Scopes
  <2> QED BY <1>0, <2>1 DEF Bindings, OneScope, BoundSoundly
<1>7. \A d \in 1..height : FALSE
  BY <1>0
<1>8. Climbs
  <2> DEFINE r == [f \in Id |-> 0]
  <2>1. r \in [Id -> 0..0] /\ 0 \in Nat
    OBVIOUS
  <2>2. Ranked(r)
    <3> HIDE DEF r
    <3> QED BY <1>2, <1>7 DEF Ranked, RanksViews
  <2> HIDE DEF r
  <2> QED BY <2>1, <2>2 DEF Climbs
<1>9. Stack /\ Complete
  BY <1>2, <1>7 DEF Stack, Complete, Underway
<1> QED BY <1>3, <1>4, <1>5, <1>6, <1>8, <1>9 DEF AInv, AssemblyInv

(* The invariant of a static assembly holds in every reachable state: the  *)
(* stack of frames is always one the cascade of runtime.cpp can build.     *)
THEOREM AssemblyInvariance == StaticAssembly => (Spec => []AInv)
<1> SUFFICES ASSUME StaticAssembly PROVE Spec => []AInv
  OBVIOUS
<1>1. Init => AInv
  BY AssemblyInitially
<1>2. AInv /\ [Next]_vars => AInv'
  <2> SUFFICES ASSUME AInv, [Next]_vars PROVE AInv'
    OBVIOUS
  <2>1. IInv /\ Plain /\ AssemblyInv
    BY DEF AInv
  <2>2. IInv'
    BY <2>1, NextKeepsInv, StutterKeepsInv
  <2>3. Plain'
    BY <2>1, PlainKept
  <2>4. AssemblyInv'
    BY <2>1, AssemblyStep, AssemblyStutter
  <2> QED BY <2>2, <2>3, <2>4 DEF AInv
<1> QED BY <1>1, <1>2, PTL DEF Spec

----------------------------------------------------------------------------
(* What it means for the properties of the engine *)

(* The stack from the top and from the bottom.                             *)
LEMMA FromTheBottom ==
    ASSUME TypeOK, NEW i \in 1..Len(calls)
    PROVE  \E d \in 1..height : stack[d] = calls[i]
<1>1. Len(calls) \in Nat
  BY DEF TypeOK
<1>2. PICK d : d = Len(calls) + 1 - i
  OBVIOUS
<1>3. d \in 1..height /\ Len(calls) + 1 - d = i
  BY <1>1, <1>2 DEF height
<1>4. stack[d] = calls[i]
  BY <1>3 DEF stack, height
<1> QED BY <1>3, <1>4

LEMMA ReleasesReleasing ==
    ASSUME TypeOK, NEW c, NEW p
    PROVE  Releases(c, p) <=> Releasing(c, p)
<1>0. Len(calls) \in Nat
  BY DEF TypeOK
<1>1. ASSUME Releases(c, p) PROVE Releasing(c, p)
  <2>1. PICK d \in 1..height : /\ stack[d].op = "release" /\ stack[d].f = c
                               /\ \E t \in stack[d].todo : t[2] = p
    BY <1>1 DEF Releases
  <2>2. Len(calls) + 1 - d \in 1..Len(calls) /\ stack[d] = calls[Len(calls) + 1 - d]
    BY <1>0 DEF height, stack
  <2> QED BY <2>1, <2>2 DEF Releasing
<1>2. ASSUME Releasing(c, p) PROVE Releases(c, p)
  BY <1>2, FromTheBottom DEF Releases, Releasing
<1> QED BY <1>1, <1>2

(* No frame of the cascade, nor a suspended retire(), is resumed for a     *)
(* record that has been erased under it (runtime.cpp finish_unload, whose  *)
(* callers hold a reference into fibers_).                                 *)
THEOREM FramesHeld == StaticAssembly => (Spec => []NoDanglingFrame)
<1> SUFFICES ASSUME StaticAssembly PROVE Spec => []NoDanglingFrame
  OBVIOUS
<1>1. AInv => NoDanglingFrame
  <2> SUFFICES ASSUME AInv, NEW i \in 1..Len(calls),
                      calls[i].op \notin {"evaluate", "finished", "await"}
               PROVE  calls[i].f \in fibers
    BY DEF NoDanglingFrame
  <2>1. PICK d \in 1..height : stack[d] = calls[i]
    BY FromTheBottom DEF AInv, IInv
  <2>2. Held(d)
    BY DEF AInv, AssemblyInv, Stack, Stacked
  <2> QED BY <2>1, <2>2 DEF Held
<1> QED BY AssemblyInvariance, <1>1, PTL

(* A fiber that is down has left nothing behind: no binding names it, no   *)
(* child hangs on it, no coroutine of it runs, and a provider counts it    *)
(* only until the release loop under way reaches it (runtime.cpp           *)
(* finish_unload, on_apply_completed).                                     *)
THEOREM NothingLeftBehind == StaticAssembly => (Spec => []TerminalRecovery)
<1> SUFFICES ASSUME StaticAssembly PROVE Spec => []TerminalRecovery
  OBVIOUS
<1>1. AInv => TerminalRecovery
  <2> SUFFICES ASSUME AInv, NEW f \in Id, f \notin fibers \/ rec[f].state = "inactive"
               PROVE  /\ ~rec[f].applying /\ rec[f].kids = {}
                      /\ \A s \in Scopes, k \in Keys : bindings[s][k].provider # f
                      /\ \A p \in fibers : f \in rec[p].consumers => Releasing(f, p)
    BY DEF TerminalRecovery
  <2>0. TypeOK /\ Loads(f) /\ Bindings /\ fibers \subseteq Id
    BY DEF AInv, AssemblyInv, IInv, Records, TypeOK
  <2>1. rec[f].state = "inactive" /\ ~rec[f].applying /\ ~Published(f)
    BY <2>0 DEF Loads, Published
  <2>2. rec[f].kids = {}
    BY DEF AInv, Plain, Flat
  <2>3. ASSUME NEW s \in Scopes, NEW k \in Keys PROVE bindings[s][k].provider # f
    <3>1. f # 0
      BY BoundAssumption DEF Id
    <3>2. CASE s # 0
      BY <2>0, <3>1, <3>2 DEF Bindings, OneScope, Unbound
    <3>3. CASE s = 0
      BY <2>0, <2>1, <3>1, <3>3, BoundBy
    <3> QED BY <3>2, <3>3
  <2>4. ASSUME NEW p \in fibers, f \in rec[p].consumers PROVE Releasing(f, p)
    <3>1. Counts(p)
      BY <2>0 DEF AInv, AssemblyInv, Records
    <3>2. Releases(f, p)
      BY <2>1, <2>4, <3>1 DEF Counts
    <3> QED BY <2>0, <3>2, ReleasesReleasing
  <2> QED BY <2>1, <2>2, <2>3, <2>4
<1> QED BY AssemblyInvariance, <1>1, PTL

(* Only finish_unload takes an installed fiber down.                       *)
LEMMA OnlyFinishing ==
    ASSUME StaticAssembly, AInv, Next, NEW f \in fibers, Published(f), rec'[f].state = "inactive"
    PROVE  Finish /\ Top.f = f
<1>0. TypeOK /\ f \in Id /\ IInv /\ Mounted /\ Flat
  BY DEF AInv, IInv, TypeOK, Plain
<1>1. \A g \in Id : Keeps(g) => rec'[g].state = rec[g].state
  BY DEF Keeps, KeepsState
<1>2. \A g \in Id : KeepsState(g) => rec'[g].state = rec[g].state
  BY DEF KeepsState
<1>3. rec[f].state # "inactive" /\ ~rec[f].applying
  BY DEF Published
<1>4. ASSUME Cascade PROVE Finish /\ Top.f = f
  <2>1. calls # <<>>
    BY <1>4, CascadeRuns
  <2>2. PICK t \in Id : t = Top.f
    BY <1>0, <2>1, TopType
  <2>3. ~(\/ EvaluateKeeps \/ StartLoadingNull \/ CascadeNext \/ CascadeDone \/ FinishKeeps
          \/ NotifyNext \/ NotifyDone \/ TransitionFinished)
    BY <1>0, <1>1, <1>3, <2>1, QuietEffect
  <2>4. ~EvaluateUnloads
    BY <1>3 DEF EvaluateUnloads
  <2>5. ~StartLoading /\ ~StartLoadingThrows
    BY <1>0, <1>1, <1>3, <2>1, <2>2, LoadEffect, ThrowEffect
  <2>6. ~BeginUnloadKeeps
    BY <1>0, <1>1, <1>2, <1>3, <2>1, <2>2, KeepsEffect
  <2>7. ~BeginUnloadActive
    BY <1>0, <1>1, <1>3, <2>1, <2>2, BeginEffect
  <2>8. Finish => t = f
    BY <1>0, <1>1, <1>3, <2>1, <2>2, FinishEffect
  <2>9. ~ReleaseNext
    BY <1>0, <1>1, <1>2, <1>3, <2>1, ReleaseEffect
  <2>10. ~ReleaseDone /\ ~AwaitGate /\ ~FinishTail
    BY <1>0, <1>1, <1>2, <1>3, <2>1, <2>2, OpenEffect, AwaitEffect, TailEffect
  <2> QED BY <1>4, <2>2, <2>3, <2>4, <2>5, <2>6, <2>7, <2>8, <2>9, <2>10 DEF Cascade
<1>5. ASSUME NEW c \in Roots, Mount(c) PROVE FALSE
  <2>1. f # next_id
    BY <1>0, <1>5, MountEffect
  <2> QED BY <1>0, <1>1, <1>3, <1>5, <2>1, MountEffect
<1>6. ASSUME NEW p \in Id,
             \/ RequestChild(p) \/ MountChild(p) \/ RetireChild(p)
             \/ \E k \in Keys : ProvideLate(p, k) \/ ReleaseEarly(p, k)
      PROVE  FALSE
  BY <1>0, <1>6, Excluded
<1>7. ASSUME NEW p \in Id, NEW raised \in BOOLEAN, ApplyFails(p, raised) PROVE FALSE
  BY <1>0, <1>1, <1>3, <1>7, FailEffect
<1>8. ASSUME NEW p \in Id, ApplyPublishes(p) PROVE FALSE
  BY <1>0, <1>2, <1>3, <1>8, PublishEffect
<1>9. ASSUME NEW p \in Id,
             \/ \E k \in Keys : Provide(p, k) \/ Promote(p, k)
             \/ \E h \in Hosts : WaitIdle(h)
             \/ Cancel(p)
      PROVE  FALSE
  BY <1>0, <1>1, <1>3, <1>9, CalmEffect
<1>10. ASSUME NEW p \in Id, NEW h \in Hosts, Retire(h, p) PROVE FALSE
  <2>1. (\A g \in Id : Keeps(g)) \/ Marks(p)
    BY <1>0, <1>10, RetireEffect
  <2>2. Marks(p) => (\A g \in Id \ {p} : Keeps(g)) /\ KeepsState(p)
    BY DEF Marks
  <2> QED BY <1>0, <1>1, <1>2, <1>3, <2>1, <2>2
<1>11. ASSUME NEW h \in Hosts, WaitIdle(h) PROVE FALSE
  BY <1>0, <1>1, <1>3, <1>11, CalmEffect
<1> QED BY <1>4, <1>5, <1>6, <1>7, <1>8, <1>9, <1>10, <1>11 DEF Next, ApplyCompletes

(* Providers are withdrawn after their consumers: when an installed fiber  *)
(* is torn down, no other fiber that is installed is committed to it,      *)
(* however deep the graph of services and whatever cascade, failure or     *)
(* retirement is under way (runtime.cpp begin_unload, finish_unload).      *)
THEOREM WithdrawalOrdered == StaticAssembly => (Spec => OrderedWithdrawal)
<1> SUFFICES ASSUME StaticAssembly PROVE Spec => OrderedWithdrawal
  OBVIOUS
<1> DEFINE Ordered == \A p \in fibers : Published(p) /\ rec'[p].state = "inactive" =>
                         \A c \in fibers \ {p} : Published(c) =>
                            \A k \in Keys : rec[c].committed[k] # p
<1>1. AInv /\ [Next]_vars => [Ordered]_vars
  <2> SUFFICES ASSUME AInv, Next, NEW p \in fibers, Published(p), rec'[p].state = "inactive",
                      NEW c \in fibers \ {p}, Published(c),
                      NEW k \in Keys, rec[c].committed[k] = p
               PROVE  FALSE
    OBVIOUS
  <2>0. fibers \subseteq Id
    BY DEF AInv, IInv, TypeOK
  <2>1. p # 0
    BY <2>0, BoundAssumption DEF Id
  <2>2. Finish /\ Top.f = p
    BY OnlyFinishing
  <2>3. calls # <<>> /\ Top.op = "finish" /\ MayFinish(Top.f)
    BY <2>2 DEF Finish, Running, Top
  <2>4. rec[p].consumers = {}
    BY <2>0, <2>2, <2>3, Finished
  <2>5. c \in rec[p].consumers
    BY <2>0, <2>1, ProvidersOf
  <2> QED BY <2>4, <2>5
<1> QED BY AssemblyInvariance, <1>1, PTL DEF Spec, OrderedWithdrawal

(* remaining is exact at every point of every cascade: an unloading        *)
(* provider waits for each consumer it still has, once (runtime.cpp        *)
(* begin_unload, finish_unload).                                           *)
THEOREM GuardsAccounted == StaticAssembly => (Spec => []GuardAccounting)
<1> SUFFICES ASSUME StaticAssembly PROVE Spec => []GuardAccounting
  OBVIOUS
<1>1. AInv => GuardAccounting
  <2> SUFFICES ASSUME AInv, NEW p \in fibers
               PROVE  rec[p].remaining =
                          IF rec[p].state # "unloading" THEN 0
                          ELSE Cardinality({c \in rec[p].consumers :
                                               rec[c].state # "inactive" \/ Releasing(c, p)})
    BY DEF GuardAccounting
  <2> DEFINE S == {c \in rec[p].consumers : rec[c].state # "inactive" \/ Releasing(c, p)}
  <2>0. TypeOK /\ p \in Id /\ Counts(p) /\ Counted(p)
    BY DEF AInv, AssemblyInv, IInv, TypeOK, Records
  <2>1. S = rec[p].consumers
    <3> SUFFICES ASSUME NEW c \in rec[p].consumers
                 PROVE  rec[c].state # "inactive" \/ Releasing(c, p)
      OBVIOUS
    <3>1. Published(c) \/ Releases(c, p)
      BY <2>0 DEF Counts
    <3>2. Published(c) => rec[c].state # "inactive"
      BY DEF Published
    <3> QED BY <2>0, <3>1, <3>2, ReleasesReleasing
  <2> HIDE DEF S
  <2>2. CASE rec[p].state # "unloading"
    BY <2>0, <2>2 DEF Counted, Withdrawing
  <2>3. CASE rec[p].state = "unloading" /\ ~rec[p].applying
    BY <2>0, <2>1, <2>3 DEF Counted, Withdrawing, S
  <2>4. CASE rec[p].state = "unloading" /\ rec[p].applying
    <3>1. rec[p].consumers = {}
      BY <2>0, <2>4 DEF Counts, Published
    <3>2. Cardinality({}) = 0
      BY FS_EmptySet
    <3>3. rec[p].remaining = 0
      BY <2>0, <2>4 DEF Counted, Withdrawing
    <3> QED BY <2>1, <2>4, <3>1, <3>2, <3>3 DEF S
  <2> QED BY <2>2, <2>3, <2>4
<1> QED BY AssemblyInvariance, <1>1, PTL

(* A fiber whose effects are installed is committed to mounted fibers      *)
(* whose effects are installed: no component holds a service that has been *)
(* torn down (runtime.cpp publish, finish_unload).                         *)
THEOREM ViewsInstalled == StaticAssembly => (Spec => []CommittedInstalled)
<1> SUFFICES ASSUME StaticAssembly PROVE Spec => []CommittedInstalled
  OBVIOUS
<1>1. AInv => CommittedInstalled
  <2>1. AInv => fibers \subseteq Id
    BY DEF AInv, IInv, TypeOK
  <2> QED BY <2>1, ProvidersOf DEF CommittedInstalled
<1> QED BY AssemblyInvariance, <1>1, PTL

(* When a handler returns, the withdrawal it started is complete: the only *)
(* fibers unloading are those whose apply() has yet to return, and none    *)
(* waits for a consumer (runtime.cpp begin_unload, maybe_finish_unload).   *)
THEOREM WithdrawnAtOnce == StaticAssembly => (Spec => []WithdrawalSynchronous)
<1> SUFFICES ASSUME StaticAssembly PROVE Spec => []WithdrawalSynchronous
  OBVIOUS
<1>1. AInv => WithdrawalSynchronous
  <2> SUFFICES ASSUME AInv, calls = <<>>, NEW f \in fibers
               PROVE  (rec[f].state = "unloading" => rec[f].applying) /\ rec[f].remaining = 0
    BY DEF WithdrawalSynchronous, StrandFree
  <2>1. f \in Id /\ Counted(f)
    BY DEF AInv, AssemblyInv, IInv, TypeOK, Records
  <2>2. ~Withdrawing(f)
    BY <2>1, AtRest
  <2> QED BY <2>1, <2>2 DEF Withdrawing, Counted
<1> QED BY AssemblyInvariance, <1>1, PTL

----------------------------------------------------------------------------
(* The end of a cascade, and of all transitions *)

(* in_flight_ counts the transitions under way: an apply() that has yet to *)
(* return, a fiber being withdrawn, and every frame that will call         *)
(* transition_finished.                                                    *)
Transitions == {f \in Id : rec[f].applying \/ Withdrawing(f)}
Ends(d) == stack[d].op \in {"release", "tail", "finished"}
Endings == {d \in 1..height : Ends(d)}
InFlight == in_flight = Cardinality(Transitions) + Cardinality(Endings)

(* notify only evaluates fibers that are not active: no cascade starts     *)
(* under it.                                                               *)
Notifies(d) ==
    stack[d].op = "notify" =>
        d = height \/ (d = height - 1 /\ stack[height].op = "evaluate")

(* A cascade meets no fiber that is loading, a retirement may.             *)
Tame(d) ==
    /\ stack[d].op = "cascade" => \A t \in stack[d].todo : rec[t[2]].state # "loading"
    /\ stack[d].op = "begin_unload" /\ rec[stack[d].f].state = "loading" =>
            rec[stack[d].f].reactivate = -1

(* Hence only a retirement interrupts an apply(), and only cancel() asks   *)
(* one to stop that is not interrupted.                                    *)
Marked == \A f \in Id : rec[f].state = "unloading" /\ rec[f].applying => rec[f].reactivate = -1
Stopped == \A f \in Id : rec[f].state = "loading" /\ rec[f].stop => rec[f].comp \in Cancellable

(* An inactive fiber that could load is about to be evaluated, unless its  *)
(* apply() was cancelled or its factory returns null.                      *)
Awaits(d, f) ==
    \/ stack[d].op = "evaluate" /\ stack[d].f = f
    \/ (stack[d].op = "notify" /\ \E t \in stack[d].todo : t[2] = f)
Ready(f) == Loadable(f) /\ rec[f].comp \notin Cancellable /\ Factory[rec[f].comp] = "instance"
Reacts == \A f \in fibers : Ready(f) => \E d \in 1..height : Awaits(d, f)

RestInv ==
    /\ InFlight /\ Marked /\ Stopped /\ Reacts
    /\ \A d \in 1..height : Notifies(d) /\ Tame(d)

----------------------------------------------------------------------------
(* Counting *)

LEMMA FiniteParts ==
    ASSUME TypeOK
    PROVE  /\ IsFiniteSet(Transitions) /\ IsFiniteSet(Endings)
           /\ Cardinality(Transitions) \in Nat /\ Cardinality(Endings) \in Nat
<1>1. IsFiniteSet(1..MaxFiber) /\ IsFiniteSet(1..height)
  <2>1. height \in Int
    BY DEF TypeOK, height
  <2> QED BY <2>1, FS_Interval, BoundAssumption
<1>2. Transitions \subseteq 1..MaxFiber /\ Endings \subseteq 1..height
  BY DEF Transitions, Endings, Id
<1>3. IsFiniteSet(Transitions) /\ IsFiniteSet(Endings)
  BY <1>1, <1>2, FS_Subset
<1> QED BY <1>3, FS_CardinalityType

(* A step takes at most one frame out of the count, or puts one in.        *)
LEMMA EndingsStep ==
    ASSUME AInv, calls # <<>>, SameBelow(height), height' \in Nat, height' >= height - 1
    PROVE  /\ Ends(height) => Cardinality(Endings) >= 1
           /\ ~Ends(height) /\ (\A d \in height..height' : ~Ends(d)')
                => Cardinality(Endings)' = Cardinality(Endings)
           /\ Ends(height) /\ (\A d \in height..height' : ~Ends(d)')
                => Cardinality(Endings)' = Cardinality(Endings) - 1
           /\ \A e \in height..height' :
                (\A d \in height..height' : Ends(d)' <=> d = e) =>
                    Cardinality(Endings)' = IF Ends(height) THEN Cardinality(Endings)
                                            ELSE Cardinality(Endings) + 1
<1>0. height \in Nat \ {0} /\ TypeOK
  BY Setting
<1> DEFINE B == {d \in 1..(height - 1) : Ends(d)}
<1>1. IsFiniteSet(B) /\ Cardinality(B) \in Nat
  <2>1. height - 1 \in Int /\ 1 \in Int
    BY <1>0
  <2>2. IsFiniteSet(1..(height - 1))
    BY <2>1, FS_Interval
  <2> QED BY <2>2, FS_Subset, FS_CardinalityType
<1>2. Endings = IF Ends(height) THEN B \cup {height} ELSE B
  BY <1>0 DEF Endings
<1>3. \A d \in 1..(height - 1) : Ends(d)' <=> Ends(d)
  BY <1>0 DEF SameBelow, Ends
<1>4. \A d : d \in 1..height' <=> d \in 1..(height - 1) \/ d \in height..height'
  BY <1>0
<1>5. Endings' = B \cup {d \in height..height' : Ends(d)'}
  BY <1>3, <1>4 DEF Endings
<1>6. height \notin B /\ \A e \in height..height' : e \notin B
  BY <1>0
<1> HIDE DEF B
<1>7. Cardinality(Endings) = IF Ends(height) THEN Cardinality(B) + 1 ELSE Cardinality(B)
  BY <1>1, <1>2, <1>6, FS_AddElement
<1>8. ASSUME \A d \in height..height' : ~Ends(d)'
      PROVE  Cardinality(Endings') = Cardinality(B)
  <2>1. Endings' = B
    BY <1>5, <1>8
  <2> QED BY <2>1
<1>9. ASSUME NEW e \in height..height', \A d \in height..height' : Ends(d)' <=> d = e
      PROVE  Cardinality(Endings') = Cardinality(B) + 1
  <2>1. Endings' = B \cup {e}
    BY <1>5, <1>9
  <2> QED BY <1>1, <1>6, <2>1, FS_AddElement
<1>10. Cardinality(Endings)' = Cardinality(Endings')
  OBVIOUS
<1>11. /\ ~Ends(height) => Cardinality(Endings) = Cardinality(B)
       /\ Ends(height) => Cardinality(Endings) = Cardinality(B) + 1
  BY <1>7
<1> QED BY <1>1, <1>8, <1>9, <1>10, <1>11

(* A fiber starts a transition, ends one, or goes on as before.            *)
LEMMA TransitionsStep ==
    ASSUME TypeOK, NEW t \in Id,
           \A g \in Id \ {t} : rec'[g].state = rec[g].state /\ rec'[g].applying = rec[g].applying
    PROVE  LET before == rec[t].applying \/ Withdrawing(t)
               after == rec'[t].applying \/ Withdrawing(t)'
           IN  /\ (before <=> after) => Cardinality(Transitions)' = Cardinality(Transitions)
               /\ ~before /\ after => Cardinality(Transitions)' = Cardinality(Transitions) + 1
               /\ before /\ ~after => Cardinality(Transitions)' = Cardinality(Transitions) - 1
<1> DEFINE Moving(g) == rec[g].applying \/ Withdrawing(g)
<1>1. \A g \in Id \ {t} : Moving(g)' <=> Moving(g)
  BY DEF Withdrawing
<1>2. IsFiniteSet(Transitions) /\ Cardinality(Transitions) \in Nat
  BY FiniteParts
<1>3. t \in Transitions <=> Moving(t)
  BY DEF Transitions
<1>4. Transitions = {g \in Id : Moving(g)} /\ Transitions' = {g \in Id : Moving(g)'}
  BY DEF Transitions
<1> HIDE DEF Moving
<1>5. CASE Moving(t) <=> Moving(t)'
  <2>1. Transitions' = Transitions
    BY <1>1, <1>4, <1>5
  <2> QED BY <1>5, <2>1 DEF Moving
<1>6. CASE ~Moving(t) /\ Moving(t)'
  <2>1. Transitions' = Transitions \cup {t}
    BY <1>1, <1>4, <1>6
  <2>2. Cardinality(Transitions') = Cardinality(Transitions) + 1
    BY <1>2, <1>3, <1>6, <2>1, FS_AddElement
  <2> QED BY <1>6, <2>2 DEF Moving
<1>7. CASE Moving(t) /\ ~Moving(t)'
  <2>1. Transitions' = Transitions \ {t}
    BY <1>1, <1>4, <1>7
  <2>2. Cardinality(Transitions') = Cardinality(Transitions) - 1
    BY <1>2, <1>3, <1>7, <2>1, FS_RemoveElement
  <2> QED BY <1>7, <2>2 DEF Moving
<1> QED BY <1>5, <1>6, <1>7

----------------------------------------------------------------------------
(* Nothing new becomes loadable in a cascade *)

Fades ==
    /\ fibers' \subseteq fibers
    /\ \A k \in Keys : bindings'[0][k] = bindings[0][k] \/ bindings'[0][k].state # "active"
    /\ \A g \in fibers :
         /\ KeepsPlace(g)
         /\ /\ rec'[g].reactivate >= 0 /\ rec'[g].state = "inactive" /\ ~rec'[g].apply_failed
            /\ Satisfiable(g)
            => rec[g].reactivate >= 0 /\ rec[g].state = "inactive" /\ ~rec[g].apply_failed

(* A need that is newly met is met by a binding that has changed.          *)
LEMMA NewlyMet ==
    ASSUME AInv, Flat', NEW g \in Id, g \in fibers, g \in fibers', KeepsPlace(g),
           Satisfiable(g)', ~Satisfiable(g)
    PROVE  \E k \in Keys : /\ k \in Inject[rec[g].comp] /\ bindings'[0][k] # bindings[0][k]
                           /\ bindings'[0][k].state = "active"
<1>2. rec'[g].comp = rec[g].comp /\ rec[g].comp \in Comp
  BY DEF KeepsPlace, AInv, IInv, Mounted
<1>3. \A k : Lookup(g, k) = bindings[0][k]
  BY OneContext DEF AInv, Plain
<1>4. \A k : Lookup(g, k)' = bindings'[0][k]
  <2>1. rec'[g].chain = {0}
    BY DEF Flat
  <2> SUFFICES ASSUME NEW k PROVE Lookup(g, k)' = bindings'[0][k]
    OBVIOUS
  <2>2. CASE bindings'[0][k] = Unbound
    <3>1. {s \in rec'[g].chain : bindings'[s][k] # Unbound} = {}
      BY <2>1, <2>2
    <3> QED BY <2>2, <3>1 DEF Lookup
  <2>3. CASE bindings'[0][k] # Unbound
    <3>1. {s \in rec'[g].chain : bindings'[s][k] # Unbound} = {0}
      BY <2>1, <2>3
    <3>2. (CHOOSE s \in {0} : \A t \in {0} : t <= s) = 0
      OBVIOUS
    <3> QED BY <3>1, <3>2 DEF Lookup
  <2> QED BY <2>2, <2>3
<1>5. PICK k \in Required[rec[g].comp] : Resolve(g)[k] = 0
  BY DEF Satisfiable
<1>6. k \in Keys
  BY <1>2, <1>5, ComponentAssumption
<1>7. Resolve(g)'[k] # 0
  BY <1>2, <1>5 DEF Satisfiable
<1>8. /\ k \in Inject[rec'[g].comp] /\ Lookup(g, k)'.state = "active"
      /\ Lookup(g, k)'.available /\ Lookup(g, k)'.provider # g
      /\ Lookup(g, k)'.provider # 0
  BY <1>6, <1>7 DEF Resolve
<1>9. bindings'[0][k] # bindings[0][k]
  <2> SUFFICES ASSUME bindings'[0][k] = bindings[0][k] PROVE FALSE
    OBVIOUS
  <2>1. Resolve(g)[k] # 0
    BY <1>2, <1>3, <1>4, <1>6, <1>8 DEF Resolve
  <2> QED BY <1>5, <2>1
<1> QED BY <1>2, <1>4, <1>6, <1>8, <1>9

LEMMA LoadableFades ==
    ASSUME AInv, Flat', Fades, NEW g \in Id, Loadable(g)'
    PROVE  Loadable(g)
<1>1. /\ g \in fibers /\ g \in fibers' /\ rec'[g].reactivate >= 0
      /\ rec'[g].state = "inactive" /\ ~rec'[g].apply_failed /\ Satisfiable(g)'
  BY DEF Loadable, Fades
<1>2. Satisfiable(g)
  BY <1>1, NewlyMet DEF Fades
<1> QED BY <1>1, <1>2 DEF Loadable, Fades

(* A step of the cascade keeps the rest of the invariant if it does so in  *)
(* what it touches.                                                        *)
LEMMA RestKept ==
    ASSUME AInv, RestInv, calls # <<>>, Flat', Fades,
           SameBelow(height), height' \in Nat, height' >= height - 1,
           InFlight', Marked', Stopped',
           Top.op = "evaluate" => height' = height - 1,
           \A d \in height..height' : Notifies(d)' /\ Tame(d)',
           \A g \in Id : rec'[g].state = "loading" => rec[g].state = "loading" \/ ~Blocked(g, height),
           \A g \in fibers : Ready(g) /\ Ready(g)' /\ Awaits(height, g) =>
                              \E d \in height..height' : Awaits(d, g)'
    PROVE  RestInv'
<1>0. /\ height \in Nat \ {0} /\ Top = stack[height]
      /\ \A d \in 1..height : Stacked(d) /\ stack[d] \in Frame
  BY Setting
<1>1. \A d \in 1..(height - 1) : stack'[d] = stack[d] /\ d \in 1..height
  BY <1>0 DEF SameBelow
<1>2. \A d : d \in 1..height' => d \in 1..(height - 1) \/ d \in height..height'
  BY <1>0
<1>3. \A d \in height..height' : d \in 1..height'
  BY <1>0
<1>4. ASSUME NEW d \in 1..(height - 1), d \in 1..height' PROVE Notifies(d)' /\ Tame(d)'
  <2>1. stack'[d] = stack[d] /\ d \in 1..height /\ Notifies(d) /\ Tame(d) /\ Stacked(d)
    BY <1>0, <1>1, <1>4 DEF RestInv
  <2>2. Notifies(d)'
    <3> SUFFICES ASSUME stack[d].op = "notify" PROVE d = height'
      BY <2>1 DEF Notifies
    <3>1. d = height - 1 /\ Top.op = "evaluate"
      BY <1>0, <2>1 DEF Notifies
    <3> QED BY <3>1
  <2>3. stack[d].op # "begin_unload"
    BY <1>0, <2>1 DEF Stacked, Held
  <2>4. ASSUME stack[d].op = "cascade", NEW u \in stack[d].todo PROVE rec'[u[2]].state # "loading"
    <3>1. u[2] \in Id
      <4>1. stack[d].todo \in SUBSET (Nat \X Id)
        BY <1>0, <2>1 DEF Frame
      <4> QED BY <2>4, <4>1
    <3>2. rec[u[2]].state # "loading" /\ Needs(u[2], stack[d].f)
      BY <2>1, <2>4 DEF Tame, Stacked, Cascades
    <3>3. Blocked(u[2], height)
      BY <2>4, <3>2 DEF Blocked
    <3> QED BY <3>1, <3>2, <3>3
  <2>5. Tame(d)'
    BY <2>1, <2>3, <2>4 DEF Tame
  <2> QED BY <2>2, <2>5
<1>5. \A d \in 1..height' : Notifies(d)' /\ Tame(d)'
  BY <1>2, <1>4
<1>6. ASSUME NEW g \in fibers', Ready(g)' PROVE \E d \in 1..height' : Awaits(d, g)'
  <2>1. g \in fibers /\ g \in Id /\ rec'[g].comp = rec[g].comp
    BY <1>6 DEF Fades, KeepsPlace, AInv, IInv, TypeOK
  <2>2. Loadable(g)
    BY <1>6, <2>1, LoadableFades DEF Ready
  <2>3. Ready(g)
    BY <1>6, <2>1, <2>2 DEF Ready
  <2>4. PICK d \in 1..height : Awaits(d, g)
    BY <2>1, <2>3 DEF RestInv, Reacts
  <2>5. CASE d = height
    BY <1>3, <1>6, <2>1, <2>3, <2>4, <2>5
  <2>6. CASE d # height
    <3>1. d \in 1..(height - 1) /\ d \in 1..height'
      BY <1>0, <2>6
    <3>2. Awaits(d, g)'
      BY <1>1, <2>4, <3>1 DEF Awaits
    <3> QED BY <3>1, <3>2
  <2> QED BY <2>5, <2>6
<1> QED BY <1>5, <1>6 DEF RestInv, Reacts

(* Steps that leave states alone.                                          *)
LEMMA RestCalm ==
    ASSUME AInv, RestInv, calls # <<>>, Flat', Stopped', CalmStep,
           \A g \in Id : rec'[g].apply_failed = rec[g].apply_failed,
           SameBelow(height), height' \in Nat, height' >= height - 1,
           in_flight' - in_flight = Cardinality(Endings)' - Cardinality(Endings),
           in_flight' \in Nat, Cardinality(Endings)' \in Nat,
           Top.op = "evaluate" => height' = height - 1,
           \A d \in height..height' : Notifies(d)' /\ Tame(d)',
           \A g \in fibers : Ready(g) /\ Awaits(height, g) => \E d \in height..height' : Awaits(d, g)'
    PROVE  RestInv'
<1>0. TypeOK /\ fibers \subseteq Id /\ \A g \in Id : rec[g].reactivate \in {-1, 0, 1}
  BY DEF AInv, IInv, TypeOK, FiberRecord
<1>1. /\ fibers' = fibers /\ bindings' = bindings
      /\ \A g \in Id : /\ KeepsPlace(g) /\ rec'[g].state = rec[g].state
                       /\ rec'[g].applying = rec[g].applying
                       /\ rec[g].reactivate = -1 => rec'[g].reactivate = -1
  BY DEF CalmStep, KeepsState
<1>2. Fades
  BY <1>0, <1>1 DEF Fades
<1>3. Marked'
  BY <1>1 DEF Marked, RestInv
<1>4. Cardinality(Transitions)' = Cardinality(Transitions)
  <2>1. Transitions' = Transitions
    BY <1>1 DEF Transitions, Withdrawing
  <2> QED BY <2>1
<1>5. InFlight'
  <2>1. /\ in_flight = Cardinality(Transitions) + Cardinality(Endings)
        /\ Cardinality(Transitions) \in Nat /\ Cardinality(Endings) \in Nat
    BY <1>0, FiniteParts DEF RestInv, InFlight
  <2>2. in_flight' = Cardinality(Transitions) + Cardinality(Endings)'
    BY <2>1
  <2> QED BY <1>4, <2>2 DEF InFlight
<1> QED BY <1>1, <1>2, <1>3, <1>5, RestKept

----------------------------------------------------------------------------
(* Who asks an apply() to stop *)

LEMMA StopKept ==
    ASSUME TypeOK, Stopped, NEW t \in Id, NEW r, rec' = [rec EXCEPT ![t] = r],
           r.state = "loading" /\ r.stop => r.comp \in Cancellable
    PROVE  Stopped'
<1>1. rec'[t] = r /\ \A g \in Id \ {t} : rec'[g] = rec[g]
  BY DEF TypeOK
<1> QED BY <1>1 DEF Stopped

LEMMA StopCascade ==
    ASSUME StaticAssembly, AInv, Stopped, Cascade
    PROVE  Stopped'
<1>0. calls # <<>> /\ TypeOK /\ Mounted /\ Flat
  BY CascadeRuns DEF AInv, IInv, Plain
<1>1. PICK f \in Id : f = Top.f
  BY <1>0, TopType
<1>2. rec[f] \in FiberRecord /\ (rec[f].state = "loading" /\ rec[f].stop => rec[f].comp \in Cancellable)
  BY <1>0 DEF TypeOK, Stopped
<1>3. CASE \/ EvaluateKeeps \/ EvaluateUnloads \/ CascadeNext \/ FinishKeeps \/ NotifyNext \/ NotifyDone
           \/ TransitionFinished
  <2>1. rec' = rec
    BY <1>3 DEF EvaluateKeeps, EvaluateUnloads, CascadeNext, FinishKeeps, NotifyNext, NotifyDone,
                TransitionFinished
  <2> QED BY <2>1 DEF Stopped
<1>4. CASE StartLoading
  <2> DEFINE r == [rec[f] EXCEPT !.state = "loading", !.committed = Resolve(f),
                                 !.apply_failed = FALSE, !.stop = FALSE, !.applying = TRUE]
  <2>1. rec' = [rec EXCEPT ![f] = r]
    BY <1>1, <1>4 DEF StartLoading
  <2>2. ~r.stop
    BY <1>2 DEF FiberRecord
  <2> QED BY <1>0, <2>1, <2>2, StopKept
<1>5. CASE StartLoadingNull
  <2> DEFINE r == [rec[f] EXCEPT !.stop = FALSE]
  <2>1. rec' = [rec EXCEPT ![f] = r]
    BY <1>1, <1>5 DEF StartLoadingNull
  <2>2. ~r.stop
    BY <1>2 DEF FiberRecord
  <2> QED BY <1>0, <2>1, <2>2, StopKept
<1>6. CASE StartLoadingThrows
  <2>1. FALSE
    <3>1. f \in fibers /\ Factory[rec[f].comp] = "throws"
      BY <1>1, <1>6 DEF StartLoadingThrows, Loadable
    <3> QED BY <1>0, <3>1, Excluded
  <2> QED BY <2>1
<1>7. CASE BeginUnloadKeeps
  <2> DEFINE r == [rec[f] EXCEPT
                     !.reactivate = Reactivation(f, Top.flag),
                     !.state = IF rec[f].state = "loading" THEN "unloading" ELSE rec[f].state,
                     !.done = IF rec[f].state = "loading" THEN FALSE ELSE rec[f].done,
                     !.stop = IF rec[f].state = "loading" THEN TRUE ELSE rec[f].stop]
  <2>1. rec' = [rec EXCEPT ![f] = r]
    BY <1>1, <1>7 DEF BeginUnloadKeeps
  <2>2. r.state # "loading"
    BY <1>2 DEF FiberRecord
  <2> HIDE DEF r
  <2> QED BY <1>0, <2>1, <2>2, StopKept
<1>8. CASE BeginUnloadActive
  <2>1. PICK n : rec' = [rec EXCEPT ![f].reactivate = Reactivation(f, Top.flag),
                                    ![f].state = "unloading", ![f].done = FALSE,
                                    ![f].remaining = n]
    BY <1>1, <1>8 DEF BeginUnloadActive
  <2> DEFINE r == [rec[f] EXCEPT !.reactivate = Reactivation(f, Top.flag),
                                 !.state = "unloading", !.done = FALSE, !.remaining = n]
  <2>2. rec' = [rec EXCEPT ![f] = r]
    BY <2>1
  <2>3. r.state # "loading"
    BY <1>2 DEF FiberRecord
  <2> QED BY <1>0, <2>2, <2>3, StopKept
<1>9. CASE CascadeDone
  <2> DEFINE r == [rec[f] EXCEPT !.stop = TRUE]
  <2>1. rec' = [rec EXCEPT ![f] = r] /\ Top.op = "cascade"
    BY <1>1, <1>9 DEF CascadeDone, Running, Top
  <2>2. rec[f].state # "loading"
    BY <1>0, <1>1, <2>1, Setting DEF Stacked, StaysDown
  <2>3. r.state # "loading"
    BY <1>2, <2>2 DEF FiberRecord
  <2> QED BY <1>0, <2>1, <2>3, StopKept
<1>10. CASE Finish
  <2> DEFINE r == [rec[f] EXCEPT !.state = "inactive", !.committed = NothingCommitted,
                                 !.kids = {}, !.request = Orphaned(rec[f].request)]
  <2>1. rec' = [rec EXCEPT ![f] = r]
    BY <1>1, <1>10 DEF Finish
  <2>2. r.state # "loading"
    BY <1>2 DEF FiberRecord
  <2> QED BY <1>0, <2>1, <2>2, StopKept
<1>11. CASE ReleaseNext
  <2> DEFINE p == First(Top.todo)[2]
             r == [rec[p] EXCEPT !.consumers = rec[p].consumers \ {f}, !.remaining = CountedOff(p)]
  <2>1. CASE p \in fibers
    <3>1. p \in Id /\ rec[p] \in FiberRecord
      BY <1>0, <2>1 DEF TypeOK
    <3>2. rec' = [rec EXCEPT ![p] = r]
      BY <1>1, <1>11, <2>1 DEF ReleaseNext
    <3> HIDE DEF p
    <3>3. r.state = "loading" /\ r.stop => r.comp \in Cancellable
      BY <3>1 DEF FiberRecord, Stopped
    <3> QED BY <1>0, <3>1, <3>2, <3>3, StopKept
  <2>2. CASE p \notin fibers
    <3>1. rec' = rec
      BY <1>11, <2>2 DEF ReleaseNext
    <3> QED BY <3>1 DEF Stopped
  <2> QED BY <2>1, <2>2
<1>12. CASE ReleaseDone
  <2> DEFINE r == [rec[f] EXCEPT !.done = TRUE, !.waiters = {}]
  <2>1. rec' = [rec EXCEPT ![f] = r]
    BY <1>1, <1>12 DEF ReleaseDone
  <2>2. r.state = "loading" /\ r.stop => r.comp \in Cancellable
    BY <1>2 DEF FiberRecord
  <2> QED BY <1>0, <2>1, <2>2, StopKept
<1>13. CASE FinishTail
  <2> DEFINE r == [rec[f] EXCEPT !.reactivate = IF rec[f].reactivate > 0 THEN 0 ELSE rec[f].reactivate]
  <2>1. rec' = [rec EXCEPT ![f] = r]
    BY <1>1, <1>13 DEF FinishTail
  <2>2. r.state = "loading" /\ r.stop => r.comp \in Cancellable
    BY <1>2 DEF FiberRecord
  <2> QED BY <1>0, <2>1, <2>2, StopKept
<1>14. CASE AwaitGate
  <2> DEFINE r == [rec[f] EXCEPT !.waiters = rec[f].waiters \cup {Top.who}]
  <2>1. rec' = rec \/ rec' = [rec EXCEPT ![f] = r]
    BY <1>1, <1>14 DEF AwaitGate
  <2>2. r.state = "loading" /\ r.stop => r.comp \in Cancellable
    BY <1>2 DEF FiberRecord
  <2>3. CASE rec' = rec
    BY <2>3 DEF Stopped
  <2> HIDE DEF r
  <2> QED BY <1>0, <2>1, <2>2, <2>3, StopKept
<1> QED BY <1>3, <1>4, <1>5, <1>6, <1>7, <1>8, <1>9, <1>10, <1>11, <1>12, <1>13, <1>14 DEF Cascade

LEMMA StoppedKept ==
    ASSUME StaticAssembly, AInv, Stopped, Next
    PROVE  Stopped'
<1>0. TypeOK /\ Mounted /\ Flat
  BY DEF AInv, IInv, Plain
<1>1. CASE Cascade
  BY <1>1, StopCascade
<1>2. ASSUME NEW c \in Roots, Mount(c) PROVE Stopped'
  <2>1. next_id \in Id
    BY <1>2, MountEffect DEF AInv
  <2> DEFINE r == NewFiber(c, {0}, 0)
  <2>2. rec' = [rec EXCEPT ![next_id] = r]
    BY <1>2 DEF Mount
  <2>3. r.state # "loading"
    BY DEF NewFiber
  <2> HIDE DEF r
  <2>4. PICK n \in Id : n = next_id
    BY <2>1
  <2>5. rec' = [rec EXCEPT ![n] = r]
    BY <2>2, <2>4
  <2> QED BY <1>0, <2>3, <2>5, StopKept
<1>3. ASSUME NEW f \in Id,
             \/ RequestChild(f) \/ MountChild(f) \/ RetireChild(f)
             \/ \E k \in Keys : ProvideLate(f, k) \/ ReleaseEarly(f, k)
      PROVE  Stopped'
  BY <1>0, <1>3, Excluded
<1>4. ASSUME NEW f \in Id, ApplyPublishes(f) PROVE Stopped'
  <2>1. \A g \in Id \ {f} : rec[g] \in FiberRecord
    BY <1>0 DEF TypeOK
  <2>2. ASSUME NEW g \in Id \ {f}
        PROVE  rec'[g].state = rec[g].state /\ rec'[g].stop = rec[g].stop /\ rec'[g].comp = rec[g].comp
    <3> DEFINE provider == [rec[g] EXCEPT !.consumers = @ \cup {f}]
    <3>1. rec'[g] = provider \/ rec'[g] = rec[g]
      BY <1>0, <1>4 DEF ApplyPublishes, TypeOK
    <3>2. provider.state = rec[g].state /\ provider.stop = rec[g].stop /\ provider.comp = rec[g].comp
      BY <2>1 DEF FiberRecord
    <3> QED BY <3>1, <3>2
  <2>3. rec'[f].state # "loading"
    BY <1>0, <1>4, PublishEffect
  <2> QED BY <2>2, <2>3 DEF Stopped
<1>5. ASSUME NEW f \in Id, NEW raised \in BOOLEAN, ApplyFails(f, raised) PROVE Stopped'
  <2>1. PICK r : rec' = [rec EXCEPT ![f] = r]
    <3> DEFINE failed == rec[f].apply_failed \/ raised
               r == [rec[f] EXCEPT
                        !.state = "inactive", !.committed = NothingCommitted,
                        !.applying = FALSE, !.apply_failed = failed,
                        !.done = TRUE, !.waiters = {},
                        !.kids = {}, !.request = Orphaned(rec[f].request)]
    <3>1. rec' = [rec EXCEPT ![f] = r]
      BY <1>5 DEF ApplyFails
    <3> HIDE DEF r
    <3> QED BY <3>1
  <2>2. rec'[f] = r
    BY <1>0, <2>1 DEF TypeOK
  <2>3. r.state # "loading"
    BY <1>0, <1>5, <2>2, FailEffect
  <2> QED BY <1>0, <2>1, <2>3, StopKept
<1>6. ASSUME NEW f \in Id, NEW k \in Keys, Provide(f, k) \/ Promote(f, k) PROVE Stopped'
  BY <1>6 DEF Provide, Promote, Stopped
<1>7. ASSUME NEW f \in Id, NEW h \in Hosts, Retire(h, f) PROVE Stopped'
  <2> DEFINE r == [rec[f] EXCEPT !.reactivate = -1]
  <2>1. rec' = rec \/ rec' = [rec EXCEPT ![f] = r]
    BY <1>7 DEF Retire
  <2>2. r.state = "loading" /\ r.stop => r.comp \in Cancellable
    BY <1>0 DEF FiberRecord, TypeOK, Stopped
  <2>3. CASE rec' = rec
    BY <2>3 DEF Stopped
  <2> HIDE DEF r
  <2> QED BY <1>0, <2>1, <2>2, <2>3, StopKept
<1>8. ASSUME NEW f \in Id, Cancel(f) PROVE Stopped'
  <2> DEFINE r == [rec[f] EXCEPT !.stop = TRUE]
  <2>1. rec' = [rec EXCEPT ![f] = r] /\ rec[f].comp \in Cancellable
    BY <1>8 DEF Cancel
  <2>2. r.comp \in Cancellable
    BY <1>0, <2>1 DEF FiberRecord, TypeOK
  <2> QED BY <1>0, <2>1, <2>2, StopKept
<1>9. ASSUME NEW h \in Hosts, WaitIdle(h) PROVE Stopped'
  BY <1>9 DEF WaitIdle, Stopped
<1> QED BY <1>1, <1>2, <1>3, <1>4, <1>5, <1>6, <1>7, <1>8, <1>9 DEF Next, ApplyCompletes

----------------------------------------------------------------------------
(* The frames that change no state *)

(* ... and leave in_flight_ alone.                                         *)
LEMMA RestQuiet ==
    ASSUME AInv, RestInv, calls # <<>>, Flat', Stopped', CalmStep,
           \A g \in Id : rec'[g].apply_failed = rec[g].apply_failed,
           in_flight' = in_flight,
           SameBelow(height), height' \in Nat, height' >= height - 1,
           \A d \in height..height' : Ends(d)' <=> Ends(height) /\ d = height,
           Ends(height) => height' >= height,
           Top.op = "evaluate" => height' = height - 1,
           \A d \in height..height' : Notifies(d)' /\ Tame(d)',
           \A g \in fibers : Ready(g) /\ Awaits(height, g) => \E d \in height..height' : Awaits(d, g)'
    PROVE  RestInv'
<1>1. TypeOK /\ in_flight \in Nat /\ height \in Nat \ {0}
  BY Setting DEF TypeOK
<1>2. Cardinality(Endings) \in Nat
  BY <1>1, FiniteParts
<1>3. Cardinality(Endings)' = Cardinality(Endings)
  <2>1. CASE Ends(height)
    <3>1. height \in height..height'
      BY <1>1, <2>1
    <3>2. PICK h \in height..height' : h = height
      BY <3>1
    <3>3. \A d \in height..height' : Ends(d)' <=> d = h
      BY <2>1, <3>2
    <3> QED BY <2>1, <3>3, EndingsStep
  <2>2. CASE ~Ends(height)
    BY <2>2, EndingsStep
  <2> QED BY <2>1, <2>2
<1>4. /\ Cardinality(Endings)' \in Nat /\ in_flight' \in Nat
      /\ in_flight' - in_flight = Cardinality(Endings)' - Cardinality(Endings)
  BY <1>1, <1>2, <1>3
<1> QED BY <1>4, RestCalm

(* A frame that returns, and that awaited nothing it leaves ready.         *)
LEMMA RestReturn ==
    ASSUME AInv, RestInv, calls # <<>>, Flat', Stopped', CalmStep, Return,
           \A g \in Id : rec'[g].apply_failed = rec[g].apply_failed,
           in_flight' = in_flight, ~Ends(height),
           \A g \in fibers : ~(Ready(g) /\ Awaits(height, g))
    PROVE  RestInv'
<1>1. TypeOK /\ height \in Nat \ {0}
  BY Setting
<1>2. height' = height - 1 /\ SameBelow(height)
  BY <1>1, Returned DEF SameBelow
<1>3. height' \in Nat /\ height' >= height - 1 /\ height..height' = {}
  BY <1>1, <1>2
<1> QED BY <1>2, <1>3, RestQuiet

LEMMA QuietCalmly ==
    ASSUME TypeOK, calls # <<>>,
           \/ EvaluateKeeps \/ StartLoadingNull \/ CascadeNext \/ CascadeDone \/ FinishKeeps
           \/ NotifyNext \/ NotifyDone \/ TransitionFinished
    PROVE  CalmStep /\ \A g \in Id : rec'[g].apply_failed = rec[g].apply_failed
<1>1. (\A g \in Id : Keeps(g)) /\ fibers' = fibers /\ bindings' = bindings
  BY QuietEffect
<1>2. \A g \in Id : Keeps(g) => rec'[g].apply_failed = rec[g].apply_failed
  BY DEF Keeps, KeepsMark
<1> QED BY <1>1, <1>2, QuietCalm

LEMMA RestReturns ==
    ASSUME AInv, RestInv, Flat', Stopped',
           EvaluateKeeps \/ StartLoadingNull \/ NotifyDone \/ FinishKeeps
    PROVE  RestInv'
<1>1. calls # <<>> /\ Return /\ in_flight' = in_flight
  BY DEF EvaluateKeeps, StartLoadingNull, NotifyDone, FinishKeeps, Running
<1>2. TypeOK /\ Top = stack[height]
  BY <1>1, Setting
<1>3. /\ EvaluateKeeps \/ StartLoadingNull => Top.op = "evaluate"
      /\ NotifyDone => Top.op = "notify" /\ Top.todo = {}
      /\ FinishKeeps => Top.op = "finish"
  BY DEF EvaluateKeeps, StartLoadingNull, NotifyDone, FinishKeeps, Running, Top
<1>4. ~Ends(height)
  BY <1>2, <1>3 DEF Ends
<1>5. \A g \in Id : rec[g].reactivate \in {-1, 0, 1}
  BY <1>2 DEF TypeOK, FiberRecord
<1>6. ASSUME NEW g \in fibers, Ready(g), Awaits(height, g) PROVE FALSE
  <2>1. Top.op = "evaluate" /\ Top.f = g
    BY <1>2, <1>3, <1>6 DEF Awaits
  <2>2. Loadable(g) /\ Factory[rec[g].comp] = "instance"
    BY <1>6 DEF Ready
  <2>3. ~EvaluateKeeps
    BY <1>2, <1>5, <2>1, <2>2 DEF EvaluateKeeps, Loadable, TypeOK
  <2>4. ~StartLoadingNull
    BY <2>1, <2>2 DEF StartLoadingNull
  <2> QED BY <1>3, <2>1, <2>3, <2>4
<1> QED BY <1>1, <1>2, <1>4, <1>6, QuietCalmly, RestReturn

LEMMA RestStill ==
    ASSUME AInv, RestInv, Flat', Stopped', BeginUnloadKeeps, rec[Top.f].state # "loading"
    PROVE  RestInv'
<1>1. calls # <<>> /\ Top.op = "begin_unload" /\ Return /\ in_flight' = in_flight
  BY DEF BeginUnloadKeeps, Running, Top
<1>2. TypeOK /\ Top = stack[height]
  BY <1>1, Setting
<1>4. PICK f \in Id : f = Top.f
  BY <1>1, Setting
<1>5. /\ \A g \in Id \ {f} : Keeps(g)
      /\ KeepsPlace(f) /\ KeepsCount(f) /\ KeepsState(f) /\ KeepsGate(f)
      /\ rec'[f].reactivate = Reactivation(f, Top.flag)
      /\ rec'[f].apply_failed = rec[f].apply_failed
      /\ fibers' = fibers /\ bindings' = bindings
  BY <1>1, <1>2, <1>4, KeepsEffect
<1>6. CalmStep /\ \A g \in Id : rec'[g].apply_failed = rec[g].apply_failed
  <2>1. rec[f].reactivate = -1 => rec'[f].reactivate = -1
    BY <1>5 DEF Reactivation
  <2>2. \A g \in Id : Keeps(g) =>
            /\ KeepsPlace(g) /\ KeepsState(g) /\ KeepsCount(g) /\ KeepsGate(g)
            /\ rec[g].reactivate = -1 => rec'[g].reactivate = -1
            /\ rec'[g].apply_failed = rec[g].apply_failed
    BY DEF Keeps, KeepsMark
  <2> QED BY <1>5, <2>1, <2>2 DEF CalmStep
<1>7. ~Ends(height) /\ \A g : ~Awaits(height, g)
  BY <1>1, <1>2 DEF Ends, Awaits
<1> QED BY <1>1, <1>6, <1>7, RestReturn

(* transition_finished takes its own frame out of the count.               *)
LEMMA RestFinished ==
    ASSUME AInv, RestInv, Flat', Stopped', TransitionFinished
    PROVE  RestInv'
<1>1. calls # <<>> /\ Return /\ Top.op = "finished"
  BY DEF TransitionFinished, Running, Top
<1>2. TypeOK /\ Top = stack[height] /\ height \in Nat \ {0} /\ in_flight \in Nat
  BY <1>1, Setting DEF TypeOK
<1>3. height' = height - 1 /\ SameBelow(height)
  BY <1>1, <1>2, Returned DEF SameBelow
<1>4. height' \in Nat /\ height' >= height - 1 /\ height..height' = {}
  BY <1>2, <1>3
<1>5. Ends(height) /\ \A g : ~Awaits(height, g)
  BY <1>1, <1>2 DEF Ends, Awaits
<1>6. /\ Cardinality(Endings) >= 1 /\ Cardinality(Endings)' = Cardinality(Endings) - 1
  BY <1>1, <1>3, <1>4, <1>5, EndingsStep
<1>7. Cardinality(Endings) \in Nat /\ Cardinality(Transitions) \in Nat
  BY <1>2, FiniteParts
<1>8. in_flight = Cardinality(Transitions) + Cardinality(Endings)
  BY DEF RestInv, InFlight
<1>9. in_flight > 0
  BY <1>2, <1>6, <1>7, <1>8
<1>10. in_flight' = in_flight - 1
  BY <1>2, <1>9 DEF TransitionFinished
<1>11. /\ Cardinality(Endings)' \in Nat /\ in_flight' \in Nat
       /\ in_flight' - in_flight = Cardinality(Endings)' - Cardinality(Endings)
  BY <1>2, <1>6, <1>7, <1>9, <1>10
<1>12. CalmStep /\ \A g \in Id : rec'[g].apply_failed = rec[g].apply_failed
  BY <1>1, <1>2, QuietCalmly
<1> QED BY <1>1, <1>3, <1>4, <1>5, <1>11, <1>12, RestCalm

LEMMA RestNotifies ==
    ASSUME AInv, RestInv, Flat', Stopped', NotifyNext
    PROVE  RestInv'
<1>1. calls # <<>> /\ Top.op = "notify" /\ Top.todo # {} /\ in_flight' = in_flight
  BY DEF NotifyNext, Running, Top
<1>2. /\ TypeOK /\ Top = stack[height] /\ Top.todo \in SUBSET (Nat \X Id) /\ fibers \subseteq Id
  BY <1>1, Setting DEF TypeOK
<1>3. PICK h \in Nat \ {0} : h = height
  BY <1>1, Setting
<1>4. CalmStep /\ \A g \in Id : rec'[g].apply_failed = rec[g].apply_failed
  BY <1>1, <1>2, QuietCalmly
<1>5. PICK t : t = First(Top.todo) /\ t \in Top.todo
  BY <1>1, <1>2, FirstIn
<1>6. PICK c \in Id : c = t[2]
  BY <1>2, <1>5
<1>7. PICK rest \in Frame : rest = [Top EXCEPT !.todo = @ \ {t}]
  BY <1>1, <1>2, RestType
<1>8. rest.op = "notify" /\ rest.todo = Top.todo \ {t}
  BY <1>1, <1>2, <1>7, RestFields
<1>9. ~Ends(height)
  BY <1>1, <1>2 DEF Ends
<1>10. ASSUME NEW g, Awaits(height, g) PROVE g = c \/ \E u \in rest.todo : u[2] = g
  BY <1>1, <1>2, <1>5, <1>6, <1>8, <1>10 DEF Awaits
<1>11. CASE c \in fibers
  <2>1. PICK e \in Frame : e = Call("evaluate", c)
    BY FrameType DEF Op
  <2>2. e.op = "evaluate" /\ e.f = c
    BY <2>1, FrameFields
  <2>3. Become(<<e, rest>>)
    BY <1>5, <1>6, <1>7, <1>11, <2>1 DEF NotifyNext
  <2>4. height' = h + 1 /\ stack'[h + 1] = e /\ stack'[h] = rest /\ SameBelow(h)
    BY <1>1, <1>2, <1>3, <2>3, Called DEF SameBelow
  <2>5. \A d \in height..height' : d = h \/ d = h + 1
    BY <1>3, <2>4
  <2>6. ~Ends(h)' /\ Notifies(h)' /\ Tame(h)'
    BY <1>8, <2>2, <2>4 DEF Ends, Notifies, Tame
  <2>7. (~Ends(h + 1) /\ Notifies(h + 1) /\ Tame(h + 1))'
    BY <2>2, <2>4 DEF Ends, Notifies, Tame
  <2>8. \A d \in height..height' : ~Ends(d)' /\ Notifies(d)' /\ Tame(d)'
    BY <2>5, <2>6, <2>7
  <2>9. h \in height..height' /\ h + 1 \in height..height'
    BY <1>3, <2>4
  <2>10. \A g : Awaits(height, g) => \E d \in height..height' : Awaits(d, g)'
    <3> SUFFICES ASSUME NEW g, Awaits(height, g) PROVE \E d \in height..height' : Awaits(d, g)'
      OBVIOUS
    <3>1. CASE g = c
      <4>1. Awaits(h + 1, g)'
        BY <2>2, <2>4, <3>1 DEF Awaits
      <4> QED BY <2>9, <4>1
    <3>2. CASE \E u \in rest.todo : u[2] = g
      <4>1. Awaits(h, g)'
        BY <1>8, <2>4, <3>2 DEF Awaits
      <4> QED BY <2>9, <4>1
    <3> QED BY <1>10, <3>1, <3>2
  <2>11. height' \in Nat /\ height' >= height - 1 /\ SameBelow(height)
    BY <1>3, <2>4
  <2> QED BY <1>1, <1>4, <1>9, <2>8, <2>10, <2>11, RestQuiet
<1>12. CASE c \notin fibers
  <2>1. Become(<<rest>>)
    BY <1>5, <1>6, <1>7, <1>12 DEF NotifyNext
  <2>2. height' = h /\ stack'[h] = rest /\ SameBelow(h)
    BY <1>1, <1>2, <1>3, <2>1, Replaced DEF SameBelow
  <2>3. ~Ends(h)' /\ Notifies(h)' /\ Tame(h)'
    BY <1>8, <2>2 DEF Ends, Notifies, Tame
  <2>4. \A d \in height..height' : ~Ends(d)' /\ Notifies(d)' /\ Tame(d)'
    BY <1>3, <2>2, <2>3
  <2>5. h \in height..height'
    BY <1>3, <2>2
  <2>6. \A g \in fibers : Awaits(height, g) => \E d \in height..height' : Awaits(d, g)'
    <3> SUFFICES ASSUME NEW g \in fibers, Awaits(height, g)
                 PROVE  \E d \in height..height' : Awaits(d, g)'
      OBVIOUS
    <3>1. \E u \in rest.todo : u[2] = g
      BY <1>10, <1>12
    <3>2. Awaits(h, g)'
      BY <1>8, <2>2, <3>1 DEF Awaits
    <3> QED BY <2>5, <3>2
  <2>7. height' \in Nat /\ height' >= height - 1 /\ SameBelow(height)
    BY <1>3, <2>2
  <2> QED BY <1>1, <1>4, <1>9, <2>4, <2>6, <2>7, RestQuiet
<1> QED BY <1>11, <1>12

LEMMA RestCascades ==
    ASSUME AInv, RestInv, Flat', Stopped', CascadeNext
    PROVE  RestInv'
<1>1. calls # <<>> /\ Top.op = "cascade" /\ Top.todo # {} /\ in_flight' = in_flight
  BY DEF CascadeNext, Running, Top
<1>2. /\ TypeOK /\ Top = stack[height] /\ Top.todo \in SUBSET (Nat \X Id) /\ Stacked(height)
  BY <1>1, Setting
<1>3. PICK h \in Nat \ {0} : h = height
  BY <1>1, Setting
<1>4. CalmStep /\ \A g \in Id : rec'[g].apply_failed = rec[g].apply_failed
  BY <1>1, <1>2, QuietCalmly
<1>5. PICK t : t = First(Top.todo) /\ t \in Top.todo
  BY <1>1, <1>2, FirstIn
<1>6. PICK c \in Id : c = t[2]
  BY <1>2, <1>5
<1>7. PICK rest \in Frame : rest = [Top EXCEPT !.todo = @ \ {t}]
  BY <1>1, <1>2, RestType
<1>8. rest.op = "cascade" /\ rest.todo = Top.todo \ {t}
  BY <1>1, <1>2, <1>7, RestFields
<1>9. ~Ends(height) /\ \A g : ~Awaits(height, g)
  BY <1>1, <1>2 DEF Ends, Awaits
<1>10. /\ \A u \in Top.todo : u[2] \in Id /\ rec[u[2]].state # "loading"
       /\ c \in fibers
  <2>1. height \in 1..height
    BY <1>3
  <2>2. Tame(height)
    BY <2>1 DEF RestInv
  <2> QED BY <1>1, <1>2, <1>5, <1>6, <2>2 DEF Tame, Stacked, Cascades
<1>11. \A g \in Id : rec'[g].state = rec[g].state
  BY <1>4, CalmFacts
<1>12. PICK e \in Frame : e = BeginUnload(c, TRUE)
  BY FrameType
<1>13. e.op = "begin_unload" /\ e.f = c
  BY <1>12 DEF BeginUnload, Call
<1>14. Become(<<e, rest>>)
  BY <1>5, <1>6, <1>7, <1>10, <1>12 DEF CascadeNext
<1>15. height' = h + 1 /\ stack'[h + 1] = e /\ stack'[h] = rest /\ SameBelow(h)
  BY <1>1, <1>2, <1>3, <1>14, Called DEF SameBelow
<1>16. ~Ends(h)' /\ Notifies(h)' /\ Tame(h)'
  BY <1>8, <1>10, <1>11, <1>15 DEF Ends, Notifies, Tame
<1>17. (~Ends(h + 1) /\ Notifies(h + 1) /\ Tame(h + 1))'
  BY <1>5, <1>6, <1>10, <1>11, <1>13, <1>15 DEF Ends, Notifies, Tame
<1>18. \A d \in height..height' : ~Ends(d)' /\ Notifies(d)' /\ Tame(d)'
  BY <1>3, <1>15, <1>16, <1>17
<1>19. height' \in Nat /\ height' >= height - 1 /\ SameBelow(height)
  BY <1>3, <1>15
<1> QED BY <1>1, <1>4, <1>9, <1>18, <1>19, RestQuiet

LEMMA RestCascaded ==
    ASSUME AInv, RestInv, Flat', Stopped', CascadeDone
    PROVE  RestInv'
<1>1. calls # <<>> /\ Top.op = "cascade" /\ in_flight' = in_flight
  BY DEF CascadeDone, Running, Top
<1>2. TypeOK /\ Top = stack[height]
  BY <1>1, Setting
<1>3. PICK h \in Nat \ {0} : h = height
  BY <1>1, Setting
<1>4. PICK f \in Id : f = Top.f
  BY <1>1, Setting
<1>5. CalmStep /\ \A g \in Id : rec'[g].apply_failed = rec[g].apply_failed
  BY <1>1, <1>2, QuietCalmly
<1>6. PICK a \in Frame : a = Call("finish", f)
  BY FrameType DEF Op
<1>7. a.op = "finish"
  BY <1>6, FrameFields
<1>8. Become(<<a>>)
  BY <1>4, <1>6 DEF CascadeDone
<1>9. height' = h /\ stack'[h] = a /\ SameBelow(h)
  BY <1>1, <1>2, <1>3, <1>8, Replaced DEF SameBelow
<1>10. ~Ends(height) /\ \A g : ~Awaits(height, g)
  BY <1>1, <1>2 DEF Ends, Awaits
<1>11. ~Ends(h)' /\ Notifies(h)' /\ Tame(h)'
  BY <1>7, <1>9 DEF Ends, Notifies, Tame
<1>12. \A d \in height..height' : ~Ends(d)' /\ Notifies(d)' /\ Tame(d)'
  BY <1>3, <1>9, <1>11
<1>13. height' \in Nat /\ height' >= height - 1 /\ SameBelow(height)
  BY <1>3, <1>9
<1> QED BY <1>1, <1>5, <1>10, <1>12, <1>13, RestQuiet

LEMMA RestTail ==
    ASSUME AInv, RestInv, Flat', Stopped', FinishTail
    PROVE  RestInv'
<1>1. calls # <<>> /\ Top.op = "tail" /\ in_flight' = in_flight
  BY DEF FinishTail, Running, Top
<1>2. TypeOK /\ Top = stack[height]
  BY <1>1, Setting
<1>3. PICK h \in Nat \ {0} : h = height
  BY <1>1, Setting
<1>4. PICK f \in Id : f = Top.f
  BY <1>1, Setting
<1>5. /\ \A g \in Id \ {f} : Keeps(g)
      /\ KeepsPlace(f) /\ KeepsState(f) /\ KeepsCount(f) /\ KeepsGate(f)
      /\ rec'[f].reactivate = IF rec[f].reactivate > 0 THEN 0 ELSE rec[f].reactivate
      /\ rec'[f].apply_failed = rec[f].apply_failed
      /\ fibers' = fibers /\ bindings' = bindings
  BY <1>1, <1>2, <1>4, TailEffect
<1>6. CalmStep /\ \A g \in Id : rec'[g].apply_failed = rec[g].apply_failed
  <2>1. rec[f].reactivate = -1 => rec'[f].reactivate = -1
    BY <1>5
  <2>2. \A g \in Id : Keeps(g) =>
            /\ KeepsPlace(g) /\ KeepsState(g) /\ KeepsCount(g) /\ KeepsGate(g)
            /\ rec[g].reactivate = -1 => rec'[g].reactivate = -1
            /\ rec'[g].apply_failed = rec[g].apply_failed
    BY DEF Keeps, KeepsMark
  <2> QED BY <1>5, <2>1, <2>2 DEF CalmStep
<1>7. Ends(height) /\ \A g : ~Awaits(height, g)
  BY <1>1, <1>2 DEF Ends, Awaits
<1>8. PICK a \in Frame : a = Call("evaluate", f)
  BY FrameType DEF Op
<1>9. PICK b \in Frame : b = Call("finished", f)
  BY FrameType DEF Op
<1>10. a.op = "evaluate" /\ b.op = "finished"
  BY <1>8, <1>9, FrameFields
<1>11. Become(<<a, b>>) \/ Become(<<b>>)
  BY <1>4, <1>8, <1>9 DEF FinishTail
<1>12. /\ height' = h \/ (height' = h + 1 /\ stack'[h + 1] = a)
       /\ stack'[h] = b /\ SameBelow(h)
  <2>1. CASE Become(<<a, b>>)
    BY <1>1, <1>2, <1>3, <2>1, Called DEF SameBelow
  <2>2. CASE Become(<<b>>)
    BY <1>1, <1>2, <1>3, <2>2, Replaced DEF SameBelow
  <2> QED BY <1>11, <2>1, <2>2
<1>13. Ends(h)' /\ Notifies(h)' /\ Tame(h)'
  BY <1>10, <1>12 DEF Ends, Notifies, Tame
<1>14. height' = h + 1 => (~Ends(h + 1) /\ Notifies(h + 1) /\ Tame(h + 1))'
  BY <1>3, <1>10, <1>12 DEF Ends, Notifies, Tame
<1>15. \A d \in height..height' : d = h \/ (d = h + 1 /\ height' = h + 1 /\ d # height)
  BY <1>3, <1>12
<1>16. \A d \in height..height' : (Ends(d)' <=> d = height) /\ Notifies(d)' /\ Tame(d)'
  BY <1>3, <1>13, <1>14, <1>15
<1>17. height' \in Nat /\ height' >= height - 1 /\ height' >= height /\ SameBelow(height)
  BY <1>3, <1>12
<1> QED BY <1>1, <1>2, <1>6, <1>7, <1>16, <1>17, RestQuiet

----------------------------------------------------------------------------
(* The frames that move a fiber *)

(* A binding that has changed is not active.                               *)
Withdraw == \A k \in Keys : bindings'[0][k] = bindings[0][k] \/ bindings'[0][k].state # "active"

LEMMA RestMoves ==
    ASSUME AInv, RestInv, calls # <<>>, Flat', Stopped', Withdraw, fibers' \subseteq fibers,
           NEW t \in Id,
           \A g \in Id \ {t} : KeepsPlace(g) /\ KeepsState(g) /\ KeepsMark(g),
           KeepsPlace(t),
           /\ rec'[t].reactivate >= 0 /\ rec'[t].state = "inactive" /\ ~rec'[t].apply_failed
           /\ Satisfiable(t)
           => rec[t].reactivate >= 0 /\ rec[t].state = "inactive" /\ ~rec[t].apply_failed,
           rec'[t].state = "unloading" /\ rec'[t].applying => rec'[t].reactivate = -1,
           rec'[t].state = "loading" => rec[t].state = "loading" \/ ~Blocked(t, height),
           InFlight', SameBelow(height), height' \in Nat, height' >= height - 1,
           Top.op = "evaluate" => height' = height - 1,
           \A d \in height..height' : Notifies(d)' /\ Tame(d)',
           \A g \in fibers : Ready(g) /\ Ready(g)' /\ Awaits(height, g) =>
                              \E d \in height..height' : Awaits(d, g)'
    PROVE  RestInv'
<1>0. fibers \subseteq Id
  BY DEF AInv, IInv, TypeOK
<1>1. \A g \in Id \ {t} : /\ rec'[g].state = rec[g].state /\ rec'[g].applying = rec[g].applying
                          /\ rec'[g].reactivate = rec[g].reactivate
                          /\ rec'[g].apply_failed = rec[g].apply_failed
  BY DEF KeepsState, KeepsMark
<1>2. Fades
  <2>1. ASSUME NEW g \in fibers
        PROVE  /\ KeepsPlace(g)
               /\ /\ rec'[g].reactivate >= 0 /\ rec'[g].state = "inactive" /\ ~rec'[g].apply_failed
                  /\ Satisfiable(g)
                  => rec[g].reactivate >= 0 /\ rec[g].state = "inactive" /\ ~rec[g].apply_failed
    BY <1>0, <1>1
  <2> QED BY <2>1 DEF Fades, Withdraw
<1>3. Marked'
  BY <1>1 DEF Marked, RestInv
<1>4. \A g \in Id : rec'[g].state = "loading" => rec[g].state = "loading" \/ ~Blocked(g, height)
  BY <1>1
<1> QED BY <1>2, <1>3, <1>4, RestKept

(* The transitions and the frames that end them, as they move together.    *)
LEMMA Balanced ==
    ASSUME TypeOK, InFlight, NEW i \in {-1, 0, 1}, NEW j \in {-1, 0, 1},
           Cardinality(Transitions)' = Cardinality(Transitions) + i,
           Cardinality(Endings)' = Cardinality(Endings) + j,
           in_flight' = in_flight + i + j
    PROVE  InFlight'
<1>1. Cardinality(Transitions) \in Nat /\ Cardinality(Endings) \in Nat
  BY FiniteParts
<1>2. in_flight = Cardinality(Transitions) + Cardinality(Endings)
  BY DEF InFlight
<1>3. in_flight' = Cardinality(Transitions)' + Cardinality(Endings)'
  BY <1>1, <1>2
<1> QED BY <1>3 DEF InFlight

LEMMA KeptParts ==
    ASSUME NEW g, Keeps(g)
    PROVE  /\ KeepsPlace(g) /\ KeepsState(g) /\ KeepsMark(g)
           /\ rec'[g].state = rec[g].state /\ rec'[g].applying = rec[g].applying
           /\ rec'[g].reactivate = rec[g].reactivate
BY DEF Keeps, KeepsState, KeepsMark

(* Only a retirement interrupts a load.                                    *)
LEMMA RestInterrupts ==
    ASSUME AInv, RestInv, Flat', Stopped', BeginUnloadKeeps, rec[Top.f].state = "loading"
    PROVE  RestInv'
<1>1. calls # <<>> /\ Top.op = "begin_unload" /\ Return /\ in_flight' = in_flight
  BY DEF BeginUnloadKeeps, Running, Top
<1>2. TypeOK /\ Top = stack[height] /\ height \in Nat \ {0} /\ in_flight \in Nat /\ Records /\ InFlight
  BY <1>1, Setting DEF AInv, AssemblyInv, TypeOK, RestInv
<1>3. PICK t \in Id : t = Top.f
  BY <1>1, Setting
<1>4. /\ \A g \in Id \ {t} : Keeps(g)
      /\ KeepsPlace(t) /\ rec'[t].applying = rec[t].applying
      /\ rec'[t].reactivate = Reactivation(t, Top.flag)
      /\ rec'[t].state = "unloading"
      /\ fibers' = fibers /\ bindings' = bindings
  BY <1>1, <1>2, <1>3, KeepsEffect
<1>5. rec[t].reactivate = -1 /\ rec'[t].reactivate = -1
  <2>1. height \in 1..height
    BY <1>2
  <2>2. Tame(height)
    BY <2>1 DEF RestInv
  <2>3. rec[t].reactivate = -1
    BY <1>1, <1>2, <1>3, <2>2 DEF Tame
  <2> QED BY <1>4, <2>3 DEF Reactivation
<1>6. height' = height - 1 /\ SameBelow(height)
  BY <1>1, <1>2, Returned DEF SameBelow
<1>7. height' \in Nat /\ height' >= height - 1 /\ height..height' = {}
  BY <1>2, <1>6
<1>8. ~Ends(height) /\ \A g : ~Awaits(height, g)
  BY <1>1, <1>2 DEF Ends, Awaits
<1>9. \A g \in Id \ {t} : /\ KeepsPlace(g) /\ KeepsState(g) /\ KeepsMark(g)
                          /\ rec'[g].state = rec[g].state /\ rec'[g].applying = rec[g].applying
  BY <1>4, KeptParts
<1>10. InFlight'
  <2>1. rec[t].applying
    BY <1>2, <1>3 DEF Records, Loads
  <2>2. Cardinality(Transitions)' = Cardinality(Transitions)
    BY <1>2, <1>4, <1>9, <2>1, TransitionsStep
  <2>3. Cardinality(Endings)' = Cardinality(Endings)
    BY <1>1, <1>6, <1>7, <1>8, EndingsStep
  <2>4. Cardinality(Transitions) \in Nat /\ Cardinality(Endings) \in Nat
    BY <1>2, FiniteParts
  <2>5. /\ Cardinality(Transitions)' = Cardinality(Transitions) + 0
        /\ Cardinality(Endings)' = Cardinality(Endings) + 0
        /\ in_flight' = in_flight + 0 + 0
    BY <1>1, <1>2, <2>2, <2>3, <2>4
  <2> QED BY <1>2, <2>5, Balanced
<1>11. Withdraw
  BY <1>4 DEF Withdraw
<1> QED BY <1>1, <1>4, <1>5, <1>6, <1>7, <1>8, <1>9, <1>10, <1>11, RestMoves

LEMMA RestLoads ==
    ASSUME StaticAssembly, AInv, RestInv, Flat', Stopped', StartLoading
    PROVE  RestInv'
<1>1. calls # <<>> /\ Top.op = "evaluate" /\ Return /\ Loadable(Top.f) /\ in_flight' = in_flight + 1
  BY DEF StartLoading, Running, Top
<1>2. TypeOK /\ Top = stack[height] /\ height \in Nat \ {0} /\ in_flight \in Nat /\ Records /\ InFlight
  BY <1>1, Setting DEF AInv, AssemblyInv, TypeOK, RestInv
<1>3. PICK t \in Id : t = Top.f
  BY <1>1, Setting
<1>4. /\ \A g \in Id \ {t} : Keeps(g)
      /\ KeepsPlace(t) /\ rec'[t].state = "loading" /\ rec'[t].applying
      /\ fibers' = fibers
  BY <1>1, <1>2, <1>3, LoadEffect
<1>5. /\ t \in fibers /\ rec[t].state = "inactive" /\ rec[t].reactivate # -1 /\ Satisfiable(t)
  BY <1>1, <1>3 DEF Loadable
<1>6. ~Blocked(t, height)
  <2>1. height \in 1..(height + 1)
    BY <1>2
  <2> QED BY <1>5, <2>1, BlockedDown
<1>7. height' = height - 1 /\ SameBelow(height)
  BY <1>1, <1>2, Returned DEF SameBelow
<1>8. height' \in Nat /\ height' >= height - 1 /\ height..height' = {}
  BY <1>2, <1>7
<1>9. ~Ends(height) /\ \A g : Awaits(height, g) => g = t
  BY <1>1, <1>2, <1>3 DEF Ends, Awaits
<1>10. \A g \in Id \ {t} : /\ KeepsPlace(g) /\ KeepsState(g) /\ KeepsMark(g)
                           /\ rec'[g].state = rec[g].state /\ rec'[g].applying = rec[g].applying
  BY <1>4, KeptParts
<1>11. InFlight'
  <2>1. ~rec[t].applying /\ ~Withdrawing(t)
    BY <1>2, <1>5 DEF Records, Loads, Withdrawing
  <2>2. Cardinality(Transitions)' = Cardinality(Transitions) + 1
    BY <1>2, <1>4, <1>10, <2>1, TransitionsStep
  <2>3. Cardinality(Endings)' = Cardinality(Endings)
    BY <1>1, <1>7, <1>8, <1>9, EndingsStep
  <2>4. Cardinality(Endings) \in Nat
    BY <1>2, FiniteParts
  <2>5. Cardinality(Endings)' = Cardinality(Endings) + 0 /\ in_flight' = in_flight + 1 + 0
    BY <1>1, <1>2, <2>3, <2>4
  <2> QED BY <1>2, <2>2, <2>5, Balanced
<1>12. Withdraw
  <2>1. Takes(t)
    BY <1>3, LoadTakes
  <2>2. ASSUME NEW k \in Keys, bindings'[0][k] # bindings[0][k]
        PROVE  bindings'[0][k].state # "active"
    <3>1. PICK av \in BOOLEAN :
             bindings'[0][k] = [provider |-> t, state |-> "loading", available |-> av]
      BY <2>1, <2>2 DEF Takes
    <3> QED BY <3>1
  <2> QED BY <2>2 DEF Withdraw
<1>13. ~Ready(t)'
  BY <1>4 DEF Ready, Loadable
<1> QED BY <1>1, <1>4, <1>6, <1>7, <1>8, <1>9, <1>10, <1>11, <1>12, <1>13, RestMoves

LEMMA RestBegins ==
    ASSUME AInv, RestInv, Flat', Stopped', BeginUnloadActive
    PROVE  RestInv'
<1>1. /\ calls # <<>> /\ Top.op = "begin_unload" /\ in_flight' = in_flight + 1
      /\ Become(<<Loop("cascade", Top.f, {0} \X rec[Top.f].consumers)>>)
      /\ bindings' = WithState(Top.f, "retiring")
  BY DEF BeginUnloadActive, Running, Top
<1>2. TypeOK /\ Top = stack[height] /\ in_flight \in Nat /\ Records /\ InFlight /\ Stacked(height)
  BY <1>1, Setting DEF AInv, AssemblyInv, TypeOK, RestInv
<1>3. PICK t \in Id : t = Top.f
  BY <1>1, Setting
<1>4. PICK h \in Nat \ {0} : h = height
  BY <1>1, Setting
<1>5. /\ \A g \in Id \ {t} : Keeps(g)
      /\ KeepsPlace(t) /\ rec'[t].applying = rec[t].applying
      /\ rec[t].state = "active" /\ rec'[t].state = "unloading"
      /\ fibers' = fibers
  BY <1>1, <1>2, <1>3, BeginEffect
<1>6. t \in fibers /\ ~rec[t].applying /\ ~Withdrawing(t)
  BY <1>2, <1>5 DEF Records, Loads, Withdrawing
<1>7. PICK todo : todo = {0} \X rec[t].consumers
  OBVIOUS
<1>8. \A u \in todo : u[2] \in Id /\ rec[u[2]].state = "active" /\ u[2] # t
  BY <1>1, <1>3, <1>7, ActiveConsumers
<1>9. PICK a \in Frame : a = Loop("cascade", t, todo)
  <2>1. todo \in SUBSET (Nat \X Id)
    BY <1>7, <1>8
  <2> QED BY <2>1, FrameType DEF Op
<1>10. a.op = "cascade" /\ a.todo = todo
  BY <1>9, FrameFields
<1>11. height' = h /\ stack'[h] = a /\ SameBelow(h)
  <2>1. Become(<<a>>)
    BY <1>1, <1>3, <1>7, <1>9
  <2> QED BY <1>1, <1>2, <1>4, <2>1, Replaced DEF SameBelow
<1>12. \A g \in Id \ {t} : /\ KeepsPlace(g) /\ KeepsState(g) /\ KeepsMark(g)
                           /\ rec'[g].state = rec[g].state /\ rec'[g].applying = rec[g].applying
  BY <1>5, KeptParts
<1>13. ~Ends(h)' /\ Notifies(h)' /\ Tame(h)'
  BY <1>8, <1>10, <1>11, <1>12 DEF Ends, Notifies, Tame
<1>14. \A d \in height..height' : ~Ends(d)' /\ Notifies(d)' /\ Tame(d)'
  BY <1>4, <1>11, <1>13
<1>15. ~Ends(height) /\ \A g : ~Awaits(height, g)
  BY <1>1, <1>2 DEF Ends, Awaits
<1>16. height' \in Nat /\ height' >= height - 1 /\ SameBelow(height)
  BY <1>4, <1>11
<1>17. InFlight'
  <2>1. Withdrawing(t)'
    BY <1>5, <1>6 DEF Withdrawing
  <2>2. Cardinality(Transitions)' = Cardinality(Transitions) + 1
    BY <1>2, <1>6, <1>12, <2>1, TransitionsStep
  <2>3. Cardinality(Endings)' = Cardinality(Endings)
    BY <1>1, <1>14, <1>15, <1>16, EndingsStep
  <2>4. Cardinality(Endings) \in Nat
    BY <1>2, FiniteParts
  <2>5. Cardinality(Endings)' = Cardinality(Endings) + 0 /\ in_flight' = in_flight + 1 + 0
    BY <1>1, <1>2, <2>3, <2>4
  <2> QED BY <1>2, <2>2, <2>5, Balanced
<1>18. Withdraw
  <2> SUFFICES ASSUME NEW k \in Keys, bindings'[0][k] # bindings[0][k]
               PROVE  bindings'[0][k].state # "active"
    BY DEF Withdraw
  <2>1. bindings'[0][k] = [bindings[0][k] EXCEPT !.state = "retiring"]
    BY <1>1, <1>3, <1>6, Restated
  <2> QED BY <1>2, <2>1, BindingFields
<1> QED BY <1>1, <1>5, <1>6, <1>12, <1>14, <1>15, <1>16, <1>17, <1>18, RestMoves

LEMMA RestFinishes ==
    ASSUME StaticAssembly, AInv, RestInv, Flat', Stopped', Finish
    PROVE  RestInv'
<1>1. /\ calls # <<>> /\ Top.op = "finish" /\ MayFinish(Top.f) /\ in_flight' = in_flight
      /\ Become(<<Loop("release", Top.f, Edges(Top.f))>>) /\ bindings' = Withdrawn(Top.f)
  BY DEF Finish, Running, Top
<1>2. TypeOK /\ Top = stack[height] /\ in_flight \in Nat /\ InFlight
  BY <1>1, Setting DEF TypeOK, RestInv
<1>3. PICK t \in Id : t = Top.f
  BY <1>1, Setting
<1>4. PICK h \in Nat \ {0} : h = height
  BY <1>1, Setting
<1>5. /\ \A g \in Id \ {t} : Keeps(g)
      /\ KeepsPlace(t) /\ KeepsMark(t) /\ rec'[t].applying = rec[t].applying
      /\ rec'[t].state = "inactive" /\ fibers' = fibers
  BY <1>1, <1>2, <1>3, FinishEffect
<1>6. /\ t \in fibers /\ Blocked(t, height) /\ ~rec[t].applying /\ Withdrawing(t)
      /\ Edges(t) \in SUBSET (Nat \X Id)
  BY <1>1, <1>3, Finished
<1>7. PICK a \in Frame : a = Loop("release", t, Edges(t))
  BY <1>6, FrameType DEF Op
<1>8. a.op = "release"
  BY <1>7, FrameFields
<1>9. height' = h /\ stack'[h] = a /\ SameBelow(h)
  <2>1. Become(<<a>>)
    BY <1>1, <1>3, <1>7
  <2> QED BY <1>1, <1>2, <1>4, <2>1, Replaced DEF SameBelow
<1>10. \A g \in Id \ {t} : /\ KeepsPlace(g) /\ KeepsState(g) /\ KeepsMark(g)
                           /\ rec'[g].state = rec[g].state /\ rec'[g].applying = rec[g].applying
  BY <1>5, KeptParts
<1>11. Ends(h)' /\ Notifies(h)' /\ Tame(h)'
  BY <1>8, <1>9 DEF Ends, Notifies, Tame
<1>12. \A d \in height..height' : (Ends(d)' <=> d = h) /\ Notifies(d)' /\ Tame(d)'
  BY <1>4, <1>9, <1>11
<1>13. ~Ends(height) /\ \A g : ~Awaits(height, g)
  BY <1>1, <1>2 DEF Ends, Awaits
<1>14. height' \in Nat /\ height' >= height - 1 /\ SameBelow(height) /\ h \in height..height'
  BY <1>4, <1>9
<1>15. InFlight'
  <2>1. ~rec'[t].applying /\ ~Withdrawing(t)'
    BY <1>5, <1>6 DEF Withdrawing
  <2>2. Cardinality(Transitions)' = Cardinality(Transitions) - 1
    BY <1>2, <1>6, <1>10, <2>1, TransitionsStep
  <2>3. Cardinality(Endings)' = Cardinality(Endings) + 1
    BY <1>1, <1>12, <1>13, <1>14, EndingsStep
  <2>4. Cardinality(Transitions) \in Nat
    BY <1>2, FiniteParts
  <2>5. /\ Cardinality(Transitions)' = Cardinality(Transitions) + (-1)
        /\ in_flight' = in_flight + (-1) + 1
    BY <1>1, <1>2, <2>2, <2>4
  <2> QED BY <1>2, <2>3, <2>5, Balanced
<1>16. Withdraw
  <2>1. \A k \in Keys : bindings'[0][k] = bindings[0][k] \/ bindings'[0][k] = Unbound
    BY <1>1, <1>3, <1>6, Unbinds
  <2> QED BY <2>1 DEF Withdraw, Unbound
<1>17. ~(rec'[t].reactivate >= 0 /\ Satisfiable(t))
  <2> SUFFICES ASSUME rec[t].reactivate >= 0, Satisfiable(t) PROVE FALSE
    BY <1>5 DEF KeepsMark
  <2>1. rec[t].reactivate # -1 /\ height \in 1..(height + 1)
    BY <1>4
  <2> QED BY <1>6, <2>1, BlockedDown
<1> QED BY <1>1, <1>5, <1>10, <1>12, <1>13, <1>14, <1>15, <1>16, <1>17, RestMoves

(* A frame that moves no fiber, though one may leave.                      *)
LEMMA RestSteady ==
    ASSUME AInv, RestInv, calls # <<>>, Flat', Stopped', bindings' = bindings, fibers' \subseteq fibers,
           \A g \in Id : KeepsPlace(g) /\ KeepsState(g) /\ KeepsMark(g),
           in_flight' = in_flight,
           SameBelow(height), height' \in Nat, height' >= height - 1,
           Top.op \notin {"evaluate", "notify"},
           \A d \in height..height' : Ends(d)' <=> Ends(height) /\ d = height,
           Ends(height) => height' >= height,
           \A d \in height..height' : Notifies(d)' /\ Tame(d)'
    PROVE  RestInv'
<1>1. /\ TypeOK /\ in_flight \in Nat /\ height \in Nat \ {0} /\ Top = stack[height]
      /\ InFlight /\ Top.f \in Id
  BY Setting DEF TypeOK, RestInv
<1>2. \A g \in Id : rec'[g].state = rec[g].state /\ rec'[g].applying = rec[g].applying
  BY DEF KeepsState
<1>3. Cardinality(Endings)' = Cardinality(Endings)
  <2>1. CASE Ends(height)
    <3>1. height \in height..height'
      BY <1>1, <2>1
    <3>2. PICK h \in height..height' : h = height
      BY <3>1
    <3>3. \A d \in height..height' : Ends(d)' <=> d = h
      BY <2>1, <3>2
    <3> QED BY <2>1, <3>3, EndingsStep
  <2>2. CASE ~Ends(height)
    BY <2>2, EndingsStep
  <2> QED BY <2>1, <2>2
<1>4. InFlight'
  <2>1. Transitions' = Transitions
    BY <1>2 DEF Transitions, Withdrawing
  <2>2. Cardinality(Transitions) \in Nat /\ Cardinality(Endings) \in Nat
    BY <1>1, FiniteParts
  <2>3. Cardinality(Transitions)' = Cardinality(Transitions)
    BY <2>1
  <2>4. /\ Cardinality(Transitions)' = Cardinality(Transitions) + 0
        /\ Cardinality(Endings)' = Cardinality(Endings) + 0
        /\ in_flight' = in_flight + 0 + 0
    BY <1>1, <1>3, <2>2, <2>3
  <2> QED BY <1>1, <2>4, Balanced
<1>5. \A g : ~Awaits(height, g)
  BY <1>1 DEF Awaits
<1>6. Withdraw
  BY DEF Withdraw
<1>7. \A g \in Id : /\ rec'[g].reactivate = rec[g].reactivate
                    /\ rec'[g].apply_failed = rec[g].apply_failed
  BY DEF KeepsMark
<1>8. Marked
  BY DEF RestInv
<1>9. PICK t \in Id : t = Top.f
  BY <1>1
<1>10. rec'[t].state = "unloading" /\ rec'[t].applying => rec'[t].reactivate = -1
  BY <1>2, <1>7, <1>8 DEF Marked
<1> QED BY <1>2, <1>4, <1>5, <1>6, <1>7, <1>10, RestMoves

LEMMA RestReleases ==
    ASSUME AInv, RestInv, Flat', Stopped', ReleaseNext
    PROVE  RestInv'
<1>1. /\ calls # <<>> /\ Top.op = "release" /\ Top.todo # {} /\ in_flight' = in_flight
  BY DEF ReleaseNext, Running, Top
<1>2. TypeOK /\ Top = stack[height] /\ Top.todo \in SUBSET (Nat \X Id)
  BY <1>1, Setting
<1>3. PICK h \in Nat \ {0} : h = height
  BY <1>1, Setting
<1>4. PICK t : t = First(Top.todo) /\ t \in Top.todo
  BY <1>1, <1>2, FirstIn
<1>5. PICK p \in Id : p = t[2]
  BY <1>2, <1>4
<1>6. PICK rest \in Frame : rest = [Top EXCEPT !.todo = @ \ {t}]
  BY <1>1, <1>2, RestType
<1>7. rest.op = "release"
  BY <1>1, <1>2, <1>6, RestFields
<1>8. PICK a \in Frame : a = Call("finish", p)
  BY FrameType DEF Op
<1>9. a.op = "finish"
  BY <1>8, FrameFields
<1>10. /\ \A g \in Id : KeepsPlace(g) /\ KeepsState(g) /\ KeepsMark(g)
       /\ fibers' = fibers /\ bindings' = bindings
  <2>1. /\ \A g \in Id \ {p} : Keeps(g)
        /\ p \notin fibers => \A g \in Id : Keeps(g)
        /\ p \in fibers => KeepsPlace(p) /\ KeepsState(p) /\ KeepsMark(p)
        /\ fibers' = fibers /\ bindings' = bindings
    BY <1>1, <1>2, <1>4, <1>5, ReleaseEffect
  <2> QED BY <2>1, KeptParts
<1>11. Become(<<a, rest>>) \/ Become(<<rest>>)
  BY <1>4, <1>5, <1>6, <1>8 DEF ReleaseNext
<1>12. /\ height' = h \/ (height' = h + 1 /\ stack'[h + 1] = a)
       /\ stack'[h] = rest /\ SameBelow(h)
  <2>1. CASE Become(<<a, rest>>)
    BY <1>1, <1>2, <1>3, <2>1, Called DEF SameBelow
  <2>2. CASE Become(<<rest>>)
    BY <1>1, <1>2, <1>3, <2>2, Replaced DEF SameBelow
  <2> QED BY <1>11, <2>1, <2>2
<1>13. Ends(h)' /\ Notifies(h)' /\ Tame(h)'
  BY <1>7, <1>12 DEF Ends, Notifies, Tame
<1>14. height' = h + 1 => (~Ends(h + 1) /\ Notifies(h + 1) /\ Tame(h + 1))'
  BY <1>3, <1>9, <1>12 DEF Ends, Notifies, Tame
<1>15. \A d \in height..height' : d = h \/ (d = h + 1 /\ height' = h + 1 /\ d # height)
  BY <1>3, <1>12
<1>16. \A d \in height..height' : (Ends(d)' <=> d = height) /\ Notifies(d)' /\ Tame(d)'
  BY <1>3, <1>13, <1>14, <1>15
<1>17. height' \in Nat /\ height' >= height - 1 /\ height' >= height /\ SameBelow(height)
  BY <1>3, <1>12
<1>18. Ends(height)
  BY <1>1, <1>2 DEF Ends
<1> QED BY <1>1, <1>10, <1>16, <1>17, <1>18, RestSteady

LEMMA RestOpens ==
    ASSUME AInv, RestInv, Flat', Stopped', ReleaseDone
    PROVE  RestInv'
<1>1. /\ calls # <<>> /\ Top.op = "release" /\ in_flight' = in_flight
      /\ Become(<<Loop("notify", Top.f, Notified(Top.f, Provides[rec[Top.f].comp])),
                  Call("tail", Top.f)>>)
  BY DEF ReleaseDone, Running, Top
<1>2. TypeOK /\ Top = stack[height] /\ Mounted /\ Stacked(height)
  BY <1>1, Setting DEF AInv, IInv
<1>3. PICK h \in Nat \ {0} : h = height
  BY <1>1, Setting
<1>4. PICK f \in Id : f = Top.f
  BY <1>1, Setting
<1>5. /\ \A g \in Id \ {f} : Keeps(g)
      /\ KeepsPlace(f) /\ KeepsState(f) /\ KeepsMark(f)
      /\ fibers' = (IF rec[f].waiters = {} THEN fibers ELSE fibers \ {f})
      /\ bindings' = bindings
  BY <1>1, <1>2, <1>4, OpenEffect
<1>6. (\A g \in Id : KeepsPlace(g) /\ KeepsState(g) /\ KeepsMark(g)) /\ fibers' \subseteq fibers
  BY <1>5, KeptParts
<1>7. PICK todo : todo = Notified(f, Provides[rec[f].comp])
  OBVIOUS
<1>8. PICK a \in Frame : a = Loop("notify", f, todo)
  <2>1. todo \in SUBSET (Nat \X Id)
    BY <1>2, <1>7, BoundAssumption DEF Notified, TypeOK
  <2> QED BY <2>1, FrameType DEF Op
<1>9. PICK b \in Frame : b = Call("tail", f)
  BY FrameType DEF Op
<1>10. a.op = "notify" /\ b.op = "tail"
  BY <1>8, <1>9, FrameFields
<1>11. Become(<<a, b>>)
  BY <1>1, <1>4, <1>7, <1>8, <1>9
<1>12. height' = h + 1 /\ stack'[h + 1] = a /\ stack'[h] = b /\ SameBelow(h)
  BY <1>1, <1>2, <1>3, <1>11, Called DEF SameBelow
<1>13. Ends(h)' /\ Notifies(h)' /\ Tame(h)'
  BY <1>10, <1>12 DEF Ends, Notifies, Tame
<1>14. (~Ends(h + 1) /\ Notifies(h + 1) /\ Tame(h + 1))'
  BY <1>10, <1>12 DEF Ends, Notifies, Tame
<1>15. \A d \in height..height' : d = h \/ (d = h + 1 /\ d # height)
  BY <1>3, <1>12
<1>16. \A d \in height..height' : (Ends(d)' <=> d = height) /\ Notifies(d)' /\ Tame(d)'
  BY <1>3, <1>13, <1>14, <1>15
<1>17. height' \in Nat /\ height' >= height - 1 /\ height' >= height /\ SameBelow(height)
  BY <1>3, <1>12
<1>18. Ends(height)
  BY <1>1, <1>2 DEF Ends
<1> QED BY <1>1, <1>5, <1>6, <1>16, <1>17, <1>18, RestSteady

LEMMA RestAwaits ==
    ASSUME AInv, RestInv, Flat', Stopped', AwaitGate
    PROVE  RestInv'
<1>1. calls # <<>> /\ Top.op = "await" /\ Return /\ in_flight' = in_flight
  BY DEF AwaitGate, Running, Top
<1>2. TypeOK /\ Top = stack[height] /\ height \in Nat \ {0}
  BY <1>1, Setting
<1>3. PICK f \in Id : f = Top.f
  BY <1>1, Setting
<1>4. /\ \A g \in Id \ {f} : Keeps(g)
      /\ KeepsPlace(f) /\ KeepsState(f) /\ KeepsMark(f)
      /\ fibers' \subseteq fibers /\ bindings' = bindings
  BY <1>1, <1>2, <1>3, AwaitEffect
<1>5. \A g \in Id : KeepsPlace(g) /\ KeepsState(g) /\ KeepsMark(g)
  BY <1>4, KeptParts
<1>6. height' = height - 1 /\ SameBelow(height)
  BY <1>1, <1>2, Returned DEF SameBelow
<1>7. height' \in Nat /\ height' >= height - 1 /\ height..height' = {}
  BY <1>2, <1>6
<1>8. ~Ends(height)
  BY <1>1, <1>2 DEF Ends
<1> QED BY <1>1, <1>4, <1>5, <1>6, <1>7, <1>8, RestSteady

LEMMA RestCascade ==
    ASSUME StaticAssembly, AInv, RestInv, Flat', Stopped', Cascade
    PROVE  RestInv'
<1>0. calls # <<>> /\ TypeOK /\ Mounted /\ Flat
  BY CascadeRuns DEF AInv, IInv, Plain
<1>1. ~EvaluateUnloads
  <2> SUFFICES ASSUME EvaluateUnloads PROVE FALSE
    OBVIOUS
  <2>1. Top.op = "evaluate" /\ rec[Top.f].state = "active"
    BY DEF EvaluateUnloads, Running, Top
  <2> QED BY <1>0, <2>1, Setting DEF Stacked, Spares
<1>2. ~StartLoadingThrows
  <2> SUFFICES ASSUME StartLoadingThrows PROVE FALSE
    OBVIOUS
  <2>1. Top.f \in fibers /\ Factory[rec[Top.f].comp] = "throws"
    BY DEF StartLoadingThrows, Loadable
  <2>2. Top.f \in Id
    BY <1>0, TopType
  <2> QED BY <1>0, <2>1, <2>2, Excluded
<1> QED BY <1>1, <1>2, RestReturns, RestStill, RestFinished, RestNotifies, RestCascades, RestCascaded,
           RestTail, RestInterrupts, RestLoads, RestBegins, RestFinishes, RestReleases, RestOpens,
           RestAwaits DEF Cascade

----------------------------------------------------------------------------
(* The handlers begin at rest *)

LEMMA EndingsBegun ==
    ASSUME calls = <<>>
    PROVE  /\ Cardinality(Endings) = 0
           /\ (\A d \in 1..height' : ~Ends(d)') => Cardinality(Endings)' = 0
           /\ 1 \in 1..height' /\ (\A d \in 1..height' : Ends(d)' <=> d = 1)
                => Cardinality(Endings)' = 1
<1>1. height = 0
  BY DEF height
<1>2. Endings = {}
  BY <1>1 DEF Endings
<1>3. Endings' = {d \in 1..height' : Ends(d)'}
  BY DEF Endings
<1>4. ASSUME \A d \in 1..height' : ~Ends(d)' PROVE Cardinality(Endings)' = 0
  <2>1. Endings' = {}
    BY <1>3, <1>4
  <2> QED BY <2>1, FS_EmptySet
<1>5. ASSUME 1 \in 1..height', \A d \in 1..height' : Ends(d)' <=> d = 1
      PROVE  Cardinality(Endings)' = 1
  <2>1. Endings' = {1}
    BY <1>3, <1>5
  <2> QED BY <2>1, FS_Singleton
<1> QED BY <1>2, <1>4, <1>5, FS_EmptySet

(* At rest no fiber is ready; one that becomes so by what a handler does   *)
(* must be awaited by the frames it begins with.                           *)
LEMMA RestBegun ==
    ASSUME AInv, RestInv, calls = <<>>, Flat', Stopped', InFlight',
           NEW S \in SUBSET Id,
           \A g \in S : KeepsPlace(g) /\ KeepsState(g) /\ KeepsMark(g),
           \A g \in Id \ S : rec'[g].state = "unloading" /\ rec'[g].applying => rec'[g].reactivate = -1,
           fibers' \cap S \subseteq fibers, fibers' \subseteq Id,
           \A d \in 1..height' : Notifies(d)' /\ Tame(d)',
           \A g \in fibers \cap S : \A k \in Inject[rec[g].comp] \cap Keys :
               bindings'[0][k] # bindings[0][k] /\ bindings'[0][k].state = "active"
                 => \E d \in 1..height' : Awaits(d, g)',
           \A g \in fibers' \ S : Ready(g)' => \E d \in 1..height' : Awaits(d, g)'
    PROVE  RestInv'
<1>1. \A g \in S : /\ rec'[g].state = rec[g].state /\ rec'[g].applying = rec[g].applying
                   /\ rec'[g].reactivate = rec[g].reactivate
                   /\ rec'[g].apply_failed = rec[g].apply_failed /\ rec'[g].comp = rec[g].comp
  BY DEF KeepsState, KeepsMark, KeepsPlace
<1>2. Marked'
  BY <1>1 DEF Marked, RestInv
<1>3. ASSUME NEW g \in fibers', g \in S, Ready(g)' PROVE \E d \in 1..height' : Awaits(d, g)'
  <2>1. g \in fibers /\ g \in Id
    BY <1>3
  <2>2. /\ rec[g].state = "inactive" /\ rec[g].reactivate >= 0 /\ ~rec[g].apply_failed
        /\ rec[g].comp \notin Cancellable /\ Factory[rec[g].comp] = "instance"
        /\ Satisfiable(g)'
    BY <1>1, <1>3 DEF Ready, Loadable
  <2>3. ~Satisfiable(g)
    <3> SUFFICES ASSUME Satisfiable(g) PROVE FALSE
      OBVIOUS
    <3>1. Ready(g)
      BY <2>1, <2>2 DEF Ready, Loadable
    <3>2. \E d \in 1..height : Awaits(d, g)
      BY <2>1, <3>1 DEF RestInv, Reacts
    <3> QED BY <3>2, AtRest
  <2>4. PICK k \in Keys : /\ k \in Inject[rec[g].comp] /\ bindings'[0][k] # bindings[0][k]
                          /\ bindings'[0][k].state = "active"
    BY <1>3, <2>1, <2>2, <2>3, NewlyMet
  <2> QED BY <1>3, <2>1, <2>4
<1>4. Reacts'
  BY <1>3 DEF Reacts
<1> QED BY <1>2, <1>4 DEF RestInv

(* The transitions under way when a handler has begun.                     *)
LEMMA BegunInFlight ==
    ASSUME AInv, RestInv, calls = <<>>, NEW i \in {-1, 0}, NEW j \in {0, 1},
           Cardinality(Transitions)' = Cardinality(Transitions) + i,
           Cardinality(Endings)' = j, in_flight' = in_flight + i + j
    PROVE  InFlight'
<1>1. TypeOK /\ InFlight
  BY DEF AInv, IInv, RestInv
<1>2. Cardinality(Endings)' = Cardinality(Endings) + j
  BY EndingsBegun
<1> QED BY <1>1, <1>2, Balanced

(* A handler that starts and ends no transition.                           *)
LEMMA RestIdly ==
    ASSUME AInv, RestInv, calls = <<>>, in_flight' = in_flight,
           \A g \in Id : rec'[g].state = rec[g].state /\ rec'[g].applying = rec[g].applying,
           \A d \in 1..height' : ~Ends(d)'
    PROVE  InFlight'
<1>1. TypeOK /\ in_flight \in Nat
  BY DEF AInv, IInv, TypeOK
<1>2. Transitions' = Transitions
  BY DEF Transitions, Withdrawing
<1>3. Cardinality(Transitions) \in Nat
  BY <1>1, FiniteParts
<1>4. Cardinality(Transitions)' = Cardinality(Transitions) + 0 /\ in_flight' = in_flight + 0 + 0
  BY <1>1, <1>2, <1>3
<1>5. Cardinality(Endings)' = 0
  BY EndingsBegun
<1> QED BY <1>4, <1>5, BegunInFlight

LEMMA RestProvides ==
    ASSUME AInv, RestInv, Flat', Stopped', NEW f \in Id,
           (\E k \in Keys : Provide(f, k)) \/ Cancel(f) \/ \E h \in Hosts : WaitIdle(h)
    PROVE  RestInv'
<1>1. /\ (\A g \in Id : Keeps(g)) /\ fibers' = fibers
  BY CalmEffect DEF AInv, IInv
<1>2. calls = <<>> /\ calls' = <<>> /\ in_flight' = in_flight
  BY DEF Provide, Cancel, WaitIdle, StrandFree
<1>3. height' = 0
  BY <1>2 DEF height
<1>4. TypeOK /\ fibers \subseteq Id /\ 0 \in Scopes
  BY BoundAssumption DEF AInv, IInv, TypeOK, Scopes
<1>5. ASSUME NEW k \in Keys, bindings'[0][k] # bindings[0][k] PROVE bindings'[0][k].state # "active"
  <2>1. PICK j \in Keys : Provide(f, j)
    BY <1>5 DEF Cancel, WaitIdle
  <2>2. ScopeOf(f) = 0
    BY <2>1, OneContext DEF AInv, Plain, Provide
  <2>3. PICK av \in BOOLEAN :
          bindings' = [bindings EXCEPT ![0][j] = [provider |-> f, state |-> "loading", available |-> av]]
    BY <2>1, <2>2 DEF Provide, Availability
  <2>4. bindings'[0][k] = bindings[0][k]
        \/ bindings'[0][k] = [provider |-> f, state |-> "loading", available |-> av]
    BY <1>4, <2>3 DEF TypeOK
  <2> QED BY <1>5, <2>4
<1>6. \A g \in Id : KeepsPlace(g) /\ KeepsState(g) /\ KeepsMark(g)
  BY <1>1, KeptParts
<1>7. InFlight'
  BY <1>2, <1>3, <1>6, RestIdly DEF KeepsState
<1>8. fibers' \cap Id \subseteq fibers /\ fibers' \subseteq Id /\ Id \in SUBSET Id
  BY <1>1, <1>4
<1>9. \A d \in 1..height' : FALSE
  BY <1>3
<1> QED BY <1>2, <1>5, <1>6, <1>7, <1>8, <1>9, RestBegun

LEMMA RestRetires ==
    ASSUME AInv, RestInv, Flat', Stopped', NEW f \in Id, NEW w \in Hosts, Retire(w, f)
    PROVE  RestInv'
<1>1. /\ f \in fibers /\ bindings' = bindings /\ calls = <<>> /\ in_flight' = in_flight
      /\ \/ /\ \A g \in Id : Keeps(g)
            /\ fibers' = fibers \ {f} /\ calls' = <<>>
         \/ /\ Marks(f) /\ calls' = <<BeginUnload(f, FALSE), Await(f, w)>>
  BY RetireEffect DEF AInv, IInv, Retire
<1>2. fibers \subseteq Id
  BY DEF AInv, IInv, TypeOK
<1>3. CASE (\A g \in Id : Keeps(g)) /\ fibers' = fibers \ {f} /\ calls' = <<>>
  <2>1. height' = 0
    BY <1>3 DEF height
  <2>2. \A g \in Id : KeepsPlace(g) /\ KeepsState(g) /\ KeepsMark(g)
    BY <1>3, KeptParts
  <2>3. InFlight'
    BY <1>1, <2>1, <2>2, RestIdly DEF KeepsState
  <2>4. fibers' \cap Id \subseteq fibers /\ fibers' \subseteq Id /\ Id \in SUBSET Id
    BY <1>2, <1>3
  <2>5. \A d \in 1..height' : FALSE
    BY <2>1
  <2> QED BY <1>1, <2>2, <2>3, <2>4, <2>5, RestBegun
<1>4. CASE Marks(f) /\ calls' = <<BeginUnload(f, FALSE), Await(f, w)>>
  <2>1. /\ \A g \in Id \ {f} : KeepsPlace(g) /\ KeepsState(g) /\ KeepsMark(g)
        /\ KeepsState(f) /\ rec'[f].reactivate = -1 /\ fibers' = fibers
    BY <1>4, KeptParts DEF Marks
  <2>2. PICK a : a = BeginUnload(f, FALSE)
    OBVIOUS
  <2>3. PICK b : b = Await(f, w)
    OBVIOUS
  <2>4. a.op = "begin_unload" /\ a.f = f /\ b.op = "await"
    BY <2>2, <2>3 DEF BeginUnload, Call, Await
  <2>5. height' = 2 /\ stack'[2] = a /\ stack'[1] = b
    BY <1>4, <2>2, <2>3, Begun
  <2>6. ~Ends(1)' /\ Notifies(1)' /\ Tame(1)'
    BY <2>4, <2>5 DEF Ends, Notifies, Tame
  <2>7. ~Ends(2)' /\ Notifies(2)' /\ Tame(2)'
    BY <2>1, <2>4, <2>5 DEF Ends, Notifies, Tame
  <2>8. \A d \in 1..height' : d = 1 \/ d = 2
    BY <2>5
  <2>9. \A d \in 1..height' : ~Ends(d)' /\ Notifies(d)' /\ Tame(d)'
    BY <2>6, <2>7, <2>8
  <2>10. InFlight'
    BY <1>1, <2>1, <2>9, RestIdly DEF KeepsState
  <2>11. ~Ready(f)'
    BY <2>1 DEF Ready, Loadable
  <2>12. PICK S \in SUBSET Id : S = Id \ {f}
    OBVIOUS
  <2>13. \A g \in Id \ S : g = f
    BY <2>12
  <2>14. /\ \A g \in Id \ S : rec'[g].state = "unloading" /\ rec'[g].applying => rec'[g].reactivate = -1
         /\ \A g \in fibers' \ S : ~Ready(g)'
    BY <1>2, <2>1, <2>11, <2>13
  <2>15. fibers' \cap S \subseteq fibers /\ fibers' \subseteq Id
         /\ \A g \in S : KeepsPlace(g) /\ KeepsState(g) /\ KeepsMark(g)
    BY <1>2, <2>1, <2>12
  <2> QED BY <1>1, <2>9, <2>10, <2>14, <2>15, RestBegun
<1> QED BY <1>1, <1>3, <1>4

(* The dependents of a key that becomes available are told.                *)
LEMMA Told ==
    ASSUME AInv, NEW f \in Id, f \in fibers, NEW keys, NEW g \in fibers, NEW k \in keys,
           k \in Keys, k \in Inject[rec[g].comp]
    PROVE  \E t \in Notified(f, keys) : t[2] = g
<1>1. g \in Id /\ ScopeOf(f) = 0 /\ rec[g].chain = {0}
  BY OneContext DEF AInv, IInv, TypeOK, Plain, Flat
<1>2. <<k, g>> \in Notified(f, keys)
  BY <1>1 DEF Notified
<1> QED BY <1>2

LEMMA RestPromotes ==
    ASSUME AInv, RestInv, Flat', Stopped', NEW f \in Id, NEW j \in Keys, Promote(f, j)
    PROVE  RestInv'
<1>1. (\A g \in Id : Keeps(g)) /\ fibers' = fibers
  BY CalmEffect DEF AInv, IInv
<1>2. /\ calls = <<>> /\ in_flight' = in_flight /\ f \in fibers
      /\ calls' = <<Loop("notify", f, Notified(f, {j}))>>
  BY DEF Promote, StrandFree
<1>3. TypeOK /\ fibers \subseteq Id /\ 0 \in Scopes
  BY BoundAssumption DEF AInv, IInv, TypeOK, Scopes
<1>4. PICK a : a = Loop("notify", f, Notified(f, {j}))
  OBVIOUS
<1>5. a.op = "notify" /\ a.todo = Notified(f, {j})
  BY <1>4, FrameFields
<1>6. height' = 1 /\ stack'[1] = a
  BY <1>2, <1>4, Begun
<1>7. ~Ends(1)' /\ Notifies(1)' /\ Tame(1)'
  BY <1>5, <1>6 DEF Ends, Notifies, Tame
<1>8. \A d \in 1..height' : ~Ends(d)' /\ Notifies(d)' /\ Tame(d)'
  BY <1>6, <1>7
<1>9. ASSUME NEW k \in Keys, bindings'[0][k] # bindings[0][k] PROVE k = j
  <2>1. ScopeOf(f) = 0
    BY <1>2, OneContext DEF AInv, Plain
  <2>2. bindings' = [bindings EXCEPT ![0][j].available = TRUE]
    BY <2>1 DEF Promote
  <2> QED BY <1>3, <1>9, <2>2 DEF TypeOK
<1>10. ASSUME NEW g \in fibers, NEW k \in Inject[rec[g].comp] \cap Keys,
              bindings'[0][k] # bindings[0][k]
       PROVE  \E d \in 1..height' : Awaits(d, g)'
  <2>1. k = j
    BY <1>9, <1>10
  <2>2. \E t \in a.todo : t[2] = g
    BY <1>2, <1>5, <2>1, Told
  <2>3. Awaits(1, g)'
    BY <1>5, <1>6, <2>2 DEF Awaits
  <2> QED BY <1>6, <2>3
<1>11. \A g \in Id : KeepsPlace(g) /\ KeepsState(g) /\ KeepsMark(g)
  BY <1>1, KeptParts
<1>12. InFlight'
  BY <1>2, <1>8, <1>11, RestIdly DEF KeepsState
<1>13. fibers' \cap Id \subseteq fibers /\ fibers' \subseteq Id /\ Id \in SUBSET Id
  BY <1>1, <1>3
<1> QED BY <1>2, <1>8, <1>10, <1>11, <1>12, <1>13, RestBegun

LEMMA RestPublishes ==
    ASSUME AInv, RestInv, Flat', Stopped', NEW f \in Id, ApplyPublishes(f)
    PROVE  RestInv'
<1>1. /\ \A g \in Id \ {f} : KeepsPlace(g) /\ KeepsState(g) /\ KeepsMark(g)
      /\ rec[f].applying /\ rec'[f].state = "active" /\ ~rec'[f].applying
      /\ f \in fibers /\ fibers' = fibers
  BY PublishEffect DEF AInv, IInv
<1>2. /\ calls = <<>> /\ bindings' = WithState(f, "active") /\ in_flight' = in_flight
      /\ calls' = <<Loop("notify", f, Notified(f, Provides[rec[f].comp])), Call("finished", f)>>
  BY DEF ApplyPublishes, StrandFree
<1>3. TypeOK /\ fibers \subseteq Id /\ in_flight \in Nat /\ Bindings
  BY DEF AInv, AssemblyInv, IInv, TypeOK
<1>4. PICK a : a = Loop("notify", f, Notified(f, Provides[rec[f].comp]))
  OBVIOUS
<1>5. PICK b : b = Call("finished", f)
  OBVIOUS
<1>6. a.op = "notify" /\ a.todo = Notified(f, Provides[rec[f].comp]) /\ b.op = "finished"
  BY <1>4, <1>5, FrameFields
<1>7. height' = 2 /\ stack'[2] = a /\ stack'[1] = b
  BY <1>2, <1>4, <1>5, Begun
<1>8. Ends(1)' /\ Notifies(1)' /\ Tame(1)' /\ ~Ends(2)' /\ Notifies(2)' /\ Tame(2)'
  BY <1>6, <1>7 DEF Ends, Notifies, Tame
<1>9. \A d \in 1..height' : d = 1 \/ d = 2
  BY <1>7
<1>10. \A d \in 1..height' : (Ends(d)' <=> d = 1) /\ Notifies(d)' /\ Tame(d)'
  BY <1>8, <1>9
<1>11. InFlight'
  <2>1. \A g \in Id \ {f} : rec'[g].state = rec[g].state /\ rec'[g].applying = rec[g].applying
    BY <1>1 DEF KeepsState
  <2>2. ~Withdrawing(f)'
    BY <1>1 DEF Withdrawing
  <2>3. Cardinality(Transitions)' = Cardinality(Transitions) - 1
    BY <1>1, <1>3, <2>1, <2>2, TransitionsStep
  <2>4. 1 \in 1..height'
    BY <1>7
  <2>5. Cardinality(Endings)' = 1
    BY <1>2, <1>10, <2>4, EndingsBegun
  <2>6. Cardinality(Transitions) \in Nat
    BY <1>3, FiniteParts
  <2>7. /\ Cardinality(Transitions)' = Cardinality(Transitions) + (-1)
        /\ in_flight' = in_flight + (-1) + 1
    BY <1>2, <1>3, <2>3, <2>6
  <2> QED BY <1>2, <2>5, <2>7, BegunInFlight
<1>12. ASSUME NEW g \in fibers, NEW k \in Inject[rec[g].comp] \cap Keys,
              bindings'[0][k] # bindings[0][k]
       PROVE  \E d \in 1..height' : Awaits(d, g)'
  <2>1. bindings[0][k].provider = f
    BY <1>1, <1>2, <1>12, Restated
  <2>2. k \in Provides[rec[f].comp]
    <3>1. f # 0
      BY BoundAssumption DEF Id
    <3> QED BY <1>3, <2>1, <3>1, BoundBy
  <2>3. \E t \in a.todo : t[2] = g
    BY <1>1, <1>6, <2>2, Told
  <2>4. Awaits(2, g)'
    BY <1>6, <1>7, <2>3 DEF Awaits
  <2>5. 2 \in 1..height'
    BY <1>7
  <2> QED BY <2>4, <2>5
<1>13. ~Ready(f)' /\ rec'[f].state # "unloading"
  BY <1>1 DEF Ready, Loadable
<1>14. PICK S \in SUBSET Id : S = Id \ {f}
  OBVIOUS
<1>15. \A g \in Id \ S : g = f
  BY <1>14
<1>16. /\ \A g \in Id \ S : rec'[g].state # "unloading"
       /\ \A g \in fibers' \ S : ~Ready(g)'
  BY <1>1, <1>3, <1>13, <1>15
<1>17. fibers' \cap S \subseteq fibers /\ fibers' \subseteq Id
       /\ \A g \in S : KeepsPlace(g) /\ KeepsState(g) /\ KeepsMark(g)
  BY <1>1, <1>3, <1>14
<1> QED BY <1>2, <1>10, <1>11, <1>12, <1>16, <1>17, RestBegun

(* A load that failed is tried again if it lost a provider; otherwise it   *)
(* raised, was cancelled, or is being unloaded, which only a retirement    *)
(* does.                                                                   *)
LEMMA RestFails ==
    ASSUME AInv, RestInv, Flat', Stopped', NEW f \in Id, NEW raised \in BOOLEAN, ApplyFails(f, raised)
    PROVE  RestInv'
<1>1. /\ \A g \in Id \ {f} : Keeps(g)
      /\ KeepsPlace(f) /\ rec'[f].reactivate = rec[f].reactivate
      /\ rec'[f].apply_failed = (rec[f].apply_failed \/ raised)
      /\ rec[f].applying /\ rec'[f].state = "inactive" /\ ~rec'[f].applying
      /\ f \in fibers /\ fibers' = IF rec[f].waiters = {} THEN fibers ELSE fibers \ {f}
  BY FailEffect DEF AInv, IInv
<1>2. /\ calls = <<>> /\ bindings' = Withdrawn(f) /\ in_flight' = in_flight
      /\ calls' = IF ~ProvidersStillActive(f) /\ rec[f].reactivate >= 0
                  THEN <<Call("evaluate", f), Call("finished", f)>>
                  ELSE <<Call("finished", f)>>
  BY DEF ApplyFails, StrandFree
<1>3. /\ TypeOK /\ fibers \subseteq Id /\ fibers' \subseteq fibers /\ in_flight \in Nat
      /\ Loads(f) /\ Marked /\ Stopped
  BY <1>1 DEF AInv, AssemblyInv, Records, IInv, TypeOK, RestInv
<1>4. PICK a : a = Call("evaluate", f)
  OBVIOUS
<1>5. PICK b : b = Call("finished", f)
  OBVIOUS
<1>6. a.op = "evaluate" /\ a.f = f /\ b.op = "finished"
  BY <1>4, <1>5, FrameFields
<1>7. PICK again \in BOOLEAN : again = (~ProvidersStillActive(f) /\ rec[f].reactivate >= 0)
  OBVIOUS
<1>8. /\ again => height' = 2 /\ stack'[2] = a /\ stack'[1] = b
      /\ ~again => height' = 1 /\ stack'[1] = b
  BY <1>2, <1>4, <1>5, <1>7, Begun
<1>9. /\ Ends(1)' /\ Notifies(1)' /\ Tame(1)'
      /\ again => ~Ends(2)' /\ Notifies(2)' /\ Tame(2)' /\ Awaits(2, f)'
  BY <1>6, <1>8 DEF Ends, Notifies, Tame, Awaits
<1>10. \A d \in 1..height' : d = 1 \/ (d = 2 /\ again)
  BY <1>8
<1>11. \A d \in 1..height' : (Ends(d)' <=> d = 1) /\ Notifies(d)' /\ Tame(d)'
  BY <1>9, <1>10
<1>12. \A g \in Id \ {f} : /\ KeepsPlace(g) /\ KeepsState(g) /\ KeepsMark(g)
                           /\ rec'[g].state = rec[g].state /\ rec'[g].applying = rec[g].applying
  BY <1>1, KeptParts
<1>13. InFlight'
  <2>1. ~Withdrawing(f)'
    BY <1>1 DEF Withdrawing
  <2>2. Cardinality(Transitions)' = Cardinality(Transitions) - 1
    BY <1>1, <1>3, <1>12, <2>1, TransitionsStep
  <2>3. 1 \in 1..height'
    BY <1>8
  <2>4. Cardinality(Endings)' = 1
    BY <1>2, <1>11, <2>3, EndingsBegun
  <2>5. Cardinality(Transitions) \in Nat
    BY <1>3, FiniteParts
  <2>6. /\ Cardinality(Transitions)' = Cardinality(Transitions) + (-1)
        /\ in_flight' = in_flight + (-1) + 1
    BY <1>2, <1>3, <2>2, <2>5
  <2> QED BY <1>2, <2>4, <2>6, BegunInFlight
<1>14. \A k \in Keys : bindings'[0][k] # bindings[0][k] => bindings'[0][k].state # "active"
  <2>1. \A k \in Keys : bindings'[0][k] = bindings[0][k] \/ bindings'[0][k] = Unbound
    BY <1>1, <1>2, Unbinds
  <2> QED BY <2>1 DEF Unbound
<1>15. ASSUME Ready(f)' PROVE \E d \in 1..height' : Awaits(d, f)'
  <2>1. rec[f].reactivate >= 0 /\ ~raised /\ rec[f].comp \notin Cancellable
    BY <1>1, <1>15 DEF Ready, Loadable, KeepsPlace
  <2>2. rec[f].state # "unloading"
    BY <1>1, <1>3, <2>1 DEF Marked
  <2>3. rec[f].state = "loading" /\ ~rec[f].stop
    BY <1>1, <1>3, <2>1, <2>2 DEF Loads, Stopped
  <2>4. ~ProvidersStillActive(f)
    BY <2>1, <2>2, <2>3 DEF ApplyFails
  <2>5. again
    <3>1. ~ProvidersStillActive(f) /\ rec[f].reactivate >= 0
      BY <2>1, <2>4
    <3> QED BY <1>7, <3>1, Zenon
  <2>6. 2 \in 1..height'
    BY <1>8, <2>5
  <2> QED BY <1>9, <2>5, <2>6
<1>16. PICK S \in SUBSET Id : S = Id \ {f}
  OBVIOUS
<1>17. \A g \in Id \ S : g = f
  BY <1>16
<1>18. /\ \A g \in Id \ S : rec'[g].state # "unloading"
       /\ \A g \in fibers' \ S : Ready(g)' => \E d \in 1..height' : Awaits(d, g)'
  BY <1>1, <1>3, <1>15, <1>17
<1>19. fibers' \cap S \subseteq fibers /\ fibers' \subseteq Id
       /\ \A g \in S : KeepsPlace(g) /\ KeepsState(g) /\ KeepsMark(g)
  BY <1>3, <1>12, <1>16
<1> QED BY <1>2, <1>11, <1>13, <1>14, <1>18, <1>19, RestBegun

LEMMA RestMounts ==
    ASSUME AInv, RestInv, Flat', Stopped', NEW c \in Roots, Mount(c)
    PROVE  RestInv'
<1>1. PICK n \in Id :
        /\ n \notin fibers /\ fibers' = fibers \cup {n}
        /\ \A g \in Id \ {n} : Keeps(g)
        /\ rec'[n] = NewFiber(c, {0}, 0)
        /\ calls = <<>> /\ calls' = <<Call("evaluate", n)>>
        /\ bindings' = bindings
  BY MountEffect DEF AInv
<1>2. rec'[n].state = "inactive" /\ ~rec'[n].applying
  BY <1>1 DEF NewFiber
<1>3. /\ TypeOK /\ fibers \subseteq Id /\ in_flight \in Nat /\ in_flight' = in_flight /\ Loads(n)
  BY DEF AInv, AssemblyInv, Records, IInv, TypeOK, Mount
<1>4. ~rec[n].applying /\ ~Withdrawing(n) /\ ~Withdrawing(n)'
  BY <1>1, <1>2, <1>3 DEF Loads, Withdrawing
<1>5. PICK a : a = Call("evaluate", n)
  OBVIOUS
<1>6. a.op = "evaluate" /\ a.f = n
  BY <1>5, FrameFields
<1>7. height' = 1 /\ stack'[1] = a
  BY <1>1, <1>5, Begun
<1>8. ~Ends(1)' /\ Notifies(1)' /\ Tame(1)' /\ Awaits(1, n)'
  BY <1>6, <1>7 DEF Ends, Notifies, Tame, Awaits
<1>9. (\A d \in 1..height' : ~Ends(d)' /\ Notifies(d)' /\ Tame(d)') /\ 1 \in 1..height'
  BY <1>7, <1>8
<1>10. \A g \in Id \ {n} : /\ KeepsPlace(g) /\ KeepsState(g) /\ KeepsMark(g)
                           /\ rec'[g].state = rec[g].state /\ rec'[g].applying = rec[g].applying
  BY <1>1, KeptParts
<1>11. InFlight'
  <2>1. Cardinality(Transitions)' = Cardinality(Transitions)
    BY <1>2, <1>3, <1>4, <1>10, TransitionsStep
  <2>2. Cardinality(Endings)' = 0
    BY <1>1, <1>9, EndingsBegun
  <2>3. Cardinality(Transitions) \in Nat
    BY <1>3, FiniteParts
  <2>4. /\ Cardinality(Transitions)' = Cardinality(Transitions) + 0
        /\ in_flight' = in_flight + 0 + 0
    BY <1>3, <2>1, <2>3
  <2> QED BY <1>1, <2>2, <2>4, BegunInFlight
<1>12. PICK S \in SUBSET Id : S = Id \ {n}
  OBVIOUS
<1>13. \A g \in Id \ S : g = n
  BY <1>12
<1>14. /\ \A g \in Id \ S : rec'[g].state # "unloading"
       /\ \A g \in fibers' \ S : g = n
  BY <1>1, <1>2, <1>3, <1>13
<1>15. fibers' \cap S \subseteq fibers /\ fibers' \subseteq Id
       /\ \A g \in S : KeepsPlace(g) /\ KeepsState(g) /\ KeepsMark(g)
  BY <1>1, <1>3, <1>10, <1>12
<1>16. \A g \in fibers' \ S : \E d \in 1..height' : Awaits(d, g)'
  BY <1>8, <1>9, <1>14
<1> QED BY <1>1, <1>9, <1>11, <1>14, <1>15, <1>16, RestBegun

----------------------------------------------------------------------------
(* The rest invariant holds *)

LEMMA RestStep ==
    ASSUME StaticAssembly, AInv, RestInv, Next
    PROVE  RestInv'
<1>0. Mounted /\ Flat /\ IInv /\ Plain /\ Stopped
  BY DEF AInv, IInv, Plain, RestInv
<1>1. Flat'
  <2>1. Plain'
    BY <1>0, PlainKept
  <2> QED BY <2>1 DEF Plain
<1>2. Stopped'
  BY <1>0, StoppedKept
<1>3. CASE Cascade
  BY <1>1, <1>2, <1>3, RestCascade
<1>4. ASSUME NEW c \in Roots, Mount(c) PROVE RestInv'
  BY <1>1, <1>2, <1>4, RestMounts
<1>5. ASSUME NEW f \in Id,
             \/ RequestChild(f) \/ MountChild(f) \/ RetireChild(f)
             \/ \E k \in Keys : ProvideLate(f, k) \/ ReleaseEarly(f, k)
      PROVE  RestInv'
  BY <1>0, <1>5, Excluded
<1>6. ASSUME NEW f \in Id, ApplyCompletes(f) PROVE RestInv'
  BY <1>1, <1>2, <1>6, RestPublishes, RestFails DEF ApplyCompletes
<1>7. ASSUME NEW f \in Id, NEW k \in Keys, Promote(f, k) PROVE RestInv'
  BY <1>1, <1>2, <1>7, RestPromotes
<1>8. ASSUME NEW f \in Id, NEW h \in Hosts, Retire(h, f) PROVE RestInv'
  BY <1>1, <1>2, <1>8, RestRetires
<1>9. ASSUME NEW f \in Id,
             (\E k \in Keys : Provide(f, k)) \/ Cancel(f) \/ \E h \in Hosts : WaitIdle(h)
      PROVE  RestInv'
  BY <1>1, <1>2, <1>9, RestProvides
<1>10. 1 \in Id
  BY BoundAssumption DEF Id
<1> QED BY <1>3, <1>4, <1>5, <1>6, <1>7, <1>8, <1>9, <1>10 DEF Next

LEMMA RestStutter ==
    ASSUME RestInv, UNCHANGED vars
    PROVE  RestInv'
<1>0. fibers' = fibers /\ rec' = rec /\ bindings' = bindings /\ calls' = calls /\ in_flight' = in_flight
  BY DEF vars
<1>1. stack' = stack /\ height' = height
  BY <1>0 DEF stack, height
<1>2. InFlight'
  <2>1. Transitions' = Transitions /\ Endings' = Endings
    BY <1>0, <1>1 DEF Transitions, Endings, Ends, Withdrawing
  <2> QED BY <1>0, <2>1 DEF RestInv, InFlight
<1>3. Marked' /\ Stopped'
  BY <1>0 DEF RestInv, Marked, Stopped
<1>4. Reacts'
  <2>1. \A f \in fibers : Ready(f)' => Ready(f)
    <3>1. \A f : Resolve(f)' = Resolve(f)
      <4>1. \A f, k : Lookup(f, k)' = Lookup(f, k)
        BY <1>0 DEF Lookup
      <4> QED BY <1>0, <4>1 DEF Resolve
    <3> QED BY <1>0, <3>1 DEF Ready, Loadable, Satisfiable
  <2>2. \A d, f : Awaits(d, f)' <=> Awaits(d, f)
    BY <1>1 DEF Awaits
  <2> QED BY <1>0, <1>1, <2>1, <2>2 DEF RestInv, Reacts
<1>5. \A d \in 1..height' : Notifies(d)' /\ Tame(d)'
  BY <1>0, <1>1 DEF RestInv, Notifies, Tame
<1> QED BY <1>2, <1>3, <1>4, <1>5 DEF RestInv

LEMMA RestInitially ==
    ASSUME Init PROVE RestInv
<1>0. fibers = {} /\ height = 0 /\ in_flight = 0 /\ \A f \in Id : rec[f] = NoFiber
  BY DEF Init, height
<1>1. \A f \in Id : rec[f].state = "inactive" /\ ~rec[f].applying
  BY <1>0 DEF NoFiber, NewFiber
<1>2. Transitions = {} /\ Endings = {}
  BY <1>0, <1>1 DEF Transitions, Withdrawing, Endings
<1>3. InFlight
  BY <1>0, <1>2, FS_EmptySet DEF InFlight
<1> QED BY <1>0, <1>1, <1>3 DEF RestInv, Marked, Stopped, Reacts

(* The invariant of a static assembly, and what it comes to at the end of  *)
(* a cascade, hold in every reachable state.                               *)
THEOREM RestInvariance == StaticAssembly => (Spec => [](AInv /\ RestInv))
<1> SUFFICES ASSUME StaticAssembly PROVE Spec => [](AInv /\ RestInv)
  OBVIOUS
<1>1. Init => RestInv
  BY RestInitially
<1>2. AInv /\ RestInv /\ [Next]_vars => RestInv'
  BY RestStep, RestStutter
<1>3. Spec => []AInv
  BY AssemblyInvariance
<1> QED BY <1>1, <1>2, <1>3, PTL DEF Spec

----------------------------------------------------------------------------
(* What it means for wait_idle *)

(* Only transition_finished takes in_flight_ down.                         *)
LEMMA OnlyEnding ==
    ASSUME TypeOK, Next, in_flight > 0, in_flight' = 0
    PROVE  TransitionFinished
<1>0. in_flight \in Nat /\ in_flight # 0
  BY DEF TypeOK
<1>1. in_flight' # in_flight /\ in_flight' # in_flight + 1
  BY <1>0
<1>2. CASE Cascade
  BY <1>1, <1>2 DEF Cascade, EvaluateKeeps, EvaluateUnloads, StartLoading, StartLoadingNull,
                    StartLoadingThrows, BeginUnloadKeeps, BeginUnloadActive, CascadeNext, CascadeDone,
                    FinishKeeps, Finish, ReleaseNext, ReleaseDone, NotifyNext, NotifyDone, FinishTail,
                    AwaitGate
<1>3. ASSUME NEW c \in Roots, Mount(c) PROVE FALSE
  BY <1>1, <1>3 DEF Mount
<1>4. ASSUME NEW f \in Id, RequestChild(f) \/ MountChild(f) \/ RetireChild(f) PROVE FALSE
  BY <1>1, <1>4 DEF RequestChild, MountChild, RetireChild
<1>5. ASSUME NEW f \in Id, ApplyCompletes(f) \/ Cancel(f) PROVE FALSE
  BY <1>1, <1>5 DEF ApplyCompletes, ApplyPublishes, ApplyFails, Cancel
<1>6. ASSUME NEW f \in Id, NEW k \in Keys,
             Provide(f, k) \/ ProvideLate(f, k) \/ ReleaseEarly(f, k) \/ Promote(f, k)
      PROVE  FALSE
  BY <1>1, <1>6 DEF Provide, ProvideLate, ReleaseEarly, Promote
<1>7. ASSUME NEW f \in Id, NEW h \in Hosts, Retire(h, f) PROVE FALSE
  BY <1>1, <1>7 DEF Retire
<1>8. ASSUME NEW h \in Hosts, WaitIdle(h) PROVE FALSE
  BY <1>1, <1>8 DEF WaitIdle
<1> QED BY <1>2, <1>3, <1>4, <1>5, <1>6, <1>7, <1>8 DEF Next

(* When the last transition is about to end, nothing is loading or being   *)
(* withdrawn, and no other frame will end a transition.                    *)
LEMMA LastEnding ==
    ASSUME AInv, RestInv, calls # <<>>, Top.op = "finished", in_flight = 1
    PROVE  Transitions = {} /\ Endings = {height}
<1>1. TypeOK /\ height \in Nat \ {0} /\ Top = stack[height]
  BY Setting
<1>2. /\ IsFiniteSet(Transitions) /\ IsFiniteSet(Endings)
      /\ Cardinality(Transitions) \in Nat /\ Cardinality(Endings) \in Nat
  BY <1>1, FiniteParts
<1>3. Ends(height) /\ height \in 1..height
  BY <1>1 DEF Ends
<1>4. height \in Endings
  BY <1>3 DEF Endings
<1>5. IsFiniteSet(Endings \ {height}) /\ Cardinality(Endings \ {height}) = Cardinality(Endings) - 1
  BY <1>2, <1>4, FS_RemoveElement
<1>6. Cardinality(Endings \ {height}) \in Nat
  BY <1>5, FS_CardinalityType
<1>7. 1 = Cardinality(Transitions) + Cardinality(Endings)
  BY DEF RestInv, InFlight
<1>8. Cardinality(Transitions) = 0 /\ Cardinality(Endings \ {height}) = 0
  BY <1>2, <1>5, <1>6, <1>7
<1>9. Transitions = {} /\ Endings \ {height} = {}
  BY <1>2, <1>5, <1>8, FS_EmptySet
<1> QED BY <1>4, <1>9

(* wait_idle() sees the whole cascade: when transition_finished brings     *)
(* in_flight_ to zero, and so resumes the hosts that wait, no frame that   *)
(* is left on the stack starts another transition (runtime.cpp             *)
(* transition_finished, wait_idle).                                        *)
THEOREM IdleIsIdle == StaticAssembly => (Spec => IdleSeesCascade)
<1> SUFFICES ASSUME StaticAssembly PROVE Spec => IdleSeesCascade
  OBVIOUS
<1> DEFINE Sees == in_flight > 0 /\ in_flight' = 0 => \A i \in 1..Len(calls') : Spent(calls'[i])
<1>1. AInv /\ RestInv /\ [Next]_vars => [Sees]_vars
  <2> SUFFICES ASSUME AInv, RestInv, Next, in_flight > 0, in_flight' = 0,
                      NEW i \in 1..Len(calls')
               PROVE  Spent(calls'[i])
    OBVIOUS
  <2>0. TypeOK /\ in_flight \in Nat
    BY DEF AInv, IInv, TypeOK
  <2>1. TransitionFinished
    BY <2>0, OnlyEnding
  <2>2. calls # <<>> /\ Top.op = "finished" /\ calls' = Tail(calls) /\ in_flight = 1
    BY <2>0, <2>1 DEF TransitionFinished, Running, Top, Return
  <2>3. /\ height \in Nat \ {0} /\ Top = stack[height]
        /\ \A d \in 1..height : Stacked(d) /\ stack[d] \in Frame /\ stack[d].f \in Id
    BY <2>2, Setting
  <2>4. Transitions = {} /\ Endings = {height}
    BY <2>2, LastEnding
  <2>5. PICK d : d = height - i
    OBVIOUS
  <2>6. d \in 1..height /\ d # height /\ calls'[i] = stack[d]
    <3>1. calls \in Seq(Frame) /\ Len(calls) \in Nat \ {0}
      BY <2>0, <2>3 DEF TypeOK, height
    <3>2. Len(calls') = Len(calls) - 1 /\ i \in 1..(Len(calls) - 1)
      BY <2>2, <3>1
    <3>3. calls'[i] = calls[i + 1]
      BY <2>2, <3>1, <3>2
    <3>4. d \in 1..Len(calls) /\ d # Len(calls) /\ Len(calls) + 1 - d = i + 1
      BY <2>5, <3>1, <3>2 DEF height
    <3> QED BY <3>3, <3>4 DEF height, stack
  <2>7. Stacked(d) /\ Notifies(d) /\ ~Ends(d)
    BY <2>3, <2>4, <2>6 DEF RestInv, Endings
  <2>8. stack[d].op \in {"cascade", "await"}
    <3>1. stack[d].op \in Op
      BY <2>3, <2>6 DEF Frame
    <3>2. stack[d].op \notin {"begin_unload", "finish", "evaluate"}
      BY <2>6, <2>7 DEF Stacked, Held
    <3>3. stack[d].op # "notify"
      BY <2>2, <2>3, <2>6, <2>7 DEF Notifies
    <3> QED BY <2>7, <3>1, <3>2, <3>3 DEF Ends, Op
  <2>9. CASE stack[d].op = "await"
    BY <2>6, <2>9 DEF Spent
  <2>10. CASE stack[d].op = "cascade"
    <3>1. PICK f \in Id : f = stack[d].f
      BY <2>3, <2>6
    <3>2. ~Withdrawing(f)
      BY <2>4 DEF Transitions
    <3>3. rec[f].state = "inactive"
      BY <2>7, <2>10, <3>1, <3>2 DEF Stacked, StaysDown, Withdrawing
    <3>4. ~MayFinish(f)
      BY <3>3 DEF MayFinish
    <3>5. ASSUME NEW t \in stack[d].todo, rec[t[2]].state = "active" PROVE FALSE
      <4>1. t[2] \in Id /\ (Published(t[2]) => t[2] \in rec[f].consumers)
        BY <2>0, <2>7, <2>10, <3>1 DEF Stacked, Cascades, TypeOK
      <4>2. Published(t[2])
        BY <3>5, <4>1 DEF Published, AInv, AssemblyInv, Records, Loads
      <4>3. Published(f)
        BY <4>1, <4>2 DEF AInv, AssemblyInv, Records, Counts
      <4> QED BY <3>3, <4>3 DEF Published
    <3> QED BY <2>6, <2>10, <3>1, <3>4, <3>5 DEF Spent
  <2> QED BY <2>8, <2>9, <2>10
<1>2. Spec => [][Sees]_vars
  BY <1>1, RestInvariance, PTL DEF Spec
<1> QED BY <1>2 DEF IdleSeesCascade

(* Between handlers a fiber that could load has been tried: only a         *)
(* cancelled one, or one whose factory returns null, is left behind.       *)
LEMMA NoneReady ==
    ASSUME AInv, RestInv, calls = <<>>, NEW f \in fibers
    PROVE  ~Ready(f)
<1>1. height = 0
  BY AtRest
<1> QED BY <1>1 DEF RestInv, Reacts

(* Between handlers an active fiber has the view it would resolve.         *)
LEMMA ActiveAtTarget ==
    ASSUME StaticAssembly, AInv, calls = <<>>, NEW f \in fibers, rec[f].state = "active"
    PROVE  Satisfiable(f) /\ Resolve(f) = rec[f].committed
<1>0. TypeOK /\ f \in Id /\ Flat /\ Committed(f) /\ Bindings /\ rec[f].comp \in Comp
  BY DEF AInv, IInv, TypeOK, Plain, AssemblyInv, Mounted
<1>1. Published(f)
  BY <1>0, AtRest
<1>2. ASSUME NEW k \in Keys, rec[f].committed[k] # 0
      PROVE  LET b == Lookup(f, k)
             IN  b.provider = rec[f].committed[k] /\ b.state = "active" /\ b.available
  <2>1. PICK p \in Id : p = rec[f].committed[k]
    BY <1>0, <1>1, <1>2, ProvidersOf
  <2>2. Published(p) /\ bindings[0][k].provider = p /\ bindings[0][k].available
    BY <1>0, <1>1, <1>2, <2>1, ProvidersOf
  <2>3. rec[p].state = "active" /\ ~rec[p].applying
    BY <2>2, AtRest DEF Published
  <2>4. p # 0
    BY BoundAssumption DEF Id
  <2>5. bindings[0][k].state = "active"
    BY <1>0, <2>2, <2>3, <2>4, BoundBy DEF Phase
  <2>6. Lookup(f, k) = bindings[0][k]
    BY <1>0, OneContext
  <2> QED BY <2>1, <2>2, <2>5, <2>6
<1>3. ProvidersStillActive(f)
  BY <1>2 DEF ProvidersStillActive
<1>4. rec[f].committed = Resolve(f)
  BY <1>0, <1>3, StillResolved
<1>5. Satisfiable(f)
  <2>1. \A k \in Inject[rec[f].comp] : rec[f].committed[k] # 0
    BY <1>0, <1>1, NeedsMet
  <2> QED BY <1>0, <1>4, <2>1, AllRequired DEF Satisfiable
<1> QED BY <1>4, <1>5

(* At rest, no fiber that has neither failed nor been retired or cancelled *)
(* is left inactive although its dependencies resolve (runtime.cpp         *)
(* evaluate, notify, on_apply_completed).                                  *)
THEOREM NoneParked ==
    StaticAssembly /\ (\A c \in Comp : Factory[c] = "instance") => (Spec => []ParkedOnlyIfUnresolved)
<1> SUFFICES ASSUME StaticAssembly, \A c \in Comp : Factory[c] = "instance"
             PROVE  Spec => []ParkedOnlyIfUnresolved
  OBVIOUS
<1>1. AInv /\ RestInv => ParkedOnlyIfUnresolved
  <2> SUFFICES ASSUME AInv, RestInv, calls = <<>>, NEW f \in fibers,
                      rec[f].comp \notin Cancellable, Loadable(f)
               PROVE  FALSE
    BY DEF ParkedOnlyIfUnresolved, StrandFree
  <2>1. rec[f].comp \in Comp
    BY DEF AInv, IInv, TypeOK, Mounted
  <2>2. Ready(f)
    BY <2>1 DEF Ready
  <2> QED BY <2>2, NoneReady
<1> QED BY <1>1, RestInvariance, PTL

(* The settled state: between handlers with no transition in progress      *)
(* every fiber that is neither retired nor failed is at the view it would  *)
(* resolve now (runtime.cpp settled, evaluate).                            *)
THEOREM Settled ==
    StaticAssembly /\ Cancellable = {} /\ (\A c \in Comp : Factory[c] = "instance")
        => (Spec => []SettledAtTarget)
<1> SUFFICES ASSUME StaticAssembly, Cancellable = {}, \A c \in Comp : Factory[c] = "instance"
             PROVE  Spec => []SettledAtTarget
  OBVIOUS
<1>1. AInv /\ RestInv => SettledAtTarget
  <2> SUFFICES ASSUME AInv, RestInv, calls = <<>>, NEW f \in fibers, WouldAct(f)
               PROVE  FALSE
    BY DEF SettledAtTarget, StrandFree
  <2>1. ~Loadable(f)
    <3>1. rec[f].comp \in Comp /\ rec[f].comp \notin Cancellable
      BY DEF AInv, IInv, TypeOK, Mounted
    <3>2. Loadable(f) => Ready(f)
      BY <3>1 DEF Ready
    <3> QED BY <3>2, NoneReady
  <2>2. rec[f].state = "active" /\ ~(Satisfiable(f) /\ Resolve(f) = rec[f].committed)
    BY <2>1 DEF WouldAct
  <2> QED BY <2>2, ActiveAtTarget
<1> QED BY <1>1, RestInvariance, PTL
=============================================================================
