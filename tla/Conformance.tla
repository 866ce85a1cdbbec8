------------------------------ MODULE Conformance ------------------------------
(***************************************************************************)
(* The repository's conformance test (src/proof/conformance): the engine   *)
(* and the reference machine are driven by the same operations, each from  *)
(* a settled state, and must settle alike.  Here the engine is Runtime,    *)
(* whose applies may complete in any order, and whatever was started last. *)
(* The reference machine (src/proof/oracle/oracle.hpp) is the paper's      *)
(* rules restated without the engine: each operation runs to its fixpoint  *)
(* before the next begins, so it is a function from states to states.      *)
(***************************************************************************)
EXTENDS Integers, FiniteSets, SequencesExt

CONSTANTS
    Slots,         \* where components are inserted
    Comp,          \* the pool of components
    Keys,          \* service keys, naturals
    Inject,        \* [Comp -> SUBSET Keys]
    Required,      \* [Comp -> SUBSET Keys]
    Provides,      \* [Comp -> SUBSET Keys]
    Failing,       \* SUBSET Comp: apply() throws
    MaxFiber       \* bound: the operations that mount

Ascending(S) == SetToSortSeq(S, <)
Free == [provider |-> 0, state |-> "none"]
Uncommitted == [k \in Keys |-> 0]
Fiber(s, c) ==
    [slot |-> s, comp |-> c, state |-> "inactive", failed |-> FALSE, reactivate |-> 0,
     committed |-> Uncommitted, consumers |-> {}, remaining |-> 0]

Blank ==     \* the machine before any operation
    [fibers |-> << >>, slot |-> [s \in Slots |-> 0], bindings |-> [k \in Keys |-> Free],
     work |-> << >>, next |-> 1]

Component(m, f) == m.fibers[f].comp
View(m, f) ==
    [k \in Keys |->
        IF k \in Inject[Component(m, f)] /\ m.bindings[k].state = "active" /\ m.bindings[k].provider # f
        THEN m.bindings[k].provider ELSE 0]
Satisfied(m, f) == \A k \in Required[Component(m, f)] : View(m, f)[k] # 0
Stale(m, f) ==
    \E k \in Keys : LET p == m.fibers[f].committed[k]
                    IN  p # 0 /\ m.bindings[k] # [provider |-> p, state |-> "active"]

StartLoading(m, f) ==
    [m EXCEPT !.fibers[f].state = "loading", !.fibers[f].committed = View(m, f),
              !.work = Append(@, f)]

Own(m, f) == {k \in Provides[Component(m, f)] : m.bindings[k].provider = f}
Retiring(m, f) ==
    [m EXCEPT !.bindings = [k \in Keys |-> IF k \in Own(m, f) THEN [@[k] EXCEPT !.state = "retiring"] ELSE @[k]]]
Teardown(m, f) ==
    [m EXCEPT !.bindings = [k \in Keys |-> IF k \in Own(m, f) THEN Free ELSE @[k]]]

----------------------------------------------------------------------------
RECURSIVE Evaluate(_, _), BeginUnload(_, _, _), MaybeFinish(_, _)

Evaluate(m, f) ==
    LET x == m.fibers[f]
    IN  CASE x.state \in {"loading", "unloading"} \/ x.reactivate < 0 -> m
          [] x.state = "inactive" /\ Satisfied(m, f) /\ ~x.failed -> StartLoading(m, f)
          [] x.state = "inactive" -> m
          [] Satisfied(m, f) /\ View(m, f) = x.committed -> m
          [] OTHER -> BeginUnload(m, f, Satisfied(m, f))

Dependents(m, k) == Ascending({f \in DOMAIN m.fibers : k \in Inject[Component(m, f)]})
Notify(m, keys) ==
    FoldLeft(LAMBDA n, k : FoldLeft(Evaluate, n, Dependents(n, k)), m, Ascending(keys))

(* f is unloaded; its consumers go first, from a copy of their set, and    *)
(* the last of them to finish finishes f.                                  *)
BeginUnload(m, f, flag) ==
    LET x == m.fibers[f]
        marked == IF x.reactivate >= 0 /\ flag THEN [m EXCEPT !.fibers[f].reactivate = 1] ELSE m
        gone == [marked EXCEPT !.fibers[f].state = "unloading"]
        waits == {c \in x.consumers \cap DOMAIN m.fibers : m.fibers[c].state # "inactive"}
        counted == [Retiring(gone, f) EXCEPT !.fibers[f].remaining = @ + Cardinality(waits)]
    IN  CASE x.state \in {"unloading", "inactive"} -> marked
          [] x.state = "loading" -> gone
          [] OTHER -> MaybeFinish(FoldLeft(LAMBDA n, c : BeginUnload(n, c, TRUE), counted,
                                           Ascending(x.consumers \cap DOMAIN m.fibers)), f)

Released(m, f, p) ==     \* f no longer consumes p
    IF p \notin DOMAIN m.fibers THEN m
    ELSE LET n == [m EXCEPT !.fibers[p].consumers = @ \ {f}]
         IN  IF n.fibers[p].remaining = 0 THEN n
             ELSE MaybeFinish([n EXCEPT !.fibers[p].remaining = @ - 1], p)

Finish(m, f) ==
    LET view == m.fibers[f].committed
        down == [Teardown(m, f) EXCEPT !.fibers[f].committed = Uncommitted, !.fibers[f].state = "inactive"]
        freed == FoldLeft(LAMBDA n, k : Released(n, f, view[k]), down, Ascending({k \in Keys : view[k] # 0}))
        told == Notify(freed, Provides[Component(m, f)])
    IN  IF told.fibers[f].reactivate > 0 THEN Evaluate([told EXCEPT !.fibers[f].reactivate = 0], f) ELSE told

MaybeFinish(m, f) ==
    IF m.fibers[f].state = "unloading" /\ m.fibers[f].remaining = 0 THEN Finish(m, f) ELSE m

----------------------------------------------------------------------------
Publish(m, f) ==
    LET x == m.fibers[f]
        up == [m EXCEPT
                !.bindings = [k \in Keys |-> IF k \in Provides[x.comp]
                                             THEN [provider |-> f, state |-> "active"] ELSE @[k]],
                !.fibers = [g \in DOMAIN @ |->
                    IF g = f THEN [@[g] EXCEPT !.state = "active"]
                    ELSE IF \E k \in Keys : x.committed[k] = g THEN [@[g] EXCEPT !.consumers = @ \cup {f}]
                    ELSE @[g]]]
    IN  Notify(up, Provides[x.comp])

ApplyCompleted(m, f) ==
    LET x == m.fibers[f]
        fails == x.comp \in Failing
        down == [Teardown(m, f) EXCEPT !.fibers[f].state = "inactive", !.fibers[f].committed = Uncommitted,
                                       !.fibers[f].failed = @ \/ fails]
    IN  IF ~fails /\ ~Stale(m, f) /\ x.state = "loading" THEN Publish(m, f)
        ELSE IF Stale(m, f) /\ x.reactivate >= 0 THEN Evaluate(down, f)
        ELSE down

(* Every pending apply completes, in the order in which they were spawned. *)
RECURSIVE Drain(_)
Drain(m) ==
    IF m.work = << >> THEN m
    ELSE LET f == Head(m.work)
             n == [m EXCEPT !.work = Tail(@)]
         IN  Drain(IF f \in DOMAIN n.fibers THEN ApplyCompleted(n, f) ELSE n)

Erased(m, f) ==
    [m EXCEPT !.fibers = [g \in DOMAIN @ \ {f} |-> @[g]], !.slot[m.fibers[f].slot] = 0]

MountAt(m, s, c) ==
    LET f == m.next
        n == [m EXCEPT !.next = @ + 1, !.slot[s] = f,
                       !.fibers = [g \in DOMAIN @ \cup {f} |-> IF g = f THEN Fiber(s, c) ELSE @[g]]]
    IN  Drain(Evaluate(n, f))

RetireAt(m, s) ==
    LET f == m.slot[s]
    IN  Erased(Drain(BeginUnload([m EXCEPT !.fibers[f].reactivate = -1], f, FALSE)), f)

----------------------------------------------------------------------------
(* The engine beside the reference machine.                                *)
VARIABLES
    next_id, fibers, rec, bindings, in_flight, host, posted, calls,     \* the engine's
    machine        \* the reference machine

engine == <<next_id, fibers, rec, bindings, in_flight, host, posted, calls>>
vars == <<engine, machine>>

E == INSTANCE Runtime WITH
        Roots <- Comp, Child <- [c \in Comp |-> "none"], NoComp <- "none", Fallible <- Failing, Gated <- {},
        Releaser <- {}, Listener <- {}, Cancellable <- {}, Factory <- [c \in Comp |-> "instance"],
        SingleSource <- FALSE, Hosts <- {"test"}

Settled == E!StrandFree /\ in_flight = 0 /\ host["test"] = "free"

Init == E!Init /\ machine = Blank

(* The self-provider is confined to one slot, as two of them would never   *)
(* settle.                                                                 *)
Admissible(s, c) == machine.slot[s] = 0 /\ (Inject[c] \cap Provides[c] # {} => s = 1)

MountOp(s, c) ==
    /\ Settled /\ Admissible(s, c)
    /\ E!Mount(c)
    /\ machine' = MountAt(machine, s, c)

RetireOp(s) ==
    /\ Settled /\ machine.slot[s] # 0
    /\ E!Retire("test", machine.slot[s])
    /\ machine' = RetireAt(machine, s)

(* The test's components provide what they declare, and a failing one      *)
(* throws before it has provided anything.                                 *)
Completes(f) ==
    IF rec[f].comp \in Failing THEN E!ApplyFails(f, TRUE)
    ELSE (E!ApplyPublishes(f) /\ E!Bound(f) = Provides[rec[f].comp]) \/ E!ApplyFails(f, FALSE)

Works ==
    /\ \/ E!Cascade
       \/ \E f \in E!Id : Completes(f) \/ \E k \in Keys : E!Provide(f, k)
    /\ UNCHANGED machine

Next == Works \/ \E s \in Slots : RetireOp(s) \/ \E c \in Comp : MountOp(s, c)
Spec == Init /\ [][Next]_vars

(* Whenever the engine has settled it agrees with the reference machine:   *)
(* the same fibers are mounted, each in the same state, against the same   *)
(* providers and with the same failures, and every key is bound to the     *)
(* same fiber; so the order in which applies complete does not show.       *)
Conforms ==
    Settled =>
        /\ fibers = DOMAIN machine.fibers
        /\ \A f \in fibers : /\ rec[f].state = machine.fibers[f].state
                             /\ rec[f].committed = machine.fibers[f].committed
                             /\ rec[f].apply_failed = machine.fibers[f].failed
        /\ \A k \in Keys : bindings[0][k].provider = machine.bindings[k].provider
===============================================================================
