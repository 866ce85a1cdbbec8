------------------------------- MODULE EventBus -------------------------------
(***************************************************************************)
(* One entry of the typed event bus (include/araya/events.hpp): its list   *)
(* of listeners, and the dispatches in flight over it.                     *)
(*                                                                         *)
(* The list is replaced, never edited: a dispatch keeps the vector it      *)
(* began with, and add and remove install a new one.  add COPIES the slots *)
(* into the new vector; remove MOVES them, so that a dispatch which shares *)
(* the vector being replaced is left with empty slots, and a callable that *)
(* is suspended in one of them now lives in the new vector.  The model     *)
(* numbers the vectors: version is the current one, snap the one a         *)
(* dispatch holds, at the one a running callable lives in.                 *)
(*                                                                         *)
(* Everything runs on the control strand.  The loop of an emit or parallel *)
(* dispatch is one handler, in which the first segment of a listener it    *)
(* has just spawned may already run.                                       *)
(***************************************************************************)
EXTENDS Integers, Sequences, FiniteSets

CONSTANTS
    Listener,     \* the registrations (tokens are never reused)
    Dispatcher,   \* the dispatches, each begun at most once
    Modes,        \* the dispatch modes to explore
    Once,         \* SUBSET Listener: listener_options::once
    Prepend,      \* SUBSET Listener: listener_options::prepend
    Scoped,       \* SUBSET Dispatcher: those carrying a scope
    Deaf,         \* SUBSET Listener \X Scoped: pairs of different realms
    Preset,       \* SUBSET Listener: registered before the first dispatch begins
    MaxChanges    \* bound: how often listeners are added and released after that

ASSUME ModeAssumption == Modes \subseteq {"serial", "bail", "waterfall", "parallel", "emit"}
ASSUME OptionAssumption ==
    /\ Once \subseteq Listener /\ Prepend \subseteq Listener
    /\ Preset \subseteq Listener \ Prepend /\ MaxChanges \in Nat
    /\ IsFiniteSet(Listener)
    /\ Scoped \subseteq Dispatcher /\ Deaf \subseteq Listener \X Scoped

VARIABLES
    mode,        \* the mode of the entry
    listeners,   \* *listeners_, as registrations in delivery order
    version,     \* which vector listeners_ points to
    reg,         \* [Listener -> {"new", "held", "released"}] the registration
    since,       \* [Listener -> Nat] the first vector it was in
    dispatch,    \* [Dispatcher -> Dispatch]
    calls,       \* [Dispatcher -> [Listener -> Call]]
    sink         \* exceptions reported to the diagnostic sink

vars == <<mode, listeners, version, reg, since, dispatch, calls, sink>>

Slot == [l : Listener, full : BOOLEAN]
Dispatch ==
    [phase : {"idle", "loop", "awaiting", "unwinding", "gate", "done"},
     outcome : {"none", "ok", "threw", "bailed", "empty"},
     list : Seq(Slot), pos : Nat \ {0}, snap : Nat, private : BOOLEAN, remaining : Nat]
Call == [state : {"none", "spawned", "running", "returned", "threw"}, at : Nat]

NoDispatch == [phase |-> "idle", outcome |-> "none", list |-> <<>>, pos |-> 1,
               snap |-> 0, private |-> FALSE, remaining |-> 0]
NoCall == [state |-> "none", at |-> 0]

Init ==
    /\ mode \in Modes
    /\ listeners \in [1..Cardinality(Preset) -> Preset]
    /\ \A l \in Preset : \E i \in DOMAIN listeners : listeners[i] = l
    /\ version = 1
    /\ reg = [l \in Listener |-> IF l \in Preset THEN "held" ELSE "new"] /\ since = [l \in Listener |-> 0]
    /\ dispatch = [d \in Dispatcher |-> NoDispatch]
    /\ calls = [d \in Dispatcher |-> [l \in Listener |-> NoCall]]
    /\ sink = 0

----------------------------------------------------------------------------
StrandFree == \A d \in Dispatcher : dispatch[d].phase # "loop"

(* d may act: the strand is free, or its own loop runs.                    *)
MayAct(d) == \A e \in Dispatcher : dispatch[e].phase = "loop" => e = d

(* A listener's inline first segment may use the bus.                      *)
Inline == \E d \in Dispatcher, l \in Listener :
             dispatch[d].phase = "loop" /\ calls[d][l].state = "running"

Pending(d) == \E l \in Listener : calls[d][l].state \in {"spawned", "running"}

(* d keeps its vector: in its frame, in a continuation, or (emit) in the   *)
(* completion handlers of the listeners it spawned.                        *)
Holds(d) == \/ dispatch[d].phase \in {"loop", "awaiting", "unwinding", "gate"}
            \/ mode = "emit" /\ dispatch[d].phase = "done" /\ Pending(d)

Shares(d) == Holds(d) /\ dispatch[d].snap = version /\ ~dispatch[d].private

(* deliver(): without a scope every listener hears the dispatch.           *)
Hears(d, l) == d \notin Scoped \/ <<l, d>> \notin Deaf

Changes == Cardinality({l \in Listener \ Preset : reg[l] # "new"})
           + Cardinality({l \in Listener : reg[l] = "released"})

(* Where a listener may be added or released.                              *)
MayChange == (StrandFree \/ Inline) /\ Changes < MaxChanges

(* The listeners on the list, and the vectors that hold some of them in    *)
(* the order of the list: there is one for each set.                       *)
Listed == {l \in Listener : \E i \in DOMAIN listeners : listeners[i] = l}
PositionOf(l) == CHOOSE i \in DOMAIN listeners : listeners[i] = l
Selections(S) ==
    {h \in [1..Cardinality(S) -> S] :
        /\ \A l \in S : \E i \in DOMAIN h : h[i] = l
        /\ \A i, j \in DOMAIN h : i < j => PositionOf(h[i]) < PositionOf(h[j])}

(* remove(l): the slots are moved out of the current vector ...            *)
Emptied(disp, l) ==
    [d \in Dispatcher |->
        IF ~Shares(d) THEN disp[d]
        ELSE [disp[d] EXCEPT !.list =
                [i \in DOMAIN dispatch[d].list |->
                    LET s == dispatch[d].list[i]
                    IN  [l |-> s.l, full |-> s.full /\ s.l = l]]]]

(* ... and with them the callables that are running in it.                 *)
Moved(cl, l) ==
    [d \in Dispatcher |-> [m \in Listener |->
        IF m # l /\ calls[d][m].state = "running" /\ calls[d][m].at = version
        THEN [cl[d][m] EXCEPT !.at = version + 1] ELSE cl[d][m]]]

(* The current vector without l, installed; repeat removals do it again.   *)
Removed(l) ==
    /\ listeners' \in Selections(Listed \ {l})
    /\ version' = version + 1

Inserted(l) == IF l \in Prepend THEN <<l>> \o listeners ELSE Append(listeners, l)

(* add_listener: a copy of the vector, with the new slot.                  *)
Add(l) ==
    /\ MayChange
    /\ reg[l] = "new" /\ reg' = [reg EXCEPT ![l] = "held"]
    /\ listeners' = Inserted(l) /\ version' = version + 1
    /\ since' = [since EXCEPT ![l] = version + 1]
    /\ UNCHANGED <<mode, dispatch, calls, sink>>

(* The cleanup of the registration: an early release(), or the teardown of *)
(* the fiber that owns the listener.                                       *)
Release(l) ==
    /\ MayChange
    /\ reg[l] = "held" /\ reg' = [reg EXCEPT ![l] = "released"]
    /\ Removed(l)
    /\ dispatch' = Emptied(dispatch, l)
    /\ calls' = Moved(calls, l)
    /\ UNCHANGED <<mode, since, sink>>

----------------------------------------------------------------------------
AllSlots(d) == Cardinality(Listed)    \* mutant: the gate also waits for the deaf

Listening(d) == {l \in Listed : Hears(d, l)}

(* How many listeners the gate of a parallel dispatch waits for.           *)
Total(d) == Cardinality(Listening(d))

(* dispatch(): take the current vector; a scoped waterfall filters it into *)
(* a vector of its own.                                                    *)
Begin(d) ==
    /\ StrandFree /\ dispatch[d].phase = "idle"
    /\ LET private == mode = "waterfall" /\ d \in Scoped
       IN  \E slots \in Selections(IF private THEN Listening(d) ELSE Listed) :
             dispatch' = [dispatch EXCEPT ![d] =
               [phase |-> "loop", outcome |-> "none",
                list |-> [i \in DOMAIN slots |-> [l |-> slots[i], full |-> TRUE]],
                pos |-> 1, snap |-> version, private |-> private, remaining |-> Total(d)]]
    /\ UNCHANGED <<mode, listeners, version, reg, since, calls, sink>>

At(d) == dispatch[d].list[dispatch[d].pos]
InLoop(d) == dispatch[d].phase = "loop" /\ dispatch[d].pos <= Len(dispatch[d].list)

(* A slot whose listener does not hear this dispatch.                      *)
Skip(d) ==
    /\ InLoop(d) /\ ~Hears(d, At(d).l)
    /\ dispatch' = [dispatch EXCEPT ![d].pos = @ + 1]
    /\ UNCHANGED <<mode, listeners, version, reg, since, calls, sink>>

Lives(d) == IF dispatch[d].private THEN 0 ELSE dispatch[d].snap

(* slot.fn(...): a once listener first removes itself from the list.  Its  *)
(* wrapper keeps no mark that it has run, so that a dispatch which already *)
(* holds the slot calls it again.                                          *)
Enter(d, l, disp) ==
    LET entered == [calls EXCEPT ![d][l] = [state |-> "running", at |-> Lives(d)]]
    IN  IF l \in Once
        THEN /\ Removed(l) /\ dispatch' = Emptied(disp, l) /\ calls' = Moved(entered, l)
        ELSE /\ dispatch' = disp /\ calls' = entered
             /\ UNCHANGED <<listeners, version>>

(* The loop reaches a slot: serial, bail and waterfall await the listener, *)
(* parallel goes on.                                                       *)
Invoke(d) ==
    /\ InLoop(d) /\ Hears(d, At(d).l) /\ At(d).full /\ mode # "emit"
    /\ LET x == dispatch[d]
       IN  Enter(d, At(d).l,
                 [dispatch EXCEPT ![d] = IF mode = "parallel" THEN [x EXCEPT !.pos = x.pos + 1]
                                         ELSE [x EXCEPT !.phase = "awaiting"]])
    /\ UNCHANGED <<mode, reg, since, sink>>

(* An emptied slot: std::bad_function_call ends the dispatch.              *)
InvokeEmpty(d) ==
    /\ InLoop(d) /\ Hears(d, At(d).l) /\ ~At(d).full /\ mode # "emit"
    /\ dispatch' = [dispatch EXCEPT ![d].phase = "done", ![d].outcome = "empty"]
    /\ UNCHANGED <<mode, listeners, version, reg, since, calls, sink>>

(* emit spawns a coroutine per slot; what it calls is looked up when the   *)
(* coroutine starts.                                                       *)
Spawn(d) ==
    /\ InLoop(d) /\ Hears(d, At(d).l) /\ mode = "emit"
    /\ calls' = [calls EXCEPT ![d][At(d).l].state = "spawned"]
    /\ dispatch' = [dispatch EXCEPT ![d].pos = @ + 1]
    /\ UNCHANGED <<mode, listeners, version, reg, since, sink>>

SlotOf(d, l) == CHOOSE i \in 1..Len(dispatch[d].list) : dispatch[d].list[i].l = l

Start(d, l) ==
    /\ MayAct(d) /\ calls[d][l].state = "spawned"
    /\ IF dispatch[d].list[SlotOf(d, l)].full
       THEN Enter(d, l, dispatch) /\ UNCHANGED sink
       ELSE /\ calls' = [calls EXCEPT ![d][l].state = "threw"]
            /\ sink' = sink + 1
            /\ UNCHANGED <<listeners, version, dispatch>>
    /\ UNCHANGED <<mode, reg, since>>

Called(d) == {l \in Listener : calls[d][l].state # "none"}

(* The loop is through: emit returns, parallel waits at its gate.          *)
LoopEnds(d) ==
    /\ dispatch[d].phase = "loop" /\ dispatch[d].pos > Len(dispatch[d].list)
    /\ LET x == dispatch[d]
       IN  dispatch' = [dispatch EXCEPT ![d] =
             IF mode = "parallel" /\ (x.remaining > 0 \/ Called(d) # {})
             THEN [x EXCEPT !.phase = "gate"]
             ELSE [x EXCEPT !.phase = "done", !.outcome = "ok"]]
    /\ UNCHANGED <<mode, listeners, version, reg, since, calls, sink>>

(* A waterfall listener calls next(), at most once: the following slot is  *)
(* entered; an empty one throws into the caller, which may catch.          *)
CallNext(d) ==
    LET i == dispatch[d].pos + 1
    IN  /\ mode = "waterfall" /\ StrandFree
        /\ dispatch[d].phase = "awaiting" /\ i <= Len(dispatch[d].list)
        /\ IF dispatch[d].list[i].full
           THEN Enter(d, dispatch[d].list[i].l, [dispatch EXCEPT ![d].pos = i])
           ELSE /\ dispatch' = [dispatch EXCEPT ![d].phase = "unwinding"]
                /\ UNCHANGED <<listeners, version, calls>>
        /\ UNCHANGED <<mode, reg, since, sink>>

(* A listener of d returns or throws.                                      *)
Complete(d, l, threw) ==
    /\ MayAct(d) /\ calls[d][l].state = "running"
    /\ mode \in {"serial", "bail", "waterfall"} => l = At(d).l
    /\ calls' = [calls EXCEPT ![d][l].state = IF threw THEN "threw" ELSE "returned"]
    /\ sink' = IF mode = "emit" /\ threw THEN sink + 1 ELSE sink
    /\ \/ /\ mode = "emit" /\ UNCHANGED dispatch
       \/ /\ mode = "parallel"
          /\ dispatch' = [dispatch EXCEPT ![d].remaining = @ - 1]
       \/ /\ mode \in {"serial", "bail"} /\ threw
          /\ dispatch' = [dispatch EXCEPT ![d].phase = "done", ![d].outcome = "threw"]
       \/ /\ mode = "bail" /\ ~threw
          /\ dispatch' = [dispatch EXCEPT ![d].phase = "done", ![d].outcome = "bailed"]
       \/ /\ mode \in {"serial", "bail"} /\ ~threw
          /\ dispatch' = [dispatch EXCEPT ![d].phase = "loop", ![d].pos = @ + 1]
       \/ /\ mode = "waterfall"
          /\ LET x == dispatch[d]
             IN  dispatch' = [dispatch EXCEPT ![d] =
                   IF x.pos > 1 THEN [x EXCEPT !.phase = "unwinding", !.pos = x.pos - 1]
                   ELSE [x EXCEPT !.phase = "done", !.outcome = IF threw THEN "threw" ELSE "ok"]]
    /\ UNCHANGED <<mode, listeners, version, reg, since>>

GateOpensQuietly(d) ==    \* mutant: the first failure is dropped
    /\ StrandFree /\ dispatch[d].phase = "gate" /\ dispatch[d].remaining = 0
    /\ dispatch' = [dispatch EXCEPT ![d].phase = "done", ![d].outcome = "ok"]
    /\ UNCHANGED <<mode, listeners, version, reg, since, calls, sink>>

(* The gate of a parallel dispatch opens; the first failure is rethrown.   *)
GateOpens(d) ==
    /\ StrandFree /\ dispatch[d].phase = "gate" /\ dispatch[d].remaining = 0
    /\ dispatch' = [dispatch EXCEPT ![d].phase = "done",
         ![d].outcome = IF \E l \in Listener : calls[d][l].state = "threw" THEN "threw" ELSE "ok"]
    /\ UNCHANGED <<mode, listeners, version, reg, since, calls, sink>>

Next ==
    \/ \E l \in Listener : Add(l) \/ Release(l)
    \/ \E d \in Dispatcher :
          \/ Begin(d) \/ Skip(d) \/ Invoke(d) \/ InvokeEmpty(d) \/ Spawn(d)
          \/ LoopEnds(d) \/ CallNext(d) \/ GateOpens(d)
          \/ \E l \in Listener : Start(d, l)
          \/ \E l \in Listener, threw \in BOOLEAN : Complete(d, l, threw)

Spec == Init /\ [][Next]_vars

(* The strand runs every handler it was given, and every listener returns  *)
(* or throws in the end.                                                   *)
Fairness ==
    \A d \in Dispatcher :
        /\ WF_vars(Skip(d) \/ Invoke(d) \/ InvokeEmpty(d) \/ Spawn(d) \/ LoopEnds(d))
        /\ WF_vars(GateOpens(d))
        /\ \A l \in Listener : /\ WF_vars(Start(d, l))
                               /\ WF_vars(\E threw \in BOOLEAN : Complete(d, l, threw))

FairSpec == Spec /\ Fairness

----------------------------------------------------------------------------
(* Every variable has its type; a gate never counts below zero.            *)
TypeOK ==
    /\ mode \in Modes /\ listeners \in Seq(Listener) /\ version \in Nat /\ sink \in Nat
    /\ reg \in [Listener -> {"new", "held", "released"}] /\ since \in [Listener -> Nat]
    /\ dispatch \in [Dispatcher -> Dispatch]
    /\ calls \in [Dispatcher -> [Listener -> Call]]

(* The listeners d was to call, and those that have answered.              *)
Heard(d) == {l \in Listener : /\ \E i \in DOMAIN dispatch[d].list : dispatch[d].list[i].l = l
                              /\ Hears(d, l)}
Finished(d) == {l \in Listener : calls[d][l].state \in {"returned", "threw"}}

(* A parallel dispatch awaits every listener it has called, and its gate   *)
(* counts the ones it has still to hear from, in whatever order they were  *)
(* entered, removed and completed (dispatch_parallel, parallel_state).     *)
GateAccounting ==
    \A d \in Dispatcher : mode = "parallel" =>
        /\ dispatch[d].phase # "idle" =>
              dispatch[d].remaining = Cardinality(Heard(d)) - Cardinality(Finished(d))
        /\ dispatch[d].outcome \in {"ok", "threw"} => Called(d) = Finished(d) /\ Called(d) = Heard(d)

(* Copy on write: a dispatch never calls a listener added after it began,  *)
(* not even one a listener of that same dispatch has added.                *)
AddedLater ==
    \A d \in Dispatcher, l \in Listener :
        calls[d][l].state # "none" => since[l] <= dispatch[d].snap

(* What becomes of a failure: serial and bail stop at the first listener   *)
(* that throws and rethrow it; parallel hears everybody, then rethrows;    *)
(* emit reports each to the sink.  A dispatch that ends well has run every *)
(* listener it was owed (bail: none of them answered true).                *)
FailureSemantics ==
    /\ mode = "emit" =>
          sink = Cardinality({c \in Dispatcher \X Listener : calls[c[1]][c[2]].state = "threw"})
    /\ \A d \in Dispatcher :
          LET failed == {l \in Listener : calls[d][l].state = "threw"}
          IN  /\ mode \in {"serial", "bail"} =>
                    /\ Cardinality(failed) <= 1
                    /\ dispatch[d].outcome = "threw" <=> failed # {}
                    /\ failed # {} => \A l \in Listener :
                         (\E i \in dispatch[d].pos + 1 .. Len(dispatch[d].list) :
                              dispatch[d].list[i].l = l) => l \notin Called(d)
              /\ mode = "parallel" /\ dispatch[d].outcome \in {"ok", "threw"} =>
                    (dispatch[d].outcome = "threw" <=> failed # {})
              /\ mode \in {"serial", "bail"} /\ dispatch[d].outcome = "ok" => Finished(d) = Heard(d)

(* The listeners in d's vector.                                            *)
InList(d) == {l \in Listener : \E i \in DOMAIN dispatch[d].list : dispatch[d].list[i].l = l}

(* Versions only grow, a listener appears once in a vector, and whoever is *)
(* on a list or called was registered before that list was taken.          *)
Registered ==
    /\ \A l \in Listener : since[l] <= version
    /\ \A l \in Listed : reg[l] # "new"
    /\ \A d \in Dispatcher :
          /\ dispatch[d].snap <= version
          /\ \A l \in InList(d) : reg[l] # "new" /\ since[l] <= dispatch[d].snap
          /\ \A i, j \in DOMAIN dispatch[d].list :
                i # j => dispatch[d].list[i].l # dispatch[d].list[j].l
          /\ Called(d) \subseteq InList(d)
          /\ dispatch[d].phase = "idle" => Called(d) = {}

(* A parallel dispatch calls those that hear it, each when the loop comes  *)
(* to its slot, and decides nothing before it is done.                     *)
Phases ==
    \A d \in Dispatcher : mode = "parallel" =>
        /\ dispatch[d].outcome # "none" => dispatch[d].phase = "done"
        /\ Called(d) \subseteq Heard(d)
        /\ \A i \in DOMAIN dispatch[d].list :
              i >= dispatch[d].pos => dispatch[d].list[i].l \notin Called(d)
        /\ \A l \in Listener : calls[d][l].state # "spawned"

(* The inductive invariant.                                                *)
IInv == TypeOK /\ Registered /\ Phases /\ GateAccounting

(* The current vector, or one a dispatch still holds.                      *)
Alive(v) == v = version \/ \E d \in Dispatcher : Holds(d) /\ ~dispatch[d].private /\ dispatch[d].snap = v

(* "The in-flight dispatch is unaffected (it holds a COW snapshot)": what  *)
(* it has still to call is there, and what runs in its vector lives on.    *)
SnapshotUnaffected ==
    \A d \in Dispatcher :
        /\ Holds(d) => \A i \in DOMAIN dispatch[d].list : dispatch[d].list[i].full
        /\ \A l \in Listener : calls[d][l].state = "running" =>
              IF calls[d][l].at = 0 THEN Holds(d) ELSE Alive(calls[d][l].at)

(* "Remove the listener just before its first invocation, so it runs at    *)
(* most once": over all dispatches together, overlapping ones included     *)
(* (listener_options::once, add_listener's remover).                       *)
AtMostOnce ==
    \A l \in Once :
        Cardinality({d \in Dispatcher : calls[d][l].state \in {"running", "returned"}}) <= 1

(* Every dispatch ends: no removal, deaf listener or failure leaves a gate *)
(* or a chain waiting for a completion that never comes.                   *)
DispatchEnds == \A d \in Dispatcher : dispatch[d].phase # "idle" ~> dispatch[d].phase = "done"
=============================================================================
