------------------------------ MODULE Runtime ------------------------------
(***************************************************************************)
(* The component runtime of araya (src/src/runtime.cpp): fibers are        *)
(* mounted, resolve the services they inject, load, publish, and are torn  *)
(* down in dependency order.                                               *)
(*                                                                         *)
(* Everything runs on one control strand, so handlers never interleave;    *)
(* but a handler is a RE-ENTRANT cascade of calls: unloading a provider    *)
(* unloads its consumers, the last consumer to go finishes the provider,   *)
(* finishing it notifies and reloads other fibers, all before the first    *)
(* call returns.  The model keeps that call stack in the variable calls:   *)
(* a handler may begin only when it is empty, and every other step         *)
(* executes the frame on top of it.  What is read before a nested call     *)
(* and used after it is therefore stale in the model whenever it is stale  *)
(* in the code.                                                            *)
(***************************************************************************)
EXTENDS Integers, Sequences, FiniteSets

CONSTANTS
    MaxFiber,      \* bound on the fibers ever mounted; ids 1..MaxFiber are never reused
    Comp,          \* the components (plugin descriptors)
    Roots,         \* SUBSET Comp: those the host mounts
    Keys,          \* service keys, naturals: std::map orders them
    Inject,        \* [Comp -> SUBSET Keys] the declared dependencies
    Required,      \* [Comp -> SUBSET Keys] those of them that are required
    Provides,      \* [Comp -> SUBSET Keys] the declared provisions
    Child,         \* [Comp -> Comp \cup {NoComp}] what its fiber mounts as a child
    NoComp,        \* no component
    Fallible,      \* SUBSET Comp: apply() may raise
    Gated,         \* SUBSET Comp: the availability check may say no
    Releaser,      \* SUBSET Comp: releases a provision early, or provides late
    Listener,      \* SUBSET Comp: may mount its child from a listener, not only in apply()
    Cancellable,   \* SUBSET Comp: a host may cancel() its handle
    Factory,       \* [Comp -> {"instance", "null", "throws"}] descriptor->create
    SingleSource,  \* TRUE: no two mounted root components provide the same key
    Hosts          \* host coroutines calling retire() and wait_idle()

Id == 1..MaxFiber
Scopes == 0..MaxFiber          \* 0 is the root context, f the child context of fiber f
State == {"inactive", "loading", "active", "unloading"}
Waiter == Hosts \cup {"parent"}    \* "parent" is the callback of retire_child

ASSUME BoundAssumption == MaxFiber \in Nat \ {0} /\ Keys \subseteq Nat
ASSUME ComponentAssumption ==
    /\ Roots \subseteq Comp
    /\ Inject \in [Comp -> SUBSET Keys]
    /\ Required \in [Comp -> SUBSET Keys]
    /\ Provides \in [Comp -> SUBSET Keys]
    /\ Child \in [Comp -> Comp \cup {NoComp}] /\ NoComp \notin Comp
    /\ Fallible \subseteq Comp /\ Gated \subseteq Comp /\ Releaser \subseteq Comp
    /\ Listener \subseteq Comp /\ Cancellable \subseteq Comp
    /\ Factory \in [Comp -> {"instance", "null", "throws"}]
ASSUME HostAssumption == "parent" \notin Hosts /\ SingleSource \in BOOLEAN

VARIABLES
    next_id,       \* detail::next_fiber_id
    fibers,        \* the ids in fibers_: the records not yet erased
    rec,           \* [Id -> FiberRecord]
    bindings,      \* [Scopes -> [Keys -> Binding]]: context::bindings_ of each scope
    in_flight,     \* runtime::in_flight_
    host,          \* [Hosts -> what the host coroutine is suspended on]
    posted,        \* children whose retire_child is posted to the strand
    calls          \* the call stack of the running handler, top first

vars == <<next_id, fibers, rec, bindings, in_flight, host, posted, calls>>

----------------------------------------------------------------------------
(* Records *)

Binding == [provider : 0..MaxFiber,
            state : {"none", "loading", "active", "retiring"},
            available : BOOLEAN]
Unbound == [provider |-> 0, state |-> "none", available |-> FALSE]

(* A child mount the fiber has posted and not yet run: by its apply        *)
(* coroutine, by a listener, or by an activation torn down since.          *)
Request == {"none", "apply", "listener", "orphan"}

FiberRecord ==
    [comp : Comp \cup {NoComp}, chain : SUBSET Scopes, parent : 0..MaxFiber,
     state : State, committed : [Keys -> 0..MaxFiber], consumers : SUBSET Id,
     remaining : Nat, reactivate : {-1, 0, 1}, apply_failed : BOOLEAN,
     done : BOOLEAN, waiters : SUBSET Waiter,
     stop : BOOLEAN,        \* stop_requested() of the current stop source
     applying : BOOLEAN,    \* the apply coroutine has not completed
     kids : SUBSET Id,      \* children whose retirement is on the effect stack
     request : Request]

NothingCommitted == [k \in Keys |-> 0]

NewFiber(c, chain, parent) ==
    [comp |-> c, chain |-> chain, parent |-> parent,
     state |-> "inactive", committed |-> NothingCommitted, consumers |-> {},
     remaining |-> 0, reactivate |-> 0, apply_failed |-> FALSE,
     done |-> TRUE, waiters |-> {}, stop |-> FALSE,
     applying |-> FALSE, kids |-> {}, request |-> "none"]

NoFiber == NewFiber(NoComp, {}, 0)

Op == {"evaluate", "begin_unload", "cascade", "finish", "release", "notify",
       "tail", "await", "finished"}
Frame == [op : Op, f : Id, flag : BOOLEAN, who : Waiter, todo : SUBSET (Nat \X Id)]

(* Frames: begin_unload carries its argument in flag, await the waiter in  *)
(* who; cascade, release and notify carry what is left of their loop as    *)
(* pairs, taken in the order of the code's std::map or std::set.           *)
Call(op, f) == [op |-> op, f |-> f, flag |-> FALSE, who |-> "parent", todo |-> {}]
BeginUnload(f, reactivate) == [Call("begin_unload", f) EXCEPT !.flag = reactivate]
Loop(op, f, todo) == [Call(op, f) EXCEPT !.todo = todo]
Await(f, w) == [Call("await", f) EXCEPT !.who = w]

First(todo) == CHOOSE p \in todo : \A q \in todo :
                    p[1] < q[1] \/ (p[1] = q[1] /\ p[2] <= q[2])

Top == Head(calls)
Running(op) == calls # <<>> /\ Head(calls).op = op
Return == calls' = Tail(calls)
Become(frames) == calls' = frames \o Tail(calls)
StrandFree == calls = <<>>

----------------------------------------------------------------------------
(* Scopes and resolution *)

ScopeOf(f) == CHOOSE s \in rec[f].chain : \A t \in rec[f].chain : t <= s

(* context::lookup: the nearest scope on the chain that binds the key.  A  *)
(* child's scope has the child's id, so nearer scopes have larger ids.     *)
Lookup(f, k) ==
    LET bound == {s \in rec[f].chain : bindings[s][k] # Unbound}
    IN  IF bound = {} THEN Unbound
        ELSE bindings[CHOOSE s \in bound : \A t \in bound : t <= s][k]

Resolve(f) ==
    [k \in Keys |->
        LET b == Lookup(f, k)
        IN  IF /\ k \in Inject[rec[f].comp]
               /\ b.state = "active" /\ b.available /\ b.provider # f
            THEN b.provider ELSE 0]

Satisfiable(f) == \A k \in Required[rec[f].comp] : Resolve(f)[k] # 0

NeverStale(f) == TRUE    \* mutant: the completion-time check is dropped

ProvidersStillActive(f) ==
    \A k \in Keys : rec[f].committed[k] # 0 =>
        LET b == Lookup(f, k)
        IN  b.provider = rec[f].committed[k] /\ b.state = "active" /\ b.available

(* The bindings of its own provisions that still name f.                   *)
Bound(f) == {k \in Provides[rec[f].comp] : bindings[ScopeOf(f)][k].provider = f}

WithState(f, st) ==
    [bindings EXCEPT ![ScopeOf(f)] =
        [k \in Keys |-> IF k \in Bound(f) THEN [@[k] EXCEPT !.state = st] ELSE @[k]]]

KeepsBindings(f) == bindings    \* mutant: no cleanup unbinds the provision

(* activation::teardown: the cleanups unbind what f still provides ...     *)
Withdrawn(f) ==
    [bindings EXCEPT ![ScopeOf(f)] =
        [k \in Keys |-> IF k \in Bound(f) THEN Unbound ELSE @[k]]]

ForgetsChildren(f) == posted    \* mutant: the child mount is no tracked effect

(* ... and post the retirement of its children; a child mount still posted *)
(* will find this effect stack already run.                                *)
ChildrenPosted(f) == posted \cup rec[f].kids
Orphaned(request) == IF request = "none" THEN "none" ELSE "orphan"

(* The committed view as the edges finish_unload detaches and walks.       *)
Edges(f) == {e \in Keys \X Id : rec[f].committed[e[1]] = e[2]}

(* mutant: only dependents that are active are told                        *)
NotifiedActive(f, keys) ==
    {e \in keys \X Id : /\ e[2] \in fibers /\ rec[e[2]].state = "active"
                        /\ e[1] \in Inject[rec[e[2]].comp]
                        /\ ScopeOf(f) \in rec[e[2]].chain}

(* Whom notify(key, ...) evaluates: the mounted fibers that declare the    *)
(* key, from a scope that can see f's bindings.                            *)
Notified(f, keys) ==
    {e \in Keys \X Id : /\ e[1] \in keys
                        /\ e[2] \in fibers
                        /\ e[1] \in Inject[rec[e[2]].comp]
                        /\ ScopeOf(f) \in rec[e[2]].chain}

Erased(f) == fibers \ {f}

----------------------------------------------------------------------------
Init ==
    /\ next_id = 1
    /\ fibers = {}
    /\ rec = [f \in Id |-> NoFiber]
    /\ bindings = [s \in Scopes |-> [k \in Keys |-> Unbound]]
    /\ in_flight = 0
    /\ host = [h \in Hosts |-> "free"]
    /\ posted = {}
    /\ calls = <<>>

----------------------------------------------------------------------------
(* The frames of the cascade *)

(* evaluate returns without acting: the record is gone (ApplyFails looks   *)
(* it up again), the fiber is in a transition or retired, cannot resolve   *)
(* its needs, has failed, or already has the view it would resolve.        *)
EvaluateKeeps ==
    /\ Running("evaluate")
    /\ LET f == Top.f
       IN  \/ f \notin fibers
           \/ rec[f].state \in {"loading", "unloading"}
           \/ rec[f].reactivate < 0
           \/ rec[f].state = "inactive" /\ ~(Satisfiable(f) /\ ~rec[f].apply_failed)
           \/ rec[f].state = "active" /\ Satisfiable(f) /\ Resolve(f) = rec[f].committed
    /\ Return
    /\ UNCHANGED <<next_id, fibers, rec, bindings, in_flight, host, posted>>

(* An active fiber whose target view differs is unloaded, to come back if  *)
(* it is still satisfiable.                                                *)
EvaluateUnloads ==
    /\ Running("evaluate")
    /\ LET f == Top.f
       IN  /\ f \in fibers /\ rec[f].state = "active" /\ rec[f].reactivate >= 0
           /\ ~(Satisfiable(f) /\ Resolve(f) = rec[f].committed)
           /\ Become(<<BeginUnload(f, Satisfiable(f))>>)
    /\ UNCHANGED <<next_id, fibers, rec, bindings, in_flight, host, posted>>

Loadable(f) ==
    /\ f \in fibers /\ rec[f].state = "inactive" /\ rec[f].reactivate >= 0
    /\ Satisfiable(f) /\ ~rec[f].apply_failed

Availability(c) == IF c \in Gated THEN BOOLEAN ELSE {TRUE}

(* start_loading: commit to the resolved view and spawn apply() on a       *)
(* strand over this one, so that its first segment, up to the first        *)
(* suspension, may run here: it provides some of its keys (early).         *)
StartLoading ==
    /\ Running("evaluate")
    /\ Loadable(Top.f)
    /\ LET f == Top.f
           s == ScopeOf(f)
       IN  /\ Factory[rec[f].comp] = "instance"
           /\ rec' = [rec EXCEPT ![f].state = "loading", ![f].committed = Resolve(f),
                                 ![f].apply_failed = FALSE, ![f].stop = FALSE,
                                 ![f].applying = TRUE]
           /\ \E early \in SUBSET Provides[rec[f].comp], av \in Availability(rec[f].comp) :
                bindings' = [bindings EXCEPT ![s] = [k \in Keys |->
                    IF k \in early
                    THEN [provider |-> f, state |-> "loading", available |-> av]
                    ELSE @[k]]]
    /\ in_flight' = in_flight + 1
    /\ Return
    /\ UNCHANGED <<next_id, fibers, host, posted>>

(* The factory returns null: the fiber goes back to inactive, without a    *)
(* transition ever having started.                                         *)
StartLoadingNull ==
    /\ Running("evaluate")
    /\ Loadable(Top.f)
    /\ Factory[rec[Top.f].comp] = "null"
    /\ rec' = [rec EXCEPT ![Top.f].stop = FALSE]
    /\ Return
    /\ UNCHANGED <<next_id, fibers, bindings, in_flight, host, posted>>

(* The factory throws: the exception leaves through every caller up to the *)
(* handler, with the record already marked loading.                        *)
StartLoadingThrows ==
    /\ Running("evaluate")
    /\ Loadable(Top.f)
    /\ Factory[rec[Top.f].comp] = "throws"
    /\ rec' = [rec EXCEPT ![Top.f].state = "loading", ![Top.f].stop = FALSE,
                          ![Top.f].committed = Resolve(Top.f)]
    /\ calls' = <<>>
    /\ UNCHANGED <<next_id, fibers, bindings, in_flight, host, posted>>

(* mutant: the flag is raised without looking at the retired mark          *)
ReactivationUnsticky(f, flag) == IF flag \/ rec[f].reactivate = 1 THEN 1 ELSE 0

(* begin_unload on a fiber that is not active.  The retired mark (-1) is   *)
(* sticky.  A loading fiber is asked to stop and finishes in ApplyFails.   *)
Reactivation(f, flag) ==
    IF rec[f].reactivate < 0 THEN -1
    ELSE IF flag THEN 1 ELSE rec[f].reactivate

BeginUnloadKeeps ==
    /\ Running("begin_unload")
    /\ LET f == Top.f
       IN  /\ rec[f].state # "active"
           /\ rec' = [rec EXCEPT
                ![f].reactivate = Reactivation(f, Top.flag),
                ![f].state = IF @ = "loading" THEN "unloading" ELSE @,
                ![f].done = IF rec[f].state = "loading" THEN FALSE ELSE @,
                ![f].stop = IF rec[f].state = "loading" THEN TRUE ELSE @]
    /\ Return
    /\ UNCHANGED <<next_id, fibers, bindings, in_flight, host, posted>>

(* begin_unload on an active fiber: close its gate, count the consumers    *)
(* still installed, and go unload them, from a copy of the set.            *)
BeginUnloadActive ==
    /\ Running("begin_unload")
    /\ LET f == Top.f
           installed == {c \in rec[f].consumers \cap fibers : rec[c].state # "inactive"}
       IN  /\ rec[f].state = "active"
           /\ rec' = [rec EXCEPT ![f].reactivate = Reactivation(f, Top.flag),
                                 ![f].state = "unloading", ![f].done = FALSE,
                                 ![f].remaining = Cardinality(installed)]
           /\ bindings' = WithState(f, "retiring")
           /\ Become(<<Loop("cascade", f, {0} \X rec[f].consumers)>>)
    /\ in_flight' = in_flight + 1
    /\ UNCHANGED <<next_id, fibers, host, posted>>

(* One consumer of the cascade: unloaded, to be reloaded afterwards.       *)
CascadeNext ==
    /\ Running("cascade") /\ Top.todo # {}
    /\ LET c == First(Top.todo)[2]
           rest == [Top EXCEPT !.todo = @ \ {First(@)}]
       IN  Become(IF c \in fibers THEN <<BeginUnload(c, TRUE), rest>> ELSE <<rest>>)
    /\ UNCHANGED <<next_id, fibers, rec, bindings, in_flight, host, posted>>

(* The cascade is over: request_stop on the stop source the fiber has NOW, *)
(* then maybe_finish_unload.                                               *)
CascadeDone ==
    /\ Running("cascade") /\ Top.todo = {}
    /\ rec' = [rec EXCEPT ![Top.f].stop = TRUE]
    /\ Become(<<Call("finish", Top.f)>>)
    /\ UNCHANGED <<next_id, fibers, bindings, in_flight, host, posted>>

MayFinishUnguarded(f) == rec[f].state = "unloading"    \* mutant: no guard

MayFinish(f) == rec[f].state = "unloading" /\ rec[f].remaining = 0

(* maybe_finish_unload on a fiber that is not unloading, or still waits.   *)
FinishKeeps ==
    /\ Running("finish") /\ ~MayFinish(Top.f)
    /\ Return
    /\ UNCHANGED <<next_id, fibers, rec, bindings, in_flight, host, posted>>

(* finish_unload: tear the activation down, detach the committed view and  *)
(* go inactive before any provider is told.                                *)
Finish ==
    /\ Running("finish") /\ MayFinish(Top.f)
    /\ LET f == Top.f
       IN  /\ bindings' = Withdrawn(f)
           /\ posted' = ChildrenPosted(f)
           /\ rec' = [rec EXCEPT ![f].state = "inactive",
                                 ![f].committed = NothingCommitted,
                                 ![f].kids = {}, ![f].request = Orphaned(@)]
           /\ Become(<<Loop("release", f, Edges(f))>>)
    /\ UNCHANGED <<next_id, fibers, in_flight, host>>

CountedOff(p) == IF rec[p].remaining > 0 THEN rec[p].remaining - 1 ELSE 0

(* One edge of the detached view: the provider loses this consumer, counts *)
(* it off, and may itself be finished.                                     *)
ReleaseNext ==
    /\ Running("release") /\ Top.todo # {}
    /\ LET p == First(Top.todo)[2]
           rest == [Top EXCEPT !.todo = @ \ {First(@)}]
       IN  IF p \in fibers
           THEN /\ rec' = [rec EXCEPT ![p].consumers = @ \ {Top.f},
                                      ![p].remaining = CountedOff(p)]
                /\ Become(<<Call("finish", p), rest>>)
           ELSE /\ UNCHANGED rec
                /\ Become(<<rest>>)
    /\ UNCHANGED <<next_id, fibers, bindings, in_flight, host, posted>>

(* mutant: the gate opens and nobody is resumed                            *)
OpenGateSilently(f) == UNCHANGED <<host, fibers>>

(* mutant: the record is erased as soon as the gate opens                  *)
OpenGateErasing(f) ==
    /\ host' = [h \in Hosts |-> IF h \in rec[f].waiters THEN "free" ELSE host[h]]
    /\ fibers' = Erased(f)

(* done->open(): whoever waits resumes inside the call, and each of them   *)
(* erases the record.                                                      *)
OpenGate(f) ==
    /\ host' = [h \in Hosts |-> IF h \in rec[f].waiters THEN "free" ELSE host[h]]
    /\ fibers' = IF rec[f].waiters = {} THEN fibers ELSE Erased(f)

(* All providers are released: open the gate, notify the consumers of what *)
(* was withdrawn, then reactivate.                                         *)
ReleaseDone ==
    /\ Running("release") /\ Top.todo = {}
    /\ LET f == Top.f
       IN  /\ rec' = [rec EXCEPT ![f].done = TRUE, ![f].waiters = {}]
           /\ OpenGate(f)
           /\ Become(<<Loop("notify", f, Notified(f, Provides[rec[f].comp])),
                       Call("tail", f)>>)
    /\ UNCHANGED <<next_id, bindings, in_flight, posted>>

(* notify: evaluate one dependent after the other, skipping those gone.    *)
NotifyNext ==
    /\ Running("notify") /\ Top.todo # {}
    /\ LET c == First(Top.todo)[2]
           rest == [Top EXCEPT !.todo = @ \ {First(@)}]
       IN  Become(IF c \in fibers THEN <<Call("evaluate", c), rest>> ELSE <<rest>>)
    /\ UNCHANGED <<next_id, fibers, rec, bindings, in_flight, host, posted>>

NotifyDone ==
    /\ Running("notify") /\ Top.todo = {}
    /\ Return
    /\ UNCHANGED <<next_id, fibers, rec, bindings, in_flight, host, posted>>

(* mutant: the transition is finished before the reactivation              *)
FinishTailEarly ==
    /\ Running("tail")
    /\ rec' = [rec EXCEPT ![Top.f].reactivate = IF @ > 0 THEN 0 ELSE @]
    /\ Become(<<Call("finished", Top.f)>> \o
              IF rec[Top.f].reactivate > 0 THEN <<Call("evaluate", Top.f)>> ELSE <<>>)
    /\ UNCHANGED <<next_id, fibers, bindings, in_flight, host, posted>>

(* The end of finish_unload.                                               *)
FinishTail ==
    /\ Running("tail")
    /\ LET f == Top.f
       IN  /\ rec' = [rec EXCEPT ![f].reactivate = IF @ > 0 THEN 0 ELSE @]
           /\ Become(IF rec[f].reactivate > 0
                     THEN <<Call("evaluate", f), Call("finished", f)>>
                     ELSE <<Call("finished", f)>>)
    /\ UNCHANGED <<next_id, fibers, bindings, in_flight, host, posted>>

(* transition_finished: at zero, idle_->open() resumes every wait_idle().  *)
TransitionFinished ==
    /\ Running("finished")
    /\ in_flight' = IF in_flight > 0 THEN in_flight - 1 ELSE 0
    /\ host' = [h \in Hosts |-> IF in_flight' = 0 /\ host[h] = "wait_idle"
                                THEN "free" ELSE host[h]]
    /\ Return
    /\ UNCHANGED <<next_id, fibers, rec, bindings, posted>>

(* The end of retire() and of retire_child: wait for the gate, then erase  *)
(* the record.  retire_child erases an inactive fiber without waiting.     *)
AwaitGate ==
    /\ Running("await")
    /\ LET f == Top.f
           w == Top.who
       IN  IF rec[f].done \/ (w = "parent" /\ rec[f].state = "inactive")
           THEN /\ fibers' = Erased(f)
                /\ host' = [h \in Hosts |-> IF h = w THEN "free" ELSE host[h]]
                /\ UNCHANGED rec
           ELSE /\ rec' = [rec EXCEPT ![f].waiters = @ \cup {w}]
                /\ UNCHANGED <<fibers, host>>
    /\ Return
    /\ UNCHANGED <<next_id, bindings, in_flight, posted>>

----------------------------------------------------------------------------
(* Handlers: each runs from an empty stack *)

(* mount -> mount_locked: install the record, index it, evaluate it.       *)
Install ==
    /\ fibers' = fibers \cup {next_id}
    /\ next_id' = next_id + 1
    /\ calls' = <<Call("evaluate", next_id)>>

(* The bound on ids keeps one for every child mount already posted.        *)
IdLeft == next_id + Cardinality({f \in Id : rec[f].request # "none"}) <= MaxFiber

Mount(c) ==
    /\ StrandFree /\ IdLeft
    /\ SingleSource => \A f \in fibers : rec[f].parent = 0 =>
                            Provides[rec[f].comp] \cap Provides[c] = {}
    /\ rec' = [rec EXCEPT ![next_id] = NewFiber(c, {0}, 0)]
    /\ Install
    /\ UNCHANGED <<bindings, in_flight, host, posted>>

(* plugin_context::mount from the apply coroutine or a listener of f: the  *)
(* mount is posted to the strand.                                          *)
RequestChild(f) ==
    /\ StrandFree /\ f \in fibers /\ IdLeft
    /\ Child[rec[f].comp] # NoComp /\ rec[f].request = "none" /\ rec[f].kids = {}
    /\ \/ rec[f].applying /\ rec' = [rec EXCEPT ![f].request = "apply"]
       \/ /\ rec[f].state = "active" /\ rec[f].comp \in Listener
          /\ rec' = [rec EXCEPT ![f].request = "listener"]
    /\ UNCHANGED <<next_id, fibers, bindings, in_flight, host, posted, calls>>

(* ... where it mounts in a scope derived from f's, and records the child  *)
(* on the effect stack of the activation that asked: gone, for an orphan.  *)
(* The parent's own record may be gone too.                                *)
MountChild(f) ==
    /\ StrandFree /\ rec[f].request # "none" /\ next_id \in Id
    /\ LET c == Child[rec[f].comp]
           adopted == rec[f].request # "orphan"
       IN  /\ rec' = [g \in Id |->
                IF g = next_id THEN NewFiber(c, rec[f].chain \cup {next_id}, f)
                ELSE IF g # f THEN rec[g]
                ELSE [rec[f] EXCEPT !.request = "none",
                                    !.kids = IF adopted THEN @ \cup {next_id} ELSE @]]
           /\ Install
    /\ UNCHANGED <<bindings, in_flight, host, posted>>

(* provide() by the apply coroutine; it does not notify.                   *)
Provide(f, k) ==
    /\ StrandFree /\ f \in fibers /\ rec[f].applying
    /\ k \in Provides[rec[f].comp] \ Bound(f)
    /\ \E av \in Availability(rec[f].comp) :
         bindings' = [bindings EXCEPT ![ScopeOf(f)][k] =
                        [provider |-> f, state |-> "loading", available |-> av]]
    /\ UNCHANGED <<next_id, fibers, rec, in_flight, host, posted, calls>>

(* provide() by a listener of an active fiber: bound active, not notified. *)
ProvideLate(f, k) ==
    /\ StrandFree /\ f \in fibers /\ rec[f].state = "active"
    /\ rec[f].comp \in Releaser /\ k \in Provides[rec[f].comp] \ Bound(f)
    /\ bindings' = [bindings EXCEPT ![ScopeOf(f)][k] =
                        [provider |-> f, state |-> "active", available |-> TRUE]]
    /\ UNCHANGED <<next_id, fibers, rec, in_flight, host, posted, calls>>

(* registration::release of a provision before teardown: not notified.     *)
ReleaseEarly(f, k) ==
    /\ StrandFree /\ f \in fibers /\ rec[f].state \in {"loading", "active"}
    /\ rec[f].comp \in Releaser /\ k \in Bound(f)
    /\ bindings' = [bindings EXCEPT ![ScopeOf(f)][k] = Unbound]
    /\ UNCHANGED <<next_id, fibers, rec, in_flight, host, posted, calls>>

(* set_available -> signal_availability: promote and notify.               *)
Promote(f, k) ==
    /\ StrandFree /\ f \in fibers /\ (rec[f].applying \/ rec[f].state = "active")
    /\ k \in Bound(f) /\ ~bindings[ScopeOf(f)][k].available
    /\ bindings' = [bindings EXCEPT ![ScopeOf(f)][k].available = TRUE]
    /\ calls' = <<Loop("notify", f, Notified(f, {k}))>>
    /\ UNCHANGED <<next_id, fibers, rec, in_flight, host, posted>>

(* fiber_handle::cancel while apply() runs.                                *)
Cancel(f) ==
    /\ StrandFree /\ f \in fibers /\ rec[f].state = "loading"
    /\ rec[f].comp \in Cancellable
    /\ rec' = [rec EXCEPT ![f].stop = TRUE]
    /\ UNCHANGED <<next_id, fibers, bindings, in_flight, host, posted, calls>>

(* on_apply_completed and publish: nothing went wrong, the provisions turn *)
(* active, the edges to the providers are recorded, the dependents told.   *)
ApplyPublishes(f) ==
    /\ StrandFree /\ f \in fibers /\ rec[f].applying /\ rec[f].request # "apply"
    /\ rec[f].state = "loading" /\ ~rec[f].stop /\ ProvidersStillActive(f)
    /\ bindings' = WithState(f, "active")
    /\ rec' = [g \in Id |->
                IF g = f
                THEN [rec[f] EXCEPT !.state = "active", !.applying = FALSE]
                ELSE IF \E k \in Keys : rec[f].committed[k] = g /\ g \in fibers
                THEN [rec[g] EXCEPT !.consumers = @ \cup {f}]
                ELSE rec[g]]
    /\ calls' = <<Loop("notify", f, Notified(f, Provides[rec[f].comp])),
                  Call("finished", f)>>
    /\ UNCHANGED <<next_id, fibers, in_flight, host, posted>>

(* on_apply_completed when apply() raised, was cancelled, lost a provider  *)
(* or is being unloaded: tear down, open the gate, and retry only if the   *)
(* view went stale.                                                        *)
ApplyFails(f, raised) ==
    /\ StrandFree /\ f \in fibers /\ rec[f].applying /\ rec[f].request # "apply"
    /\ raised => rec[f].comp \in Fallible
    /\ LET stale == ~ProvidersStillActive(f)
       IN  /\ raised \/ rec[f].stop \/ stale \/ rec[f].state = "unloading"
           /\ calls' = IF stale /\ rec[f].reactivate >= 0
                       THEN <<Call("evaluate", f), Call("finished", f)>>
                       ELSE <<Call("finished", f)>>
    /\ rec' = [rec EXCEPT ![f].state = "inactive", ![f].committed = NothingCommitted,
                          ![f].applying = FALSE,
                          ![f].apply_failed = @ \/ raised,
                          ![f].done = TRUE, ![f].waiters = {},
                          ![f].kids = {}, ![f].request = Orphaned(@)]
    /\ bindings' = Withdrawn(f)
    /\ posted' = ChildrenPosted(f)
    /\ OpenGate(f)
    /\ UNCHANGED <<next_id, in_flight>>

(* retire(): a host withdraws a fiber; an inactive one is erased at once.  *)
Retire(h, f) ==
    /\ StrandFree /\ host[h] = "free" /\ f \in fibers
    /\ IF rec[f].state = "inactive"
       THEN /\ fibers' = Erased(f)
            /\ UNCHANGED <<rec, host, calls>>
       ELSE /\ rec' = [rec EXCEPT ![f].reactivate = -1]
            /\ host' = [host EXCEPT ![h] = "retire"]
            /\ calls' = <<BeginUnload(f, FALSE), Await(f, h)>>
            /\ UNCHANGED fibers
    /\ UNCHANGED <<next_id, bindings, in_flight, posted>>

(* The handler retire_child posted.                                        *)
RetireChild(f) ==
    /\ StrandFree /\ f \in posted
    /\ posted' = posted \ {f}
    /\ IF f \in fibers
       THEN /\ rec' = [rec EXCEPT ![f].reactivate = -1]
            /\ calls' = <<BeginUnload(f, FALSE), Await(f, "parent")>>
       ELSE UNCHANGED <<rec, calls>>
    /\ UNCHANGED <<next_id, fibers, bindings, in_flight, host>>

(* wait_idle(): suspends unless settled().                                 *)
WaitIdle(h) ==
    /\ StrandFree /\ host[h] = "free" /\ in_flight > 0
    /\ host' = [host EXCEPT ![h] = "wait_idle"]
    /\ UNCHANGED <<next_id, fibers, rec, bindings, in_flight, posted, calls>>

----------------------------------------------------------------------------
Cascade ==
    \/ EvaluateKeeps \/ EvaluateUnloads
    \/ StartLoading \/ StartLoadingNull \/ StartLoadingThrows
    \/ BeginUnloadKeeps \/ BeginUnloadActive \/ CascadeNext \/ CascadeDone
    \/ FinishKeeps \/ Finish \/ ReleaseNext \/ ReleaseDone
    \/ NotifyNext \/ NotifyDone \/ FinishTail \/ TransitionFinished \/ AwaitGate

ApplyCompletes(f) == ApplyPublishes(f) \/ \E raised \in BOOLEAN : ApplyFails(f, raised)

Next ==
    \/ Cascade
    \/ \E c \in Roots : Mount(c)
    \/ \E f \in Id :
        \/ RequestChild(f) \/ MountChild(f) \/ RetireChild(f)
        \/ ApplyCompletes(f) \/ Cancel(f)
        \/ \E k \in Keys : Provide(f, k) \/ ProvideLate(f, k)
                           \/ ReleaseEarly(f, k) \/ Promote(f, k)
        \/ \E h \in Hosts : Retire(h, f)
    \/ \E h \in Hosts : WaitIdle(h)

Spec == Init /\ [][Next]_vars

(* The strand runs every handler that is posted to it and every frame of a *)
(* running handler; apply() is assumed to return once nothing it awaits is *)
(* outstanding (the contract of plugin::apply).                            *)
Fairness ==
    /\ WF_vars(Cascade)
    /\ \A f \in Id : /\ WF_vars(MountChild(f)) /\ WF_vars(RetireChild(f))
                     /\ WF_vars(ApplyCompletes(f))

FairSpec == Spec /\ Fairness

----------------------------------------------------------------------------
(* Properties *)

(* The records keep their shape: the one type invariant of the module.     *)
TypeOK ==
    /\ next_id \in 1..(MaxFiber + 1)
    /\ fibers \subseteq Id
    /\ rec \in [Id -> FiberRecord]
    /\ bindings \in [Scopes -> [Keys -> Binding]]
    /\ in_flight \in Nat
    /\ host \in [Hosts -> {"free", "retire", "wait_idle"}]
    /\ posted \subseteq Id
    /\ calls \in Seq(Frame)

(* What the type of a record leaves open: a mounted fiber has a component, *)
(* and a fiber that has posted a child mount has a component with a child. *)
Mounted ==
    \A f \in Id :
        /\ f \in fibers => rec[f].comp \in Comp
        /\ rec[f].request # "none" => rec[f].comp \in Comp /\ Child[rec[f].comp] \in Comp

(* A retired fiber that is still loading or active is the one begin_unload *)
(* is about to act on: retire() and retire_child call it at once.          *)
RetireUnderway ==
    \A f \in Id :
        rec[f].reactivate = -1 /\ rec[f].state \in {"loading", "active"}
            => Running("begin_unload") /\ Top.f = f

(* Ids are handed out in order, so a mounted fiber is never remounted.     *)
IdsHandedOut == \A f \in fibers : f < next_id

(* The inductive invariant.                                                *)
IInv == TypeOK /\ Mounted /\ RetireUnderway /\ IdsHandedOut

(* Active, or unloading from active: its effects are installed.            *)
Published(f) == rec[f].state \in {"active", "unloading"} /\ ~rec[f].applying

Releasing(c, p) == \E i \in 1..Len(calls) : /\ calls[i].op = "release" /\ calls[i].f = c
                                            /\ \E e \in calls[i].todo : e[2] = p

(* Guard accounting: at every point of a cascade, remaining is the number  *)
(* of consumers an unloading provider still waits for, counting those that *)
(* went inactive but have not released it yet (runtime.cpp begin_unload,   *)
(* finish_unload).                                                         *)
GuardAccounting ==
    \A p \in fibers :
        rec[p].remaining =
            IF rec[p].state # "unloading" THEN 0
            ELSE Cardinality({c \in rec[p].consumers :
                                 rec[c].state # "inactive" \/ Releasing(c, p)})

(* Ordered withdrawal: a provider's effects are torn down only when no     *)
(* fiber whose own effects are installed is still committed to it.         *)
OrderedWithdrawal ==
    [][\A p \in fibers : Published(p) /\ rec'[p].state = "inactive" =>
         \A c \in fibers \ {p} : Published(c) =>
            \A k \in Keys : rec[c].committed[k] # p]_vars

(* A published fiber's committed view names mounted providers whose own    *)
(* effects are installed: it never holds a service already torn down.      *)
CommittedInstalled ==
    \A c \in fibers : Published(c) =>
        \A k \in Keys : rec[c].committed[k] # 0 =>
            rec[c].committed[k] \in fibers /\ Published(rec[c].committed[k])

(* Retirement is sticky: once marked retired, a fiber is never loaded or   *)
(* published again, whatever cascade reaches it.                           *)
StaysRetired(f) ==
    rec[f].reactivate = -1 =>
        /\ rec'[f].reactivate = -1
        /\ rec'[f].state \in {"loading", "active"} => rec'[f].state = rec[f].state

RetiredStays == [][\A f \in fibers : StaysRetired(f)]_vars

(* The cascade never resumes a caller whose fiber record has been erased   *)
(* under it; evaluate alone is reached by id.                              *)
NoDanglingFrame ==
    \A i \in 1..Len(calls) :
        calls[i].op \notin {"evaluate", "finished", "await"} => calls[i].f \in fibers

(* Withdrawal is synchronous: between handlers the only fibers unloading   *)
(* are those whose apply() has yet to return.                              *)
WithdrawalSynchronous ==
    StrandFree => \A f \in fibers : /\ rec[f].state = "unloading" => rec[f].applying
                                    /\ rec[f].remaining = 0

WouldAct(f) ==
    \/ Loadable(f)
    \/ /\ f \in fibers /\ rec[f].state = "active" /\ rec[f].reactivate >= 0
       /\ ~(Satisfiable(f) /\ Resolve(f) = rec[f].committed)

(* wait_idle() sees the whole cascade: when in_flight_ reaches zero inside *)
(* a handler, nothing left of that handler starts another transition.      *)
Spent(frame) ==
    CASE frame.op = "await" -> TRUE
      [] frame.op \in {"cascade", "finish"} ->
            ~MayFinish(frame.f) /\ \A e \in frame.todo : rec[e[2]].state # "active"
      [] frame.op = "notify" -> \A e \in frame.todo : ~WouldAct(e[2])
      [] OTHER -> FALSE

IdleSeesCascade ==
    [][in_flight > 0 /\ in_flight' = 0 => \A i \in 1..Len(calls') : Spent(calls'[i])]_vars

(* The settled state: with no transition in progress every fiber that is   *)
(* neither retired nor failed is at the view it would resolve now.         *)
SettledAtTarget == StrandFree /\ in_flight = 0 => \A f \in fibers : ~WouldAct(f)

(* A child is never left behind: it is on the effect stack of its parent's *)
(* activation, or its retirement is posted or under way.                   *)
NoStrayChild ==
    \A c \in fibers : rec[c].parent # 0 =>
        \/ c \in rec[rec[c].parent].kids /\ rec[rec[c].parent].state # "inactive"
        \/ c \in posted
        \/ rec[c].reactivate = -1

(* Resolution coherence: a fiber that publishes does so against the view   *)
(* its declarations resolve to at that moment.                             *)
ResolutionCoherent ==
    [][\A f \in fibers : rec[f].state = "loading" /\ rec'[f].state = "active" =>
         rec[f].committed = Resolve(f)]_vars

(* Confluence: at rest, no fiber that has neither failed nor been retired  *)
(* or cancelled is left inactive although its dependencies resolve.        *)
ParkedOnlyIfUnresolved ==
    StrandFree /\ in_flight = 0 =>
        \A f \in fibers : rec[f].comp \notin Cancellable => ~Loadable(f)

(* Terminal recovery: an inactive or erased fiber has left nothing behind: *)
(* no binding names it, no child hangs on it, no provider counts it, and   *)
(* no coroutine of it runs.                                                *)
TerminalRecovery ==
    \A f \in Id : (f \notin fibers \/ rec[f].state = "inactive") =>
        /\ ~rec[f].applying /\ rec[f].kids = {}
        /\ \A s \in Scopes, k \in Keys : bindings[s][k].provider # f
        /\ \A p \in fibers : f \in rec[p].consumers => Releasing(f, p)

(* Every retire() returns.                                                 *)
RetireReturns == \A h \in Hosts : host[h] = "retire" ~> host[h] = "free"

(* Every wait_idle() returns.                                              *)
WaitIdleReturns == \A h \in Hosts : host[h] = "wait_idle" ~> host[h] = "free"

(* A child whose parent is gone is gone in the end.                        *)
ChildrenFollow ==
    \A c \in Id : (c \in fibers /\ rec[c].parent # 0 /\ rec[c].parent \notin fibers)
                    ~> c \notin fibers
=============================================================================
