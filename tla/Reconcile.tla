------------------------------- MODULE Reconcile -------------------------------
(***************************************************************************)
(* Declarative composition (runtime::reconcile, runtime.cpp:211-330): a    *)
(* tree of wanted entries is compared with the fibers mounted for earlier  *)
(* trees, which are kept, retagged, reconfigured, retired or replaced; and *)
(* the realms, by which an entry may be isolated from the others' service. *)
(*                                                                         *)
(* The engine is Runtime's, with one service and two kinds of component:   *)
(* one provides it, one requires it.  A handler's cascade is then a few    *)
(* steps deep and is one operator here.                                    *)
(***************************************************************************)
EXTENDS Integers, FiniteSets

CONSTANTS
    Paths,      \* SUBSET Nat: the entries' paths, in their order
    Configs,    \* configurations
    Realms,     \* realms other than the default one
    Default,    \* the realm of an entry without an isolate annotation
    Hosts,      \* coroutines that call reconcile()
    MaxFiber,   \* bound: fibers ever mounted
    MaxCalls    \* bound: calls of reconcile()

Id == 1..MaxFiber
Entry == [impl : {"provider", "consumer"}, config : Configs, realm : Realms \cup {Default}]

(* Trees with a single source per realm: a second one is diagnosed, not    *)
(* refused, and what it leads to is Runtime's subject.                     *)
SingleSource(tree) ==
    \A p, q \in DOMAIN tree :
        p # q /\ tree[p].impl = "provider" /\ tree[q].impl = "provider" => tree[p].realm # tree[q].realm
Trees == {tree \in UNION {[P -> Entry] : P \in SUBSET Paths} : SingleSource(tree)}

VARIABLES
    fib,        \* the fibers in fibers_, by id
    slot,       \* the service's binding in each realm
    reconciled, \* reconciled_: path to fiber
    call,       \* what each host's reconcile() is suspended on
    mounted,    \* how many fibers were ever mounted
    calls,
    last,       \* the tree of the latest call
    crossed,    \* history: whether two calls have overlapped
    adrift      \* history: realms whose binding was left behind or contested,
                \* and fibers retagged while parked

vars == <<fib, slot, reconciled, call, mounted, calls, last, crossed, adrift>>

Free == [by |-> 0, state |-> "none"]
Idle == [at |-> "idle", tree |-> << >>, waits |-> {}, path |-> 0]

Init ==
    /\ fib = << >> /\ slot = [r \in Realms \cup {Default} |-> Free] /\ reconciled = << >>
    /\ call = [h \in Hosts |-> Idle] /\ mounted = 0 /\ calls = 0 /\ last = << >>
    /\ crossed = FALSE /\ adrift = [realms |-> {}, fibers |-> {}]

----------------------------------------------------------------------------
(* The engine: operators on w, the fibers and the slots.                   *)

Tag(w, f) == w.fib[f].entry.realm
Provides(w, f) == w.fib[f].entry.impl = "provider"
Consumers(w) == {f \in DOMAIN w.fib : ~Provides(w, f)}
Offer(w, r) == IF w.slot[r].state = "active" THEN w.slot[r].by ELSE 0
Without(m, S) == [x \in DOMAIN m \ S |-> m[x]]
Vacated(w, f) == IF w.slot[Tag(w, f)].by = f THEN [w.slot EXCEPT ![Tag(w, f)] = Free] ELSE w.slot

(* evaluate: a parked fiber that can be satisfied loads; an active one     *)
(* whose provider is no longer the one committed is unloaded first.        *)
Evaluated(w, f) ==
    LET x == w.fib[f]
        offer == Offer(w, x.entry.realm)
    IN  IF x.retired \/ x.state \notin {"inactive", "active"} THEN x
        ELSE IF Provides(w, f)
        THEN IF x.state = "inactive" /\ ~x.failed THEN [x EXCEPT !.state = "loading"] ELSE x
        ELSE IF x.state = "active" /\ x.committed = offer THEN x
        ELSE IF offer # 0 /\ ~x.failed THEN [x EXCEPT !.state = "loading", !.committed = offer]
        ELSE [x EXCEPT !.state = "inactive", !.committed = 0]
Evaluate(w, S) == [w EXCEPT !.fib = [f \in DOMAIN w.fib |-> IF f \in S THEN Evaluated(w, f) ELSE w.fib[f]]]

(* Mutant of Notify: nobody is told.                                       *)
NotifyNobody(w, r) == w

(* notify, from the scope of an entry tagged r: an annotated entry has a   *)
(* scope of its own, which is on no other entry's chain.                   *)
Notify(w, r) ==
    IF r = Default THEN Evaluate(w, {f \in Consumers(w) : Tag(w, f) = Default}) ELSE w

(* begin_unload of an active fiber and what it causes: consumers leave and *)
(* are evaluated while the binding is retiring, effects are undone.        *)
Unloaded(w, f) ==
    LET r == Tag(w, f)
        retiring == IF w.slot[r].by = f THEN [w.slot EXCEPT ![r].state = "retiring"] ELSE w.slot
        users == {c \in Consumers(w) : w.fib[c].state = "active" /\ w.fib[c].committed = f}
        parked == [g \in DOMAIN w.fib |->
                      IF g \in users THEN [w.fib[g] EXCEPT !.state = "inactive", !.committed = 0] ELSE w.fib[g]]
        left == Evaluate([fib |-> parked, slot |-> retiring], users)
        gone == [fib |-> [left.fib EXCEPT ![f].state = "inactive", ![f].committed = 0], slot |-> Vacated(left, f)]
    IN  IF Provides(w, f) THEN Notify(gone, r) ELSE gone

(* A fiber is marked retired and unloaded; one that is loading only stops. *)
Retired(w, f) ==
    LET marked == [w EXCEPT !.fib[f].retired = TRUE]
    IN  CASE w.fib[f].state = "active" -> Unloaded(marked, f)
          [] w.fib[f].state = "loading" -> [marked EXCEPT !.fib[f].state = "unloading"]
          [] OTHER -> marked

(* reassign: a provider's own binding moves to the realm it is retagged    *)
(* with, unless the place is taken; whoever may resolve otherwise now is   *)
(* evaluated, the fiber itself included.                                   *)
Contested(w, f, r) ==
    (IF w.slot[Tag(w, f)].by = f /\ w.slot[r].by # 0 THEN {Tag(w, f)} ELSE {})
    \cup (IF \E g \in DOMAIN w.fib : /\ Provides(w, g) /\ Tag(w, g) = r
                                     /\ w.fib[g].state \in {"loading", "unloading"} THEN {r} ELSE {})
Reassigned(w, f, r) ==
    LET old == Tag(w, f)
        moves == Provides(w, f) /\ w.slot[old].by = f /\ w.slot[r].by = 0
        tagged == [fib |-> [w.fib EXCEPT ![f].entry.realm = r],
                   slot |-> IF moves THEN [w.slot EXCEPT ![r] = w.slot[old], ![old] = Free] ELSE w.slot]
        told == IF Provides(w, f) /\ (moves \/ Default \in {old, r})
                THEN Notify(Notify(tagged, old), r) ELSE tagged
    IN  IF told.fib[f].state = "active" THEN Evaluate(told, {f}) ELSE told

----------------------------------------------------------------------------
(* What becomes of one fiber: it is retired when its entry is gone, has    *)
(* another implementation or a configuration it does not take, or leaves   *)
(* its scope while loading; otherwise it takes on the new entry.           *)
Moved(w, f, entry) == (Tag(w, f) = Default) # (entry.realm = Default)

Keeps(w, f, tree, taken) ==
    LET p == w.fib[f].path
    IN  /\ p \in DOMAIN tree /\ tree[p].impl = w.fib[f].entry.impl
        /\ tree[p].config # w.fib[f].entry.config => w.fib[f].state = "active" /\ f \in taken
        /\ ~(Moved(w, f, tree[p]) /\ w.fib[f].state = "loading")

Adjusted(w, f, entry) ==
    LET configured == IF w.fib[f].state = "active" /\ entry.config # w.fib[f].entry.config
                      THEN [w EXCEPT !.fib[f].entry.config = entry.config] ELSE w
    IN  IF Tag(w, f) = entry.realm THEN configured
        ELSE IF w.fib[f].state \in {"active", "loading"} THEN Reassigned(configured, f, entry.realm)
        ELSE [configured EXCEPT !.fib[f].entry.realm = entry.realm]

(* The loop over reconciled_, in the order of the paths.                   *)
Planned(tree, taken) ==
    LET start == [w |-> [fib |-> fib, slot |-> slot], waits |-> {},
                  adrift |-> adrift]
        At(p, acc) ==
            IF p \notin DOMAIN reconciled THEN acc
            ELSE LET f == reconciled[p]
                     w == acc.w
                 IN  IF ~Keeps(w, f, tree, taken)
                     THEN [acc EXCEPT !.w = Retired(w, f), !.waits = @ \cup {f}]
                     ELSE [acc EXCEPT !.w = Adjusted(w, f, tree[p]),
                           !.adrift.realms = @ \cup (IF Tag(w, f) # tree[p].realm /\ Provides(w, f)
                                                    THEN Contested(w, f, tree[p].realm) ELSE {}),
                           !.adrift.fibers = @ \cup (IF Tag(w, f) # tree[p].realm
                                                        /\ w.fib[f].state = "inactive" THEN {f} ELSE {})]
        run[n \in 0..Cardinality(Paths)] == IF n = 0 THEN start ELSE At(n, run[n - 1])
    IN  run[Cardinality(Paths)]

(* The next entry to mount: the first that nothing is mounted for.         *)
Unmet(tree, map, after) == {p \in DOMAIN tree : p > after /\ p \notin DOMAIN map}
Onward(h, tree, map, after) ==
    call' = [call EXCEPT ![h] =
        IF Unmet(tree, map, after) = {} THEN Idle
        ELSE [at |-> "mount", tree |-> tree, waits |-> {},
              path |-> CHOOSE p \in Unmet(tree, map, after) : \A q \in Unmet(tree, map, after) : p <= q]]

Reconcile(h, tree) ==
    /\ call[h].at = "idle" /\ calls < MaxCalls /\ calls' = calls + 1
    /\ \E taken \in SUBSET {f \in DOMAIN fib : fib[f].path \in DOMAIN tree
                                /\ fib[f].entry.config # tree[fib[f].path].config} :
          LET plan == Planned(tree, taken)
          IN  /\ fib' = plan.w.fib /\ slot' = plan.w.slot /\ adrift' = plan.adrift
              /\ reconciled' = Without(reconciled, {p \in DOMAIN reconciled : reconciled[p] \in plan.waits})
              /\ call' = [call EXCEPT ![h] = [at |-> "wait", tree |-> tree, waits |-> plan.waits, path |-> 0]]
    /\ last' = tree /\ crossed' = (crossed \/ \E g \in Hosts : call[g].at # "idle")
    /\ UNCHANGED mounted

(* Their gates are open: the retired fibers are erased.                    *)
Waited(h) ==
    /\ call[h].at = "wait"
    /\ \A f \in call[h].waits \cap DOMAIN fib : fib[f].state = "inactive"
    /\ fib' = Without(fib, call[h].waits)
    /\ Onward(h, call[h].tree, reconciled, 0)
    /\ UNCHANGED <<slot, reconciled, mounted, calls, last, crossed, adrift>>

(* mount(), which was posted when the entry was found to be missing.       *)
Mount(h) ==
    /\ call[h].at = "mount" /\ mounted < MaxFiber /\ mounted' = mounted + 1
    /\ LET p == call[h].path
           f == mounted'
           fresh == [path |-> p, entry |-> call[h].tree[p], state |-> "inactive", committed |-> 0,
                     bound |-> FALSE, failed |-> FALSE, retired |-> FALSE]
           known == [g \in DOMAIN fib \cup {f} |-> IF g = f THEN fresh ELSE fib[g]]
           map == [q \in DOMAIN reconciled \cup {p} |-> IF q = p THEN f ELSE reconciled[q]]
       IN  /\ fib' = Evaluate([fib |-> known, slot |-> slot], {f}).fib /\ reconciled' = map
           /\ Onward(h, call[h].tree, map, p)
    /\ UNCHANGED <<slot, calls, last, crossed, adrift>>

----------------------------------------------------------------------------
(* apply(): a provider binds its service, then the fiber completes.        *)
Provide(f) ==
    /\ f \in DOMAIN fib /\ fib[f].entry.impl = "provider" /\ fib[f].state \in {"loading", "unloading"}
    /\ ~fib[f].bound /\ fib' = [fib EXCEPT ![f].bound = TRUE]
    /\ slot' = [slot EXCEPT ![fib[f].entry.realm] = [by |-> f, state |-> "loading"]]
    /\ UNCHANGED <<reconciled, call, mounted, calls, last, crossed, adrift>>

(* on_apply_completed: it raised, was stopped, lost its provider, or is    *)
(* published.                                                              *)
Stale(w, f) == ~Provides(w, f) /\ w.fib[f].committed # Offer(w, Tag(w, f))
Complete(f, raised) ==
    /\ f \in DOMAIN fib /\ fib[f].state \in {"loading", "unloading"}
    /\ LET w == [fib |-> fib, slot |-> slot]
           undone == [fib |-> [fib EXCEPT ![f].state = "inactive", ![f].committed = 0, ![f].bound = FALSE,
                                          ![f].failed = raised],
                      slot |-> Vacated(w, f)]
           live == [fib |-> [fib EXCEPT ![f].state = "active", ![f].bound = FALSE],
                    slot |-> IF slot[Tag(w, f)].by = f THEN [slot EXCEPT ![Tag(w, f)].state = "active"] ELSE slot]
           after == IF raised \/ Stale(w, f) \/ fib[f].state = "unloading"
                    THEN IF Stale(w, f) THEN Evaluate(undone, {f}) ELSE undone
                    ELSE IF Provides(w, f) THEN Notify(live, Tag(w, f)) ELSE live
       IN  /\ Provides(w, f) /\ ~raised => fib[f].bound
           /\ fib' = after.fib /\ slot' = after.slot
    /\ UNCHANGED <<reconciled, call, mounted, calls, last, crossed, adrift>>

Next ==
    \/ \E h \in Hosts : Waited(h) \/ Mount(h) \/ \E tree \in Trees : Reconcile(h, tree)
    \/ \E f \in Id : Provide(f) \/ \E raised \in BOOLEAN : Complete(f, raised)

Spec == Init /\ [][Next]_vars

----------------------------------------------------------------------------
Settled ==
    /\ \A h \in Hosts : call[h].at = "idle"
    /\ \A f \in DOMAIN fib : fib[f].state \in {"inactive", "active"}

(* What a consumer has is what its realm offers.                           *)
Served(f) == fib[f].failed \/ fib[f].committed = Offer([fib |-> fib, slot |-> slot], fib[f].entry.realm)

(***************************************************************************)
(* History does not matter: once settled, exactly the entries of the last  *)
(* tree are mounted, each as that tree has it, a realm offers the service  *)
(* of its provider and no other, and a consumer has what its realm offers, *)
(* as if the tree had been assembled once (runtime.cpp:211-303, 755-790).  *)
(* Excused: calls that overlapped, a realm whose binding could not move, a *)
(* consumer that was retagged while parked or has a realm of its own, of   *)
(* whose provider nobody tells it.                                         *)
(***************************************************************************)
AsAssembled ==
    Settled /\ ~crossed =>
        /\ DOMAIN reconciled = DOMAIN last
        /\ \A f \in DOMAIN fib : reconciled[fib[f].path] = f /\ fib[f].entry = last[fib[f].path]
        /\ \A r \in DOMAIN slot \ adrift.realms :
              slot[r].by # 0 => /\ slot[r].by \in DOMAIN fib /\ fib[slot[r].by].state = "active"
                                /\ fib[slot[r].by].entry.realm = r
        /\ Default \notin adrift.realms =>
              \A f \in DOMAIN fib \ adrift.fibers :
                  fib[f].entry.impl = "consumer" /\ fib[f].entry.realm = Default => Served(f)

===============================================================================
