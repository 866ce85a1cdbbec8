------------------------------- MODULE Diagnosis -------------------------------
(***************************************************************************)
(* What the engine reports of its declared dependencies (runtime.cpp,      *)
(* diagnose): conflicting providers and cycles, found when a fiber is      *)
(* mounted and after a reconcile, each reported once.                      *)
(* Scopes: the root, a plain scope in it, and that of an entry isolated in *)
(* the root under a realm, whose bindings pass through to it.              *)
(***************************************************************************)
EXTENDS Naturals, SequencesExt

CONSTANTS Keys, MaxMounts   \* services; bound: mounts

VARIABLES
    fibers,    \* fibers_: [id -> [scope, inject, provide]]
    reported,  \* reported_diagnostics_: [kind, slot, ids]
    mounts     \* fibers ever mounted

vars == <<fibers, reported, mounts>>
Scopes == {"root", "plain", "isolated"}
Chain(scope) == {scope, "root"}
Realm(scope) == IF scope = "isolated" THEN "realm" ELSE ""
Fiber == [scope : Scopes, inject : {S \in SUBSET Keys : S # Keys}, provide : {S \in SUBSET Keys : S # Keys}]

Init == fibers = << >> /\ reported = {} /\ mounts = 0

----------------------------------------------------------------------------
(* Single-source discipline: providers of one slot.                        *)
Slot(f, k) == <<f.scope, k, Realm(f.scope)>>
Conflicts(fs) ==
    LET slots == {Slot(fs[i], k) : i \in DOMAIN fs, k \in Keys}
        At(s) == {i \in DOMAIN fs : \E k \in fs[i].provide : Slot(fs[i], k) = s}
    IN  {[kind |-> "conflict", slot |-> s, ids |-> At(s)] : s \in {s \in slots : \E i, j \in At(s) : i # j}}

(* The declared edges: a provider of a key, in a scope on the chain.       *)
Targets(fs, i) ==
    {j \in DOMAIN fs : fs[i].inject \cap fs[j].provide # {} /\ fs[j].scope \in Chain(fs[i].scope)}

(* strongconnect(): s is the state of the walk, whose tables are index,    *)
(* low and stack; its targets are visited in order.                        *)
RECURSIVE Connect(_, _, _)
Visited(s, p, w, after) ==
    IF w \notin DOMAIN s.index THEN [after EXCEPT !.low[p] = IF after.low[w] < @ THEN after.low[w] ELSE @]
    ELSE IF Contains(s.stack, w) THEN [s EXCEPT !.low[p] = IF s.index[w] < @ THEN s.index[w] ELSE @]
    ELSE s
Connect(fs, s, p) ==
    LET set(f, v) == [q \in DOMAIN f \cup {p} |-> IF q = p THEN v ELSE f[q]]
        entered == [s EXCEPT !.index = set(@, s.next), !.low = set(@, s.next), !.next = @ + 1, !.stack = Append(@, p)]
        walked == FoldLeft(LAMBDA t, w : Visited(t, p, w, IF w \in DOMAIN t.index THEN t ELSE Connect(fs, t, w)),
                           entered, SetToSortSeq(Targets(fs, p), <))
        at == CHOOSE n \in DOMAIN walked.stack : walked.stack[n] = p
    IN  IF walked.low[p] # walked.index[p] THEN walked
        ELSE [walked EXCEPT !.stack = SubSeq(@, 1, at - 1),
                            !.found = @ \cup {ToSet(SubSeq(walked.stack, at, Len(walked.stack)))}]
Components(fs) ==
    LET start == [index |-> << >>, low |-> << >>, next |-> 0, stack |-> << >>, found |-> {}]
    IN  FoldLeft(LAMBDA s, p : IF p \in DOMAIN s.index THEN s ELSE Connect(fs, s, p), start,
                 SetToSortSeq(DOMAIN fs, <)).found
Cycle(ids) == [kind |-> "cycle", slot |-> << >>, ids |-> ids]
Cycles(fs) == {Cycle(c) : c \in {c \in Components(fs) : \E i, j \in c : i # j}}

(* A fiber that declares a key it provides itself.                         *)
Selves(fs) == {Cycle({i}) : i \in {i \in DOMAIN fs : fs[i].inject \cap fs[i].provide # {}}}

Diagnosed(fs, scan) == reported \cup Conflicts(fs) \cup (IF scan THEN Cycles(fs) ELSE {}) \cup Selves(fs)

----------------------------------------------------------------------------
(* mount_locked(): the walk is left out when no declared key has a         *)
(* provider.                                                               *)
Gate(fs, f) == \E i \in DOMAIN fs : fs[i].provide \cap f.inject # {}
Mount(f) ==
    /\ mounts < MaxMounts /\ mounts' = mounts + 1
    /\ fibers' = [i \in DOMAIN fibers \cup {mounts'} |-> IF i = mounts' THEN f ELSE fibers[i]]
    /\ reported' = Diagnosed(fibers', Gate(fibers', f))
(* drop and unindex: nothing is reported.                                  *)
Drop(i) == fibers' = [j \in DOMAIN fibers \ {i} |-> fibers[j]] /\ UNCHANGED <<reported, mounts>>
(* The end of reconcile().                                                 *)
Rescan == reported' = Diagnosed(fibers, TRUE) /\ UNCHANGED <<fibers, mounts>>

Next == (\E f \in Fiber : Mount(f)) \/ (\E i \in DOMAIN fibers : Drop(i)) \/ Rescan
Spec == Init /\ [][Next]_vars

----------------------------------------------------------------------------
(***************************************************************************)
(* As long as no entry is isolated, what doc/INTRODUCTION.md:232 promises: *)
(* fibers that need each other, directly or not, and fibers that provide   *)
(* one key in one scope, are in one report, and only those.  (For isolated *)
(* entries the scan goes by the entry's own scope, not by where its        *)
(* bindings land.)  Reference: paths of edges, and the slots of bindings.  *)
(***************************************************************************)
Needs(fs, m, n) == fs[m].inject \cap fs[n].provide # {} /\ fs[n].scope \in Chain(fs[m].scope)
Reaches(fs, m, n) ==
    \E p \in UNION {[1..l -> DOMAIN fs] : l \in 2..(Cardinality(DOMAIN fs) + 1)} :
        p[1] = m /\ p[Len(p)] = n /\ \A i \in 1..(Len(p) - 1) : Needs(fs, p[i], p[i + 1])
Entangled(fs, m, n) == Reaches(fs, m, n) /\ Reaches(fs, n, m)
Rivals(fs, m, n) == m # n /\ fs[m].scope = fs[n].scope /\ fs[m].provide \cap fs[n].provide # {}
Plain(fs) == \A i \in DOMAIN fs : fs[i].scope # "isolated"

Reports == Plain(fibers') =>
    /\ \A m, n \in DOMAIN fibers' :
        /\ Entangled(fibers', m, n) => \E d \in reported' : d.kind = "cycle" /\ {m, n} \subseteq d.ids
        /\ Rivals(fibers', m, n) => \E d \in reported' : d.kind = "conflict" /\ {m, n} \subseteq d.ids
    /\ \A d \in reported' \ reported : \A m, n \in d.ids :
        IF d.kind = "cycle" THEN Entangled(fibers', m, n) ELSE m = n \/ Rivals(fibers', m, n)
===============================================================================
