------------------------------- MODULE Console -------------------------------
(***************************************************************************)
(* The program's own tree: the configuration is resolved from its layers,  *)
(* turned into the desired components, and the commands of the console     *)
(* (config reload, load, unload, reload, fail) edit that tree and          *)
(* reconcile the runtime with it (apps/araya/src/config.cpp, app_core.cpp, *)
(* commands_components.cpp).  Commands run one at a time.                   *)
(*                                                                         *)
(* The tree is cut down to eight components: those the commands name and   *)
(* what they depend on.  How reconcile() and the cascades it sets off get  *)
(* where they get is the subject of Reconcile and Runtime; here they are   *)
(* one step, with every result the order of a cascade may give.            *)
(***************************************************************************)
EXTENDS Naturals, Sequences, FiniteSets, TLC, SequencesExt, FiniteSetsExt

CONSTANTS
    Layers,     \* how many layers there are
    Names,      \* the component ids, in the order of std::map
    Commanded,  \* those the user names in commands
    Documents,  \* what a layer may say: [llm, query, off, knobs]
    Given,      \* SUBSET Documents: what the files say at the start
    Unreadable, \* a file with no JSON object in it
    Flaky,      \* components whose apply() may throw
    None,
    MaxWork     \* bound: edits and commands

VARIABLES
    files,      \* the layers: files, then the environment and the command line
    config,     \* app_context::config
    desired,    \* app_context::desired: [id -> [by, config]]
    running,    \* the mounted fibers: [id -> [by, config, born, state, sees]]
    born,       \* reconciliations so far
    spoiled,    \* the last reload of the configuration failed half-way
    said,       \* the last command: [op, name, tail]
    work
vars == <<files, config, desired, running, born, spoiled, said, work>>

-----------------------------------------------------------------------------
(* resolve_app_config(): each layer over the ones before it.               *)
Base == [llm |-> None, query |-> "session-query", off |-> << >>, knobs |-> << >>]
Or(new, old) == IF new = None THEN old ELSE new
Apply(cfg, doc) ==
    [llm |-> Or(doc.llm, cfg.llm), query |-> Or(doc.query, cfg.query),
     off |-> doc.off @@ cfg.off, knobs |-> doc.knobs @@ cfg.knobs]
Resolved == FoldLeft(Apply, Base, files)
Legible == \A i \in DOMAIN files : files[i] # Unreadable

(* build_tree(): the components, their overrides in the order of their     *)
(* ids, each validated before any of its keys is taken, then the switches. *)
Always == {"logger", "timer", "session", "persistence", "llm"}
Plain(cfg) ==
    [n \in Always \cup {cfg.query} \cup (IF cfg.llm = None THEN {} ELSE {"llm-compat"}) |->
        [by |-> n, config |-> IF n = "llm-compat" THEN cfg.llm ELSE "default"]]
Throws(cfg) ==
    {i \in DOMAIN Names : /\ Names[i] \in DOMAIN cfg.knobs
                          /\ Names[i] \notin DOMAIN Plain(cfg) \/ cfg.knobs[Names[i]] = "malformed"}
Overridden(cfg, upto) ==
    LET tree == Plain(cfg)
        taken == {Names[i] : i \in {k \in DOMAIN Names : k < upto}} \cap DOMAIN cfg.knobs \cap DOMAIN tree
    IN  [n \in taken |-> [by |-> n, config |-> cfg.knobs[n]]] @@ tree
Partial(cfg) == Overridden(cfg, Min(Throws(cfg)))
Tree(cfg) ==
    LET all == Overridden(cfg, Len(Names) + 1)
    IN  [n \in {m \in DOMAIN all : m \in DOMAIN cfg.off => ~cfg.off[m]} |-> all[n]]

(* The injections the components declare: whom each requires, whom it      *)
(* would like.  A component comes after those it declares in InOrder.      *)
QueryEngines == {"session-query", "session-query-sqlite"}
Requires == {<<"llm-compat", "llm">>} \cup (QueryEngines \X {"session"})
Likes == (QueryEngines \X {"persistence", "logger"}) \cup ({"llm-compat", "persistence"} \X {"logger"})
InOrder == <<"llm", "logger", "session", "timer", "persistence", "llm-compat", "session-query", "session-query-sqlite">>
From(edges, n) == {e[2] : e \in {x \in edges : x[1] = n}}

(* The activation of p: when it was started, 0 while it is not up.         *)
Instance(fibers, p) == IF p \in DOMAIN fibers /\ fibers[p].state = "up" THEN fibers[p].born ELSE 0
StirredByLoss(run, done, declared) ==    \* mutant of Stirred: publish does not notify
    {p \in declared : Instance(run, p) # Instance(done, p) /\ Instance(run, p) # 0}
Stirred(run, done, declared) == {p \in declared : Instance(run, p) # Instance(done, p)}

(* A fiber that is reloaded by a cascade may be stopped while it loads, and *)
(* nothing reloads it then: begin_unload requests its stop after its       *)
(* consumers are down, when it may be loading already; and it is unloaded  *)
(* twice if of two providers it loses one consumes the other.              *)
Interrupted(run, n, lost) ==
    \/ \E m \in DOMAIN run : n \in DOMAIN run[m].sees
    \/ \E p, q \in lost : q \in DOMAIN run[p].sees

(* What may become of n, once those it declares have settled as in done:   *)
(* an entry that did not change keeps its fiber, which a change of its     *)
(* providers reloads, or loads if it was inactive; a failure is kept until *)
(* the fiber is replaced.  A fiber that loads may miss an optional service *)
(* that arrives meanwhile.                                                 *)
Outcomes(run, done, entry, n, k) ==
    LET kept == n \in DOMAIN run /\ run[n].by = entry.by /\ run[n].config = entry.config
        active == kept /\ run[n].state = "up"
        needed == IF entry.by = n THEN From(Requires, n) ELSE {}
        declared == IF entry.by = n THEN needed \cup From(Likes, n) ELSE {}
        here == [p \in {q \in declared : Instance(done, q) # 0} |-> done[p].born]
        stirred == Stirred(run, done, declared)
        lost == IF active THEN stirred \cap DOMAIN run[n].sees ELSE {}
        came == stirred \cap DOMAIN here
        Now(state, sees) == [by |-> entry.by, config |-> entry.config, born |-> k, state |-> state, sees |-> sees]
        missed == {late \in SUBSET (came \ needed) : active /\ lost = {} => late # came}
    IN  IF kept /\ (run[n].state = "failed" \/ (active /\ lost \cup came = {}) \/ (~active /\ stirred = {})) THEN {run[n]}
        ELSE IF ~(needed \subseteq DOMAIN here) THEN {Now("waiting", << >>)}
        ELSE IF entry.by # n THEN {Now("failed", << >>)}
        ELSE {Now("up", [p \in DOMAIN here \ late |-> here[p]]) : late \in missed}
             \cup {Now("failed", << >>) : flaky \in {n} \cap Flaky}
             \cup (IF active /\ Interrupted(run, n, lost) THEN {Now("parked", << >>)} ELSE {})

(* reconcile() and wait_idle(): what may be mounted afterwards.            *)
Reconciled(run, want, k) ==
    LET Settle(results, n) ==
            IF n \notin DOMAIN want THEN results
            ELSE UNION {{(n :> r) @@ done : r \in Outcomes(run, done, want[n], n, k)} : done \in results}
    IN  FoldLeft(Settle, {<< >>}, InOrder)
Without(f, n) == [m \in DOMAIN f \ {n} |-> f[m]]
Reconcile(want) ==
    /\ desired' = want /\ born' = born + 1
    /\ running' \in Reconciled(running, want, born')
(* remount(): retired by a first reconciliation, mounted by a second.      *)
Remount(n, entry) ==
    /\ desired' = (n :> entry) @@ Without(desired, n) /\ born' = born + 2
    /\ running' \in UNION {Reconciled(retired, desired', born') :
                              retired \in Reconciled(running, Without(desired, n), born + 1)}

Works(op, n, tail) ==
    /\ work < MaxWork /\ work' = work + 1 /\ said' = [op |-> op, name |-> n, tail |-> tail]

-----------------------------------------------------------------------------
(* boot(): a configuration that does not resolve ends the program.         *)
Init ==
    /\ files \in [1..Layers -> Documents] /\ \A i \in 1..(Layers - 1) : files[i] \in Given
    /\ config = Resolved /\ Throws(config) = {} /\ desired = Tree(config) /\ born = 1
    /\ running \in Reconciled(<< >>, desired, 1)
    /\ spoiled = FALSE /\ said = [op |-> "boot", name |-> None, tail |-> None] /\ work = 0

(* The user edits one of the files; the other layers stay as they are.     *)
Edit(i, doc) ==
    /\ i < Layers /\ doc # files[i] /\ files' = [files EXCEPT ![i] = doc]
    /\ Works("edit", None, None) /\ UNCHANGED <<config, desired, running, born, spoiled>>

(* cmd_config: the configuration is replaced when it resolves, the desired *)
(* components are cleared before build_tree(), which may throw.            *)
ReloadConfig ==
    /\ UNCHANGED files
    /\ \/ ~Legible /\ Works("refused", None, None) /\ UNCHANGED <<config, desired, running, born, spoiled>>
       \/ /\ Legible /\ config' = Resolved /\ Throws(config') # {} /\ Works("refused", None, None)
          /\ desired' = Partial(config') /\ spoiled' = TRUE /\ UNCHANGED <<running, born>>
       \/ /\ Legible /\ config' = Resolved /\ Throws(config') = {} /\ Works("config", None, None)
          /\ Reconcile(Tree(config')) /\ spoiled' = FALSE

(* cmd_load: an ensure.  Its configuration is the component's default one. *)
Load(n, tail) ==
    LET entry == [by |-> n, config |-> Or(tail, "default")]
    IN  /\ Works("load", n, tail) /\ UNCHANGED <<files, config, spoiled>>
        /\ IF n \notin DOMAIN desired THEN Reconcile((n :> entry) @@ desired)
           ELSE IF tail = None /\ n \in DOMAIN running /\ running[n].state = "up" THEN UNCHANGED <<desired, running, born>>
           ELSE Remount(n, entry)
Unload(n) ==
    /\ n \in DOMAIN desired /\ Works("unload", n, None) /\ Reconcile(Without(desired, n))
    /\ UNCHANGED <<files, config, spoiled>>
Reload(n) ==
    /\ n \in DOMAIN desired /\ Works("reload", n, None) /\ Remount(n, desired[n])
    /\ UNCHANGED <<files, config, spoiled>>
Targets == {"logger", "timer", "session"}
Fail(n) ==
    /\ n \in Targets \cap DOMAIN desired /\ Works("fail", n, None)
    /\ Reconcile([desired EXCEPT ![n] = [by |-> "bomb", config |-> n]])
    /\ UNCHANGED <<files, config, spoiled>>
FailClear ==
    /\ Works("clear", None, None) /\ UNCHANGED <<files, config, spoiled>>
    /\ Reconcile([n \in DOMAIN desired |-> IF n \in Targets THEN [by |-> n, config |-> "default"] ELSE desired[n]])

Next ==
    \/ \E i \in DOMAIN files, doc \in Documents \cup {Unreadable} : Edit(i, doc)
    \/ ReloadConfig \/ FailClear
    \/ \E n \in Commanded :
          \/ \E tail \in {None, "v1"} : Load(n, tail)
          \/ Unload(n) \/ Reload(n) \/ Fail(n)
Spec == Init /\ [][Next]_vars

-----------------------------------------------------------------------------
(***************************************************************************)
(* What a command leaves mounted, after any history of edits, failures and *)
(* reloads.  A configuration that is reported as reloaded is the one the   *)
(* layers describe: each key as the last layer that names it has it,       *)
(* nothing else mounted and everything not switched off.  A command that   *)
(* names a component touches only it and those that depend on it, directly *)
(* or through others, unless a reload that threw has left its half-built   *)
(* tree behind; load ends with the real component up or freshly tried,     *)
(* reload with a new one.  Whatever the cascades did: who is up works with *)
(* nobody who is gone, and with all that it requires, and who waits lacks  *)
(* something it requires (resolve_app_config, build_tree, cmd_load,        *)
(* cmd_reload, remount, runtime::reconcile).                               *)
(***************************************************************************)
Latest(has(_)) == {i \in DOMAIN files : has(files[i]) /\ ~\E j \in DOMAIN files : j > i /\ has(files[j])}
Field(has(_), of(_), default) == IF Latest(has) = {} THEN default ELSE of(files[CHOOSE i \in Latest(has) : TRUE])
SaysLlm(doc) == doc.llm # None
SaysQuery(doc) == doc.query # None
Wanted ==
    LET llm == Field(SaysLlm, LAMBDA d : d.llm, None)
        query == Field(SaysQuery, LAMBDA d : d.query, "session-query")
        Off(n) == Field(LAMBDA d : n \in DOMAIN d.off, LAMBDA d : d.off[n], FALSE)
        Knob(n) == Field(LAMBDA d : n \in DOMAIN d.knobs, LAMBDA d : d.knobs[n], IF n = "llm-compat" THEN llm ELSE "default")
        on == {n \in Always \cup {query} \cup {m \in {"llm-compat"} : llm # None} : ~Off(n)}
    IN  [n \in on |-> Knob(n)]
Untouched(n) ==
    /\ (n \in DOMAIN running) = (n \in DOMAIN running')
    /\ n \in DOMAIN running => running'[n] = running[n]

Dependants(n) ==
    LET direct == {m \in ToSet(InOrder) : n \in From(Requires \cup Likes, m)}
    IN  direct \cup {m \in ToSet(InOrder) : From(Requires \cup Likes, m) \cap direct # {}}
Coherent(n) ==
    LET f == running[n]
        all == From(Requires, n) \subseteq {p \in ToSet(InOrder) : Instance(running, p) # 0}
    IN  /\ f.state = "up" => f.by = n /\ all /\ \A p \in DOMAIN f.sees : f.sees[p] = Instance(running, p)
        /\ f.state = "waiting" => f.by = n /\ ~all

Obeyed ==
    /\ said'.op = "config" => [n \in DOMAIN running' |-> running'[n].config] = Wanted /\ \A n \in DOMAIN running' : running'[n].by = n
    /\ said'.op \in {"load", "unload", "reload", "fail"} /\ ~spoiled =>
           \A n \in (DOMAIN running \cup DOMAIN running') \ ({said'.name} \cup Dependants(said'.name)) : Untouched(n)
    /\ said'.op = "load" => /\ said'.name \in DOMAIN running' /\ running'[said'.name].by = said'.name
                            /\ running'[said'.name].state = "up" \/ running'[said'.name].born > born
    /\ said'.op = "reload" /\ ~spoiled /\ said'.name \in DOMAIN running =>
           running'[said'.name].born > running[said'.name].born
    /\ \A n \in DOMAIN running' : Coherent(n)'
==============================================================================
