# A verification project for araya

araya is a C++ component runtime: *fibers* (mounted plugins) declare the services they inject
and provide, load when their dependencies resolve, and are torn down in dependency order when a
provider leaves. On top of it sits an agent host (agent loop, session log, jobs, tools, protocol
clients, a terminal application), each part a plugin. Paths below are relative to the repository,
whose root this project calls `src/`: the runtime engine is `src/src/runtime.cpp`.

The project models the engine and the event bus, the agent loop with its goals, the session store
with its persistence, and some thirty services, tools and commands around them. Five parts have
proofs: the engine, its effect stack, the event bus, the agent loop, and the session store, which is
also shown to implement an abstract durable log.

## 1. Files

| file | what it is |
| --- | --- |
| `Runtime.tla` | the engine: mount, resolve, load, publish, the withdrawal cascade, retire, idle |
| `MCRuntime.tla`, `MCFaults/MCFamily.cfg` | instances on which the engine's properties hold |
| `MCTwin/MCParked/MCCoherent.cfg` | instances on which the code departs from its documents |
| `RuntimeProofs.tla` | type correctness and sticky retirement, for all components |
| `AssemblyProofs.tla` | ordered withdrawal and what else static assemblies are owed: an invariant of every stack a cascade can build |
| `EventBus.tla`, `MCEventBus.tla`, `MCBus/MCBusSnapshot/MCBusOnce.cfg`, `EventBusProofs.tla` | one entry of the event bus: the listener list and its dispatches; instances; proofs |
| `SessionLog.tla`, `Surface.tla` | the session store and the JSONL plugin over crashes and restarts; the message history |
| `DurableLog.tla` | what the persistence plugin promises, without files and buffers |
| `MCSessionLog.tla`, `MCSession.cfg`, `SessionLogProofs.tla` | instance; proofs, of the fold of a history, of the log, and of the refinement |
| `AgentLoop.tla`, `Goal.tla`, `MCAgentLoop.tla`, `MCAgent.cfg` | one session's driver, its inbox, the goal that is continued through it; instance |
| `AgentLoopProofs.tla` | proofs of the agent loop, after lemmas about queues, claims and the reading of rounds |
| `Workflow.tla`, `McpConnection.tla`, `Bash.tla`, `Delegation.tla`, `MCServices.tla/.cfg` | four services that owe somebody an answer, under fairness |
| `ServicesProofs.tla` | proofs of the books of three of them, for any number of calls, changes and bytes |
| `Reconcile.tla`, `Effects.tla`, `Diagnosis.tla` | more of the engine: declarative composition, cleanup stacks, diagnostics |
| `Conformance.tla` | the repository's reference machine, and the engine compared with it |
| `SessionIndex.tla`, `Query.tla`, `Projection.tla`, `Archive.tla` | what is kept beside the logs, and what is told of them |
| `Requests.tla`, `LlmStream.tla`, `OneShot.tla`, `Skill.tla`, `GoalTool.tla` | the model: what it is sent, what comes back, what it may use |
| `FileGuard.tla`, `Listing.tla`, `Web.tla`, `Jobs.tla`, `LspPool.tla` | tools and the services behind them |
| `Console.tla`, `Feed.tla`, `Script.tla` | the application: its configuration, its display, its scripts |
| `Parts.tla`, `PartsProofs.tla` | nine modules of the last six rows side by side, those there are proofs about; the proofs |
| `MCParts.tla/.cfg` | all modules of these six rows, each for itself, in one run |
| `PROJECT.json` | components, runs, mutants, the map from definitions to source lines, findings, hazards, theorems |

`tlc -config MCFamily.cfg MCRuntime` runs one check, `tlapm RuntimeProofs.tla` one set of proofs.

**Sums.** Parts that share no state are checked as a sum, not a product: a behaviour of `MCServices` or
`MCParts` is one of a single part, chosen in the initial state, and the registers `r1`, `r2`, ... are that part's variables.
(`Effects` alone keeps its own variables.) `Parts` is the smaller sum, of the nine parts there are proofs about (`Effects`, `OneShot`, `Jobs`, `LspPool`, `FileGuard`,
`SessionIndex`, `Projection`, `Skill`, `GoalTool`), and `MCParts` extends it with the others, so that a
theorem about `PartsSpec` names the very definition TLC checks; a behaviour of one of these nine parts is the same in both sums.
Every part keeps its whole state space (the sum has the sum of their sizes), and a property of the sum
says of each part what the part's own property says. A part can be
checked alone with a three-line configuration of its own.

## 2. Inventory

### The engine (`src/src/`, `src/include/araya/`)

*State.* A map of fiber records (component, scope chain, state, committed view, consumers,
the unload guard `remaining`, the reactivation mark, the `done` gate, the activation with its stop
source and effect stack); bindings per scope; `in_flight_` and the `idle` gate.
*Operations.* `mount`, `retire`, `retire_child`, `wait_idle`, `signal_availability`, `reconcile`,
the completion of `apply()`, and what a plugin does through its context: `provide`, `set_available`,
`require`, `mount`, `on`, early `release`.
*Interaction.* Everything runs on one control strand. Plugins' `apply()` coroutines run on a
strand over it and post back. Gates resume their waiters inside the call that opens them.
*What is hard.* Handlers never interleave, but one handler is a re-entrant cascade: unloading a
provider unloads its consumers, the last of them finishes the provider, finishing notifies and
reloads others, all before the first call returns. Values read before a nested call are used
after it. `apply()` completes late, after its dependencies have changed.
*What makes it correct.* Ordered withdrawal; guards that count exactly; nothing left behind by a
failed or retired fiber; sticky retirement; a settled state that is the one the declarations
call for; `retire()` and `wait_idle()` that return.

### The event bus (`src/include/araya/events.hpp`)

*State.* Per event: a shared, copy-on-write vector of slots; per dispatch: the vector it
took, a position, a gate with a countdown, the first error.
*Operations.* add and remove a listener (with once, prepend, scope), dispatch in five modes.
*What is hard.* Listeners add and remove listeners, and dispatch again, from inside a dispatch;
they suspend in the middle; they throw.
*What makes it correct.* A dispatch calls exactly the listeners of its vector, its gate
counts them, a failure goes where the mode says, a once listener runs once.

### The plugins and the application

Almost all of it runs on the same control strand: an operation is atomic up to its next suspension, and what
is hard are the suspensions, the posted continuations, processes outside the program, and the crash.

| component | state | operations | what is hard | what makes it correct | module |
| --- | --- | --- | --- | --- | --- |
| agent loop | drive, turn, step, inbox, waiters, wake request | run, ask, followup, steer, inject, cancel, dispose, drive | a message that arrives as a drive ends; a run that finds a drive running; a stop token that fires while waiters sleep | no message lost or doubled, whoever waits is answered, no drive serves a caller that is gone | `AgentLoop` |
| goal, round driver, goal tool | goal record, revision, rounds, the fence | create, edit, pause, resume, finish, next round | state read before a suspension, three parties that change one goal | rounds admitted in order and for the goal they were meant for; the model changes only what it may | `Goal`, `AgentLoop`, `GoalTool` |
| session store | sequence number, log, surface, cells | append, create, fork, restore, dispose, repair | numbers spent on refused events, splices of splices, reloads | sound stored logs; surface and projections are folds of the log | `SessionLog`, `Surface`, `Projection` |
| persistence | file, buffer, torn tail | attach, append, flush, drain, read | crash between any two of them, reopening a torn file | accepted records kept in order; a flush is a promise | `SessionLog`, `DurableLog` |
| session index and query | rows, revisions, generations, cursors | reconcile, search, page, read, trace | stale revisions after a crash, pages over changing data, what a caller may see of a step in flight | answers from the sessions as they are | `SessionIndex`, `Query` |
| export, attachment | archive, offsets, media | build, add, save | numbers wider than fields, ids that clean to the same name | an exported session is whole | `Archive` |
| prompt and request | sections, tools, instruction cache, head, series | register, assemble, render, commit | contributions that change between steps, complete sections, cached prefixes | a request is governed by what is in force, and can be answered | `Requests` |
| llm stream | wire blocks, accumulator, pending chunks | read, translate, sink, fold, commit | failures and stops between any two chunks, retries | what is committed is what was sent, once, in order | `LlmStream` |
| tools, one-shot runs | registry, guards, captured value | register, restrict, execute, capture | plugins that come and go during a handler; a stop after the capture | one authoritative result | `OneShot` |
| subagents | children, drives, notices | start, message, interrupt, settle, notify | settlement posted while the parent runs, stops, closes | whoever delegates hears of the end | `Delegation` |
| workflow | guest, pipes, call queue, slots | call, pump, reply, end, stop | children that outlive the run; cancellation | every call ends, slots are what runs | `Workflow` |
| jobs, shell | job table, waiters, tokens, processes, spill files | start, settle, kill, wait, output, dispose | a timeout against an exit, a process left behind, a settlement inside a kill | told once, and to the right one; every call ends | `Jobs`, `Bash` |
| mcp-client | manager, reader, wake token, tools | connect, discover, resync, lose, reconnect, stop | one token for three signals | tools are the server's; stop is seen through | `McpConnection` |
| lsp-stdio | pool, lock, waiters | query, start, fail, retry, close | a lock handed to a waiter that is gone | the lock is passed on | `LspPool` |
| file tools | observations, versions, files | read, write, edit, glob, grep | other processes between two system calls; cuts upon cuts | no unseen content is overwritten; a cut is announced | `FileGuard`, `Listing` |
| web | body, cut, sources | fetch, strip, search, merge | a tag cut in two by a read | the text is the beginning of the page, or all of it | `Web` |
| skills | files, catalog | list, inject, load, invoke | files edited between catalog and load | the model loads what the catalog names | `Skill` |
| application | layers, desired tree, running components, screen, script | config reload, load, unload, reload, fail; fold, publish; run, source, repeat | four copies of one decision; a display that is folded only sometimes; answers read from a script | commands are obeyed, the screen shows the log, scripts are performed | `Console`, `Feed`, `Script` |

Not modelled are sandboxing, timers, the logger, resources, the mock model, and tools that only parse and format; each
is listed in `PROJECT.json` with the reason. The repository's own formalisation (`src/proof`) contains TLA+ and Coq
models of the paper's rules, read here for the promises they record, and a C++ reference machine with a
conformance test, which *is* modelled.

## 3. The engine: `Runtime.tla`

**The call stack is state.** The variable `calls` is the stack of the handler that is running:
`evaluate`, `begin_unload`, the `cascade` loop, `finish`(`_unload`), the `release` loop over
providers, the `notify` loop, the `tail` of `finish_unload`, `await` on a gate, `finished`
(`transition_finished`). A handler action (mount, a completion of `apply`, retire, ...)
requires the stack to be empty; every other step executes the top frame and is one of the
disjuncts of `Cascade`. A frame holds what the C++ frame holds across a nested call: its
fiber, its argument, and what is left of the copied set or map it is walking. So what is stale
in the code is stale in the model. The cost is that a call chain is many steps; it is also
deterministic, so it adds few states.

**State.** `rec[f]` is the `fiber_record`; `fibers` the ids still in `fibers_`; `bindings`
the maps of the contexts, indexed by scope (0 the root, `f` the child scope of `f`);
`in_flight`; `host` what each host coroutine is suspended on; `posted` the retirements of
children that teardown posted. `reactivate` is the code's -1/0/1 with -1 the retired mark.

**Plugins** are external. A component is its declaration (`Inject`, `Required`, `Provides`,
`Child`, `Factory`) and what its code may do: provide its keys in any order while `apply()` runs,
also before the first suspension; mount its child; raise (`Fallible`); report a service
unavailable and promote it later (`Gated`); release and provide again (`Releaser`); mount from a
listener (`Listener`); be cancelled (`Cancellable`).

**Bounds.** `MaxFiber` bounds the fibers ever mounted. Ids are not reused by the code either, so the
bound only stops mounting. Three or four fibers suffice for a provider, a provider that is its
consumer, a consumer of both and a remount; the cascade's interesting cases need a path of
length two and a second edge between its ends.

**Abstractions.** A service's value is its provider. The declared metadata, diagnostics,
and logging are left out here; realms and `reconcile` are `Reconcile`'s, diagnostics `Diagnosis`'s (section 8). `SingleSource` restricts
the hosts of the instances to systems in which no two mounted roots provide the
same key: with competing providers the last one to bind wins (`insert_or_assign`), and a
withdrawal then hides or uncovers services that these properties are not about. `MCFaults` lifts it.

### Runs

| run | system | what it shows |
| --- | --- | --- |
| `runtime_faults` | competing providers, availability, raise, cancel, early release, child mounts from `apply` and from a listener, a null and a throwing factory | `NoDanglingFrame`, `TerminalRecovery`, `RetiredStays` |
| `runtime_family` | a diamond: `store` provides 1, which it may lack at first; `index` needs 1, provides 2, may fail, and mounts a child that needs 1, too; `app` needs both | `OrderedWithdrawal`, `SettledAtTarget`, `ResolutionCoherent`, `IdleSeesCascade`, `ParkedOnlyIfUnresolved`; under fairness `RetireReturns`, `ChildrenFollow` (275,260 states) |
| `runtime_twin` | a consumer of two keys of one provider | finding 1 |
| `runtime_parked` | the diamond with `app`'s dependencies optional | finding 2 |
| `runtime_coherent` | an optional dependency that arrives while its consumer loads | finding 3 |

Some engine properties hold only for the systems of their run, and that is what the findings are
about: `OrderedWithdrawal` for systems in which no consumer takes two keys from one provider,
`ResolutionCoherent` and `ParkedOnlyIfUnresolved` for systems without optional dependencies.
`ChildrenFollow` is checked where a child is mounted from `apply()`,
which awaits the mount; a mount posted by a listener may run after the activation that
asked for it was torn down, and then nobody retires the child (the `"orphan"` request of
`MCFaults`).

`CHECK_DEADLOCK FALSE` everywhere: once every id is used and every fiber retired, the engine is
quiescent, which is not an error.

**Fairness** (`FairSpec`): weak fairness of the cascade, of posted handlers, and of the
completion of `apply()`. The first two are what an Asio strand provides: a posted
handler runs, and a running one is not suspended. The third is the contract of `plugin::apply`,
"`apply` is cooperative ... return promptly" (README.md). Nothing is assumed of hosts. The
liveness run has factories that return an instance: a factory that throws leaves the record in
`loading` with no completion to come, and a `retire()` of it never returns. That is modelled
(`StartLoadingThrows`) and explored by the safety runs, but no document promises otherwise.

### Findings

1. `runtime_twin`: `finish_unload` counts off once per *key* (runtime.cpp:701). A consumer of two keys
   of one provider counts off twice, and the provider is torn down under another
   consumer. In a build with assertions the second erase fails the assertion at line 700 first.
2. `runtime_parked`: `begin_unload` walks a copy of the consumers (runtime.cpp:663). One that was
   unloaded and reloaded further down the same cascade is unloaded again, its fresh activation is
   stopped, and nothing starts it again: it stays inactive with its dependencies resolvable. The same befalls a
   fiber that has consumers of its own: the stop its unloading requests after the walk (line 666) reaches the activation it may have started meanwhile.
3. `runtime_coherent`: a loading fiber is not evaluated (runtime.cpp:410) and the completion check looks only at
   keys that were committed, so an optional service that appears during `apply()` is
   missed, and the fiber settles with an empty view.

## 4. The event bus: `EventBus.tla`

**Vectors have numbers.** `add` copies the slots into a new vector, `remove` *moves* them.
`version` is the current vector, `snap` the one a dispatch holds, `at` the one the callable
that is executing lives in. A dispatch's `list` is its vector with, for each slot, whether
its callable is still there; `Emptied` and `Moved` are what a removal does to the sharers.

**The strand.** The loop of an emit or parallel dispatch is one handler: while one is in phase `loop`, nothing
but that dispatch, and the first segments of the listeners it has just called, may act
(`MayAct`, `Inline`, `MayChange`). A serial, bail or waterfall dispatch suspends in each listener
(`awaiting`) and others may run meanwhile.

**Modes.** `Invoke`/`Complete` of serial, bail and waterfall go through the slots in turn;
`CallNext` is a waterfall listener's `next()`; parallel invokes all and waits at its gate
(`GateOpens`); emit spawns a coroutine per slot whose callable is looked up when it
starts (`Spawn`, `Start`). `InvokeEmpty` is what an emptied slot does: the call of an empty
`std::function` throws.

**Selections.** "The listeners of S in the order of the list" is written as the one vector
that enumerates S monotonically (`Selections`), rather than as a recursive filter. The
provers can unfold it, and TLC finds the same unique element.

**Bounds.** Three listeners (one once, one prepended, one deaf to a scope), two overlapping
dispatches, two changes of the list while they run, all five modes: enough for a removal and an
addition inside one dispatch while another one is suspended in a vector already replaced.
`MaxChanges` bounds the additions and removals.

**Runs.** `bus_dispatch` checks `FailureSemantics` and, under fairness, `DispatchEnds`. `bus_snapshot` is finding 4: `remove`
(events.hpp:305) moves the slots out of the vector that in-flight dispatches share, so their later
slots are empty and a callable that is suspended is moved from under it, while the comment
at events.hpp:525 says that the in-flight dispatch is unaffected.
Because of it, `FailureSemantics` treats outcome `"empty"` as an outcome of its own. `bus_once` is finding 5: the wrapper of a
once listener (events.hpp:523-531) takes the slot off the list and keeps no mark that it has run; a second dispatch that already holds the vector calls the
listener again, though events.hpp:65-66 promises that it "runs at most once". `AtMostOnce` fails after eight states with two serial dispatches.

**Fairness.** The loop advances, an open gate's waiter resumes, a spawned coroutine starts
(strand); a listener that runs returns or throws in the end (an assumption about listeners:
a dispatch cannot end otherwise).

## 5. The session store and persistence: `SessionLog.tla`

`SessionLog` has the store's sessions (`log`, `next` the sequence number to come, `built` the events it was
constructed from, `surface`) and the JSONL plugin's writers (`buffer`, and the file as `lines`, a `tail` that is not a whole
line, and `synced`, how many lines an fsync has covered). Its actions are `Create`, `Fork`, `Load` (with the repair of an
interrupted turn, and the mending of a torn file), `AppendEvent` (whole: the number is taken, the event validated, folded,
published and buffered, a full buffer drained), `Flush`, `Dispose`, `Remount` (the plugin is reloaded) and two crashes:
`Crash(power, busy)` anywhere, a `busy` writer in the middle of its write and any unsynced suffix gone if it is
the `power`; `CrashOpening` inside `attach()`. `Surface` folds the message history from splices, and states what that
fold should be without folding: which events are visible, and where each one's *place* is.

Nothing between two suspensions can be observed, so a handler is one action; the file is not atomic, so the crashes have outcomes
of their own. `Threshold = 2` events stand for 64 KiB; `MaxLog = 3` events and two sessions, of which one is forked off
and can be restored over the other's file, with one crash, reach a torn header, a torn event, a rewritten file and a second life.

`session_log` (608,164 states) checks `WriterTracksLog`, `SoundStored`, `SurfaceShows` and `DurablePromise`: that
`SessionLog` implements `DurableLog`, in which a log accepts, keeps and vouches for records, a crash takes only a suffix and
none that was vouched for, with one exception the code makes (a torn log being rewritten). `SoundStored` says that a stored log is one header and the events
0..n-1, *unless* something that `Unsound` names happened. These are the ways the code departs from
`persistence.hpp:30` ("contiguous seq"): a fork that is stored without what it inherits, closers a restore adds without
publishing them, a number spent on a refused event (store.cpp:46-56), a file under an id that is created again, and a file
reopened after a crash. Each is a hole a later `read()` or `prepare()` refuses the session for.

## 6. The agent loop: `AgentLoop.tla`

One session's driver. A drive (`at`) is `start`, `step`, `stream`, `backoff`, `tools`, `stopping` or `ended`; each
transition is what the code runs between two suspensions. `Run`, `Ask`, `Followup`, `Steer` and `Inject` are the five ways a
message enters; `inbox` has the two queues of inbox.cpp (`next_turn`, `next_step`), `seed` what a turn has claimed.
`DriveDone` winds a drive down and resumes waiters in place, so `Resume` and further calls interleave with `winding`. `Cancel`,
`Fire` (a caller's stop token), `Dispose` and the goal's operations may come anywhere. `Goal` holds the record folded
from the log; `GoalPass` is the round driver, whose rounds pass the fence of `pre_step`.

**Runs.** `agent_loop` (1,123,458 states): two callers, one of which runs and one does anything, two steps to a turn, one retry, two calls, two upsets,
goals of one round. `Delivery`: every message is in exactly one place, and a drive that came to its own end leaves none
that was meant to wake it. `RoundsAdmitted`: the projection never refuses what was logged, and rounds are admitted 1, 2, 3 of their goal.
`CallersServed`: no drive calls a sink whose owner has its answer. `RunsReturn`: whoever waits is answered, under weak fairness of
the strand, the model, tools and timers (each of which the code waits for with a timeout or a stop).

## 7. Services that owe an answer: `MCServices`

| part | state and actions | property | bounds |
| --- | --- | --- | --- |
| `Workflow` | guest, two pipes, call queue, slots; `pump_calls`, replies, run-end, cancellation, death of the worker | `CallsEnd`: a call that was read is refused or its child starts and ends; `SlotsUsed`: slots are held by what runs and no call waits while one is free | 3 calls, width 1, 2 agents |
| `McpConnection` | the manager's coroutine, the reader, the one-token wake channel, the server; answers nobody waits for any more | `ToolsFresh`: what is registered is the server's when nothing is left to hear; `StopEnds` | 2 changes, 3 sessions, 2 attempts |
| `Bash` | shell, what it leaves behind, two drains with cap and spill file, timeout, stop | `CallEnds`: only a process left behind that keeps the pipes open can hold a call; `SpillComplete` | 3 bytes, cap 1, spill 2 |
| `Delegation` | root and two subagents, their drives reduced to turns; posted deliveries | `Heard`: the end of a child's drive reaches a turn of its parent, a message a turn of its child, but for what a stopped or failed drive left unread | depth 2, 4 calls |

`services` (43,486 states) checks `Accounted` (`ToolsFresh`, `SlotsUsed`, `SpillComplete`) and, under weak fairness, `CallsEnd`, `StopEnds`,
`Heard`. Fair are only the program's own steps: posted handlers, timers, drains of a pipe with something in it, children that end. Nothing is assumed of the MCP
server, of a guest's script, or of a process a shell leaves behind; a killed process exits.

## 8. The parts: `MCParts`

| part | what it is | property (of the sum) | left out or excused |
| --- | --- | --- | --- |
| `Reconcile` | `reconcile()`, realms, tags, scopes, over an engine with one service | `AsAssembled`: history does not matter | overlapping calls, bindings that could not move, consumers nobody tells |
| `Effects` | the cleanup stack under re-entrant cleanups | `Reverted` | a cleanup that tears its own activation down |
| `Diagnosis` | conflicts and cycles, remembered | `Told` | scopes other than root, a plain child, an isolated entry |
| `Conformance` | `Runtime` and the repository's reference machine driven alike | `Conforms`: they settle alike | the oracle's event log |
| `SessionIndex` | index file, revisions, generations, cursors, crashes | `Current` (`IndexCurrent`) | two processes on one file; a revision that comes back (section 10) |
| `Projection` | cells beside logs, with the task list | `Current` | a projection that throws |
| `Query` | queries over live and stored sessions, and their tools | `Truthful` | ranking, text |
| `Archive` | ZIP of a session, its descendants and images | `Truthful` (`Whole`) | checksums; numbers that outgrow their fields |
| `Requests` | the prompt, instructions, series; the list of messages | `Governed` | requests after a partial tool call |
| `LlmStream` | wire to log | `Faithful` | a second finish after the end of a stream |
| `Script` | lines, includes, repeats, answers from the same lines | `Faithful` (`Performed`) | questions after quit |
| `OneShot` | structured results of a delegated run | `Authoritative` | the schema's evaluation |
| `Skill` | catalog and loader | `Entitled` | directory walking |
| `GoalTool` | who may change a goal | `Entitled` | a search misled by skipped numbers |
| `Jobs` | jobs, waiters, notices, shell producers | `Informed` | the output window |
| `LspPool` | pool, lock, retries, closing | `LockPassed` | the connection's write queue |
| `FileGuard` | read, write, edit under the policy | `NothingUnseenLost` | another process between a call's own system calls; two versions with one `<mtime>:<size>` (fs.cpp:7-18) |
| `Listing` | glob, grep, pages | `Told` | ripgrep's own output cut |
| `Web` | pages and searches | `Told` | markup the stripper is not made for |
| `Console` | layers, desired tree, commands, the cascades they set off | `Obeyed` | a reload that throws half way; a component a cascade leaves inactive |
| `Feed` | folds and publications of the screen | `Shows` | the meter of a closed session |

The bounds are small sets chosen so that each part's interesting case occurs: two paths and four fibers (an entry replaced while another is kept);
two owners and three texts (an edit between another's read and write); two jobs and one waiter; two LSP
queries with a closing provider (a lock handed on to a waiter whose instance failed); logs of two to four events, one crash, two generations; two wire names
and five events a stream, two attempts; fields of width 8 so that an archive can overflow them; scripts of up to three lines over three files
that include each other; a size cap of 2 or 20 tokens with pieces that end inside a tag. `Conformance` uses the universe of the repository's
own conformance test: two slots, one key, the pool of six components; with a third slot the
engine's outcome depends on the order in which applies complete, which is finding 3 again.

`Console` has the eight components its commands name or that depend on those, with the injections their plugins declare: `llm-compat` requires `llm`, both query engines
require the sessions and would like persistence and a logger, persistence and `llm-compat` would like a logger. A command gives a new tree; what is mounted
afterwards is one of the results that reconciling and the cascades it sets off may have (`Reconciled`, in the order of the dependencies: `Outcomes` of a component, once those it
depends on have settled). So `/unload logger` gives persistence and the query engine new activations, and `/fail session` leaves the query engine waiting. `Interrupted` admits that a
component the cascade reloads is left inactive, which is finding 2: `Runtime` with this tree reaches it for persistence and for the query engine. It is an
over-approximation, as is every choice of what a loading component misses (finding 3). `Obeyed` says that a command touches nothing but what it names and what depends on that, and that whoever is
up afterwards works with the instances that are up. The remaining components of the application's tree depend on each other in the same ways and are left out. The user
names the logger and the session, which may fail to start; three edits or commands are a reload that throws and a command after it.

`parts` has 2,646,542 states in all. Each property of a part alone was also seen violated by at least one plausible bug; the table of mutants in
`PROJECT.json` has one for every property of the sum.

## 9. What is proved

tlapm checks every obligation of seven modules. The theorems hold for every value of the
constants allowed by the assumptions: any set of components, keys, declarations, hosts, any
`MaxFiber`; any finite set of listeners, any dispatches, options and realms; any number of effects; any
sessions, kinds of events and thresholds; any callers, calls, goals and limits; any widths, caps and changes of the services.

**Engine** (`RuntimeProofs`), from `BoundAssumption`, `ComponentAssumption`, `HostAssumption`:

- `TypeCorrect`: `Spec => []TypeOK`.
- `RetirementSticky`: `Spec => RetiredStays`, that a fiber marked retired is never unmarked, loaded or published.
- `Invariance`: `Spec => []IInv`, the invariant both follow from.

Types alone are not inductive: an `evaluate` frame may reach a record without a component,
hence `Mounted`. Nor is stickiness: `publish` does not look at the retired mark,
and is safe only because a retired fiber is not `loading` when it runs. `RetireUnderway` says
that the only retired fiber that can be `loading` or `active` is the one that the next step,
`begin_unload`, is about to divert. `IdsHandedOut` says that mounting never overwrites a live
record. The proof has one lemma for the cascade and one for the handlers, with one
step per action in each.

**Static assemblies** (`AssemblyProofs`), under `StaticAssembly`: no two mounted roots provide the same key, nobody releases a provision
early, there are no children, every dependency that is declared is required, no factory throws, and no component takes two
services from another. The graph of services may be any, even a cyclic one; `apply()` may fail, be cancelled or find its service
unavailable, factories may return null, hosts may retire and remount. The diamond of `runtime_family` is such an assembly, but for its child.

- `WithdrawalOrdered`: `StaticAssembly => (Spec => OrderedWithdrawal)`.
- `FramesHeld`: `StaticAssembly => (Spec => []NoDanglingFrame)`.
- `NothingLeftBehind`: `StaticAssembly => (Spec => []TerminalRecovery)`.
- `GuardsAccounted`: the guard `remaining` is exact at every point of every cascade. `ViewsInstalled`: no installed fiber is
  committed to a service that was torn down. `WithdrawnAtOnce`: when a handler returns, its withdrawals are complete.
- `AssemblyInvariance`: `StaticAssembly => (Spec => []AInv)`, the invariant behind them.
- `IdleIsIdle`: `StaticAssembly => (Spec => IdleSeesCascade)`: when `in_flight_` reaches zero, what is left on the stack starts nothing.
- `NoneParked`: `Spec => []ParkedOnlyIfUnresolved`, if also no factory returns null. `Settled`: `Spec => []SettledAtTarget`, if also no
  handle is cancelled. Both hypotheses are needed: the code leaves a fiber that was cancelled, or whose factory returned null,
  inactive until it is next told of a service.
- `RestInvariance`: `Spec => [](AInv /\ RestInv)`, the invariant behind the three.
- `ResolutionHolds`: `Spec => ResolutionCoherent`, for all systems in which what is declared is required.

`AInv` describes every stack of frames a cascade can build. It reads the stack from the bottom (`stack[d]`), where a
frame keeps its place while others come and go above it. One scope is left (`Plain`), and a key has one provider (`Distinct`). Fibers have a
rank (`Ranked`: a consumer was mounted and published after what it is committed to), so a cascade climbs and never meets a fiber that a frame below it is
withdrawing (`Climbs`). A cascade still has before it, or is already withdrawing above it, each consumer that is installed (`Covers`, `Pursues`); a release
loop has before it every provider that still counts its fiber (`Releases`, `Counts`); nobody who needs a provider that is being withdrawn can be
loaded by what runs above it (`Blocked`). From the last follows that a consumer which went down in a cascade is still down when the
cascade is over, which is what ordered withdrawal comes to.

`RestInv` says how a cascade ends. `in_flight` is the number of fibers that load or are being withdrawn (`Transitions`) plus that of
frames that will end a transition (`Endings`), hence it is zero only when there are none of either (`InFlight`, proved from how a step changes the two
cardinalities). An inactive fiber that could load is before some `evaluate` or `notify` frame (`Reacts`): the lemmas follow a binding that turns active to the `notify`
that is pushed with it (`Told`), and a fiber whose provider was withdrawn to the reactivation by its `tail`. Only a retirement interrupts an `apply()`
(`Marked`, `Tame`) and only a cancellation stops one otherwise (`Stopped`), so an `apply()` that ends without having raised is retried by `on_apply_completed`.

Each condition of `StaticAssembly` is there because the general statement fails. A factory that throws clears the stack in the middle of a cascade, and
the fibers it was withdrawing stay `unloading`. With optional or competing services a consumer can be reloaded in the middle of the cascade that
withdrew it (finding 2). A consumer of two keys of one provider counts off twice (finding 1). That `ResolutionHolds` needs dependencies to be
required is finding 3.

**Event bus** (`EventBusProofs`), from `ModeAssumption` and `OptionAssumption` (which says that the set of
listeners is finite, as any process's is):

- `BusTypeCorrect`: `remaining` is a natural number, so no completion takes a gate below zero.
- `GateCounts`: the gate counts the listeners called and not yet heard from, and a parallel
  dispatch that ends well has heard from all of them.
- `NeverAddedLater`: no dispatch calls a listener added after it began.
- `FailuresSurface`: `Spec => []FailureSemantics`, what becomes of a listener that throws in each mode.
- `BusInvariance`: the invariant behind the first three.

`GateAccounting` alone is not inductive: that the count falls by exactly one needs that the
loop calls each slot at most once, hence that a vector lists nobody twice (`Registered`) and that
nobody at or after the loop's position has been called (`Phases`). The count itself is cardinality
arithmetic: one more in `Finished`, a subset of `Heard`. The proof goes dispatch by dispatch (`Sound`), because a
step touches one dispatch, and a removal touches of the others only the fullness of their slots
(`EmptiedFacts`, `MovedFacts`). `FailureSemantics` says what is true at the end of a dispatch, so the proof keeps a book of each one while it runs:
a serial or bail dispatch has heard from everybody before its position and called nobody after it (`Chain`), emit's loop is
ahead of its coroutines (`Ahead`), and parallel ends with an error exactly if a call of it threw (`Rethrown`). Emit's reports are counted over all
dispatches (`SinkBook`): the sink has as many as there are listeners that threw.

**Parts** (`PartsProofs`), from `PartsAssumption`: there is a job id for a job to have, a process makes finitely many queries to a language
server, there is a text to write, the ranks of the skill roots are numbers, the goal service's limit of rounds is one, and the value that stands for nothing is
neither a row of the index nor a skill call. Nothing is assumed of the other constants, which are bounds, names and sets.

- `EachRevertedOnce`: `Spec => []Reverted` for `Effects` alone.
- `ResultAuthoritative`, `JobsInformed`, `LockPassesOn`: `PartsSpec => []Authoritative`, `[]Informed`, `[]LockPassed`. Each part has an inductive
  invariant `Inv` in its own module; `PartsOK` says which of them is due, and a step of the sum is one part's.
- `CopiesCurrent`, `NoUnseenLoss`, `TurnEntitled`: `PartsSpec => Current`, `NothingUnseenLost`, `Entitled`, each an action property: what a step may
  do, given the invariant `Inv` before it.

`Reverted`: each effect is reverted at most once, all that were in
place when the teardown began are by its end, in reverse order, whatever cleanups add, release early or throw. The walk counts
what it has `processed` and finds its place from the top of a stack that may grow under it, so an
effect that is added moves it back over effects it has passed. `Passed` says that those are released, of `1..placed` and of whatever
followed an effect the walk has reverted; `Stacked` that ids and positions agree until the stack is dropped; from these
follow `Finished` and `Ordered`.

`Authoritative` needs that the run's guard stays registered for as long as its child makes calls (`scoped`): once an output was taken, every later call is
refused before it reaches a tool, whatever the batch still holds. A handler that is suspended can only be that of a call admitted before there was an
output, so `value` is 0 while one works, and a second output cannot overtake the first.

`Informed` speaks of waiters through the lists of jobs, and is kept only because the two agree (`Listed`): a waiter is in no list but that of the job it waits for, and it is in that one
until the job ends or leaves. Ending and waking are two steps, so `Informed` must allow for a waiter that is woken and has not reported yet; `ReportedKnown` says that what was
reported of a job before its end is known to its owner, who needs no notice then, and `EndNoticed` that a notice is only ever of an end.

`LockPassed` is a statement about waiters; what keeps it is one about holders. `OneHolds`: the lock of an open instance is taken exactly while one query holds it, and
its list is empty when it is free, so that handing it to the first of the list neither loses nor doubles it. `ListsWaiters`: a list has those who wait, each once. `ClosedIdle`: a closed
instance has no list, and its `ready` has been decided. `Numbered` bounds the instances by the queries that have been retried or are done, which is where finiteness
comes in: all instances but the first are made by retries, a query has one, and so there is always an id left for the next.

`Current`, of the index: a search keeps every row whose revision is the one it wants and rewrites the rest, so it is right if an equal revision
means equal documents. `RowKnown` says why. A row of a live session has the documents of the first n events of its log, n being in its
revision, and stays that of a prefix of the file when the session is closed or restored; a row of a file has the file's documents as long as its time is the
same, and such a file can be read. For the sessions in `lost` this fails, and nothing is claimed of them. For the pages, `Paged`: a cursor is of an earlier generation, or of the rows there are, so
a page is served from the rows the first page was, or refused. That a crash rolls back neither is where `failed` comes in: after a failed commit the memory
may be ahead of the file.

`Current`, of the projection: a cell moved event by event must agree with one read from the log. `FoldedStands` proves that reading a log in order
gives `Standing`, the last list written since the last start of a turn, by climbing from the empty log: an event more either starts a turn,
writes a list, or leaves both places where they were (`StandsAfter`).

`NothingUnseenLost`: the policy sees versions and observations, the property speaks of what a session was shown. `Got` relates them: whoever is on record with the version on disk, or has a
report of it under way, has got something of the file. `Reported` is the converse: who has its text is on record with it, unless that is still to be reported, and
then by the last of its reports. `Admitted`: a call let through stays entitled while it works, as long as nobody else writes in between.

`Entitled`: of the skills, the catalog before the model is that of its last step (`surface`), and the place of least rank among those with a name is unique (`LeastPlace`), so catalog and tool
choose the same file. Of the goals, `Overheard`: `opened`, the number of the turn's start, is behind at least its four first events however
many numbers were skipped, so what the tools find from there on was said in this turn; the other way round it holds while at most two were skipped.

**Session store** (`SessionLogProofs`), from `SessionAssumption`:

- `TypeCorrect`: `Spec => []TypeOK`.
- `WriterTracks`: `Spec => []WriterTracksLog`, that file and buffer hold exactly what was published since the writer attached.
- `Refines`: `Spec => DurablePromise`, that the store and the plugin implement `DurableLog`.
- `StoredLogsSound`: `Spec => []SoundStored`, that a stored log is one header and the events 0..n-1 unless `Unsound` says why not.
- `SurfaceShown`: `Spec => []SurfaceShows`, that every surface is the visible part of its log, in order.

`WriterTracksLog` needs that the lines a writer starts from (`base`) are not more than the file has, that a session's log is at
least as long as what it was built from, and that only attached sessions have buffers. The refinement maps
the whole lines of a file to `kept`, the buffer to `pending`, the synced lines to `sure`; an append is
`accept`, possibly followed by keeping and vouching for the buffer (`AppendRefines`), a crash is a crash of every
log at once (`CrashRefines`), and the death inside `attach()` is the one step in which a torn log is rewritten (`CrashOpeningRefines`).

`SoundStored` speaks of the file and is kept by what is in memory: `Stocked` extends the numbering over the buffer and says that the
writer's next event is the number after it. A crash leaves a prefix, perhaps with a damaged tail, and a prefix of a numbered text is numbered.

`SurfaceShown` rests on `FoldShows`, which is about `Fold` alone: for *every* log whose numbers increase, the surface obtained event by
event consists of the visible events and is in the order of their places. `replace()` is one pass over the surface; `Swept` says what
the pass has done after n nodes (the survivors are kept in order; `at` is where the first removed node stood
among them), so that the replacement is inserted exactly at the place of the first node it speaks for. `Right(log)` is the surface's
own invariant: its elements are visible, its places ascend, no place is greater than the number of its event. In the store, the
invariant `FoldedInv` adds that numbers increase and stay below the next one, over refused events, forks, repairs and reloads.

**Agent loop** (`AgentLoopProofs`), from `AgentAssumption` and `IdAssumption`. The latter says that no caller's message
has the id of a round of a goal: `Delivery` tells messages apart by their ids, callers choose theirs, and nothing but convention keeps them from
choosing `goal-round-N`.

- `AgentSafe`: `Spec => []AgentInv`, the inductive invariant.
- `MessagesDelivered`: `Spec => []Delivery`.
- `RoundsInOrder`: `Spec => []RoundsAdmitted`.
- `Served`: `Spec => []CallersServed`.

`AgentInv` has one part for each question. `Control`: which variables of a drive mean something at which of its suspensions. `Books`: a message is
nowhere before it is handed over and afterwards in one place, once in its queue. `Drained`: what a drive that is over may leave behind.
`Rounds`: the rounds admitted of a goal are 1..n and counted (`Counted`); a queued round that is still current is within the limit it was queued under
(`Fitting`), which is why a message that waits across an edit of the goal is refused by the fence and not by the projection. `Seeded`: the input of a
run that was not stopped is in the seed only until the first step of its drive has claimed it, hence `CallersServed`. The lemmas before them are about splices of the two queues,
claims, and what the projection reads of a sequence of rounds.

**Services** (`ServicesProofs`), from `ServiceAssumption`: the script of a workflow makes finitely many calls; width, caps, limits and bounds are numbers.

- `ServicesAccounted`: `Spec => []Accounted`, from one inductive invariant for each service; a step is one service's and leaves the rest.

`McpInv` says why a single wake-up token is enough: an answer in the pipe is either the server's present list or has a notification *behind* it
(`AnswersCurrent`), since the server writes both in order; an answer the manager holds, and what it has registered from one, is the
present list unless a notification is still in the pipe or in `queued` (`AnswerCurrent`, `RegisteredCurrent`); and `queued` comes
with a token or a dead server (`Signalled`). So a change during a discovery leads to another, however many there are. `FlowInv` says that a call is in the pipe once or in the queue once.
`PumpKeeps` shows that `pump_calls` keeps the books from any queue, wherever it stops and whatever it refuses: the slots it takes are counted by a bijection
between the places and the calls that stand there. `BashInv` needs no more than types: what is promised of a stream determines where the next read goes.

**Recursive definitions.** The folds (`FoldLog`, `Pass`, `Place`, and the `RoundsRead` by a goal) are recursive functions over 0..n. What
they come to for every n is proved from the least number of a set: if it failed somewhere it would fail first somewhere (`LeastNumber`, `Climb`).
In that way theorems about every log and every queue are possible without an induction rule that takes a predicate.

**Only model-checked**: the remaining properties of the runs, and the engine's outside static assemblies: `runtime_faults` checks
`NoDanglingFrame` and `TerminalRecovery` where components compete, mount children and throw from factories, `runtime_family` checks
`ParkedOnlyIfUnresolved` with a child. Also the invariants of `MCParts` about the parts outside `Parts` (`AsAssembled`, `Faithful`, `Truthful`, `Conforms`): they compare what the code computes
with a reference by folds, transitive closures or sorting, or, in `Conforms`, by running a second machine to its end with recursive operators. Of the nine parts
in `Parts` every property is proved; `Governed`, `Obeyed`, `Shows` and `Told` are of the others. Liveness and
ENABLED are outside what the installed prover handles, so everything checked under fairness stays with TLC.

## 10. Limits of the code the models show

Besides the five findings (sections 3 and 4), the models make these visible. Each is excused by name in the property concerned, or in the list of
hazards, rather than left out.

*Engine.* Isolated providers notify nobody outside their own scope, so isolated consumers stay parked although doc/INTRODUCTION.md:206-209 says the settled
state is that of a static assembly (runtime.cpp ~745). An inactive consumer that is retagged is not evaluated; a binding whose slot in the new realm is taken stays
behind; two overlapping `reconcile()` calls can mount a path twice. Conflicts between isolated entries of one realm are not diagnosed.
A cleanup that adds an effect during teardown may see it dropped (effects.cpp:28-35). The reconciler compares implementations by name.

*Agent loop.* A `run()` that finds a drive running loses its stop token and replaces the drive's sinks; a run
whose token already fired leaves a stale seed. A rejected goal round takes along the human messages claimed with it. A followup between a cancel
and the end of its drive stays queued until someone wakes the session.

*Sessions.* The ways into `Unsound` above. The repair looks for nested `tool_call` records while the bridge writes flat ones.
A revision of the index can come back with other events behind it (sqlite.cpp:653): after a crash, and when a
session without a file is closed and begun anew under its id. The run has sessions with files only; the theorem covers both. Searches exclude what the open *step* did,
while the tool's description says the turn. A plugin that is reloaded has no cells for the sessions that were there.

*Model.* Two finishes can follow each other (compat.cpp:286-344). An interrupted answer that contains a partial call is committed
without a result, and every later request under the messages protocol throws on it (messages.cpp:101-107). Text delivered before a stop
that is noticed between two reads is dropped. Directly human messages are missed by the goal tool when numbers were skipped before the turn (tool_goal.cpp:88).
A catalog of skills that becomes empty leaves the older one in place.

*Services.* A kill before the spawn is lost; kills reach the shell only. A handshake that fails while the server lives waits for a stop.
A failed LSP write leaves the writers behind it unsignalled, and locks ignore stop tokens. A child whose parent's token has fired never runs again.
A spill file whose first open failed has no head, and truncation is announced as "not retained" even when it was.

*Tools and application.* The complete result file of the native grep contains the matches shown (coreutil.cpp:836). Error bodies are cut at 1 MiB without notice (http.cpp:33); the stripper
keeps `noscript` and upper-case scripts, and a `&` that begins no entity swallows the next `<`. A failed later query discards the answers before it. `/config reload` that throws while the tree is built leaves it
half-built for the next command; `/load` after a failure loses overrides. A question asked from a script reads the next command as its answer, and
after `/reload user-questions` nobody answers. Cut attachments are not noticed (attachment.cpp:137).

## 11. What is not modelled

Of the engine: the destructor's drain, ad-hoc `spawn`ed fibers, the lock-free outcome cell, metadata. Of the bus: listeners registered through the C
ABI and the ingress from other threads (`submit`). The ABI host and the module loader: how long a module's code stays mapped under posted
functions, values and listeners is a question about memory the engine's state does not answer (module_loader.hpp, RESIDENCY). Of the
session store: appends made by listeners of an append (store.cpp:268). Of persistence: writes that fail half way. Of the tools: unregistration during a call
(tools.cpp:173). Sandboxing, timers, logging, resources, the mock model, and tool facades. Of the application: drawing, keys, pickers.
Formatting, parsing and ranking everywhere, unless a property is about it. Memory
lifetime appears only as `NoDanglingFrame` (a record used after it is erased) and
`SnapshotUnaffected` (a callable used after it is moved).

## 12. What could come next

1. Proofs: `NoDanglingFrame` and `TerminalRecovery` for assemblies with children and competing providers; `Truthful`, with lemmas about sorted lists.
2. Two agent loops composed with `Delegation`, instead of the reduced drives there.
3. Listeners that append (store.cpp:268), with `Projection` and `SessionIndex` as the listeners.
4. The residency of native modules, as a model of references between descriptors, fibers, values and callbacks.
