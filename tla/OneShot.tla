-------------------------------- MODULE OneShot --------------------------------
(***************************************************************************)
(* A delegated run that ends with an answer of a given form: the one-shot  *)
(* child of subagents.cpp, whose scoped tool, guard and result listener    *)
(* capture the structured output, on the tool registry (tools.cpp) and the *)
(* execution of a step's calls (agent.cpp, execute_tools).  Plugins come   *)
(* and go while a handler works; the parent may stop the run.              *)
(***************************************************************************)
EXTENDS Naturals, SequencesExt

CONSTANTS
    Tools,      \* tools the plugins register for everybody
    Capture,    \* structured_output, registered for the child alone
    MaxSteps,   \* drive_options::max_steps
    MaxCalls,   \* bound: calls of the model
    MaxTurns,   \* bound: turns of the child's drive
    MaxChanges  \* bound: registrations and guards that come or go

VARIABLES
    tools,      \* tools_ without a scope
    denied,     \* tools some plugin's guard denies
    scoped,     \* whether the run's registrations for the child are there
    filter,     \* the child's restriction: the globals it admits
    at,         \* the run: "new", "asks", "calls", "works", "over"
    batch,      \* the calls still to be made
    doing,      \* the call under way
    log,        \* the child's log: [name, valid, result]
    value,      \* the capture recorded: the number of its call in the log, 0 for none
    concluded, stop, steps, turns, changes,
    answer      \* what run() returns: [status, structure]

vars == <<tools, denied, scoped, filter, at, batch, doing, log, value, concluded, stop, steps, turns, changes, answer>>

NoCall == [name |-> Capture, valid |-> FALSE]
NoAnswer == [status |-> "none", structure |-> 0]
Init ==
    /\ tools = Tools /\ denied = {} /\ scoped = FALSE /\ filter \in SUBSET Tools
    /\ at = "new" /\ batch = << >> /\ doing = NoCall /\ log = << >> /\ value = 0
    /\ concluded = FALSE /\ stop = FALSE /\ steps = 0 /\ turns = 0 /\ changes = 0 /\ answer = NoAnswer

----------------------------------------------------------------------------
Entry(call, result) == [name |-> call.name, valid |-> call.valid, result |-> result]

(* visible(): the globals every restriction admits, and the child's own.   *)
Visible == (tools \cap filter) \cup (IF scoped THEN {Capture} ELSE {})

(* guard_reason(): any guard's denial counts; the run's own refuses all    *)
(* once an output is recorded.  (What is staged is recorded or dropped     *)
(* before anything else is called.)                                        *)
Refused(name) == name \in denied \/ (scoped /\ value # 0)

(* create_child() and the registrations of run(): they are there before    *)
(* the child's first prompt.                                               *)
Start ==
    /\ at = "new" /\ at' = "asks" /\ scoped' = TRUE /\ turns' = 1
    /\ UNCHANGED <<tools, denied, filter, batch, doing, log, value, concluded, stop, steps, changes, answer>>

(* run() returns: what was recorded is the structure; a run that completed *)
(* without it is an error.  Its registrations go.                          *)
Returned(status) ==
    /\ at' = "over" /\ scoped' = FALSE
    /\ answer' = [status |-> IF value = 0 /\ status = "completed" THEN "error" ELSE status, structure |-> value]

(* The turn is over, and the drive unless the inbox holds more.            *)
TurnEnds(status) ==
    \/ Returned(status) /\ UNCHANGED <<steps, turns, concluded>>
    \/ /\ ~stop /\ turns < MaxTurns /\ turns' = turns + 1 /\ steps' = 0 /\ concluded' = FALSE
       /\ at' = "asks" /\ UNCHANGED <<scoped, answer>>

(* A step: the model answers with calls, with text, or not at all.         *)
Call == [name : Tools, valid : {TRUE}] \cup [name : {Capture}, valid : BOOLEAN]
Calls == UNION {[1..n -> Call] : n \in 1..(MaxCalls - Len(log))}
Step ==
    /\ at = "asks"
    /\ \/ /\ steps < MaxSteps /\ ~stop /\ steps' = steps + 1
          /\ batch' \in Calls /\ at' = "calls" /\ UNCHANGED <<scoped, answer, turns, concluded>>
       \/ /\ ~stop /\ \E status \in {"completed", "error"} : TurnEnds(status)
          /\ UNCHANGED batch
       \/ stop /\ Returned("aborted") /\ UNCHANGED <<steps, turns, concluded, batch>>
       \/ steps = MaxSteps /\ TurnEnds("blocked") /\ UNCHANGED batch
    /\ UNCHANGED <<tools, denied, filter, doing, log, value, stop, changes>>

(* execute_tools() up to the handler: a call that is not made has a result *)
(* all the same; listeners hear of a denial, nobody of an unknown tool.    *)
Dispatch ==
    /\ at = "calls" /\ batch # << >>
    /\ LET call == Head(batch)
           Done(result) == log' = Append(log, Entry(call, result)) /\ UNCHANGED <<at, doing>>
       IN  CASE stop -> Done("aborted")
             [] ~stop /\ call.name \notin Visible -> Done("unknown")
             [] ~stop /\ call.name \in Visible /\ Refused(call.name) -> Done("refused")
             [] OTHER -> doing' = call /\ at' = "works" /\ UNCHANGED log
    /\ batch' = Tail(batch)
    /\ UNCHANGED <<tools, denied, scoped, filter, value, concluded, stop, steps, turns, changes, answer>>

(* Mutant of Heard: a call that failed is recorded as well.                *)
HeardAlways(result) == value' = IF doing.name = Capture /\ value = 0 THEN Len(log) + 1 ELSE value

(* The handler returns or throws; then the listener, which commits what    *)
(* the capture tool's own success has staged.                              *)
Heard(result) ==
    value' = IF doing.name = Capture /\ result = "ok" /\ value = 0 THEN Len(log) + 1 ELSE value
Handled ==
    /\ at = "works" /\ at' = "calls"
    /\ \E result \in {"ok", "error"} :
        /\ doing.name = Capture => result = IF doing.valid THEN "ok" ELSE "error"
        /\ log' = Append(log, Entry(doing, result))
        /\ Heard(result)
        /\ concluded' = (concluded \/ (doing.name = Capture /\ result = "ok"))
    /\ UNCHANGED <<tools, denied, scoped, filter, batch, doing, stop, steps, turns, changes, answer>>

(* The batch is done: an aborted one ends the drive, a concluded one the   *)
(* turn, any other goes on to the next step.                               *)
BatchEnds ==
    /\ at = "calls" /\ batch = << >>
    /\ LET aborted == Last(log).result = "aborted"
       IN  \/ aborted /\ Returned("aborted") /\ UNCHANGED <<steps, turns, concluded>>
           \/ ~aborted /\ concluded /\ TurnEnds("completed")
           \/ ~aborted /\ ~concluded /\ at' = "asks" /\ UNCHANGED <<scoped, answer, steps, turns, concluded>>
    /\ UNCHANGED <<tools, denied, filter, batch, doing, log, value, stop, changes>>

Stop ==
    /\ ~stop /\ at # "over" /\ stop' = TRUE
    /\ UNCHANGED <<tools, denied, scoped, filter, at, batch, doing, log, value, concluded, steps, turns, changes, answer>>
(* A plugin is unloaded or loaded, with its tool or its guard.             *)
Change ==
    /\ at # "over" /\ changes < MaxChanges /\ changes' = changes + 1
    /\ \E t \in Tools :
        \/ tools' = (tools \ {t}) \cup ({t} \ tools) /\ UNCHANGED denied
        \/ denied' = (denied \ {t}) \cup ({t} \ denied) /\ UNCHANGED tools
    /\ UNCHANGED <<scoped, filter, at, batch, doing, log, value, concluded, stop, steps, turns, answer>>

Next == Start \/ Step \/ Dispatch \/ Handled \/ BatchEnds \/ Stop \/ Change
Spec == Init /\ [][Next]_vars

----------------------------------------------------------------------------
(***************************************************************************)
(* The answer is authoritative: a run has a structure exactly if its log   *)
(* holds the capture tool's success, and it is the arguments of that call; *)
(* there is at most one, no tool works after it, and what completed        *)
(* without one is reported as an error.  No tool outside the child's       *)
(* filter ever worked for it.  (run, make_structured_guard and _listener,  *)
(* visible, execute_tools.)                                                *)
(***************************************************************************)
Worked == {i \in DOMAIN log : log[i].result \in {"ok", "error"}}
Successes == {i \in Worked : log[i].name = Capture /\ log[i].result = "ok"}
Authoritative ==
    /\ \A i \in Successes : log[i].valid /\ \A j \in Worked : j <= i
    /\ Successes = IF value = 0 THEN {} ELSE {value}
    /\ at = "over" => answer.structure = value /\ (answer.status = "completed" => value # 0)
    /\ \A i \in Worked : log[i].name # Capture => log[i].name \in filter

(* And what it takes for it to stay so: the run's guard is there as long   *)
(* as the child makes calls, so that none is made once there is an output, *)
(* and a handler works only for what the child could see.                  *)
Named == [name : Tools \cup {Capture}, valid : BOOLEAN]
Types ==
    /\ log \in Seq([name : Tools \cup {Capture}, valid : BOOLEAN,
                   result : {"ok", "error", "aborted", "unknown", "refused"}])
    /\ batch \in Seq(Named) /\ doing \in Named /\ value \in Nat
    /\ at \in {"new", "asks", "calls", "works", "over"}
Inv ==
    /\ Types /\ Authoritative
    /\ at = "new" => value = 0
    /\ at \in {"asks", "calls", "works"} => scoped
    /\ at = "works" => value = 0 /\ doing.name \in filter \cup {Capture}
===============================================================================
