------------------------------- MODULE MCServices -------------------------------
(***************************************************************************)
(* Services that share no state, checked side by side: each behaviour is   *)
(* one of one service, the others at rest.                                 *)
(***************************************************************************)
EXTENDS Integers, Sequences, FiniteSets

CONSTANTS
    CallIds, Width, MaxAgents,                          \* Workflow
    MaxAttempts, Reconnect, MaxChanges, MaxSessions,    \* McpConnection
    Streams, Cap, Limit, MaxBytes,                      \* Bash
    Root, Kids, MaxDepth, MaxCalls                      \* Delegation

(* A script makes finitely many calls; widths, caps and limits are numbers.*)
ASSUME ServiceAssumption ==
    /\ IsFiniteSet(CallIds) /\ Width \in Nat \ {0} /\ MaxAgents \in Nat
    /\ MaxAttempts \in Nat /\ Reconnect \in BOOLEAN /\ MaxChanges \in Nat /\ MaxSessions \in Nat
    /\ Cap \in Nat /\ Limit \in Nat /\ MaxBytes \in Nat

VARIABLES
    service,
    guest, worker, run, halted, cancelled, finished, up, down, queue, started, inflight, call, answered,   \* Workflow
    mgr, channel, reading, lost, queued, wake, error, attempt, stopped, ready_sent, peer, request, \* McpConnection
    pipe, answer, tools, registered, stale, opened,
    step, shell, left_behind, written, taken, kept, spilled, spill, ended, timer, stop, struck, result,    \* Bash
    open, children, parent, depth, driving, halting, bridged, tied, fired, inbox, due, owed, left, calls   \* Delegation

W == INSTANCE Workflow WITH stopped <- halted
M == INSTANCE McpConnection WITH told <- ready_sent, server <- peer, asked <- request, sessions <- opened
B == INSTANCE Bash WITH
         at <- step, proc <- shell, behind <- left_behind, file <- spill, killed <- struck, answer <- result
D == INSTANCE Delegation WITH stopped <- halting, posted <- due

workflow == <<guest, worker, run, halted, cancelled, finished, up, down, queue, started, inflight, call, answered>>
mcp == <<mgr, channel, reading, lost, queued, wake, error, attempt, stopped, ready_sent, peer, request,
         pipe, answer, tools, registered, stale, opened>>
bash == <<step, shell, left_behind, written, taken, kept, spilled, spill, ended, timer, stop, struck, result>>
delegation == <<open, children, parent, depth, driving, halting, bridged, tied, fired, inbox, due, owed, left, calls>>
vars == <<service, workflow, mcp, bash, delegation>>

AloneW == service = "workflow" /\ UNCHANGED <<service, mcp, bash, delegation>>
AloneM == service = "mcp" /\ UNCHANGED <<service, workflow, bash, delegation>>
AloneB == service = "bash" /\ UNCHANGED <<service, workflow, mcp, delegation>>
AloneD == service = "delegation" /\ UNCHANGED <<service, workflow, mcp, bash>>

Init ==
    /\ service \in {"workflow", "mcp", "bash", "delegation"}
    /\ W!Init /\ M!Init /\ B!Init /\ D!Init
    /\ service # "bash" => stop = FALSE
Next ==
    \/ AloneW /\ W!Next
    \/ AloneM /\ M!Next
    \/ AloneB /\ B!Next
    \/ AloneD /\ D!Next

Spec ==
    /\ Init /\ [][Next]_vars
    /\ WF_vars(AloneW /\ W!Ready) /\ \A c \in CallIds : WF_vars(AloneW /\ W!ChildEnds(c))
    /\ WF_vars(AloneM /\ M!Manages) /\ WF_vars(AloneM /\ M!ReadEnds)
    /\ WF_vars(AloneB /\ B!Begin) /\ WF_vars(AloneB /\ B!Fire) /\ WF_vars(AloneB /\ B!Answer)
    /\ WF_vars(AloneB /\ struck /\ B!Exit("signalled"))
    /\ \A s \in Streams : WF_vars(AloneB /\ B!End(s)) /\ WF_vars(AloneB /\ \E n \in 1..MaxBytes : B!Drain(s, n))
    /\ \A s \in Kids \cup {Root} : /\ WF_vars(AloneD /\ D!Turn(s)) /\ WF_vars(AloneD /\ D!Finish(s))
                                   /\ WF_vars(AloneD /\ D!Abort(s))
    /\ \A k \in Kids : WF_vars(AloneD /\ D!Deliver(k))

(***************************************************************************)
(* Every call of a workflow's worker is answered unless its end is gone    *)
(* (workflow.cpp, pump_calls, process_worker), and a shell command ends by *)
(* itself, by its timeout or by its stop (shell.cpp, run_command).         *)
(***************************************************************************)
CallsEnd == W!CallsEnd /\ (service # "bash" \/ B!CallEnds)

(***************************************************************************)
(* What a service has on its books is what there is: the tools registered  *)
(* are the server's when nothing is left to hear (connection.cpp, run),    *)
(* the slots taken are the children that run (workflow.cpp, pump_calls),   *)
(* and memory and spill file hold a stream's bytes without a hole          *)
(* (shell.cpp, drain).                                                     *)
(***************************************************************************)
Accounted == M!ToolsFresh /\ W!SlotsUsed /\ B!SpillComplete

(* stop() of a connection is seen through wherever the manager and the     *)
(* reader were (connection.cpp, stop, run, reader).                        *)
StopEnds == M!StopEnds

(* A subagent's end reaches its parent, however their drives overlap       *)
(* (subagents.cpp, settlement and notices).                                *)
Heard == D!Heard
===============================================================================
