------------------------------- MODULE Workflow -------------------------------
(***************************************************************************)
(* One run of a workflow (plugins/workflow): a guest process runs a script *)
(* and sends its agent() calls up a pipe; the host queues them, runs a few *)
(* at a time as one-shot subagents and sends the replies down.  The run is *)
(* over when the pipe is; the children it has started may not be, and what *)
(* is still queued is started when they end.                               *)
(***************************************************************************)
EXTENDS Integers, Sequences, FiniteSets

CONSTANTS
    CallIds,      \* the script's agent() calls
    Width,        \* max_concurrency
    MaxAgents     \* max_total_agents

VARIABLES
    guest,        \* the script: "runs", "done" (it sent its result), "gone"
    worker,       \* the worker's pipes: "open", "killed" (by us), "broken" (a write failed)
    run,          \* run_impl: "pumping", "over"
    stopped,      \* run_stop was asked to stop
    cancelled, finished,   \* run_state: cancelled, done
    up, down,     \* calls in the pipe to the host, replies in the one to the guest
    queue, started, inflight,   \* run_state: queue, agents_started, inflight
    call,         \* where each call is
    answered      \* calls whose reply the guest has read

flowVars == <<guest, worker, run, stopped, cancelled, finished, up, down, queue, started, inflight, call, answered>>

Init ==
    /\ guest = "runs" /\ worker = "open" /\ run = "pumping" /\ stopped = FALSE /\ cancelled = FALSE
    /\ finished = FALSE /\ up = <<>> /\ down = <<>> /\ queue = <<>> /\ started = 0 /\ inflight = 0
    /\ call = [c \in CallIds |-> "none"] /\ answered = {}

(* The guest calls agent(), reads replies, and ends.                       *)
Agent(c) ==
    /\ guest = "runs" /\ call[c] = "none" /\ call' = [call EXCEPT ![c] = "sent"] /\ up' = Append(up, c)
    /\ UNCHANGED <<guest, worker, run, stopped, cancelled, finished, down, queue, started, inflight, answered>>
Hear ==
    /\ guest = "runs" /\ down # <<>> /\ down' = Tail(down) /\ answered' = answered \cup {Head(down)}
    /\ UNCHANGED <<guest, worker, run, stopped, cancelled, finished, up, queue, started, inflight, call>>
ScriptEnds ==
    /\ guest = "runs" /\ guest' \in {"done", "gone"}
    /\ UNCHANGED <<worker, run, stopped, cancelled, finished, up, down, queue, started, inflight, call, answered>>

(* send(): nothing, once the worker is killed or a write has failed.       *)
Sent(c) == down' = IF worker = "open" THEN Append(down, c) ELSE down

(* pump_calls(): calls are taken from the queue while there is a slot; a   *)
(* call without a prompt is refused, and takes none.                       *)
Taken(q, slots, refused) ==
    {n \in 0..Len(q) :
        /\ Cardinality({i \in 1..n : q[i] \notin refused}) <= slots
        /\ n < Len(q) => Cardinality({i \in 1..n : q[i] \notin refused}) = slots}
Refusals(s, refused) == SelectSeq(s, LAMBDA c : c \in refused)
PumpCalls(q, busy, others, before) ==
    \E refused \in SUBSET {q[i] : i \in 1..Len(q)} : \E n \in Taken(q, Width - busy, refused) :
       LET out == {q[i] : i \in 1..n}
       IN  /\ refused \subseteq out
           /\ queue' = SubSeq(q, n + 1, Len(q)) /\ inflight' = busy + Cardinality(out \ refused)
           /\ call' = [c \in CallIds |-> IF c \in out \cap refused THEN "refused"
                                          ELSE IF c \in out THEN "running" ELSE others[c]]
           /\ down' = IF worker = "open" THEN before \o Refusals(SubSeq(q, 1, n), refused) ELSE before

(* Mutant of ChildEnds: the queue is not looked at once the run was        *)
(* stopped.                                                                *)
ChildEndsStopped(c) ==
    /\ call[c] = "running"
    /\ IF stopped
       THEN call' = [call EXCEPT ![c] = "ended"] /\ Sent(c) /\ inflight' = inflight - 1 /\ UNCHANGED queue
       ELSE PumpCalls(queue, inflight - 1, [call EXCEPT ![c] = "ended"],
                      IF worker = "open" THEN Append(down, c) ELSE down)
    /\ UNCHANGED <<guest, worker, run, stopped, cancelled, finished, up, started, answered>>

(* finish_agent_call(): the child's run has returned.                      *)
ChildEnds(c) ==
    /\ call[c] = "running"
    /\ PumpCalls(queue, inflight - 1, [call EXCEPT ![c] = "ended"],
                 IF worker = "open" THEN Append(down, c) ELSE down)
    /\ UNCHANGED <<guest, worker, run, stopped, cancelled, finished, up, started, answered>>

(* pump() reads a call: handle_call().                                     *)
HandleCall ==
    /\ run = "pumping" /\ worker # "killed" /\ up # <<>> /\ up' = Tail(up)
    /\ IF started >= MaxAgents
       THEN /\ Sent(Head(up)) /\ call' = [call EXCEPT ![Head(up)] = "refused"]
            /\ UNCHANGED <<queue, started, inflight>>
       ELSE /\ started' = started + 1
            /\ PumpCalls(Append(queue, Head(up)), inflight, [call EXCEPT ![Head(up)] = "queued"], down)
    /\ UNCHANGED <<guest, worker, run, stopped, cancelled, finished, answered>>

(* pump() reads the result, or the end of the pipe, or finds it closed;    *)
(* run_impl() then ends the run.                                           *)
Done ==
    /\ run = "pumping" /\ worker # "killed" /\ up = <<>> /\ guest = "done" /\ ~finished
    /\ finished' = TRUE
    /\ UNCHANGED <<guest, worker, run, stopped, cancelled, up, down, queue, started, inflight, call, answered>>
RunEnds ==
    /\ run = "pumping"
    /\ worker = "killed" \/ (up = <<>> /\ (guest = "gone" \/ (guest = "done" /\ finished)))
    /\ run' = "over" /\ stopped' = TRUE /\ guest' = IF worker = "killed" THEN "gone" ELSE guest
    /\ UNCHANGED <<worker, cancelled, finished, up, down, queue, started, inflight, call, answered>>

(* kill(): nothing, of a worker whose write has failed.                    *)
Kill ==
    IF worker = "open" THEN worker' = "killed" /\ guest' = "gone" ELSE UNCHANGED <<worker, guest>>

(* The caller's stop token fires; the plugin is shut down.                 *)
Cancel ==
    /\ run = "pumping" /\ ~cancelled /\ cancelled' = TRUE /\ stopped' = TRUE /\ Kill
    /\ UNCHANGED <<run, finished, up, down, queue, started, inflight, call, answered>>
Shutdown ==
    /\ run = "pumping" /\ worker = "open" /\ Kill
    /\ UNCHANGED <<run, stopped, cancelled, finished, up, down, queue, started, inflight, call, answered>>

(* A write fails, for the guest has gone: no more is sent.                 *)
WriteFails ==
    /\ worker = "open" /\ guest # "runs" /\ down # <<>> /\ worker' = "broken" /\ down' = <<>>
    /\ UNCHANGED <<guest, run, stopped, cancelled, finished, up, queue, started, inflight, call, answered>>

Next ==
    \/ \E c \in CallIds : Agent(c) \/ ChildEnds(c)
    \/ Hear \/ ScriptEnds \/ HandleCall \/ Done \/ RunEnds \/ Cancel \/ Shutdown \/ WriteFails

(* The host reads, children end, and a guest whose calls are answered ends.*)
Ready == HandleCall \/ Done \/ RunEnds \/ Hear

----------------------------------------------------------------------------
(* A slot is held by every child that runs and by nothing else, there are  *)
(* never more than the width, no call waits while one is free, and calls   *)
(* beyond the cap are never accepted.  This holds after the run is over,   *)
(* when children end and what is queued still starts.  (pump_calls.)       *)
In(place) == {c \in CallIds : call[c] = place}
SlotsUsed ==
    /\ inflight = Cardinality(In("running")) /\ inflight <= Width
    /\ queue # <<>> => inflight = Width
    /\ {queue[i] : i \in DOMAIN queue} = In("queued") /\ Len(queue) = Cardinality(In("queued"))
    /\ started <= MaxAgents

(* Every call that was read is refused, or its child is started and ends,  *)
(* although the run is cancelled or its guest dies; and every run ends     *)
(* whose script does.  (finish_agent_call, run_impl.)                      *)
CallsEnd ==
    /\ \A c \in CallIds : (call[c] \in {"queued", "running"}) ~> (call[c] \in {"ended", "refused"})
    /\ (guest # "runs") ~> (run = "over")
===============================================================================
