------------------------------ MODULE AgentLoop ------------------------------
(***************************************************************************)
(* The agent loop of one session (plugins/agent-loop), with the retries of *)
(* plugins/llm-retry and with plugins/goal and plugins/goal-round-driver,  *)
(* which continue a goal through it.                                       *)
(*                                                                         *)
(* Everything runs on the control strand: an action is what runs between   *)
(* two suspensions.  A drive suspends where it waits for the model, for a  *)
(* back-off timer, for a tool, or for listeners of 'agent/turn-stopping';  *)
(* its start may be run in place or posted, and so may the round driver's  *)
(* loop, so both are actions of their own.  A drive that has suspended     *)
(* reports its end in place; one that never has posts it, and until then   *)
(* callers find it running (switched).  While on_drive_done winds a drive  *)
(* down, it runs the listeners and waiters in place, and these may call.   *)
(***************************************************************************)
EXTENDS Goal, SequencesExt

(* The inbox (inbox.cpp): two queues changed only by splices.  A splice is *)
(* computed from the inbox as it is, logged, and folded back from the log; *)
(* an id is queued at most once.                                           *)
Targets == {"next_turn", "next_step"}
EmptyInbox == [t \in Targets |-> <<>>]

Queued(inbox) == UNION {ToSet(inbox[t]) : t \in Targets}
QueuedIds(inbox) == {m.id : m \in Queued(inbox)}
Pending(inbox) == \E t \in Targets : inbox[t] # <<>>

(* A start beyond the end is the end, a negative one counts from it.       *)
Start(length, start) ==
    CASE start < 0 /\ length + start < 0 -> 0
      [] start < 0 /\ length + start >= 0 -> length + start
      [] start > length -> length
      [] OTHER -> start
Count(length, start, count) ==
    CASE count < 0 -> 0
      [] count > length - start -> length - start
      [] OTHER -> count

(* make_inbox_splice: what a splice takes out of the queue.                *)
Taken(queue, start, count) ==
    LET s == Start(Len(queue), start)
    IN  SubSeq(queue, s + 1, s + Count(Len(queue), s, count))

(* apply_inbox_splice: erase, then insert what is not queued anywhere yet. *)
Spliced(inbox, target, start, count, inserted) ==
    LET queue == inbox[target]
        s == Start(Len(queue), start)
        rest == SubSeq(queue, s + Count(Len(queue), s, count) + 1, Len(queue))
        kept == [inbox EXCEPT ![target] = SubSeq(queue, 1, s) \o rest]
        fresh[i \in 0..Len(inserted)] ==
            IF i = 0 THEN <<>>
            ELSE IF inserted[i].id \in QueuedIds(kept) \cup {n.id : n \in ToSet(fresh[i - 1])}
            THEN fresh[i - 1] ELSE Append(fresh[i - 1], inserted[i])
    IN  [inbox EXCEPT ![target] = SubSeq(queue, 1, s) \o fresh[Len(inserted)] \o rest]

(* enqueue(): a splice beyond any end.                                     *)
Enqueued(inbox, target, m) == Spliced(inbox, target, Len(inbox[target]), 0, <<m>>)

CONSTANTS
    Callers,      \* each makes at most one call that carries a message
    MayCall,      \* [Callers -> SUBSET Calls]: which call each may make
    GoalMax,      \* SUBSET (Nat \ {0}): the round limits of goals created and edited
    GoalOps,      \* SUBSET Operations: those the user and the tools call
    MaxSteps,     \* drive_options::max_steps
    MaxRetries,   \* retry_policy::max_retries
    MaxCalls,     \* bound: tool calls in one message
    MaxUpsets     \* bound: stop tokens fired, cancellations, disposals, goal operations

Calls == {"run", "ask", "followup", "steer", "inject"}
(* Callers name their messages; none takes an id of a round, 'goal-round-N'.*)
ASSUME IdAssumption == "nobody" \notin Callers /\ Callers \cap Nat = {}
ASSUME AgentAssumption ==
    /\ GoalOps \subseteq Operations /\ MaxSteps \in Nat \ {0} /\ MaxRetries \in Nat
    /\ MaxCalls \in Nat \ {0} /\ MaxUpsets \in Nat
    /\ GoalMax \subseteq Nat \ {0} /\ MayCall \in [Callers -> SUBSET Calls]

Nobody == "nobody"
Statuses == {"completed", "max_tokens", "aborted", "error", "blocked"}
Said(c) == [id |-> c, goal |-> 0, rev |-> 0, round |-> 0]    \* c's message
Human(m) == m.goal = 0

VARIABLES
    live,       \* the session is in the store, its driver in states_
    running, stop, wake,       \* agent_state: running, *abort, wake_requested
    seed,       \* agent_state::seed, a sequence of at most one message
    inbox,      \* the inbox projection
    callerStop, bridged,       \* whose stop token is kept, whose is bridged to *abort
    sink,       \* whose on_event the drive calls
    waiting, resumed,          \* waiters; those on_drive_done still has to resume
    at,         \* where the drive is
    step, first, ended, calls, concluded, attempt,   \* locals of turn and run_step
    failed, switched,          \* the drive threw; the drive has suspended
    winding,    \* on_drive_done is running
    goal, armed,               \* the goal projection and activation
    requested, competing,      \* the round driver's session_state
    fired, upsets,             \* stop tokens fired; the bound's counter
    how, answered,             \* history: each caller's call; those whose wait is over
    admitted, gone,            \* history: what became of claimed and of dropped messages
    cut, left   \* history: callers whose drive was stopped; how the last drive ended

agent == <<live, running, stop, wake, seed, inbox, callerStop, bridged, sink, waiting, resumed>>
drive == <<at, step, first, ended, calls, concluded, attempt, failed, switched, winding>>
rounds == <<goal, armed, requested, competing>>
world == <<fired, upsets>>
history == <<how, answered, admitted, gone, cut, left>>
vars == <<agent, drive, rounds, world, history>>

Init ==
    /\ live = TRUE /\ running = FALSE /\ stop = FALSE /\ wake = FALSE /\ seed = <<>>
    /\ inbox = EmptyInbox /\ callerStop = Nobody /\ bridged = Nobody /\ sink = Nobody
    /\ waiting = {} /\ resumed = {}
    /\ at = "off" /\ step = 0 /\ first = FALSE /\ ended = "none" /\ calls = 0 /\ concluded = FALSE
    /\ attempt = 0 /\ failed = FALSE /\ switched = FALSE /\ winding = FALSE
    /\ goal = NoGoal /\ armed = FALSE /\ requested = FALSE /\ competing = FALSE
    /\ fired = {} /\ upsets = 0
    /\ how = [c \in Callers |-> "none"] /\ answered = {}
    /\ admitted = {} /\ gone = {} /\ cut = {} /\ left = "drained"

----------------------------------------------------------------------------
(* Calls.  A drive that suspended reports its end before anything else can *)
(* run.                                                                    *)
StrandFree == ~(at = "ended" /\ switched)

(* kick(): a running driver is left alone.                                 *)
Kick(token) ==
    IF running THEN UNCHANGED <<running, stop, bridged, at, failed, switched>>
    ELSE /\ running' = TRUE /\ at' = "start" /\ failed' = FALSE /\ switched' = FALSE
         /\ bridged' = token /\ stop' = (token \in fired)

(* enqueue() tells the round driver: other input competes with its rounds. *)
Enqueue(target, m) ==
    /\ inbox' = Enqueued(inbox, target, m)
    /\ competing' = (competing \/ (Human(m) /\ m.id \in {n.id : n \in ToSet(inbox'.next_turn)}))

Calling(c, call) ==
    /\ live /\ StrandFree /\ how[c] = "none" /\ call \in MayCall[c]
    /\ how' = [how EXCEPT ![c] = call]
    /\ UNCHANGED <<live, resumed, step, first, ended, calls, concluded, attempt, winding>>
    /\ UNCHANGED <<goal, armed, requested, world, answered, admitted, cut, left>>

(* run(): the input is the seed of the drive it starts, or, when one is    *)
(* running, is queued behind it.                                           *)
Run(c) ==
    /\ Calling(c, "run") /\ sink' = c /\ callerStop' = c /\ waiting' = waiting \cup {c}
    /\ IF running
       THEN Enqueue("next_turn", Said(c)) /\ wake' = TRUE /\ UNCHANGED <<seed, gone>>
       ELSE /\ seed' = <<Said(c)>> /\ gone' = gone \cup ToSet(seed)
            /\ UNCHANGED <<wake, inbox, competing>>
    /\ Kick(c)

(* '/ask': followup() and when_idle().                                     *)
Ask(c) ==
    /\ Calling(c, "ask") /\ sink' = c /\ waiting' = waiting \cup {c}
    /\ Enqueue("next_turn", Said(c)) /\ Kick(callerStop)
    /\ UNCHANGED <<wake, seed, callerStop, gone>>

Followup(c) ==
    /\ Calling(c, "followup") /\ Enqueue("next_turn", Said(c)) /\ Kick(callerStop)
    /\ UNCHANGED <<wake, seed, callerStop, sink, waiting, gone>>

Steer(c) ==
    /\ Calling(c, "steer") /\ Enqueue("next_step", Said(c)) /\ Kick(callerStop)
    /\ UNCHANGED <<wake, seed, callerStop, sink, waiting, gone>>

Inject(c) ==
    /\ Calling(c, "inject") /\ Enqueue("next_step", Said(c))
    /\ UNCHANGED <<running, stop, wake, seed, callerStop, bridged, sink, waiting, at, failed,
                   switched, gone>>

(* Stopping a drive reaches whoever waits for it, or has input with it.    *)
Outstanding == {c \in Callers : how[c] # "none" /\ c \notin answered}

(* A caller's stop token fires.                                            *)
Fire(c) ==
    /\ StrandFree /\ how[c] = "run" /\ c \notin answered /\ c \notin fired
    /\ upsets < MaxUpsets /\ upsets' = upsets + 1
    /\ fired' = fired \cup {c} /\ stop' = (stop \/ (running /\ bridged = c))
    /\ cut' = cut \cup (IF running /\ bridged = c THEN Outstanding ELSE {c})
    /\ UNCHANGED <<live, running, wake, seed, inbox, callerStop, bridged, sink, waiting, resumed, drive, rounds, how, answered, admitted, gone, left>>

(* cancel(): keep_inbox, or clear it.                                      *)
Cancel(keep) ==
    /\ live /\ StrandFree /\ upsets < MaxUpsets /\ upsets' = upsets + 1
    /\ stop' = (stop \/ running) /\ cut' = IF running THEN cut \cup Outstanding ELSE cut
    /\ IF keep THEN UNCHANGED <<inbox, gone>>
       ELSE inbox' = EmptyInbox /\ gone' = gone \cup Queued(inbox)
    /\ UNCHANGED <<live, running, wake, seed, callerStop, bridged, sink, waiting, resumed,
                   drive, rounds, fired, how, answered, admitted, left>>

(* The session is disposed of: dispose() stops the drive and resumes the   *)
(* waiters, whose find() no longer knows the session.                      *)
Dispose ==
    /\ live /\ StrandFree /\ upsets < MaxUpsets /\ upsets' = upsets + 1
    /\ live' = FALSE /\ stop' = (stop \/ running) /\ cut' = cut \cup Outstanding
    /\ answered' = answered \cup waiting
    /\ waiting' = {} /\ inbox' = EmptyInbox /\ gone' = gone \cup Queued(inbox)
    /\ UNCHANGED <<running, wake, seed, callerStop, bridged, sink, resumed, drive, rounds,
                   fired, how, admitted, left>>

----------------------------------------------------------------------------
(* The drive.                                                              *)
Driving(place) == at = place /\ ~winding

(* Mutant of EndTurn: the drive does not look at the inbox again.          *)
EndTurnBlindly(status, left_over) ==
    /\ armed' = (armed /\ (status \notin {"error", "max_tokens"} \/ ~live \/ ~HasGoal(goal)))
    /\ at' = "ended"

(* turn() is over, and with it, unless there is more to do, the drive.     *)
EndTurn(status, left_over) ==
    /\ armed' = (armed /\ (status \notin {"error", "max_tokens"} \/ ~live \/ ~HasGoal(goal)))
    /\ at' = IF ~stop /\ Pending(left_over) THEN "start" ELSE "ended"

(* drive() and the head of turn().                                         *)
BeginTurn ==
    /\ Driving("start")
    /\ IF stop \/ ~live
       THEN at' = "ended" /\ UNCHANGED <<step, first, ended>>
       ELSE step' = 0 /\ first' = TRUE /\ ended' = "none" /\ at' = "step"
    /\ UNCHANGED <<live, running, stop, wake, seed, inbox, callerStop, bridged, sink, waiting,
                   resumed, calls, concluded, attempt, failed, switched, winding, rounds, world, history>>

(* pre_step: the claimed messages, and the seed of a first step.           *)
Claimed == inbox.next_step \o (IF first THEN Taken(inbox.next_turn, 0, 1) \o seed ELSE <<>>)
AfterClaim ==
    LET steered == Spliced(inbox, "next_step", 0, Len(inbox.next_step), <<>>)
    IN  IF first THEN Spliced(steered, "next_turn", 0, 1, <<>>) ELSE steered

(* The round driver's fence on 'agent/pre-step': one stale round rejects   *)
(* all that was claimed with it.                                           *)
Current(m) ==
    /\ ~goal.failed /\ HasGoal(goal) /\ goal.current.phase = "active" /\ armed
    /\ m.goal = goal.current.id /\ m.rev = goal.current.rev /\ m.round = goal.rounds + 1

(* Mutant of the fence: the revision is not compared.                      *)
RejectedLoosely ==
    \E m \in ToSet(Claimed) :
       ~Human(m) /\ ~Current([m EXCEPT !.rev = goal.current.rev])
Rejected == \E m \in ToSet(Claimed) : ~Human(m) /\ ~Current(m)

(* The head of the step loop.  What is admitted is appended, the request   *)
(* goes to the model.                                                      *)
Step ==
    /\ Driving("step")
    /\ IF stop THEN EndTurn("aborted", inbox) /\ UNCHANGED <<seed, inbox, step, gone, admitted, goal>>
       ELSE IF step >= MaxSteps
       THEN EndTurn("blocked", inbox) /\ UNCHANGED <<seed, inbox, step, gone, admitted, goal>>
       ELSE /\ step' = step + 1 /\ inbox' = AfterClaim /\ seed' = IF first THEN <<>> ELSE seed
            /\ CASE Rejected ->
                      /\ EndTurn("blocked", AfterClaim) /\ gone' = gone \cup ToSet(Claimed)
                      /\ UNCHANGED <<admitted, goal>>
                 [] ~Rejected /\ Claimed = <<>> /\ (ended # "none" \/ first) ->
                      /\ EndTurn(IF ended # "none" THEN ended ELSE "completed", AfterClaim)
                      /\ UNCHANGED <<gone, admitted, goal>>
                 [] OTHER ->
                      /\ admitted' = admitted \cup ToSet(Claimed) /\ goal' = RoundsRead(goal, Claimed)
                      /\ at' = "stream" /\ UNCHANGED <<armed, gone>>
    /\ attempt' = 0 /\ switched' = (switched \/ at' = "stream")
    /\ UNCHANGED <<live, running, stop, wake, callerStop, bridged, sink, waiting, resumed, first, ended,
                   calls, concluded, failed, winding, requested, competing, world, how, answered, cut, left>>

(* The end of a step, with the status it ends the turn with, if any.       *)
EndStep(exit) ==
    /\ ended' = IF exit # "none" /\ ended # "max_tokens" THEN exit ELSE ended
    /\ at' = IF ended' # "none" /\ inbox.next_step = <<>> THEN "stopping" ELSE "step"
    /\ first' = FALSE

(* llm-retry's decision on a failure.                                      *)
RetryAllowed == ~stop /\ attempt < MaxRetries

(* The model answers, or fails; a stopped one finishes as aborted, or not. *)
(* A failure may be retried after a back-off; a throw ends turn and drive. *)
Stream ==
    /\ Driving("stream")
    /\ \/ \E exit \in {"completed", "max_tokens", "aborted"} :
             /\ exit = "aborted" => stop
             /\ EndStep(exit) /\ UNCHANGED <<calls, concluded, armed, failed>>
       \/ /\ UNCHANGED <<calls, concluded, armed, failed>>
          /\ IF RetryAllowed THEN at' = "backoff" /\ UNCHANGED <<first, ended>>
             ELSE EndStep("error")
       \/ /\ failed' = TRUE /\ at' = "ended"
          /\ armed' = (armed /\ (~live \/ ~HasGoal(goal)))
          /\ UNCHANGED <<calls, concluded, first, ended>>
       \/ /\ concluded' = FALSE /\ UNCHANGED <<armed, failed>>
          /\ IF stop THEN EndStep("aborted") /\ UNCHANGED calls
             ELSE calls' \in 1..MaxCalls /\ at' = "tools" /\ UNCHANGED <<first, ended>>
    /\ UNCHANGED <<live, running, stop, wake, seed, inbox, callerStop, bridged, sink, waiting, resumed,
                   step, attempt, switched, winding, goal, requested, competing, world, history>>

(* The back-off timer fires, or is cancelled by the stop.                  *)
Backoff ==
    /\ Driving("backoff")
    /\ IF stop THEN EndStep("error") /\ UNCHANGED attempt
       ELSE at' = "stream" /\ attempt' = attempt + 1 /\ UNCHANGED <<first, ended>>
    /\ UNCHANGED <<agent, step, calls, concluded, failed, switched, winding, rounds, world, history>>

(* A tool returns, and may conclude the turn; the calls behind it are made *)
(* one by one, or answered as aborted.                                     *)
Tool ==
    /\ Driving("tools") /\ concluded' \in {concluded, TRUE}
    /\ CASE calls > 1 /\ ~stop -> calls' = calls - 1 /\ UNCHANGED <<at, first, ended>>
         [] calls > 1 /\ stop -> calls' = 0 /\ EndStep("aborted")
         [] OTHER -> calls' = 0 /\ EndStep(IF concluded' THEN "completed" ELSE "none")
    /\ UNCHANGED <<agent, step, attempt, failed, switched, winding, rounds, world, history>>

(* The listeners of 'agent/turn-stopping' are done.                        *)
Stopping ==
    /\ Driving("stopping")
    /\ IF inbox.next_step # <<>> THEN at' = "step" /\ UNCHANGED <<armed>>
       ELSE EndTurn(ended, inbox)
    /\ UNCHANGED <<live, running, stop, wake, seed, inbox, callerStop, bridged, sink, waiting, resumed,
                   step, first, ended, calls, concluded, attempt, failed, switched, winding, goal,
                   requested, competing, world, history>>

----------------------------------------------------------------------------
(* resume_waiters() takes all of them; a mutant, none after a failure.     *)
WokenUnlessFailed == IF failed THEN {} ELSE waiting
Woken == waiting

(* on_drive_done(), down to the listeners of 'agent/status': the round     *)
(* driver forgets what competed with it and asks for a round.  (The drive's *)
(* locals and its stop source are dead; they are put back.)                *)
DriveDone ==
    /\ Driving("ended")
    /\ running' = FALSE /\ at' = "off" /\ winding' = TRUE
    /\ callerStop' = Nobody /\ bridged' = Nobody /\ sink' = Nobody
    /\ resumed' = Woken /\ waiting' = waiting \ Woken /\ competing' = FALSE /\ requested' = TRUE
    /\ left' = CASE stop -> "stopped" [] ~stop /\ failed -> "failed"
                 [] ~stop /\ ~failed /\ ~switched -> "blind" [] OTHER -> "drained"
    /\ stop' = FALSE /\ step' = 0 /\ first' = FALSE /\ ended' = "none" /\ concluded' = FALSE
    /\ calls' = 0 /\ attempt' = 0 /\ failed' = FALSE /\ switched' = FALSE
    /\ UNCHANGED <<live, wake, seed, inbox, goal, armed, world, how, answered, admitted, gone, cut>>

(* Mutant of Resume: the list is drained, late waiters with it.            *)
ResumeAll(c) ==
    /\ winding /\ c \in resumed \cup waiting /\ resumed' = resumed \ {c}
    /\ waiting' = waiting \ {c} /\ answered' = answered \cup {c}
    /\ UNCHANGED <<live, running, stop, wake, seed, inbox, callerStop, bridged, sink, drive,
                   rounds, world, how, admitted, gone, cut, left>>

(* A waiter is resumed in place: when_idle() looks again.                  *)
Resume(c) ==
    /\ winding /\ c \in resumed /\ resumed' = resumed \ {c}
    /\ IF live /\ running THEN waiting' = waiting \cup {c} /\ UNCHANGED answered
       ELSE answered' = answered \cup {c} /\ UNCHANGED waiting
    /\ UNCHANGED <<live, running, stop, wake, seed, inbox, callerStop, bridged, sink, drive,
                   rounds, world, how, admitted, gone, cut, left>>

(* The rest of on_drive_done(): the wake a run asked for.                  *)
WindUp ==
    /\ winding /\ resumed = {} /\ winding' = FALSE /\ wake' = FALSE
    /\ IF wake /\ Pending(inbox) THEN Kick(callerStop)
       ELSE UNCHANGED <<running, stop, bridged, at, failed, switched>>
    /\ UNCHANGED <<live, seed, inbox, callerStop, sink, waiting, resumed, step, first, ended,
                   calls, concluded, attempt, rounds, world, history>>

----------------------------------------------------------------------------
(* The goal service, called by the user and by tools.                      *)
GoalOp(op, max) ==
    /\ live /\ StrandFree /\ upsets < MaxUpsets /\ upsets' = upsets + 1
    /\ op \in GoalOps /\ Accepted(goal, armed, op)
    /\ goal' = Changed(goal, op, Logged(goal, op, max)) /\ armed' = ArmedAfter(op, armed)
    /\ requested' = TRUE
    /\ UNCHANGED <<agent, drive, competing, fired, history>>

(* '/goal disarm'.                                                         *)
Disarm ==
    /\ live /\ StrandFree /\ HasGoal(goal) /\ armed /\ armed' = FALSE
    /\ upsets < MaxUpsets /\ upsets' = upsets + 1
    /\ UNCHANGED <<agent, drive, goal, requested, competing, fired, history>>

(* One pass of the round driver: block a goal that has had its rounds, or  *)
(* queue the next round.                                                   *)
Round == [id |-> goal.rounds + 1, goal |-> goal.current.id, rev |-> goal.current.rev,
          round |-> goal.rounds + 1]
GoalPass ==
    /\ requested /\ StrandFree
    /\ CASE competing \/ (live /\ running) \/ ~live \/ goal.failed \/ ~HasGoal(goal)
               \/ goal.current.phase # "active" \/ ~armed ->
              requested' = FALSE
              /\ UNCHANGED <<inbox, competing, goal, armed, running, stop, bridged, at, failed, switched>>
         [] OTHER ->
              IF goal.rounds >= goal.current.max
              THEN /\ goal' = Changed(goal, "block", Logged(goal, "block", 0)) /\ armed' = FALSE
                   /\ UNCHANGED <<requested, inbox, competing, running, stop, bridged, at, failed, switched>>
              ELSE /\ requested' = FALSE /\ Enqueue("next_turn", Round) /\ Kick(callerStop)
                   /\ UNCHANGED <<goal, armed>>
    /\ UNCHANGED <<live, wake, seed, callerStop, sink, waiting, resumed, step, first, ended,
                   calls, concluded, attempt, winding, world, history>>

Drive == BeginTurn \/ Step \/ Stream \/ Backoff \/ Tool \/ Stopping \/ DriveDone
Next ==
    \/ \E c \in Callers : Run(c) \/ Ask(c) \/ Followup(c) \/ Steer(c) \/ Inject(c) \/ Fire(c)
    \/ \E keep \in BOOLEAN : Cancel(keep)
    \/ Dispose
    \/ BeginTurn \/ Step \/ Stream \/ Backoff \/ Tool \/ Stopping \/ DriveDone
    \/ \E c \in Callers : Resume(c)
    \/ WindUp
    \/ \E op \in Operations, max \in GoalMax : GoalOp(op, max)
    \/ Disarm \/ GoalPass

(* The strand runs what is ready; models answered, tools return, timers fire.*)
Fairness ==
    /\ WF_vars(Drive) /\ WF_vars(WindUp) /\ WF_vars(GoalPass)
    /\ \A c \in Callers : WF_vars(Resume(c))
Spec == Init /\ [][Next]_vars /\ Fairness

----------------------------------------------------------------------------
Places == {"off", "start", "step", "stream", "backoff", "tools", "stopping", "ended"}
Message == {Said(c) : c \in Callers} \cup [id : Nat, goal : Nat, rev : Nat, round : Nat]
TypeOK ==
    /\ live \in BOOLEAN /\ running \in BOOLEAN /\ stop \in BOOLEAN /\ wake \in BOOLEAN /\ winding \in BOOLEAN
    /\ first \in BOOLEAN /\ concluded \in BOOLEAN /\ failed \in BOOLEAN /\ switched \in BOOLEAN
    /\ armed \in BOOLEAN /\ requested \in BOOLEAN /\ competing \in BOOLEAN
    /\ inbox \in [Targets -> Seq(Message)] /\ seed \in Seq(Message) /\ admitted \subseteq Message
    /\ callerStop \in Callers \cup {Nobody} /\ bridged \in Callers \cup {Nobody} /\ sink \in Callers \cup {Nobody}
    /\ waiting \subseteq Callers /\ resumed \subseteq Callers /\ waiting \cap resumed = {}
    /\ at \in Places /\ ended \in Statuses \cup {"none"}
    /\ step \in 0..MaxSteps /\ calls \in 0..MaxCalls /\ attempt \in 0..MaxRetries
    /\ goal \in GoalState /\ fired \subseteq Callers /\ cut \subseteq Callers
    /\ how \in [Callers -> Calls \cup {"none"}] /\ answered \subseteq Callers /\ gone \subseteq Message
    /\ running <=> at # "off"

(* Every message a caller handed over is in one place: queued, the seed of *)
(* the next turn, admitted to the log, taken out by a cancel, or           *)
(* lost with a rejected step, with an unused seed, or with the session.    *)
(* And a drive that came to its own end leaves nothing behind that was     *)
(* meant to wake it.  (enqueue, pre_step, turn, on_drive_done.)            *)
Count1(seq, m) == Cardinality({i \in DOMAIN seq : seq[i] = m})
Found(m) ==
    Count1(inbox.next_turn, m) + Count1(inbox.next_step, m) + Count1(seed, m)
      + (IF m \in admitted THEN 1 ELSE 0) + (IF m \in gone THEN 1 ELSE 0)
Delivery ==
    /\ \A c \in Callers : Found(Said(c)) = IF how[c] = "none" THEN 0 ELSE 1
    /\ (live /\ ~running /\ ~winding /\ left = "drained") =>
          \A m \in Queued(inbox) : Human(m) /\ how[m.id] = "inject"

(* The projection refuses nothing that the service and the round driver    *)
(* log, so a goal never becomes unreadable; the rounds admitted for a goal *)
(* are 1, 2, 3 ... and the projection has counted them.  (apply_round,     *)
(* apply_change, the fence.)                                               *)
AdmittedRounds(g) == {m.round : m \in {n \in admitted : n.goal = g}}
RoundsAdmitted ==
    /\ ~goal.failed
    /\ \A g \in 1..goal.seen :
          /\ AdmittedRounds(g) = 1..Cardinality(AdmittedRounds(g))
          /\ g = goal.current.id => Cardinality(AdmittedRounds(g)) = goal.rounds

(* The drive calls no on_event of a caller that has its answer (but for a  *)
(* disposed session); a run that found the driver idle is not answered     *)
(* before a step has claimed its input, unless it was stopped.             *)
(* (merge_exec, run, when_idle.)                                           *)
CallersServed ==
    /\ live => sink \notin answered
    /\ \A m \in ToSet(seed) : m.id \in answered => m.id \in cut

(* Whoever waits is answered: drives end, although others keep messages    *)
(* and rounds coming, and although a goal may take the driver first.       *)
RunsReturn == \A c \in Callers : (how[c] \in {"run", "ask"}) ~> (c \in answered)
===============================================================================
