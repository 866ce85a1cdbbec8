------------------------------- MODULE GoalTool -------------------------------
(***************************************************************************)
(* Who may change a session's goal (src/plugins/tool-goal, the commands of *)
(* src/apps/araya, the rounds of goal-round-driver): the model through its *)
(* tools, by an authority it draws from the messages of the open turn, and *)
(* the human through the application.                                      *)
(***************************************************************************)
EXTENDS Goal, SequencesExt

CONSTANTS
    BlockedAfter,      \* blockedAfterConsecutiveRounds
    MaxRounds,         \* of a goal
    MaxGoals,          \* bound: goals of the session
    MaxRevision,       \* bound: changes of one goal
    MaxWork            \* bound: turns, messages, commands and skipped numbers

VARIABLES
    log,        \* the session's events: [kind, goal, rev, round]
    skipped,    \* sequence numbers spent on events the store refused
    opened,     \* the sequence number of the open turn's start, or Closed
    root,       \* whether the session is nobody's child
    goal, armed,
    heard,      \* since the turn opened: whether a human spoke, and the goal and revision of its round
    work

vars == <<log, skipped, opened, root, goal, armed, heard, work>>

Closed == -1
Silence == [human |-> FALSE, round |-> <<0, 0>>]
Event(kind) == [kind |-> kind, goal |-> 0, rev |-> 0, round |-> 0]

Init ==
    /\ log = << >> /\ skipped \in 0..2 /\ opened = Closed /\ root \in BOOLEAN
    /\ goal = NoGoal /\ armed = FALSE /\ heard = Silence /\ work = 0

Busy == work < MaxWork /\ work' = work + 1

(* The turn's messages are looked for by index, from the number after its  *)
(* start's: past the messages, when numbers were skipped.                  *)
SinceEver == 1..Len(log)
SinceStart == (opened + 2)..Len(log)
HasHuman == root /\ \E i \in SinceStart : log[i].kind = "human"
InRound ==
    \E i \in SinceStart :
        log[i].kind = "round" /\ <<log[i].goal, log[i].rev, log[i].round>> = <<goal.current.id, goal.current.rev, goal.rounds>>

Authorised(op) == HasHuman \/ (op \in {"complete", "block"} /\ HasGoal(goal) /\ InRound)

(* update_goal and create_goal, on the goal and revision the model names.  *)
Named(op, exact) == op = "create" \/ (HasGoal(goal) /\ exact)
Admits(op, exact) ==
    /\ Named(op, exact)
    /\ ~(op = "resume" /\ goal.current.phase = "paused")
    /\ op = "block" => HasHuman \/ goal.rounds >= BlockedAfter
    /\ Accepted(goal, armed, op)

Commit(op) ==
    /\ IF op = "create" THEN goal.seen < MaxGoals ELSE goal.current.rev < MaxRevision
    /\ goal' = Changed(goal, op, Logged(goal, op, MaxRounds))
    /\ armed' = ArmedAfter(op, armed)
    /\ log' = Append(log, Event("goal"))

ModelOps == {"create", "edit", "pause", "resume", "complete", "block"}
Call(op, exact) ==
    /\ opened # Closed
    /\ Authorised(op) /\ Admits(op, exact) /\ Commit(op)
    /\ UNCHANGED <<skipped, opened, root, heard, work>>

(* The human's own commands, on whatever goal there is.                    *)
Command(op) ==
    /\ Busy /\ Accepted(goal, armed, op) /\ Commit(op)
    /\ UNCHANGED <<skipped, opened, root, heard>>
Disarm ==
    /\ Busy /\ HasGoal(goal) /\ armed' = FALSE
    /\ UNCHANGED <<log, skipped, opened, root, goal, heard>>

----------------------------------------------------------------------------
(* What may begin a turn or join it: a human's message, one of a plugin's, *)
(* or the next round of a goal that is active and armed.                   *)
Round == [kind |-> "round", goal |-> goal.current.id, rev |-> goal.current.rev, round |-> goal.rounds + 1]
Continues == HasGoal(goal) /\ goal.current.phase = "active" /\ armed
RoundDue == Continues /\ goal.rounds < goal.current.max

(* A goal that has had its rounds is blocked instead.                      *)
Exhausted ==
    /\ opened = Closed /\ Continues /\ ~RoundDue
    /\ Commit("block")
    /\ UNCHANGED <<skipped, opened, root, heard, work>>

Read(m, before) ==
    /\ goal' = RoundRead(goal, m)
    /\ heard' = [human |-> before.human \/ m.kind = "human",
                 round |-> IF m.kind = "round" THEN <<m.goal, m.rev>> ELSE before.round]

TurnStarts ==
    /\ Busy /\ opened = Closed
    /\ opened' = Len(log) + skipped
    /\ \E m \in {Event("human"), Event("notice")} \cup (IF RoundDue THEN {Round} ELSE {}) :
        log' = log \o <<Event("turn"), Event("claim"), Event("step"), m>> /\ Read(m, Silence)
    /\ UNCHANGED <<skipped, root, armed>>

Steered ==
    /\ Busy /\ opened # Closed
    /\ \E m \in {Event("human"), Event("notice")} :
        log' = log \o <<Event("claim"), Event("step"), m>> /\ Read(m, heard)
    /\ UNCHANGED <<skipped, opened, root, armed>>

TurnEnds ==
    /\ opened # Closed
    /\ opened' = Closed /\ log' = Append(log, Event("end")) /\ heard' = Silence
    /\ UNCHANGED <<skipped, root, goal, armed, work>>

(* An event that is not well-formed keeps the number it was given.         *)
Refused ==
    /\ Busy /\ skipped' = skipped + 1
    /\ UNCHANGED <<log, opened, root, goal, armed, heard>>

Next ==
    \/ \E op \in ModelOps, exact \in BOOLEAN : Call(op, exact)
    \/ \E op \in {"create", "pause", "resume", "complete", "clear"} : Command(op)
    \/ Disarm \/ Exhausted \/ TurnStarts \/ Steered \/ TurnEnds \/ Refused
Spec == Init /\ [][Next]_vars

(* The model changes a goal only when a human spoke in the open turn of a  *)
(* root session, or to finish or block the very goal and revision whose    *)
(* round this turn is, and never makes a paused goal active.  Where a      *)
(* human spoke it may, unless so many numbers were skipped before the turn *)
(* that the search begins behind the message.                              *)
Entitled ==
    /\ \A op \in ModelOps, exact \in BOOLEAN : Call(op, exact) =>
        /\ \/ root /\ heard.human
           \/ op \in {"complete", "block"} /\ heard.round = <<goal.current.id, goal.current.rev>>
        /\ ~(goal.current.phase = "paused" /\ goal'.current.phase = "active")
    /\ TurnEnds /\ root /\ heard.human => HasHuman \/ skipped > 2

(* And what it takes for it to stay so.  What the tools find from the      *)
(* number after the start's on was heard in this turn, and a message that  *)
(* was heard is found, unless more numbers were skipped than there are     *)
(* events between the start of a turn and its first message.               *)
Events ==
    [kind : {"turn", "claim", "step", "human", "notice", "round", "goal", "end"}, goal : Nat, rev : Nat, round : Nat]
Types ==
    /\ log \in Seq(Events) /\ skipped \in Nat /\ opened \in Nat \cup {Closed}
    /\ root \in BOOLEAN /\ armed \in BOOLEAN /\ heard \in [human : BOOLEAN, round : Nat \X Nat]
    /\ goal \in GoalState /\ (HasGoal(goal) \/ goal.current.phase = "complete")
Overheard ==
    opened # Closed =>
       /\ opened + 4 <= Len(log) + skipped
       /\ \A i \in SinceStart :
             /\ log[i].kind = "human" => heard.human
             /\ log[i].kind = "round" => heard.round = <<log[i].goal, log[i].rev>>
       /\ heard.human => skipped > 2 \/ \E i \in SinceStart : log[i].kind = "human"
Inv == Types /\ Overheard
===============================================================================
