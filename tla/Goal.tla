--------------------------------- MODULE Goal ---------------------------------
(***************************************************************************)
(* A session's goal (goal.cpp): the projection folded from the log, which  *)
(* judges every change and every round it reads, and the operations of the *)
(* service, which are meant to log nothing the projection refuses.  A      *)
(* refusal is final: the projection stays failed, and its log with it.     *)
(* Texts and times are left out.                                           *)
(***************************************************************************)
EXTENDS Integers, Sequences, FiniteSets

Phases == {"active", "paused", "blocked", "complete"}
Snapshot == [id : Nat, rev : Nat, phase : Phases, max : Nat]
None == [id |-> 0, rev |-> 0, phase |-> "complete", max |-> 0]

(* goal_projection_state; ids are numbered, so seen holds 1 .. seen.       *)
GoalState == [current : Snapshot, rounds : Nat, seen : Nat, failed : BOOLEAN]
NoGoal == [current |-> None, rounds |-> 0, seen |-> 0, failed |-> FALSE]
HasGoal(g) == g.current.id # 0

SameDefinition(old, new) == new.max = old.max
Operations == {"create", "edit", "pause", "resume", "complete", "block", "clear"}

(* apply_change(): which snapshots may follow.                             *)
Follows(g, op, new) ==
    LET old == g.current
    IN  CASE op = "create" -> /\ new.rev = 1 /\ new.phase = "active" /\ new.id > g.seen
                              /\ ~HasGoal(g) \/ old.phase = "complete"
          [] op = "clear" -> HasGoal(g) /\ new.id = old.id /\ new.rev = old.rev + 1
          [] OTHER ->
             /\ HasGoal(g) /\ new.id = old.id /\ new.rev = old.rev + 1
             /\ CASE op = "edit" -> new.phase = old.phase
                  [] op = "pause" -> old.phase = "active" /\ new.phase = "paused"
                  [] op = "resume" -> old.phase # "complete" /\ new.phase = "active" /\ g.rounds < new.max
                  [] op = "complete" -> old.phase # "complete" /\ new.phase = "complete"
                  [] op = "block" -> old.phase = "active" /\ new.phase = "blocked"
             /\ op # "edit" => SameDefinition(old, new)

Changed(g, op, new) ==
    IF g.failed THEN g
    ELSE IF ~Follows(g, op, new) THEN [g EXCEPT !.failed = TRUE]
    ELSE CASE op = "create" -> [g EXCEPT !.current = new, !.seen = new.id, !.rounds = 0]
           [] op = "clear" -> [g EXCEPT !.current = None, !.rounds = 0]
           [] OTHER -> [g EXCEPT !.current = new]

(* apply_round(): a logged user message that carries a round.              *)
RoundFollows(g, m) ==
    /\ HasGoal(g) /\ g.current.phase = "active" /\ m.goal = g.current.id /\ m.rev = g.current.rev
    /\ m.round = g.rounds + 1 /\ m.round <= g.current.max
RoundRead(g, m) ==
    IF m.goal = 0 \/ g.failed THEN g
    ELSE IF RoundFollows(g, m) THEN [g EXCEPT !.rounds = m.round]
    ELSE [g EXCEPT !.failed = TRUE]
RoundsRead(g, messages) ==
    LET read[i \in 0..Len(messages)] ==
            IF i = 0 THEN g ELSE RoundRead(read[i - 1], messages[i])
    IN  read[Len(messages)]

(* The service: when an operation is accepted, and what it then logs.      *)
Accepted(g, armed, op) ==
    /\ ~g.failed
    /\ CASE op = "create" -> ~HasGoal(g) \/ g.current.phase = "complete"
         [] op \in {"edit", "clear"} -> HasGoal(g)
         [] op \in {"pause", "block"} -> HasGoal(g) /\ g.current.phase = "active"
         [] op = "complete" -> HasGoal(g) /\ g.current.phase # "complete"
         [] op = "resume" -> /\ HasGoal(g) /\ g.current.phase # "complete"
                             /\ ~(g.current.phase = "active" /\ armed) /\ g.rounds < g.current.max

PhaseAfter(op, phase) ==
    CASE op \in {"create", "resume"} -> "active"
      [] op = "pause" -> "paused"
      [] op = "block" -> "blocked"
      [] op = "complete" -> "complete"
      [] OTHER -> phase

(* The snapshot an operation logs; max is the new limit of create and edit.*)
Logged(g, op, max) ==
    IF op = "create" THEN [id |-> g.seen + 1, rev |-> 1, phase |-> "active", max |-> max]
    ELSE [id |-> g.current.id, rev |-> g.current.rev + 1,
          phase |-> PhaseAfter(op, g.current.phase),
          max |-> IF op = "edit" THEN max ELSE g.current.max]

(* Whether the goal may continue by itself after an operation.             *)
ArmedAfter(op, armed) ==
    CASE op \in {"create", "resume"} -> TRUE
      [] op = "edit" -> armed
      [] OTHER -> FALSE
===============================================================================
