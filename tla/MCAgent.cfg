SPECIFICATION Spec
CONSTANTS
    c1 = c1  c2 = c2
    Callers <- TwoCallers
    MayCall <- RunAndAny
    GoalMax <- OneRound
    GoalOps <- UserOps
    MaxSteps = 2
    MaxRetries = 1
    MaxCalls = 2
    MaxUpsets = 2
CHECK_DEADLOCK FALSE
INVARIANT Delivery
INVARIANT RoundsAdmitted
INVARIANT CallersServed
PROPERTY RunsReturn
