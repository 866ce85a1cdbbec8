SPECIFICATION Spec
CONSTANTS
    CallIds = {c1, c2, c3}
    Width = 1
    MaxAgents = 2
    MaxAttempts = 2
    Reconnect = TRUE
    MaxChanges = 2
    MaxSessions = 3
    Streams = {out, err}
    Cap = 1
    Limit = 2
    MaxBytes = 3
    Root = root
    Kids = {k1, k2}
    MaxDepth = 2
    MaxCalls = 4
CHECK_DEADLOCK FALSE
INVARIANTS
    Accounted
PROPERTIES
    CallsEnd
    StopEnds
    Heard
