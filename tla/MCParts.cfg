SPECIFICATION AllSpec
CONSTANTS
    MaxEffects = 5
    SessionIds = {s1}
    Persisted = {s1}
    Phrases = {a}
    MaxLog = 2
    MaxGen = 2
    MaxCrashes = 1
    Nil = nil
    Owners = {o1, o2}
    Direct = direct
    MaxTexts = 3
    MaxPosted = 1
    ListSessions = {1, 2}
    Lists <- Plans
    MaxListLog = 4
    MaxListWork = 6
    Places = {1, 2}
    Files <- Written
    SkillNames = {"a", "b"}
    MaxEdits = 5
    BlockedAfter = 1
    MaxRounds = 2
    MaxGoals = 2
    MaxRevision = 2
    MaxGoalWork = 4
    Configs = {c, d}
    Realms = {r}
    Default = default
    Hosts = {h}
    Offered = {t}
    EmptyText = blank
    OpenText = unbound
    JobIds = {j1, j2}
    Limit = 1
    MaxUnloads = 1
    Sessions = {s1}
    Unowned = nobody
    Waiters = {w1}
    Queries = {q1, q2}
    MayClose = TRUE
    Capture = out
    MaxSteps = 2
    MaxCalls = 3
    MaxTurns = 2
    MaxChanges = 1
    Unreadable = unreadable
CHECK_DEADLOCK FALSE
INVARIANTS
    AsAssembled
    Reverted
    Faithful
    Informed
    LockPassed
    Truthful
    Authoritative
    Conforms
PROPERTIES
    Current
    NothingUnseenLost
    Governed
    Obeyed
    Shows
    Told
    Entitled
