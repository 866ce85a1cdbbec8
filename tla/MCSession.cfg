SPECIFICATION Spec
CONSTANTS
    s1 = s1  s2 = s2
    Ids <- TwoSessions
    AppendKinds <- KindsOf
    Roots <- OneSession
    Forks = TRUE
    Reuse <- OtherSession
    Threshold = 2
    MaxLog = 3
    MaxCrashes = 1
CHECK_DEADLOCK FALSE
INVARIANT WriterTracksLog
INVARIANT SoundStored
INVARIANT SurfaceShows
PROPERTY DurablePromise
