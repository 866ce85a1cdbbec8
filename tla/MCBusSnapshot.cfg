SPECIFICATION Spec
CONSTANTS
    a = a  b = b  c = c  d1 = d1  d2 = d2
    Listener <- Listeners
    Dispatcher <- Dispatchers
    Modes <- SerialOnly
    Once <- OnceC
    Prepend <- PrependB
    Scoped <- ScopedD1
    Deaf <- DeafA
    Preset <- FirstTwo
    MaxChanges = 2
CHECK_DEADLOCK FALSE
INVARIANT SnapshotUnaffected
