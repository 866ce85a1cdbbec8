SPECIFICATION Spec
CONSTANTS
    MaxFiber = 3
    Comp <- FaultComp
    Roots <- FaultRoots
    Keys = {1, 2}
    Inject <- FaultInject
    Required <- FaultRequired
    Provides <- FaultProvides
    Child <- FaultChild
    NoComp = "none"
    Fallible = {"store"}
    Gated = {"store"}
    Releaser = {"store"}
    Listener = {"hub"}
    Cancellable = {"store"}
    Factory <- FaultFactory
    SingleSource = FALSE
    Hosts = {"h1"}
INVARIANTS
    NoDanglingFrame
    TerminalRecovery
PROPERTIES
    RetiredStays
CHECK_DEADLOCK FALSE
