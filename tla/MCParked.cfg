SPECIFICATION Spec
CONSTANTS
    MaxFiber = 3
    Comp <- DiamondComp
    Roots <- DiamondComp
    Keys = {1, 2}
    Inject <- DiamondInject
    Required <- OptionalRequired
    Provides <- DiamondProvides
    Child <- DiamondChild
    NoComp = "none"
    Fallible = {}
    Gated = {}
    Releaser = {}
    Listener = {}
    Cancellable = {}
    Factory <- DiamondFactory
    SingleSource = TRUE
    Hosts = {"h1"}
INVARIANTS
    ParkedOnlyIfUnresolved
CHECK_DEADLOCK FALSE
