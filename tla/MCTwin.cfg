SPECIFICATION Spec
CONSTANTS
    MaxFiber = 3
    Comp <- TwinComp
    Roots <- TwinComp
    Keys = {1, 2}
    Inject <- TwinInject
    Required <- TwinInject
    Provides <- TwinProvides
    Child <- TwinChild
    NoComp = "none"
    Fallible = {}
    Gated = {}
    Releaser = {}
    Listener = {}
    Cancellable = {}
    Factory <- TwinFactory
    SingleSource = TRUE
    Hosts = {"h1"}
PROPERTIES
    OrderedWithdrawal
CHECK_DEADLOCK FALSE
