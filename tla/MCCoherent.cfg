SPECIFICATION Spec
CONSTANTS
    MaxFiber = 3
    Comp <- HubComp
    Roots <- HubComp
    Keys = {1, 2}
    Inject <- HubInject
    Required <- HubRequired
    Provides <- HubProvides
    Child <- HubChild
    NoComp = "none"
    Fallible = {}
    Gated = {}
    Releaser = {}
    Listener = {}
    Cancellable = {}
    Factory <- HubFactory
    SingleSource = TRUE
    Hosts = {"h1"}
PROPERTIES
    ResolutionCoherent
CHECK_DEADLOCK FALSE
