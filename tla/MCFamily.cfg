SPECIFICATION FairSpec
CONSTANTS
    MaxFiber = 4
    Comp <- FamilyComp
    Roots <- FamilyRoots
    Keys = {1, 2, 3}
    Inject <- FamilyInject
    Required <- FamilyInject
    Provides <- FamilyProvides
    Child <- FamilyChild
    NoComp = "none"
    Fallible = {"index"}
    Gated = {"store"}
    Releaser = {}
    Listener = {}
    Cancellable = {}
    Factory <- FamilyFactory
    SingleSource = TRUE
    Hosts = {"h1"}
INVARIANTS
    SettledAtTarget
    ParkedOnlyIfUnresolved
PROPERTIES
    OrderedWithdrawal
    ResolutionCoherent
    IdleSeesCascade
    RetireReturns
    ChildrenFollow
CHECK_DEADLOCK FALSE
