SPECIFICATION FairSpec
CONSTANTS
    N = 2
    K = 2
    ConcurrencyLimit = 1
    WaitingCapacity = 1
    MaxUnsent = 1
    Controller = {c1}
    MaxCalls = 1
    MaxFaults = 1
INVARIANTS
    ClosedWhenComplete
    SettledOnce
PROPERTIES
    ChildrenInOrder
    ImplementsDelivery
    EveryTurnCloses
    CallsReturn
    SubmitReturns
