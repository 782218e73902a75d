SPECIFICATION Spec
CONSTANTS
    N = 3
    K = 1
    ConcurrencyLimit = 2
    WaitingCapacity = 1
    MaxUnsent = 1
    Controller = {c1}
    MaxCalls = 1
    MaxFaults = 0
INVARIANTS
    OverflowVictimNeverWaits
    WaitingBounded
PROPERTIES
    GatedOrder
    NothingTranslatedAfterCancel
