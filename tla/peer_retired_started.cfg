SPECIFICATION Spec
CONSTANTS
    N = 2
    K = 1
    ConcurrencyLimit = 1
    WaitingCapacity = 2
    MaxUnsent = 1
    Controller = {}
    MaxCalls = 0
    MaxFaults = 0
INVARIANTS
    RetiredNeverProcessed
