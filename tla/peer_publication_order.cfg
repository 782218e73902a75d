SPECIFICATION Spec
CONSTANTS
    N = 3
    K = 1
    ConcurrencyLimit = 1
    WaitingCapacity = 1
    MaxUnsent = 1
    Controller = {}
    MaxCalls = 0
    MaxFaults = 0
PROPERTIES
    PublicationOrder
