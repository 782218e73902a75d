SPECIFICATION Spec
CONSTANTS
    N = 2
    K = 1
    ConcurrencyLimit = 2
    WaitingCapacity = 1
    MaxUnsent = 1
    Controller = {c1, c2}
    MaxCalls = 2
    MaxFaults = 1
INVARIANTS
    TypeOK
    ActiveAccounting
    SlotAccounting
    LineHoldsOpenTurns
    DrainedWhenShut
SYMMETRY Symmetry
