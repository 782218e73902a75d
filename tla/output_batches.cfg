SPECIFICATION Spec
CONSTANTS
    N = 3
    M = 1
    Origin = {"self", "manual"}
    Destination = {"ui", "overlay"}
    MaxUnsent = 2
    BatchBytes = 2
    ScopeBytes = 5
    Size = {1, 2}
    MaxGeneration = 1
INVARIANTS
    NobodyStranded
    BytesExact
    RangesExact
    SameOrderEverywhere
PROPERTIES
    ImplementsLine
CHECK_DEADLOCK FALSE
