SPECIFICATION FairSpec
CONSTANTS
    N = 3
    Resource = {"translation", "self"}
    Surface = {"control"}
    Freezes = TRUE
INVARIANTS
    TypeOK
    OnlyMatchingStopOverlaps
    NoLockLeaks
    InterruptedStartFails
PROPERTIES
    StopReachesStart
    InterruptedStartEnds
