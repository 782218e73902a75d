SPECIFICATION FairSpec
CONSTANTS
    N = 2
    K = 1
    RunningCapacity = 1
    WaitingCapacity = 1
    Controller = {c1}
    Answers = {"good", "bad"}
    Deadlines = TRUE
    MaxEpochs = 0
    MaxManual = 0
    MaxCalls = 1
INVARIANTS
    SlotAccounting
    NoIdleSpeculation
PROPERTIES
    SealedTurnsClose
    CallsReturn
