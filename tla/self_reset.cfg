SPECIFICATION Spec
CONSTANTS
    N = 1
    K = 2
    RunningCapacity = 1
    WaitingCapacity = 1
    Controller = {c1}
    Answers = {"good", "bad"}
    Deadlines = TRUE
    MaxEpochs = 1
    MaxManual = 1
    MaxCalls = 2
INVARIANTS
    TypeOK
    FreshResults
    DrainedWhenShut
