SPECIFICATION Spec
CONSTANTS
    N = 4
    K = 1
    RunningCapacity = 1
    WaitingCapacity = 1
    Controller = {}
    Answers = {"bad"}
    Deadlines = FALSE
    MaxEpochs = 0
    MaxManual = 0
    MaxCalls = 0
INVARIANTS
    CallsOwned
    WaitingBounded
    SettledOnce
CHECK_DEADLOCK FALSE
