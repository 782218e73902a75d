SPECIFICATION FairSpec
CONSTANTS
    Worker = {w1, w2}
    Loop = main
    NoThread = nobody
    Field = {f1, f2}
    MaxEdits = 3
INVARIANTS
    NotifiedInOrder
    NothingLost
PROPERTIES
    EveryCommitNotified
