CONSTANTS
    Env = {a, b}
    NoEnv = NoEnv
    NSlot = 2
    BY2PIPE = 2
    PosMod = 8
    PositionFirst = FALSE
    ForkMayFail = TRUE
    Slice = 6
    MaxRequest = 2
    MaxBytes = 3
CONSTRAINTS OneEach Waiters ForksFirst
SPECIFICATION FairSpec
INVARIANTS InOrder
PROPERTIES ImplementsByteStream OpsEnd
CHECK_DEADLOCK FALSE
