CONSTANTS
    Env = {a, b, c}
    NoEnv = NoEnv
    NSlot = 2
    BY2PIPE = 2
    PosMod = 8
    PositionFirst = FALSE
    ForkMayFail = FALSE
    Slice = 0
    MaxRequest = 0
    MaxBytes = 0
CONSTRAINTS TwoBusy FewOpen
SYMMETRY Symmetry
SPECIFICATION Spec
INVARIANTS ClosedUnlessForking OpenIsBacked
CHECK_DEADLOCK FALSE
