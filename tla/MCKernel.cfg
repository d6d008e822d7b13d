CONSTANTS
    NENV = 2
    NBoot = 1
    IdMod = 5
    Env <- MCEnv
    VA = {v1}
    d1 = d1
    PD = {d1}
    PDX <- MCPDX
    Page = {p0, p1, p2, p3, p4}
    ZeroPage = p0
    NoPage = NoPage
    NoEnv = NoEnv
    NoVA = NoVA
    RefMod = 9
CONSTRAINTS NoTraps ThreeLives
SYMMETRY Symmetry
SPECIFICATION KernelSpec
INVARIANTS KernelTypeOK 
 
CHECK_DEADLOCK FALSE
