CONSTANTS
    NENV = 3
    NBoot = 2
    IdMod = 5
    Env <- MCEnv
    VA = {}
    d1 = d1
    PD = {d1}
    PDX <- MCPDX
    Page = {p0, p1, p2, p3}
    ZeroPage = p0
    NoPage = NoPage
    NoEnv = NoEnv
    NoVA = NoVA
    RefMod = 9
CONSTRAINTS NoSends
SPECIFICATION FairSpec
INVARIANTS SlotsAccounted CurrentLive
 
CHECK_DEADLOCK FALSE
