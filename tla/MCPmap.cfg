CONSTANTS
    Env = {e1, e2}
    VA = {v1, v2, v3}
    v3 = v3
    d1 = d1
    d2 = d2
    PD = {d1, d2}
    PDX <- MCPDX
    Page = {p0, p1, p2, p3, p4, p5, p6}
    ZeroPage = p0
    NoPage = NoPage
    RefMod = 6
SYMMETRY Symmetry
SPECIFICATION BoundedSpec
INVARIANTS RefCountExact FreeUnused TablesSound
PROPERTIES LastUnmapFrees 
CHECK_DEADLOCK FALSE
