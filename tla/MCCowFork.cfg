CONSTANTS
    e1 = e1
    e2 = e2
    e3 = e3
    f1 = f1
    f2 = f2
    f3 = f3
    f4 = f4
    f5 = f5
    f6 = f6
    stk = stk
    tmp = tmp
    txt = txt
    dat = dat
    bss = bss
    lib = lib
    Tmp = pgtmp
    Env = {e1, e2}
    Frame = {f1, f2, f3, f4, f5}
    Value = {0, 1}
    NoFrame = NoFrame
    VPage = {stk, tmp, txt, dat, bss, lib}
    Stack = stk
    TMPPAGE = tmp
    Text = txt
    Data = dat
    Bss = bss
    Boot <- MCBoot
SYMMETRY Sym
SPECIFICATION Spec
INVARIANTS WritableIsPrivate CowHasHandler
PROPERTY MemoryIsOwn
CHECK_DEADLOCK FALSE
