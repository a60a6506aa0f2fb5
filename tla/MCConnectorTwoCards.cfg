CONSTANTS
    Devices = {d1, d2}
    Msgs = {m1, m2, m3}
    N = 3
    NULL = NULL
    EarlyUp = FALSE
SPECIFICATION Spec
SYMMETRY MsgSymmetry
INVARIANT NoLeak
