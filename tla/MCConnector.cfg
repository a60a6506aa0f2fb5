CONSTANTS
    Devices = {d1}
    Msgs = {m1, m2, m3, m4}
    N = 3
    NULL = NULL
    EarlyUp = FALSE
SPECIFICATION FairSpec
INVARIANTS
    TypeOK
    MemorySafe
    NoLeak
    InOrder
    PrivAlive
    ExitLosesNothing
    RingInv
PROPERTIES
    EventuallySent
    ImplementsQueue
