SPECIFICATION FairSpec
CONSTANTS
    Window = 3
    TfdSize = 6
    MaxSync = 3
    MaxAsync = 3
    MaxFaults = 1
    MaxRestarts = 1
INVARIANTS OkIsAnswered RingInStep NoStaleSource
PROPERTIES SyncReturns Drains
CHECK_DEADLOCK FALSE
