CONSTANTS
    MaxFrames = 3
    Body = 2
    Trigger = 2
    Split = TRUE
    MaxFds = 3
    MaxLosses = 0
    MaxReaders = 1
SPECIFICATION Spec
CHECK_DEADLOCK FALSE
INVARIANTS
    WholeFrames
