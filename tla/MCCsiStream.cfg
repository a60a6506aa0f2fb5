CONSTANTS
    MaxFrames = 3
    Body = 2
    Trigger = 2
    Split = FALSE
    MaxFds = 4
    MaxLosses = 2
    MaxReaders = 2
SPECIFICATION FairSpec
CHECK_DEADLOCK FALSE
INVARIANTS
    WholeFrames
    FramesInOrder
    SocketStable
PROPERTIES
    Reconnects
    SentIsRead
