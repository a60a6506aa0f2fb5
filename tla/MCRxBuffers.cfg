SPECIFICATION FairSpec
CONSTANTS
    Queues = {q1, q2}
    CLAIM = 2
    POST = 1
    QueueSize = 4
    WriteStep = 2
    Batch = 2
    AllocFails = TRUE
    MaxRestarts = 1
INVARIANTS BatchCovered ReadyIsBacked RingsFit
PROPERTIES RequestsServed
CHECK_DEADLOCK FALSE
