SPECIFICATION Spec
CONSTANTS
    Queues = {q1}
    CLAIM = 8
    POST = 2
    QueueSize = 32
    WriteStep = 8
    Batch = 8
    AllocFails = FALSE
    MaxRestarts = 0
INVARIANTS NoneLost NotDry
