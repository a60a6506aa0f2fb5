CONSTANTS
    h1 = h1
    h2 = h2
    Handlers = {h1, h2}
    HdrLen = 2
    MaxLen = 2
    MaxRecs = 1
    BlockLens <- MCBlockLens
SPECIFICATION Spec
CHECK_DEADLOCK FALSE
INVARIANT
    OwnRecords
