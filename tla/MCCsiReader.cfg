CONSTANTS
    h1 = h1
    h2 = h2
    Handlers = {h1}
    HdrLen = 2
    MaxLen = 3
    MaxRecs = 3
    BlockLens <- MCBlockLens
SPECIFICATION FairSpec
CHECK_DEADLOCK FALSE
INVARIANTS
    ReadsAll
    FailsOnlyAtCut
PROPERTY
    Terminates
