CONSTANTS
    MaxChunks = 4
    FieldSize = 4
    ChunkCounts = {1, 2, 3}
    Clients = {c1}
    NoPort = NoPort
    MaxMeas = 3
    MaxFaults = 1
    MaxRestarts = 0
SPECIFICATION FairSpec
INVARIANTS
    RefExact
    OneMeasurement
    LossBounded
PROPERTY
    EveryMeasurementReported
