CONSTANTS
    MaxChunks = 2
    FieldSize = 4
    ChunkCounts = {1, 2}
    Clients = {c1, c2}
    NoPort = NoPort
    MaxMeas = 3
    MaxFaults = 0
    MaxRestarts = 1
SPECIFICATION Spec
INVARIANTS
    RefExact
    OneMeasurement
    ReportedOnceInOrder
