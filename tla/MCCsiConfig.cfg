SPECIFICATION FairSpec
CONSTANTS
    Writers = {w}
    Settings = {"interval", "timer"}
    MaxValue = 1
    Addrs = {a, b}
    NoAddr = noaddr
    MaxAddrs = 2
    Restarter = restarter
    Opener = opener
    Irq = irq
    Nobody = nobody
    MaxWrites = 2
    MaxCrashes = 2
    MaxOpens = 2
INVARIANTS
    FirmwareFollows
    DisabledIsSilent
    FailureAnswered
PROPERTY MeasuresAgain
CHECK_DEADLOCK FALSE
