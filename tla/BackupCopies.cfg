SPECIFICATION FairSpec
CONSTANTS
    MaxBackups = 2
    Lineages = 2
    Place = {p1, p2}
    Ruled <- AnyKept
    MaxQueue = 1
    MaxRequests = 2
    MaxFaults = 1
    Windows <- NoWindow
INVARIANTS
    TypeOK
    RecordedIsThere
PROPERTIES
    BackupsSpared
    NewestCopied
CHECK_DEADLOCK FALSE
