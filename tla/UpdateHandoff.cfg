SPECIFICATION FairSpec
CONSTANTS
    Updates = 2
    MaxFaults = 3
    InterruptedAt <- Settled
    AnyCopy = FALSE
    AnyUndo = FALSE
    Overlap = FALSE
INVARIANTS
    TypeOK
    HonestWhenQuiet
PROPERTIES
    GoesBackWhole
    UpdatesEnd
CHECK_DEADLOCK FALSE
