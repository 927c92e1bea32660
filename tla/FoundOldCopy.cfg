SPECIFICATION Spec
CONSTANTS
    Updates = 2
    MaxFaults = 1
    InterruptedAt <- Settled
    AnyCopy = TRUE
    AnyUndo = FALSE
    Overlap = FALSE
PROPERTIES
    PutsBackWhatItReplaced
CHECK_DEADLOCK FALSE
