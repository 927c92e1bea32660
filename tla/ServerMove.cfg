SPECIFICATION Spec
CONSTANTS
    Machine <- TwoMachines
    Local <- Own
    MaxMoves = 2
    MaxWorld = 1
    MaxFaults = 2
    Windows <- Closed
INVARIANTS
    TypeOK
    NothingPlayedIsLost
    TablesAgree
    RunsAsWanted
CHECK_DEADLOCK FALSE
