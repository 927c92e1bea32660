SPECIFICATION FairSpec
CONSTANTS
    Player = {p1, p2}
    MaxWakes = 2
    MaxFaults = 2
    Windows <- NoWindow
INVARIANTS
    TypeOK
    StandInAsMeant
    WakesCounted
PROPERTIES
    StartsOnlyIfMeant
    NobodyWaits
