SPECIFICATION Spec
CONSTANTS
    MaxBackups = 3
    Lineages = 2
    Place = {p1, p2}
    Ruled <- LastFew
    MaxQueue = 2
    MaxRequests = 0
    MaxFaults = 0
    Windows <- RulesApart
PROPERTIES
    OnlyCopiesKept
CHECK_DEADLOCK FALSE
