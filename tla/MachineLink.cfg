SPECIFICATION FairSpec
CONSTANTS
    Host = {h1}
    Key = {k1, k2}
    Code = {c1, c2}
    Conn = {n1, n2}
    None = None
    MaxFaults = 1
    RevokeMayFail = FALSE
INVARIANTS
    TypeOK
    OnlyListedSessions
PROPERTIES
    KeysKept
    AdmittedByItsCode
    LinkedInTheEnd
CHECK_DEADLOCK FALSE
