SPECIFICATION FairSpec
CONSTANTS
    restart = restart
    backup = backup
    message = message
    Schedule = {restart, backup, message}
    Kind <- KindOf
    Timings <- TimingsOf
    Lead <- LeadOf
    Grace <- GraceOf
    IfEmpty <- IfEmptyOf
    SkipIfPlaying = {restart}
    OnlyIfPlayed = {backup}
    RetryAfter = 2
    MinNotice = 1
    BusyRetry = 1
    BusyGiveUp = 1
    MaxTime = 5
    MaxEdits = 1
    MaxFaults = 1
    Windows <- NoWindow
INVARIANTS
    TypeOK
    PlayersTold
PROPERTIES
    RunsOnce
    OwnerHeeded
    AllHandled
CHECK_DEADLOCK FALSE
