SPECIFICATION FairSpec
CONSTANTS
  Restores = {r1}
  Prior = prior
  Fresh = fresh
  None = none
  NoJournal = nojournal
  MaxFaults = 1
  MaxCrashes = 2
  LateDiscard = FALSE
  SlowApply = TRUE
INVARIANT TypeOK
INVARIANT RunsMatched
INVARIANT AsideArchived
PROPERTY SucceededMeansRestored
PROPERTY AllOrNothing
PROPERTY RestoresSettle
