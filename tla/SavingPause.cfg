SPECIFICATION FairSpec
CONSTANTS
  None = none
  MaxRuns = 2
  MaxLost = 2
  MaxCrashes = 1
  QuickBackup = FALSE
INVARIANT TypeOK
INVARIANT PauseRemembered
INVARIANT CopyOfOneMoment
PROPERTY PausesEnd
