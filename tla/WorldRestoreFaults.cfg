SPECIFICATION Spec
CONSTANTS
  Restores = {r1}
  Prior = prior
  Fresh = fresh
  None = none
  NoJournal = nojournal
  MaxFaults = 3
  MaxCrashes = 1
  LateDiscard = TRUE
  SlowApply = TRUE
INVARIANT RunsInPlace
PROPERTY WorldsKept
