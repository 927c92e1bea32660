SPECIFICATION Spec
CONSTANTS
  Restores = {r1, r2}
  Prior = prior
  Fresh = fresh
  None = none
  NoJournal = nojournal
  MaxFaults = 1
  MaxCrashes = 1
  LateDiscard = FALSE
  SlowApply = FALSE
SYMMETRY RestoreSymmetry
PROPERTY RestoresApart
