SPECIFICATION Spec
CONSTANTS
  Loaders = {l1, l2}
  Databases = {d1}
  None = None
  MaxRevision = 2
  MaxGeneration = 2
  MaxClock = 1
  MaxEpoch = 1
SYMMETRY Symmetric
CHECK_DEADLOCK FALSE
INVARIANTS RefreshWins
