SPECIFICATION Spec
CONSTANTS
  Keys = {k1, k2}
  NoKey = NoKey
  Workers = {w1, w2}
  IsEV = FALSE
  MaxSteps = 3
  MaxSaves = 3
  MaxCrashes = 1
SYMMETRY Symmetry
INVARIANTS IncrementCoversSteps NeverBehindFull
CHECK_DEADLOCK FALSE
