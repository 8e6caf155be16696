SPECIFICATION Spec
CONSTANTS
  Keys = {k1, k2}
  NoKey = NoKey
  Workers = {w1, w2}
  IsEV = TRUE
  MaxSteps = 3
  MaxSaves = 2
  MaxCrashes = 1
SYMMETRY Symmetry
INVARIANTS IncrementCoversSteps
CHECK_DEADLOCK FALSE
