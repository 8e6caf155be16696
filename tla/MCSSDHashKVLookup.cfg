SPECIFICATION SpecLookup
CONSTANTS
  Keys = {k1, k2}
  Values = {v1, v2}
  Garbage = Garbage
  NULL = NULL
  Readers = {r1}
  MaxAppCount = 2
  CapInvalidId = 100
  MaxFiles = 3
  MaxBatch = 1
INVARIANTS DelayedDeleteProtectsReaders LookupInWindowIsCurrent
CHECK_DEADLOCK FALSE
SYMMETRY Symmetry
