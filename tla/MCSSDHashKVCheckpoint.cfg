SPECIFICATION SpecCheckpoint
CONSTANTS
  Keys = {k1, k2}
  Values = {v1, v2}
  Garbage = Garbage
  NULL = NULL
  MaxAppCount = 2
  CapInvalidId = 100
  MaxFiles = 3
  MaxBatch = 1
  MaxSaves = 1
  MaxCrashes = 1
  MaxAppended = 5
INVARIANTS NoDanglingPosition
PROPERTIES ImplementsCheckpointStore
CHECK_DEADLOCK FALSE
SYMMETRY Symmetry
