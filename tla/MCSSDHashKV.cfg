SPECIFICATION Spec
CONSTANTS
  Keys = {k1, k2}
  Values = {v1, v2}
  Garbage = Garbage
  NULL = NULL
  MaxAppCount = 2
  CapInvalidId = 100
  MaxFiles = 3
  MaxBatch = 2
INVARIANTS TypeOK NoDanglingPosition FlushFindsEveryKey CompactedOnce FileFitsMapping CountersExact IInv
PROPERTIES ImplementsKVStore
CHECK_DEADLOCK FALSE
SYMMETRY Symmetry
