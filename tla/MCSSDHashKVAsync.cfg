SPECIFICATION Spec
CONSTANTS
  Keys = {k1, k2}
  Values = {v1, v2}
  Garbage = Garbage
  NULL = NULL
  MaxAppCount = 2
  CapInvalidId = 100
  MaxFiles = 3
  MaxAppended = 6
INVARIANTS TypeOK NoDanglingPosition InvalidCountExact
PROPERTIES ImplementsKVStore
SYMMETRY Symmetry
CHECK_DEADLOCK FALSE
