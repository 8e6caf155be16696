SPECIFICATION Spec
CONSTANTS
  Keys = {k1, k2}
  NoKey = nokey
  Stored = {k1}
  Trainers = {t1, t2}
  Saver = saver
  CacheCapacity = 1
  CapInvalid = 0
  CacheThreads = 1
  MaxSteps = 3
  MaxSaves = 1
SYMMETRY Symmetry
INVARIANTS UpdatesSurvive HeldPointerAlive PrefetchedBeforeUsed DramTracked CheckpointComplete
CHECK_DEADLOCK FALSE
