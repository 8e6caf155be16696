SPECIFICATION Spec
CONSTANTS
  Addresses = {1, 2}
  Loops = {t1, t2, t3}
  NoLoop = NoLoop
  NumOfThreads = 2
  MaxStorages = 3
INVARIANTS TypeOK EntryKept
PROPERTIES NoEvictionStartsAfterDelete ServedStorageIsEvicted
CHECK_DEADLOCK FALSE
