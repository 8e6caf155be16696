SPECIFICATION Spec
CONSTANTS
  Workers = {w1, w2}
  Takers = {k1}
  CancelThread = c
  Threads = {w1, w2, k1, c}
  MaxSamples = 2
  Records = {1, 2}
  NoRecord = 0
  Capacity = 1
  FetchErrors = {"Unexpected"}
  MaxRuns = 1
PROPERTIES EndOfInputReleasesTakers StopRunnersReturns
CHECK_DEADLOCK FALSE
