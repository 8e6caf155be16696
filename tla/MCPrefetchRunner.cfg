SPECIFICATION Spec
CONSTANTS
  Workers = {w1, w2}
  Takers = {k1}
  CancelThread = c
  Threads = {w1, w2, k1, c}
  MaxSamples = 2
  Records = {1, 2}
  NoRecord = 0
  Capacity = 1
  FetchErrors = {"Ignored", "Unexpected"}
  MaxRuns = 2
INVARIANTS TypeOK EOFMeansDrained NoSampleTakenTwice ThreadNumsExact
CHECK_DEADLOCK FALSE
