SPECIFICATION Spec
CONSTANTS
  Works <- Tables
  NumEpochs = 1
  Workers = {w1, w2}
  LocalWorkers = {w1}
  LocalCapacity = 4
  NoCkpt = NoCkpt
  MaxFaults = 2
INVARIANTS NoWorkLost RestoredWorksTakenFirst
PROPERTIES TakersAnswered
CHECK_DEADLOCK FALSE
