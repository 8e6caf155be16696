SPECIFICATION Spec
CONSTANTS
  Clients = {c1, c2}
  MAX_TRY_COUNT = 2
  MaxPublished = 2
  MaxFailures = 2
INVARIANTS RunningSessionAlive
PROPERTIES ReplacedSessionsDeleted LatestServedInTheEnd
CHECK_DEADLOCK FALSE
