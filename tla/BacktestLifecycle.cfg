SPECIFICATION Spec
CONSTANTS
  MaxRequests = 3
  MaxDays = 2
INVARIANTS TypeOK OneStream
PROPERTIES MutexReleased
CHECK_DEADLOCK FALSE
