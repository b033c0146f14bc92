SPECIFICATION Spec
CONSTANTS
  MaxRequests = 3
  MaxDays = 2
PROPERTIES StopTerminatesAll
CHECK_DEADLOCK FALSE
