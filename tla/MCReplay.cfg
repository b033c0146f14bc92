SPECIFICATION Spec
CONSTANTS
  a = a
  b = b
  Token = {a, b}
  Day <- MCDay
  Speed <- MCSpeed
  Room = 1
  MaxChanges = 2
  Horizon = 3
  MaxFaults = 1
INVARIANTS TypeOK SentAsRecorded SpeedObeyed
PROPERTIES ReplayEnds
CHECK_DEADLOCK FALSE
