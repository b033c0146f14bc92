SPECIFICATION HubSpec
CONSTANTS
  Client = {c1, c2}
  Topic = {bars}
  Caller = {order}
  Cap = 1
INVARIANTS HubTypeOK ClientsReleased
PROPERTY HubServes
CHECK_DEADLOCK FALSE
