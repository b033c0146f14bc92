SPECIFICATION Spec
CONSTANTS
  Token = {1, 2, 3}
  Processors = 2
  Cap = 1
  MaxTicks = 3
INVARIANTS TypeOK PoolGoesOn
PROPERTIES StreamEnds DeliverySpec
CHECK_DEADLOCK FALSE
