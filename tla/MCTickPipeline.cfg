SPECIFICATION Spec
CONSTANTS
  Token = {a}
  Timeframe = {1, 10}
  Price = {1, 2, 3}
  Minute <- MCMinute
  Trades = {0, 2}
  BucketSize = 1
  SaveEvery = 2
  OpenMinute = 225
  FarPrice = 3
  MaxTicks = 4
  MaxRestarts = 1
INVARIANTS TypeOK VolumeConserved ProfileExact BarsOnce OrdersSeePrice
CHECK_DEADLOCK FALSE
