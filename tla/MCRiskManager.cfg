SPECIFICATION Spec
CONSTANTS
  a = a
  b = b
  Symbol = {a, b}
  Tick <- MCTick
  EntrySignal = {"GO_LONG", "GO_SHORT"}
  MaximumTradesCount = 2
  MaxConcurrentTrades = 1
  BuyingPower = 90000
  LegsToCap = 3
  MaxTicks = 5
  MaxBars = 1
  MaxSurprises = 1
SYMMETRY Symmetry
CONSTRAINT UnderWay
INVARIANTS TypeOK StopsHonoured BooksAgree
PROPERTIES LimitsHold
CHECK_DEADLOCK FALSE
