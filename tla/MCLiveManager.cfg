SPECIFICATION Spec
CONSTANTS
  Symbol = {a}
  Product = {"MIS"}
  Qty = {1}
  Price <- MCPrice
  Bracket <- MCBracket
  MaxOrders = 2
  MaxSync = 2
  MaxFaults = 1
INVARIANTS TypeOK BookFollowsBroker
PROPERTIES RowsCurrent  LiquidationExact SyncReconciles CompletionShown
