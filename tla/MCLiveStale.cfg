SPECIFICATION Spec
CONSTANTS
  Symbol = {a}
  Product = {"MIS"}
  Qty <- MCQty
  Price <- MCPrice
  Bracket <- MCBracket
  MaxOrders = 2
  MaxSync = 2
  MaxFaults = 0
INVARIANT PositionsReal
