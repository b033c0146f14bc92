SPECIFICATION Spec
CONSTANTS
  Symbol = {a}
  Qty <- MCQty
  Price <- MCPrice
  Bracket <- MCBracket
  MaxOrders = 2
  MaxTime = 2
INVARIANTS TypeOK FillsAccounted PersistedStateCurrent
PROPERTIES TickSettles OrderLifecycle LiquidationExact RulesSpec
