\* Two carts compete for one variant, whose stock the merchant counts at the same time,
\* with a sweep that may die.
SPECIFICATION Spec
CONSTANTS
  k1 = k1
  k2 = k2
  c1 = c1
  c2 = c2
  v1 = v1
  v2 = v2
  Carts = {k1, k2}
  Variants = {v1}
  ConversationOf <- Apart
  Carried <- OneEach
  Backorder = {}
  MaxQuantity = 2
  MaxCycles = 1
  MaxSupply = 2
  Toggles = {}
  Crashes = TRUE
  Types = {"PICKUP"}
  Preferences = {"PAY_IN_STORE"}
SYMMETRY Alike
CHECK_DEADLOCK FALSE
INVARIANTS
  ReservedIsHeld
  StockIsAccounted
PROPERTIES
  OnlyCountingOversells
