\* A cart with two lines, one of a variant that may be sold without stock and one whose
\* tracking may be turned off, through two cycles of reservations, with a fair sweep.
SPECIFICATION FairSpec
CONSTANTS
  k1 = k1
  k2 = k2
  c1 = c1
  c2 = c2
  v1 = v1
  v2 = v2
  Carts = {k1}
  Variants = {v1, v2}
  ConversationOf <- Alone
  Carried <- Two
  Backorder = {v2}
  MaxQuantity = 1
  MaxCycles = 2
  MaxSupply = 1
  Toggles = {v1}
  Crashes = FALSE
  Types = {"PICKUP", "DELIVERY"}
  Preferences = {"PAY_IN_STORE"}
CHECK_DEADLOCK FALSE
INVARIANTS
  HeldStockBelongsToACheckout
PROPERTIES
  ImplementsIdealStock
  HeldStockReturns
