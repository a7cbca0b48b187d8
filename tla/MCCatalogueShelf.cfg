\* Up to three variants of two values, one category, two requests in flight.
SPECIFICATION Spec
CONSTANTS
  r1 = r1
  r2 = r2
  c1 = c1
  small = small
  large = large
  none = none
  Requests = {r1, r2}
  Categories = {c1}
  ValueNames = {small, large}
  NoCategory = none
  MaxVariants = 3
  MaxValues = 2
SYMMETRY Alike
CHECK_DEADLOCK FALSE
INVARIANTS
  ProductsCanBeSold
PROPERTIES
  DefaultIsHandedOver
  UsedValuesStay
