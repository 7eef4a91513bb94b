SPECIFICATION Spec
CHECK_DEADLOCK FALSE
CONSTANTS
  AlphaNum = 2
  AlphaDen = 3
  Listings <- ListingsValue
  Measured <- MeasuredValue
  MaxLearnt = 5
INVARIANT StartsAtLowest
