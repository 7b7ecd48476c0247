SPECIFICATION FairSpec
CONSTANTS
  Calls = {c1, c2, c3}
  c1 = c1
  c2 = c2
  c3 = c3
  First = First
  FirstCart <- OneCart
  Carts <- FullCarts
  NoOrder = NoOrder
  s1 = s1
  s2 = s2
  MaxOutcomes = 1
  MaxFaults = 1
  MaxCrashes = 0
PROPERTIES
  OutcomeTakesEffect
CHECK_DEADLOCK FALSE
