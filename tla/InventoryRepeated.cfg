SPECIFICATION Spec
CONSTANTS
  Skus = {s1, s2}
  s1 = s1
  s2 = s2
  Attempts = {a1}
  a1 = a1
  OrderIds = {o1}
  o1 = o1
  Carts <- RepeatedCarts
  Null = Null
  InitialStock = 1
  MaxRestocks = 0
  MaxFaults = 0
  MaxCrashes = 0
  MaxExpiries = 0
  MaxDuplicates = 0
  MaxMishaps = 0
SYMMETRY Symmetry
INVARIANTS
  RedisNeverNegative
CHECK_DEADLOCK FALSE
