SPECIFICATION Spec
CONSTANTS
  Skus = {s1, s2}
  s1 = s1
  s2 = s2
  Attempts = {a1, a2, a3}
  a1 = a1
  a2 = a2
  a3 = a3
  OrderIds = {o1}
  o1 = o1
  Carts <- DistinctCarts
  Null = Null
  InitialStock = 2
  MaxRestocks = 0
  MaxFaults = 0
  MaxCrashes = 0
  MaxExpiries = 0
  MaxDuplicates = 0
  MaxMishaps = 0
SYMMETRY Symmetry
PROPERTIES
  SkippedWasReleased
CHECK_DEADLOCK FALSE
