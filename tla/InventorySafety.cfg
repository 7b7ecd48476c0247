SPECIFICATION Spec
CONSTANTS
  Skus = {s1, s2}
  s1 = s1
  s2 = s2
  Attempts = {a1, a2, a3}
  a1 = a1
  a2 = a2
  a3 = a3
  OrderIds = {o1}
  o1 = o1
  Carts <- DistinctCarts
  Null = Null
  InitialStock = 2
  MaxRestocks = 1
  MaxFaults = 2
  MaxCrashes = 1
  MaxExpiries = 1
  MaxDuplicates = 1
  MaxMishaps = 2
SYMMETRY Symmetry
INVARIANTS
  TypeOK
  RestsInOrder
  NotOversold
  NothingCountedTwice
  FaultsCostOneCart
CHECK_DEADLOCK FALSE
