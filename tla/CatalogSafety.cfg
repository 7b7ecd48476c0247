SPECIFICATION Spec
CONSTANTS
  Skus <- MCSkus
  a = a
  b = b
  Products = {p1, p2}
  p1 = p1
  p2 = p2
  Requests = {r1, r2}
  r1 = r1
  r2 = r2
  OrderIds = {o1}
  o1 = o1
  Carts <- MCCarts
  Null = Null
  Documents <- MCDocuments
  Prices = {2}
  Budgets <- MCBudgets
SYMMETRY MCSymmetry
INVARIANTS
  TypeOK
  SnapshotAccounted
  SearchComplete
PROPERTIES
  SnapshotNeverFalls
  OrphanIsForever
  IndexIsFrozen
CHECK_DEADLOCK FALSE
