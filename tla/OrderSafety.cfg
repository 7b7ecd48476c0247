SPECIFICATION Spec
CONSTANTS
  Calls = {c1, c2, c3}
  c1 = c1
  c2 = c2
  c3 = c3
  First = First
  FirstCart <- OneCart
  Carts <- AllCarts
  NoOrder = NoOrder
  s1 = s1
  s2 = s2
  MaxOutcomes = 2
  MaxFaults = 1
  MaxCrashes = 1
SYMMETRY Symmetry
INVARIANTS
  TypeOK
  EventsMatchRows
  EventsTellStatus
  OneVerdict
PROPERTIES
  OutcomeIsFinal
  UpdateIsExact
CHECK_DEADLOCK FALSE
