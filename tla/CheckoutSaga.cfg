SPECIFICATION FairSpec
CONSTANTS
  Attempts = {a1, a2}
  Payers = {p1}
  OrderIds = {o1, o2}
  o1 = o1
  o2 = o2
  Carts <- MCCarts
  Null = Null
  Quantities = {1, 2}
  Stock = 3
  MaxTimeouts = 1
  MaxFaults = 1
INVARIANTS
  TypeOK
  AnswersAreTrue
  SoldWithinStock
  UnitsComeBack
  Agreement
  SettledWhenAnswered
PROPERTIES
  SagaRefinesLedger
  CheckoutEnds
CHECK_DEADLOCK FALSE
