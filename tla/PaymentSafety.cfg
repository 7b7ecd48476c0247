SPECIFICATION Spec
CONSTANTS
  Orders = {o1, o2}
  o1 = o1
  o2 = o2
  Calls = {c1, c2}
  c1 = c1
  c2 = c2
  Delay = 1
  Window = 1
  MaxPublish = 3
  MaxAttempts = 1
  MaxFaults = 1
SYMMETRY Symmetry
INVARIANTS
  TypeOK
  PendingIsWatched
  OutcomeAnnounced
  OpenForDelay
PROPERTIES
  PoisonIsForever
  SettlementIsFinal
  LedgerRefined
CHECK_DEADLOCK FALSE
