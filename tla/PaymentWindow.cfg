SPECIFICATION Spec
CONSTANTS
  Orders = {o1}
  o1 = o1
  Calls = {c1}
  c1 = c1
  Delay = 2
  Window = 10
  MaxPublish = 1
  MaxAttempts = 1
  MaxFaults = 0
SYMMETRY Symmetry
INVARIANTS
  OpenForTenMinutes
CHECK_DEADLOCK FALSE
