SPECIFICATION Spec
CONSTANTS
  Orders = {o1}
  o1 = o1
  Calls = {c1}
  c1 = c1
  Delay = 2
  Window = 2
  MaxPublish = 2
  MaxAttempts = 4
  MaxFaults = 0
SYMMETRY Symmetry
INVARIANTS
  AttemptsWithinMaxRetries
CHECK_DEADLOCK FALSE
