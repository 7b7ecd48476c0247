SPECIFICATION FairSpec
CONSTANTS
  Orders = {o1, o2}
  o1 = o1
  o2 = o2
  Calls = {c1}
  c1 = c1
  Delay = 2
  Window = 2
  MaxPublish = 3
  MaxAttempts = 1
  MaxFaults = 0
PROPERTIES
  PendingSettles
  CheckoutSettles
CHECK_DEADLOCK FALSE
