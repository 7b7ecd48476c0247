SPECIFICATION FairSpec
CONSTANTS
  s1 = s1
  s2 = s2
  s3 = s3
  s4 = s4
  Calls = {c1, c2, c3}
  InitialRows <- MCRows
  Works <- MCWorks
  Pools = {3, 5}
  MaxFaults = 1
  Null = Null
INVARIANTS
  TypeOK
  DeadlockNeedsDisorder
  LostNeedsContention
PROPERTIES
  TransactionsAreAtomic
  EveryCallEnds
CHECK_DEADLOCK FALSE
