SPECIFICATION FairSpec
CONSTANTS
  Clients = {c1, c2, c3}
  NSV = 2
  QLEN = 0
  MaxHups = 2
  Faults = 1
INVARIANTS ListenInv
PROPERTIES QueuedServed ReloadHappens
CHECK_DEADLOCK FALSE
