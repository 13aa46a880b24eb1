SPECIFICATION FairSpec
CONSTANTS
  Slaves = {s1, s2}
  Clients = {c1, c2}
  None = None
  QLEN = 0
  MaxSent = 2
  Faults = 2
INVARIANTS TypeOK
PROPERTIES  ClosedEverywhere BacklogServed
CHECK_DEADLOCK FALSE
