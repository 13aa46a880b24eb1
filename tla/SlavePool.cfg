SPECIFICATION FairSpec
CONSTANTS
  Clients = {c1, c2}
  Free = Free
  MAX_CONCUR_LVL = 1
  PIPE = 2
  BUF = 1
  MaxSent = 4
  Faults = 1
INVARIANTS TableInv NoPipeDeadlock
PROPERTIES Answered
CHECK_DEADLOCK FALSE
