SPECIFICATION Spec
CONSTANTS
  Clients = {c1, c2}
  Free = Free
  MAX_CONCUR_LVL = 1
  PIPE = 2
  BUF = 1
  MaxSent = 1
  Faults = 0
INVARIANTS EchoedToSender
CHECK_DEADLOCK FALSE
