SPECIFICATION Spec
CONSTANTS
  NCRTLVL = 2
  MaxRequests = 3
INVARIANTS CounterInv
CHECK_DEADLOCK FALSE
