SPECIFICATION FairSpec
CONSTANTS
  N = 2
  CCOUNT = 3
  BUFSIZE = 2
  CAP = 2
  LINES = 2
  Faults = 1
INVARIANTS CompleteInv
PROPERTIES TestEnds NothingLeft
CHECK_DEADLOCK FALSE
