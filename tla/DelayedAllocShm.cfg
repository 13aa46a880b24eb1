SPECIFICATION Spec
CONSTANTS
  Slaves = {s1, s2}
  Clients = {c1, c2}
  None = None
  QLEN = 1
  MAXCRTLVL = 1
  MaxSent = 1
  Faults = 1
SYMMETRY MCSymmetry
INVARIANTS HandOverInv EchoedOnce SemAccounted CountCoversSlaves KeptWithinLimit
CHECK_DEADLOCK FALSE
