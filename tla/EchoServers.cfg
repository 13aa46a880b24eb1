SPECIFICATION FairSpec
CONSTANTS
  c1 = c1
  c2 = c2
  c3 = c3
  c4 = c4
  Clients <- MCClients
  MaxSent <- MCMaxSent
  Parties <- MCParties
  None = None
  NCRTLVL = 3
  QLEN = 0
  BUFSIZE = 2
  CAP = 2
  Faults = 1
 
PROPERTIES  Accepted ClosedEverywhere Reaped
CHECK_DEADLOCK FALSE
