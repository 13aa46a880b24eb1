SPECIFICATION FairSpec
CONSTANTS
  ce = ce
  cd = cd
  ct = ct
  Clients <- MCClients
  Wanted <- MCWanted
  Lines <- MCLines
  ClientKinds <- MCClientKinds
  NCRTLVL = 1
  BUFLEN = 3
  Faults = 1
INVARIANTS RecvInv
PROPERTIES EchoInStep ClientsEnd
CHECK_DEADLOCK FALSE
