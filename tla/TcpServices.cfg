SPECIFICATION FairSpec
CONSTANTS
  Clients = {1, 2, 3}
  ClientKinds <- MCKinds
  Authorised = {1}
  Port <- MCPort
  Rounds = 2
  NFD = 2
  TABLE_LEN = 2
  MinSlot = 1
  MaxTime = 3
  Faults = 1
INVARIANTS SelectInv AnsweredOnce
PROPERTIES Survives RefusedOnlyBusy ClientsEnd
CHECK_DEADLOCK FALSE
