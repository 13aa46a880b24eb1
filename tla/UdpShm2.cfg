SPECIFICATION FairSpec
CONSTANTS
  NCRTLVL = 2
  Limit = 1
  MaxRequests = 4
INVARIANTS AnswersBounded ShutdownInv
PROPERTIES RootLimitKillsTree
CHECK_DEADLOCK FALSE
