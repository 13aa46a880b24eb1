SPECIFICATION FairSpec
CONSTANTS
  Callers = {c1, c2}
  Args <- MCArgs
  Failures = TRUE
  Window = 2
INVARIANTS TypeOK SemAccounted LoadedIsCurrent
PROPERTIES ImplementsCell CallReturns
CHECK_DEADLOCK FALSE
