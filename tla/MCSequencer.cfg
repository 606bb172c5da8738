\* Two functions that sleep up to three times and may add one another.
CONSTANTS
  Funcs <- MCFuncs
  Plan <- MCPlan
SPECIFICATION FairSpec
INVARIANTS
  TypeOK
  TakeTurns
  ClosesOnce
  SleepsExactly
PROPERTIES
  FunctionsReturn
CHECK_DEADLOCK FALSE
