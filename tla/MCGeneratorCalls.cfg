\* Calls that only a workflow can make.
CONSTANTS
  Empty = Empty
  None = None
  Files <- CallFiles
SPECIFICATION Spec
INVARIANTS
  GeneratesAccepted
CHECK_DEADLOCK FALSE
