\* Workflows, calls, queries and signals in all their variations.
CONSTANTS
  Empty = Empty
  None = None
  Files <- AllFiles
SPECIFICATION Spec
INVARIANTS
  Compiles
CHECK_DEADLOCK FALSE
