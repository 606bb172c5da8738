\* Calls whose response has no id.
CONSTANTS
  Empty = Empty
  None = None
  Files <- CallFiles
SPECIFICATION Spec
INVARIANTS
  ResponseHasId
CHECK_DEADLOCK FALSE
