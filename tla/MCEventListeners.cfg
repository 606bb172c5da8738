\* Two goroutines, two listeners.
CONSTANTS
  p1 = p1
  p2 = p2
  l1 = l1
  l2 = l2
  Procs <- Two
  Listeners <- TwoListeners
  None = None
SPECIFICATION FairSpec
INVARIANTS
  TypeOK
  RegisteredHear
  CalledInOrder
PROPERTIES
  Linearizes
  ChangesReturn
