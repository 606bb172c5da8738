\* Is every executed Exec answered while the chain runs?
CONSTANTS
  DB <- MCDB
  EmptyDB <- MCEmptyDB
  Execs <- MCExecs
  Updates = {}
  NoCall = NoCall
  Apply <- MCApply
  Fails <- MCFails
  Image <- MCImage
  Opens <- MCOpens
  Serializes <- MCSerializes
  IgnoreUpdateErrors = FALSE
  ReqLimit = 2
  DefaultLimit = 5
  UintRange = 8
  MaxCrashes = 0
SPECIFICATION Spec
CHECK_DEADLOCK FALSE
INVARIANT
  ResponseNotDropped
