\* Are mutations kept that were sent before the database was stopped?
CONSTANTS
  DB <- MCDB
  EmptyDB <- MCEmptyDB
  Execs <- MCExecs
  Updates = {"u1"}
  NoCall = NoCall
  Apply <- MCApply
  Fails <- MCFails
  Image <- MCImage
  Opens <- MCOpens
  Serializes <- MCSerializes
  IgnoreUpdateErrors = FALSE
  ReqLimit = 2
  DefaultLimit = 5
  UintRange = 8
  MaxCrashes = 0
SPECIFICATION Spec
CHECK_DEADLOCK FALSE
INVARIANT
  StopKeepsMutations
