\* The life of a database and the commands on it: any three of them, limit 2.
CONSTANTS
  DB <- MCDB
  EmptyDB <- MCEmptyDB
  Execs = {"exec"}
  Updates = {"update"}
  NoCall = NoCall
  Apply <- MCApply
  Fails <- MCFails
  Image <- MCImage
  Opens <- LifeOpens
  Serializes <- LifeSerializes
  IgnoreUpdateErrors = FALSE
  ReqLimit = 0
  DefaultLimit = 2
  UintRange = 8
  MaxCrashes = 1
  Queries = {"query"}
  Saves = {"save"}
  Gets = {"get"}
  StopCmds = {"stop"}
  MaxCommands = 3
SPECIFICATION FairLifeSpec
CHECK_DEADLOCK FALSE
INVARIANTS
  AnswersSurvive
PROPERTIES
  SignalsAreExecuted
  CancelCloses
  CommandsEnd
