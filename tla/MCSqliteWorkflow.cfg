\* Two Execs and a failing Update, one crash, cancellation, a query, limit 2.
CONSTANTS
  DB <- MCDB
  EmptyDB <- MCEmptyDB
  Execs <- MCExecs
  Updates = {"u1"}
  NoCall = NoCall
  Apply <- MCApply
  Fails <- MCFails
  Image <- MCImage
  Opens <- MCOpens
  Serializes <- MCSerializes
  IgnoreUpdateErrors = FALSE
  ReqLimit = 2
  DefaultLimit = 5
  UintRange = 8
  MaxCrashes = 1
SPECIFICATION Spec
CHECK_DEADLOCK FALSE
INVARIANTS
  TypeOK
  ExecutedOnce
  DatabaseIsLog
  AnsweredIsDurable
  NothingLost
  IdleMeansExecuted
  ReplayIsFaithful
  IdleBelowLimit
  ChannelsAreFifo
  FailsOnFailedUpdate
  QueryReadsAnswered
