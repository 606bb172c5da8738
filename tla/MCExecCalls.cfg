\* Clients and workflows call the same target, and each may go away.
CONSTANTS
  Calls <- MCCalls
  Direct <- MCDirect
  Handlers <- MCHandlers
  NoCall = NoCall
  MaxAttempts = 2
  WCalls <- MCWCalls
  Parents <- MCParents
  Parent <- MCParent
  Id <- MCId
  MaxCalls = 2
  MaxClientCalls = 2
SPECIFICATION FairExecSpec
CHECK_DEADLOCK FALSE
INVARIANTS
  ResponseKept
  OwnResponse
PROPERTIES
  NoLeak
  CallsEnd
  HandlersReturn
  EndsOnce
  ResponsesArrive
