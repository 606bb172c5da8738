\* What sqlite.proto promises of a list of statements, against what execAll does.
CONSTANTS
  DB <- MCDB
  EmptyDB <- MCEmptyDB
  Query <- MCQuery
  RowSet <- MCRowSet
  Prepares <- MCPrepares
  Mutates <- MCMutates
  NonDet <- MCNonDet
  StepOk <- MCStepOk
  Effect <- MCEffect
  Rows <- MCRows
  Requests <- MCRequests
SPECIFICATION Spec
INVARIANT
  StopsAtFirstError
