\* Calls and commands of every form, after one another, on every state of the
\* small engine, executed step by step.
CONSTANTS
  DB <- MCDB
  EmptyDB <- MCEmptyDB
  Query <- MCQuery
  RowSet <- MCRowSet
  Prepares <- MCPrepares
  Mutates <- MCMutates
  NonDet <- MCNonDet
  StepOk <- MCStepOk
  Effect <- MCEffect
  Rows <- MCRows
  Requests = {}
  MaxInt64 = 1
  Uint32Range = 4
  Count <- MCCount
  Index <- MCIndex
  Adds <- MCAdds
  Lists <- MCLists
  Calls <- MCCalls
  Commands <- MCCommands
SPECIFICATION PathSpec
INVARIANTS
  TypeOK
  ReadOnlyPreserves
  RefusalJustified
  StepsMatchExecAll
  ReadsBack
  ToldTheTruth
PROPERTIES
  OnlyDeterministicRun
