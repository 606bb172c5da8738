-------------------------- MODULE MCSqliteCommands --------------------------
(***************************************************************************)
(* One command of each kind.  The update fails unless the exec has been    *)
(* executed on the same connection; in between, the database cannot be     *)
(* serialised.                                                             *)
(***************************************************************************)
EXTENDS SqliteCommands, MCEngine

Engine == INSTANCE SqliteStmt WITH
  DB <- MCDB, EmptyDB <- MCEmptyDB, Query <- MCQuery, RowSet <- MCRowSet,
  Prepares <- MCPrepares, Mutates <- MCMutates, NonDet <- MCNonDet,
  StepOk <- MCStepOk, Effect <- MCEffect, Rows <- MCRows, Requests <- {}

Request(c) ==
  CASE c = "exec" -> <<Multi(<<"createTemp", "k2">>)>>
    [] c = "update" -> <<Multi(<<"selectTemp", "k1">>)>>

Executed(d, c) == Engine!ExecAll(d, Request(c), FALSE, c = "exec")
MCApply(d, c) == Executed(d, c).db
MCFails(d, c) == Engine!HasError(Executed(d, c).results)
LifeSerializes(d) == d.main # <<"k2">>
LifeOpens(d) == TRUE
=============================================================================
