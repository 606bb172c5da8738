-------------------------- MODULE MCSqliteWorkflow --------------------------
(***************************************************************************)
(* SqliteWorkflow on the small engine: two Execs, and Updates that fail    *)
(* on the state that one of the Execs produces.                            *)
(***************************************************************************)
EXTENDS SqliteWorkflow, MCEngine

Engine == INSTANCE SqliteStmt WITH
  DB <- MCDB, EmptyDB <- MCEmptyDB, Query <- MCQuery, RowSet <- MCRowSet,
  Prepares <- MCPrepares, Mutates <- MCMutates, NonDet <- MCNonDet,
  StepOk <- MCStepOk, Effect <- MCEffect, Rows <- MCRows, Requests <- {}

Request(c) ==
  CASE c = "e1" -> <<Sql(<<"k1">>)>>
    [] c = "e2" -> <<Multi(<<"select", "k2">>)>>
    [] c = "u1" -> <<Sql(<<"k1">>)>>
    [] c = "u3" -> <<Sql(<<"k2">>)>>

Executed(d, c) == Engine!ExecAll(d, Request(c), FALSE, c \in {"e1", "e2"})
MCApply(d, c) == Executed(d, c).db
MCFails(d, c) == Engine!HasError(Executed(d, c).results)

\* The requests use no temporary table.
ASSUME PlainAssumption == IsPlain({d \in MCDB : ~d.temp})

MCExecs == {"e1", "e2"}
=============================================================================
