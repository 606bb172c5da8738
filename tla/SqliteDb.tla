------------------------------ MODULE SqliteDb ------------------------------
(***************************************************************************)
(* temporalsqlite/db.go one step at a time: the loop over statements       *)
(* (execAll), the loop over the queries of a statement (exec), and the     *)
(* vetting of one query through the flags that the authorizer callback     *)
(* sets on the connection while the query is compiled (execSingle).        *)
(***************************************************************************)
EXTENDS SqliteStmt

VARIABLES
  db,         (* the connection                                            *)
  pc,         (* where execution stands: see Pc                            *)
  call,       (* the arguments of the execAll in progress, with the state  *)
              (* it found ("before" is kept only for the properties)       *)
  todo,       (* statements execAll has not begun                          *)
  stmt,       (* the statement exec works on                               *)
  sql,        (* its queries not yet executed                              *)
  res,        (* its result                                                *)
  results,    (* the results of execAll                                    *)
  mutateSeen, (* stmtFirstMutateOp is set                                  *)
  nonDetSeen  (* stmtFirstNonDeterministicFunc is set                      *)

vars == <<db, pc, call, todo, stmt, sql, res, results, mutateSeen, nonDetSeen>>

Pc == {"idle", "stmts", "queries", "vet", "append"}

\* Query, update and exec call execAll in one of these ways (worker.go).
Modes == {[readOnly |-> TRUE,  includeResult |-> TRUE],
          [readOnly |-> FALSE, includeResult |-> FALSE],
          [readOnly |-> FALSE, includeResult |-> TRUE]}

Call == [stmts: Seq(Stmt), readOnly: BOOLEAN, includeResult: BOOLEAN, before: DB]

NoStmt == [blank |-> TRUE, sql |-> << >>, multi |-> FALSE, params |-> "none"]
NoCall == [stmts |-> << >>, readOnly |-> TRUE, includeResult |-> TRUE,
           before |-> EmptyDB]

TypeOK ==
  /\ db \in DB /\ pc \in Pc /\ call \in Call
  /\ todo \in Seq(Stmt) /\ stmt \in Stmt /\ sql \in Seq(Query)
  /\ res \in Result /\ results \in Seq(Result)
  /\ mutateSeen \in BOOLEAN /\ nonDetSeen \in BOOLEAN
  /\ pc = "vet" => sql # << >>

Init ==
  /\ db = EmptyDB /\ pc = "idle" /\ call = NoCall
  /\ todo = << >> /\ stmt = NoStmt /\ sql = << >>
  /\ res = NoResult /\ results = << >>
  /\ mutateSeen = FALSE /\ nonDetSeen = FALSE

Start(stmts, mode) ==
  /\ pc = "idle"
  /\ pc' = "stmts"
  /\ call' = [stmts |-> stmts, readOnly |-> mode.readOnly,
              includeResult |-> mode.includeResult, before |-> db]
  /\ todo' = stmts /\ results' = << >>
  /\ UNCHANGED <<db, stmt, sql, res, mutateSeen, nonDetSeen>>

\* execAll takes the next statement and exec looks at its form.
NextStmt ==
  /\ pc = "stmts" /\ todo # << >>
  /\ stmt' = Head(todo) /\ todo' = Tail(todo)
  /\ res' = WithError(NoResult, Malformed(Head(todo)))
  /\ IF Malformed(Head(todo)) = NoError
       THEN pc' = "queries" /\ sql' = Head(todo).sql
       ELSE pc' = "append" /\ sql' = << >>
  /\ UNCHANGED <<db, call, results, mutateSeen, nonDetSeen>>

\* Mutants of Prepare: the flags of the previous query are not cleared; the
\* query is cut off the SQL before it is vetted.
PrepareKeepsFlags ==
  /\ pc = "queries" /\ sql # << >>
  /\ mutateSeen' = (mutateSeen \/ Mutates(Head(sql)))
  /\ nonDetSeen' = (nonDetSeen \/ NonDet(Head(sql)))
  /\ IF Prepares(db, Head(sql))
       THEN pc' = "vet" /\ UNCHANGED res
       ELSE pc' = "append" /\ res' = WithError(res, "prepare")
  /\ UNCHANGED <<db, call, todo, stmt, sql, results>>
PrepareCutsSql ==
  /\ pc = "queries" /\ sql # << >>
  /\ sql' = Tail(sql) /\ pc' = "vet"
  /\ mutateSeen' = Mutates(Head(sql)) /\ nonDetSeen' = NonDet(Head(sql))
  /\ UNCHANGED <<db, call, todo, stmt, res, results>>

\* execSingle clears the flags and compiles the query; the authorizer sets
\* them again for what it is told.
Prepare ==
  /\ pc = "queries" /\ sql # << >>
  /\ mutateSeen' = Mutates(Head(sql))
  /\ nonDetSeen' = NonDet(Head(sql))
  /\ IF Prepares(db, Head(sql))
       THEN pc' = "vet" /\ UNCHANGED res
       ELSE pc' = "append" /\ res' = WithError(res, "prepare")
  /\ UNCHANGED <<db, call, todo, stmt, sql, results>>

Vetting == Refusal(stmt, Tail(sql), call.readOnly, mutateSeen, nonDetSeen)

Refuse ==
  /\ pc = "vet" /\ Vetting # NoError
  /\ res' = WithError(res, Vetting) /\ pc' = "append"
  /\ UNCHANGED <<db, call, todo, stmt, sql, results, mutateSeen, nonDetSeen>>

StepRows ==
  /\ pc = "vet" /\ Vetting = NoError
  /\ db' = Effect(db, Head(sql))
  /\ IF StepOk(db, Head(sql))
       THEN /\ pc' = "queries" /\ sql' = Tail(sql)
            /\ res' = WithSuccess(res, Success(db, Head(sql), call.includeResult))
       ELSE pc' = "append" /\ res' = WithError(res, "step") /\ UNCHANGED sql
  /\ UNCHANGED <<call, todo, stmt, results, mutateSeen, nonDetSeen>>

\* No SQL is left: exec returns.
EndQueries ==
  /\ pc = "queries" /\ sql = << >>
  /\ pc' = "append"
  /\ UNCHANGED <<db, call, todo, stmt, sql, res, results, mutateSeen, nonDetSeen>>

\* Mutant of AppendResult: nothing breaks the loop.
AppendResultNoBreak ==
  /\ pc = "append"
  /\ results' = Append(results, res) /\ pc' = "stmts"
  /\ UNCHANGED <<db, call, todo, stmt, sql, res, mutateSeen, nonDetSeen>>

\* execAll appends the statement's result and breaks, or goes on.
AppendResult ==
  /\ pc = "append"
  /\ results' = Append(results, res)
  /\ pc' = "stmts" /\ todo' = IF Stops(res) THEN << >> ELSE todo
  /\ UNCHANGED <<db, call, stmt, sql, res, mutateSeen, nonDetSeen>>

Return ==
  /\ pc = "stmts" /\ todo = << >>
  /\ pc' = "idle"
  /\ UNCHANGED <<db, call, todo, stmt, sql, res, results, mutateSeen, nonDetSeen>>

Next ==
  \/ \E stmts \in Requests, mode \in Modes : Start(stmts, mode)
  \/ NextStmt \/ Prepare \/ Refuse \/ StepRows \/ EndQueries
  \/ AppendResult \/ Return

Spec == Init /\ [][Next]_vars
-----------------------------------------------------------------------------
(* Properties.                                                             *)

InCall == pc # "idle"

\* A read-only call (the Query handler, which runs outside the replayed event
\* history) leaves the database as it found it, at every step: all three
\* handlers share one connection, so a query that wrote would make the worker's
\* state differ from the one a replay computes.
ReadOnlyPreserves == InCall /\ call.readOnly => db = call.before

\* A query that the authorizer objects to is refused, and no other query is
\* refused in its place: the flags always speak of the query being vetted,
\* although they live on the connection and outlive the statement.
RefusalJustified ==
  pc = "append" =>
    /\ res.error = "notReadOnly" => call.readOnly /\ Mutates(Head(sql))
    /\ res.error = "nonDeterministic" => NonDet(Head(sql))

\* No query that calls a disallowed function is stepped, wherever it stands in
\* a multi-query statement or in the list of statements.
OnlyDeterministicRun ==
  [][Len(res'.successes) > Len(res.successes) => ~NonDet(Head(sql))]_vars

\* The steps add up to the function ExecAll: state and results of a finished
\* call are a function of the state it found, the statements and the mode,
\* whatever was executed on the connection before.
StepsMatchExecAll ==
  pc = "stmts" /\ todo = << >> =>
    [db |-> db, results |-> results]
      = ExecAll(call.before, call.stmts, call.readOnly, call.includeResult)

\* What sqlite.proto says of a statement list (lines 57-58, 73-75: "Executed
\* only until the first error", "Only up to the first error"): nothing is
\* executed after a statement that failed.
StopsAtFirstError ==
  \A i, j \in DOMAIN results : i < j => results[i].error = NoError
=============================================================================
