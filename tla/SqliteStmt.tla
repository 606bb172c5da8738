----------------------------- MODULE SqliteStmt -----------------------------
(***************************************************************************)
(* temporalsqlite/db.go: how a request (a list of statements, each holding *)
(* one or more SQL queries) is executed on the SQLite connection a         *)
(* workflow run owns, as a function of the connection's state.             *)
(*                                                                         *)
(* The SQL engine itself is external and is a parameter: what it promises  *)
(* is EngineAssumption.                                                    *)
(***************************************************************************)
EXTENDS Naturals, Sequences

CONSTANTS
  DB,               (* states of an open connection                        *)
  EmptyDB,          (* a fresh ":memory:" connection                       *)
  Query,            (* single SQL queries                                  *)
  RowSet,           (* what a query can return                             *)
  Prepares(_, _),   (* the query compiles against this state               *)
  Mutates(_),       (* compiling it reports an action that is not READ,    *)
                    (* FUNCTION or SELECT to the authorizer                *)
  NonDet(_),        (* compiling it reports a disallowed function          *)
  StepOk(_, _),     (* stepping over its rows ends without an error        *)
  Effect(_, _),     (* the state after stepping, whether or not it failed  *)
  Rows(_, _),       (* the rows it returns                                 *)
  Requests          (* the statement lists callers send                    *)

Params == {"none", "good", "bad"}

\* A statement.  "blank" is SQL that is empty before trimming; SQL of spaces
\* only is not blank and has no query.
Stmt == [blank: BOOLEAN, sql: Seq(Query), multi: BOOLEAN, params: Params]

NoError == "none"
Error == {"missing", "multiParams", "prepare", "notReadOnly",
          "nonDeterministic", "trailing", "bind", "step"}
NoRows == "noRows"

Result == [successes: Seq(RowSet \cup {NoRows}), error: Error \cup {NoError}]
NoResult == [successes |-> << >>, error |-> NoError]

ASSUME EngineAssumption ==
  /\ EmptyDB \in DB
  /\ Requests \subseteq Seq(Stmt)
  /\ \A q \in Query : Mutates(q) \in BOOLEAN /\ NonDet(q) \in BOOLEAN
  /\ \A d \in DB, q \in Query :
       /\ Prepares(d, q) \in BOOLEAN /\ StepOk(d, q) \in BOOLEAN
       /\ Effect(d, q) \in DB /\ Rows(d, q) \in RowSet
       /\ ~Mutates(q) => Effect(d, q) = d

-----------------------------------------------------------------------------
(* What the code decides about a statement and about a query.              *)

\* Why exec refuses a statement before looking at its SQL.
Malformed(s) ==
  IF s.blank THEN "missing"
  ELSE IF s.multi /\ s.params # "none" THEN "multiParams"
  ELSE NoError

\* Mutants of Refusal: without the check of read-only calls, and without the
\* check of disallowed functions.
RefusalNoReadOnly(s, rest, readOnly, mutates, nonDet) ==
  IF nonDet THEN "nonDeterministic"
  ELSE IF rest # << >> /\ ~s.multi THEN "trailing"
  ELSE IF s.params = "bad" THEN "bind"
  ELSE NoError
RefusalNoNonDet(s, rest, readOnly, mutates, nonDet) ==
  RefusalNoReadOnly(s, rest, readOnly, mutates, readOnly /\ nonDet)

\* Why execSingle refuses a compiled query, in the order of its checks.
Refusal(s, rest, readOnly, mutates, nonDet) ==
  IF readOnly /\ mutates THEN "notReadOnly"
  ELSE IF nonDet THEN "nonDeterministic"
  ELSE IF rest # << >> /\ ~s.multi THEN "trailing"
  ELSE IF s.params = "bad" THEN "bind"
  ELSE NoError

Success(d, q, includeResult) == IF includeResult THEN Rows(d, q) ELSE NoRows

WithError(res, e) == [res EXCEPT !.error = e]
WithSuccess(res, rows) == [res EXCEPT !.successes = Append(@, rows)]

-----------------------------------------------------------------------------
(* execAll as a function of the state it starts in.                        *)

\* execSingle on q, the queries after it being "rest"; r is a record of the
\* state and the statement's result so far.
RunQuery(r, s, q, rest, readOnly, includeResult) ==
  LET refused == Refusal(s, rest, readOnly, Mutates(q), NonDet(q))
  IN  IF ~Prepares(r.db, q)
        THEN [r EXCEPT !.res = WithError(@, "prepare")]
      ELSE IF refused # NoError
        THEN [r EXCEPT !.res = WithError(@, refused)]
      ELSE [db  |-> Effect(r.db, q),
            res |-> IF StepOk(r.db, q)
                      THEN WithSuccess(r.res, Success(r.db, q, includeResult))
                      ELSE WithError(r.res, "step")]

RunStmt(d, s, readOnly, includeResult) ==
  LET n == IF Malformed(s) = NoError THEN Len(s.sql) ELSE 0
      run[i \in 0..n] ==
        IF i = 0 THEN [db |-> d, res |-> WithError(NoResult, Malformed(s))]
        ELSE IF run[i-1].res.error # NoError THEN run[i-1]
        ELSE RunQuery(run[i-1], s, s.sql[i], SubSeq(s.sql, i + 1, n),
                      readOnly, includeResult)
  IN  run[n]

\* The break of execAll's loop: the statement whose result makes it stop.
Stops(res) == res.error = NoError

ExecAll(d, stmts, readOnly, includeResult) ==
  LET run[i \in 0..Len(stmts)] ==
        IF i = 0 THEN [db |-> d, results |-> << >>]
        ELSE LET before == run[i-1]
                 after == RunStmt(before.db, stmts[i], readOnly, includeResult)
             IN  IF \E k \in DOMAIN before.results : Stops(before.results[k])
                   THEN before
                   ELSE [db      |-> after.db,
                         results |-> Append(before.results, after.res)]
  IN  run[Len(stmts)]

\* update and a caller of Exec look for an error among the results.
HasError(results) == \E i \in DOMAIN results : results[i].error # NoError
=============================================================================
