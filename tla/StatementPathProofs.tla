------------------------ MODULE StatementPathProofs -------------------------
(***************************************************************************)
(* For every SQL engine that keeps EngineAssumption, and every list of     *)
(* statements: what executing them step by step on the connection does     *)
(* (SqliteDb): types, that a read-only call changes nothing, that refusals *)
(* concern the query they are given for, and that the steps add up to      *)
(* ExecAll.  And for every caller whose statements are statements          *)
(* (PathAssumption): that all this holds along the path, that what a       *)
(* caller is told is true, and that what it reads is what was given, if    *)
(* the engine has a table (StatementPath).                                 *)
(***************************************************************************)
EXTENDS StatementPath, Induction, TLAPS

\* A step of the connection, whoever the statements come from.
Step ==
  \/ \E stmts \in Seq(Stmt), mode \in Modes : Start(stmts, mode)
  \/ NextStmt \/ Prepare \/ Refuse \/ StepRows \/ EndQueries
  \/ AppendResult \/ Return

\* The flags on the connection describe the query that is being vetted.
FlagsFresh ==
  pc = "vet" => mutateSeen = Mutates(Head(sql)) /\ nonDetSeen = NonDet(Head(sql))

IInv == TypeOK /\ FlagsFresh /\ ReadOnlyPreserves

\* The requests of SqliteDb are such statements.
LEMMA NextIsStep == [Next]_vars => [Step]_vars
BY EngineAssumption DEF Next, Step

\* The form check yields an error of the list, or none.
LEMMA MalformedType ==
  ASSUME NEW s \in Stmt PROVE Malformed(s) \in Error \cup {NoError}
BY DEF Malformed, Error, NoError

\* So does the vetting of a query.
LEMMA RefusalType ==
  ASSUME NEW s, NEW rest, NEW ro, NEW m, NEW n
  PROVE  Refusal(s, rest, ro, m, n) \in Error \cup {NoError}
BY DEF Refusal, Error, NoError

\* Setting a result's error or adding rows to it leaves a result.
LEMMA ResultType ==
  ASSUME NEW r \in Result
  PROVE  /\ \A e \in Error \cup {NoError} : WithError(r, e) \in Result
         /\ \A rows \in RowSet \cup {NoRows} : WithSuccess(r, rows) \in Result
BY DEF Result, WithError, WithSuccess

\* The result exec starts from is one.
LEMMA NoResultType == NoResult \in Result
BY DEF NoResult, Result

\* The initial values have their types.
LEMMA InitTypes == Init => TypeOK
<1> SUFFICES ASSUME Init PROVE TypeOK
  OBVIOUS
<1>1. NoStmt \in Stmt
  BY DEF NoStmt, Stmt, Params
<1>2. NoCall \in Call
  BY EngineAssumption DEF NoCall, Call
<1>3. mutateSeen \in BOOLEAN /\ nonDetSeen \in BOOLEAN
  BY DEF Init
<1> QED
  BY <1>1, <1>2, <1>3, EngineAssumption, NoResultType DEF Init, TypeOK, Pc

\* Every step keeps the types.
LEMMA NextTypes == TypeOK /\ [Step]_vars => TypeOK'
<1> SUFFICES ASSUME TypeOK, [Step]_vars PROVE TypeOK'
  OBVIOUS
<1> USE DEF TypeOK, Pc
<1>1. ASSUME NEW stmts \in Seq(Stmt), NEW mode \in Modes, Start(stmts, mode)
      PROVE  TypeOK'
  <2>2. Modes \subseteq [readOnly: BOOLEAN, includeResult: BOOLEAN]
    BY DEF Modes
  <2>3. call' \in Call
    BY <1>1, <2>2 DEF Start, Call
  <2> QED BY <1>1, <2>3 DEF Start
<1>2. CASE NextStmt
  <2>1. Head(todo) \in Stmt /\ Tail(todo) \in Seq(Stmt)
    BY <1>2 DEF NextStmt
  <2>2. res' \in Result
    BY <1>2, <2>1, MalformedType, NoResultType, ResultType DEF NextStmt
  <2>3. Head(todo).sql \in Seq(Query) /\ << >> \in Seq(Query)
    BY <2>1 DEF Stmt
  <2>4. sql' \in Seq(Query) /\ pc' \in {"queries", "append"}
    BY <1>2, <2>3 DEF NextStmt
  <2> QED BY <1>2, <2>1, <2>2, <2>4 DEF NextStmt
<1>3. CASE Prepare
  <2>1. res' \in Result
    BY <1>3, ResultType DEF Prepare, Error
  <2>2. mutateSeen' \in BOOLEAN /\ nonDetSeen' \in BOOLEAN
    BY <1>3, EngineAssumption DEF Prepare
  <2> QED BY <1>3, <2>1, <2>2 DEF Prepare
<1>4. CASE Refuse
  <2>1. res' \in Result
    BY <1>4, ResultType, RefusalType DEF Refuse, Vetting
  <2> QED BY <1>4, <2>1 DEF Refuse
<1>5. CASE StepRows
  <2>1. Head(sql) \in Query /\ Tail(sql) \in Seq(Query)
    BY <1>5 DEF StepRows
  <2>2. db' \in DB
    BY <1>5, <2>1, EngineAssumption DEF StepRows
  <2>3. Success(db, Head(sql), call.includeResult) \in RowSet \cup {NoRows}
    BY <2>1, EngineAssumption DEF Success
  <2>4. res' \in Result
    BY <1>5, <2>3, ResultType DEF StepRows, Error
  <2> QED BY <1>5, <2>1, <2>2, <2>4 DEF StepRows
<1>6. CASE EndQueries
  BY <1>6 DEF EndQueries
<1>7. CASE AppendResult
  <2>1. results' \in Seq(Result) /\ todo' \in Seq(Stmt)
    BY <1>7 DEF AppendResult
  <2> QED BY <1>7, <2>1 DEF AppendResult
<1>8. CASE Return
  BY <1>8 DEF Return
<1>9. CASE UNCHANGED vars
  BY <1>9 DEF vars
<1> QED
  BY <1>1, <1>2, <1>3, <1>4, <1>5, <1>6, <1>7, <1>8, <1>9 DEF Step


\* A call that is read-only changes nothing: the flags are fresh because every
\* compilation clears and sets them, so it only steps queries that leave the database
\* alone.
LEMMA FlagsStep ==
  TypeOK /\ FlagsFresh /\ ReadOnlyPreserves /\ [Step]_vars => FlagsFresh' /\ ReadOnlyPreserves'
<1> SUFFICES ASSUME TypeOK, FlagsFresh, ReadOnlyPreserves, [Step]_vars
             PROVE  FlagsFresh' /\ ReadOnlyPreserves'
  OBVIOUS
<1> USE DEF FlagsFresh, ReadOnlyPreserves, InCall
<1>1. ASSUME NEW stmts \in Seq(Stmt), NEW mode \in Modes, Start(stmts, mode)
      PROVE  FlagsFresh' /\ ReadOnlyPreserves'
  BY <1>1 DEF Start
<1>2. CASE NextStmt
  BY <1>2 DEF NextStmt
<1>3. CASE Prepare
  BY <1>3 DEF Prepare
<1>4. CASE Refuse
  BY <1>4 DEF Refuse
<1>5. CASE StepRows
  <2>1. Head(sql) \in Query
    BY <1>5 DEF StepRows, TypeOK
  <2>2. call.readOnly => ~Mutates(Head(sql))
    BY <1>5 DEF StepRows, Vetting, Refusal, NoError
  <2>3. call.readOnly => db' = db
    BY <1>5, <2>1, <2>2, EngineAssumption DEF StepRows, TypeOK
  <2> QED BY <1>5, <2>3 DEF StepRows
<1>6. CASE EndQueries
  BY <1>6 DEF EndQueries
<1>7. CASE AppendResult
  BY <1>7 DEF AppendResult
<1>8. CASE Return
  BY <1>8 DEF Return
<1>9. CASE UNCHANGED vars
  BY <1>9 DEF vars
<1> QED
  BY <1>1, <1>2, <1>3, <1>4, <1>5, <1>6, <1>7, <1>8, <1>9 DEF Step

\* A query that is stepped calls no disallowed function.
LEMMA DeterministicStep ==
  IInv /\ [Step]_vars => [Len(res'.successes) > Len(res.successes) => ~NonDet(Head(sql))]_vars
<1> SUFFICES ASSUME IInv, Step, Len(res'.successes) > Len(res.successes)
             PROVE  ~NonDet(Head(sql))
  BY DEF vars
<1> USE DEF IInv, TypeOK
<1>1. \A r \in Result, e \in Error \cup {NoError} :
        WithError(r, e).successes = r.successes
  BY DEF WithError, Result
<1>2. ASSUME res'.successes = res.successes \/ res'.successes = << >> PROVE FALSE
  <2>1. Len(res.successes) \in Nat /\ Len(<< >>) = 0
    BY DEF Result
  <2> QED BY <1>2, <2>1
<1>3. CASE NextStmt
  <2>1. Malformed(Head(todo)) \in Error \cup {NoError}
    BY <1>3, MalformedType DEF NextStmt
  <2> QED BY <1>1, <1>2, <1>3, <2>1, NoResultType DEF NextStmt, NoResult
<1>4. CASE Prepare
  BY <1>1, <1>2, <1>4 DEF Prepare, Error
<1>5. CASE Refuse
  BY <1>1, <1>2, <1>5, RefusalType DEF Refuse, Vetting
<1>6. CASE StepRows
  BY <1>6 DEF StepRows, Vetting, Refusal, NoError, FlagsFresh
<1> QED
  BY <1>2, <1>3, <1>4, <1>5, <1>6
     DEF Step, Start, EndQueries, AppendResult, Return

\* A statement's queries are compiled only while it has no error.
ErrorFree == pc \in {"queries", "vet"} => res.error = NoError

\* With ErrorFree, the error that ends a statement is the one just given.
LEMMA RefusalStep ==
  ASSUME IInv, ErrorFree, RefusalJustified, [Step]_vars
  PROVE  ErrorFree' /\ RefusalJustified'
<1> USE DEF IInv, TypeOK, ErrorFree, RefusalJustified
<1>1. \A r \in Result, e \in Error \cup {NoError} : WithError(r, e).error = e
  BY DEF WithError, Result
<1>2. \A r \in Result : \A rows : WithSuccess(r, rows).error = r.error
  BY DEF WithSuccess, Result
<1>3. CASE \E stmts \in Seq(Stmt), mode \in Modes : Start(stmts, mode)
  BY <1>3 DEF Start
<1>4. CASE NextStmt
  <2>1. Malformed(Head(todo)) \in {"missing", "multiParams", NoError}
    BY DEF Malformed
  <2>2. res'.error = Malformed(Head(todo))
    BY <1>1, <1>4, <2>1, NoResultType DEF NextStmt, Error
  <2> QED BY <1>4, <2>1, <2>2 DEF NextStmt, NoError
<1>5. CASE Prepare
  <2>1. WithError(res, "prepare").error = "prepare"
    BY <1>1 DEF Error
  <2> QED BY <1>5, <2>1 DEF Prepare
<1>6. CASE Refuse
  <2>1. res'.error = Vetting
    BY <1>1, <1>6, RefusalType DEF Refuse, Vetting
  <2>2. /\ Vetting = "notReadOnly" => call.readOnly /\ mutateSeen
        /\ Vetting = "nonDeterministic" => nonDetSeen
    BY DEF Vetting, Refusal, NoError
  <2> QED BY <1>6, <2>1, <2>2 DEF Refuse, FlagsFresh
<1>7. CASE StepRows
  <2>1. WithError(res, "step").error = "step"
    BY <1>1 DEF Error
  <2>2. \A rows : WithSuccess(res, rows).error = NoError
    BY <1>2, <1>7 DEF StepRows
  <2> QED BY <1>7, <2>1, <2>2 DEF StepRows
<1>8. CASE EndQueries
  BY <1>8 DEF EndQueries, NoError
<1>9. CASE AppendResult \/ Return \/ UNCHANGED vars
  BY <1>9 DEF AppendResult, Return, vars
<1> QED BY <1>3, <1>4, <1>5, <1>6, <1>7, <1>8, <1>9 DEF Step

-----------------------------------------------------------------------------
(* The steps against the functions: RunStmt and ExecAll as runs.           *)

\* The state of a statement and of a call on their way.
StmtState == [db: DB, res: Result]
CallState == [db: DB, results: Seq(Result)]

\* The runs that RunStmt and ExecAll are the ends of, and what leads on in them.
StmtLen(s) == IF Malformed(s) = NoError THEN Len(s.sql) ELSE 0
StmtStep(r, s, i, readOnly, includeResult) ==
  IF r.res.error # NoError THEN r
  ELSE RunQuery(r, s, s.sql[i], SubSeq(s.sql, i + 1, StmtLen(s)), readOnly, includeResult)
StmtRun(d, s, readOnly, includeResult) ==
  LET run[i \in 0 .. StmtLen(s)] ==
        IF i = 0 THEN [db |-> d, res |-> WithError(NoResult, Malformed(s))]
        ELSE StmtStep(run[i-1], s, i, readOnly, includeResult)
  IN  run

HasStopped(results_) == \E k \in DOMAIN results_ : Stops(results_[k])
CallStep(r, s, readOnly, includeResult) ==
  IF HasStopped(r.results) THEN r
  ELSE LET after == RunStmt(r.db, s, readOnly, includeResult)
       IN  [db |-> after.db, results |-> Append(r.results, after.res)]
CallRun(d, stmts, readOnly, includeResult) ==
  LET run[i \in 0 .. Len(stmts)] ==
        IF i = 0 THEN [db |-> d, results |-> << >>]
        ELSE CallStep(run[i-1], stmts[i], readOnly, includeResult)
  IN  run

\* RunStmt is the end of the statement's run.
LEMMA RunStmtIs ==
  ASSUME NEW d, NEW s, NEW ro, NEW inc
  PROVE  RunStmt(d, s, ro, inc) = StmtRun(d, s, ro, inc)[StmtLen(s)]
BY Zenon DEF RunStmt, StmtRun, StmtStep, StmtLen

\* ExecAll is the end of the call's run.
LEMMA ExecAllIs ==
  ASSUME NEW d, NEW stmts, NEW ro, NEW inc
  PROVE  ExecAll(d, stmts, ro, inc) = CallRun(d, stmts, ro, inc)[Len(stmts)]
BY Zenon DEF ExecAll, CallRun, CallStep, HasStopped

\* A query leads from a state to a state.
LEMMA StmtStepType ==
  ASSUME NEW s \in Stmt, NEW i \in 1 .. StmtLen(s), NEW ro \in BOOLEAN, NEW inc \in BOOLEAN,
         NEW r \in StmtState
  PROVE  StmtStep(r, s, i, ro, inc) \in StmtState
<1> DEFINE q == s.sql[i]
           refused == Refusal(s, SubSeq(s.sql, i + 1, StmtLen(s)), ro, Mutates(q), NonDet(q))
<1>1. q \in Query
  BY DEF Stmt, StmtLen
<1>2. refused \in Error \cup {NoError}
  BY RefusalType
<1>3. r.db \in DB /\ r.res \in Result /\ r = [db |-> r.db, res |-> r.res]
  BY DEF StmtState
<1>4. Success(r.db, q, inc) \in RowSet \cup {NoRows} /\ Effect(r.db, q) \in DB
  BY <1>1, <1>3, EngineAssumption DEF Success
<1>5. /\ WithError(r.res, "prepare") \in Result /\ WithError(r.res, refused) \in Result
      /\ WithError(r.res, "step") \in Result
      /\ WithSuccess(r.res, Success(r.db, q, inc)) \in Result
  BY <1>2, <1>3, <1>4, ResultType DEF Error
<1> HIDE DEF q, refused
<1>6. \A e \in Result, d \in DB :
        /\ [r EXCEPT !.res = e] \in StmtState /\ [db |-> d, res |-> e] \in StmtState
  BY DEF StmtState
<1>7. StmtStep(r, s, i, ro, inc) \in
        {r, [r EXCEPT !.res = WithError(r.res, "prepare")],
         [r EXCEPT !.res = WithError(r.res, refused)],
         [db |-> Effect(r.db, q), res |-> WithError(r.res, "step")],
         [db |-> Effect(r.db, q), res |-> WithSuccess(r.res, Success(r.db, q, inc))]}
  BY <1>3 DEF StmtStep, RunQuery, q, refused
<1> QED BY <1>4, <1>5, <1>6, <1>7

\* The run of a statement, in numbers.
LEMMA StmtRunFacts ==
  ASSUME NEW d \in DB, NEW s \in Stmt, NEW ro \in BOOLEAN, NEW inc \in BOOLEAN
  PROVE  LET run == StmtRun(d, s, ro, inc)
         IN  /\ StmtLen(s) \in Nat /\ run \in [0 .. StmtLen(s) -> StmtState]
             /\ run[0] = [db |-> d, res |-> WithError(NoResult, Malformed(s))]
             /\ \A i \in 1 .. StmtLen(s) : run[i] = StmtStep(run[i - 1], s, i, ro, inc)
<1> DEFINE n == StmtLen(s)
           a == [db |-> d, res |-> WithError(NoResult, Malformed(s))]
           step == [i \in 1 .. n |-> [r \in StmtState |-> StmtStep(r, s, i, ro, inc)]]
           Is(f) == f = [i \in 0 .. n |->
                           IF i = 0 THEN a ELSE StmtStep(f[i - 1], s, i, ro, inc)]
<1>1. n \in Nat
  BY DEF StmtLen, Stmt
<1>2. a \in StmtState
  BY MalformedType, NoResultType, ResultType DEF StmtState
<1>3. step \in [1 .. n -> [StmtState -> StmtState]]
  BY StmtStepType
<1> HIDE DEF n, a
<1>4. PICK f : IsRecursion(f, n, StmtState, a, step)
  <2> HIDE DEF step
  <2> QED BY <1>1, <1>2, <1>3, RecursionExists
<1>5. \A i \in 0 .. n : f[i] = IF i = 0 THEN a ELSE StmtStep(f[i - 1], s, i, ro, inc)
  <2>1. ASSUME NEW i \in 1 .. n PROVE f[i] = StmtStep(f[i - 1], s, i, ro, inc)
    <3>1. f[i] = step[i][f[i - 1]] /\ f[i - 1] \in StmtState
      BY <1>1, <1>4 DEF IsRecursion
    <3> QED BY <3>1
  <2>2. f[0] = a
    BY <1>4 DEF IsRecursion
  <2> QED BY <1>1, <2>1, <2>2
<1>6. Is(f)
  <2> HIDE DEF step
  <2> QED BY <1>4, <1>5 DEF IsRecursion
<1>7. StmtRun(d, s, ro, inc) = CHOOSE g : Is(g)
  BY Zenon DEF StmtRun, n, a
<1> DEFINE run == StmtRun(d, s, ro, inc)
<1>8. Is(run)
  <2> HIDE DEF Is
  <2> QED BY <1>6, <1>7
<1> HIDE DEF run, step
<1>9. run[0] = a /\ \A i \in 1 .. n : run[i] = StmtStep(run[i - 1], s, i, ro, inc)
  BY <1>1, <1>8
<1>10. \A i \in 0 .. n : run[i] = f[i]
  <2>1. ASSUME NEW i \in 0 .. n - 1, run[i] = f[i] PROVE run[i + 1] = f[i + 1]
    <3>1. i + 1 \in 1 .. n /\ (i + 1) - 1 = i
      BY <1>1
    <3> QED BY <1>5, <1>9, <2>1, <3>1
  <2>2. run[0] = f[0]
    BY <1>4, <1>9 DEF IsRecursion
  <2> QED BY <1>1, <2>1, <2>2, RecursionUnique
<1>11. run \in [0 .. n -> StmtState]
  BY <1>4, <1>8, <1>10 DEF IsRecursion
<1> QED BY <1>1, <1>9, <1>11 DEF n, a, run

\* A statement leads from a state of the call to a state.
LEMMA CallStepType ==
  ASSUME NEW s \in Stmt, NEW ro \in BOOLEAN, NEW inc \in BOOLEAN, NEW r \in CallState
  PROVE  CallStep(r, s, ro, inc) \in CallState
<1> DEFINE after == RunStmt(r.db, s, ro, inc)
<1>1. r.db \in DB /\ r.results \in Seq(Result)
  BY DEF CallState
<1>2. after \in StmtState
  <2>1. RunStmt(r.db, s, ro, inc) = StmtRun(r.db, s, ro, inc)[StmtLen(s)]
    BY RunStmtIs
  <2>2. StmtLen(s) \in Nat /\ StmtRun(r.db, s, ro, inc) \in [0 .. StmtLen(s) -> StmtState]
    BY <1>1, StmtRunFacts
  <2> QED BY <2>1, <2>2
<1>3. CallStep(r, s, ro, inc) = IF HasStopped(r.results) THEN r
         ELSE [db |-> after.db, results |-> Append(r.results, after.res)]
  BY DEF CallStep
<1> HIDE DEF after
<1>4. [db |-> after.db, results |-> Append(r.results, after.res)] \in CallState
  BY <1>1, <1>2 DEF StmtState, CallState
<1> QED BY <1>3, <1>4

\* The run of a call, in numbers.
LEMMA CallRunFacts ==
  ASSUME NEW d \in DB, NEW stmts \in Seq(Stmt), NEW ro \in BOOLEAN, NEW inc \in BOOLEAN
  PROVE  LET run == CallRun(d, stmts, ro, inc)
         IN  /\ Len(stmts) \in Nat /\ run \in [0 .. Len(stmts) -> CallState]
             /\ run[0] = [db |-> d, results |-> << >>]
             /\ \A i \in 1 .. Len(stmts) : run[i] = CallStep(run[i - 1], stmts[i], ro, inc)
<1> DEFINE n == Len(stmts)
           a == [db |-> d, results |-> << >>]
           step == [i \in 1 .. n |-> [r \in CallState |-> CallStep(r, stmts[i], ro, inc)]]
           Is(f) == f = [i \in 0 .. n |->
                           IF i = 0 THEN a ELSE CallStep(f[i - 1], stmts[i], ro, inc)]
<1>1. n \in Nat
  OBVIOUS
<1>2. a \in CallState
  BY DEF CallState
<1>3. step \in [1 .. n -> [CallState -> CallState]]
  <2>1. \A i \in 1 .. n : stmts[i] \in Stmt
    OBVIOUS
  <2> QED BY <2>1, CallStepType
<1> HIDE DEF n, a
<1>4. PICK f : IsRecursion(f, n, CallState, a, step)
  <2> HIDE DEF step
  <2> QED BY <1>1, <1>2, <1>3, RecursionExists
<1>5. \A i \in 0 .. n : f[i] = IF i = 0 THEN a ELSE CallStep(f[i - 1], stmts[i], ro, inc)
  <2>1. ASSUME NEW i \in 1 .. n PROVE f[i] = CallStep(f[i - 1], stmts[i], ro, inc)
    <3>1. f[i] = step[i][f[i - 1]] /\ f[i - 1] \in CallState
      BY <1>1, <1>4 DEF IsRecursion
    <3> QED BY <3>1
  <2>2. f[0] = a
    BY <1>4 DEF IsRecursion
  <2> QED BY <1>1, <2>1, <2>2
<1>6. Is(f)
  <2> HIDE DEF step
  <2> QED BY <1>4, <1>5 DEF IsRecursion
<1>7. CallRun(d, stmts, ro, inc) = CHOOSE g : Is(g)
  BY Zenon DEF CallRun, n, a
<1> DEFINE run == CallRun(d, stmts, ro, inc)
<1>8. Is(run)
  <2> HIDE DEF Is
  <2> QED BY <1>6, <1>7
<1> HIDE DEF run, step
<1>9. run[0] = a /\ \A i \in 1 .. n : run[i] = CallStep(run[i - 1], stmts[i], ro, inc)
  BY <1>1, <1>8
<1>10. \A i \in 0 .. n : run[i] = f[i]
  <2>1. ASSUME NEW i \in 0 .. n - 1, run[i] = f[i] PROVE run[i + 1] = f[i + 1]
    <3>1. i + 1 \in 1 .. n /\ (i + 1) - 1 = i
      BY <1>1
    <3> QED BY <1>5, <1>9, <2>1, <3>1
  <2>2. run[0] = f[0]
    BY <1>4, <1>9 DEF IsRecursion
  <2> QED BY <1>1, <2>1, <2>2, RecursionUnique
<1>11. run \in [0 .. n -> CallState]
  BY <1>4, <1>8, <1>10 DEF IsRecursion
<1> QED BY <1>1, <1>9, <1>11 DEF n, a, run

\* One statement of it.
LEMMA CallRunStep ==
  ASSUME NEW d \in DB, NEW stmts \in Seq(Stmt), NEW ro \in BOOLEAN, NEW inc \in BOOLEAN,
         NEW i \in 1 .. Len(stmts)
  PROVE  CallRun(d, stmts, ro, inc)[i]
           = CallStep(CallRun(d, stmts, ro, inc)[i - 1], stmts[i], ro, inc)
BY CallRunFacts

\* A call that has stopped stays as it is.
LEMMA StoppedStays ==
  ASSUME NEW d \in DB, NEW stmts \in Seq(Stmt), NEW ro \in BOOLEAN, NEW inc \in BOOLEAN,
         NEW j \in 0 .. Len(stmts), HasStopped(CallRun(d, stmts, ro, inc)[j].results)
  PROVE  ExecAll(d, stmts, ro, inc) = CallRun(d, stmts, ro, inc)[j]
<1> DEFINE run == CallRun(d, stmts, ro, inc)
           k == Len(stmts) - j
           T == {i \in Nat : run[j + i] = run[j]}
<1>1. /\ Len(stmts) \in Nat
      /\ \A i \in 1 .. Len(stmts) : run[i] = CallStep(run[i - 1], stmts[i], ro, inc)
  BY CallRunFacts
<1> HIDE DEF run
<1>2. k \in Nat /\ 0 \in T
  BY <1>1
<1>3. ASSUME NEW i \in 0 .. k - 1, i \in T PROVE i + 1 \in T
  <2>1. j + (i + 1) \in 1 .. Len(stmts) /\ (j + (i + 1)) - 1 = j + i
    BY <1>1
  <2>2. run[j + (i + 1)] = CallStep(run[j], stmts[j + (i + 1)], ro, inc)
    BY <1>1, <1>3, <2>1
  <2> QED BY <2>2 DEF CallStep, run
<1>4. k \in T
  <2> HIDE DEF T, k
  <2>1. 0 .. k \subseteq T
    BY <1>2, <1>3, IntervalInduction
  <2> QED BY <1>2, <2>1
<1>5. run[Len(stmts)] = run[j]
  <2>1. j + k = Len(stmts)
    BY <1>1
  <2> QED BY <1>4, <2>1
<1> QED BY <1>5, ExecAllIs DEF run

\* A statement that has failed stays as it is.
LEMMA FailedStays ==
  ASSUME NEW d \in DB, NEW s \in Stmt, NEW ro \in BOOLEAN, NEW inc \in BOOLEAN,
         NEW j \in 0 .. StmtLen(s), StmtRun(d, s, ro, inc)[j].res.error # NoError
  PROVE  StmtRun(d, s, ro, inc)[StmtLen(s)] = StmtRun(d, s, ro, inc)[j]
<1> DEFINE run == StmtRun(d, s, ro, inc)
           n == StmtLen(s)
           k == n - j
           T == {i \in Nat : run[j + i] = run[j]}
<1>1. n \in Nat /\ \A i \in 1 .. n : run[i] = StmtStep(run[i - 1], s, i, ro, inc)
  BY StmtRunFacts
<1> HIDE DEF run, n
<1>2. j \in 0 .. n /\ k \in Nat /\ 0 \in T
  BY <1>1 DEF n
<1>3. ASSUME NEW i \in 0 .. k - 1, i \in T PROVE i + 1 \in T
  <2>1. j + (i + 1) \in 1 .. n /\ (j + (i + 1)) - 1 = j + i
    BY <1>1, <1>2
  <2>2. run[j + (i + 1)] = StmtStep(run[j], s, j + (i + 1), ro, inc)
    BY <1>1, <1>3, <2>1
  <2> QED BY <2>2 DEF StmtStep, run
<1>4. k \in T
  <2> HIDE DEF T, k
  <2>1. 0 .. k \subseteq T
    BY <1>2, <1>3, IntervalInduction
  <2> QED BY <1>2, <2>1
<1>5. j + k = n
  BY <1>1, <1>2
<1> QED BY <1>4, <1>5 DEF run, n

\* The runs of the call in progress and of its statement, and how many queries of
\* the statement were taken.
TheCall == CallRun(call.before, call.stmts, call.readOnly, call.includeResult)
TheStmt == StmtRun(TheCall[Len(results)].db, stmt, call.readOnly, call.includeResult)
Taken == Len(stmt.sql) - Len(sql)

\* What is left to begin is the rest of the call, and nothing once it has stopped.
TodoIsRest ==
  InCall =>
    LET begun == IF pc = "stmts" THEN Len(results) ELSE Len(results) + 1
    IN  IF HasStopped(results) THEN pc = "stmts" /\ todo = << >>
        ELSE /\ begun + Len(todo) = Len(call.stmts)
             /\ \A i \in 1 .. Len(todo) : todo[i] = call.stmts[begun + i]

\* The results are those of the call's run so far.
ResultsAreRun ==
  InCall =>
    /\ Len(results) <= Len(call.stmts)
    /\ TheCall[Len(results)].results = results
    /\ IF pc = "stmts" THEN TheCall[Len(results)].db = db
       ELSE Len(results) < Len(call.stmts) /\ stmt = call.stmts[Len(results) + 1]

\* The database and the result are those of the statement's run so far, and what is
\* left of its SQL is the rest.
QueriesAreRun ==
  /\ pc \in {"queries", "vet"} =>
       /\ Malformed(stmt) = NoError /\ res.error = NoError
       /\ Len(sql) <= Len(stmt.sql)
       /\ \A i \in 1 .. Len(sql) : sql[i] = stmt.sql[Taken + i]
       /\ TheStmt[Taken] = [db |-> db, res |-> res]
  /\ pc = "vet" => Prepares(db, Head(sql))
  /\ pc = "append" => TheStmt[StmtLen(stmt)] = [db |-> db, res |-> res]

RunInv == TodoIsRest /\ ResultsAreRun /\ QueriesAreRun

\* What the runs of the call and its statement are made of.
LEMMA RunTypes ==
  ASSUME TypeOK, InCall, ResultsAreRun
  PROVE  /\ call.before \in DB /\ call.stmts \in Seq(Stmt) /\ call.readOnly \in BOOLEAN
         /\ call.includeResult \in BOOLEAN /\ stmt \in Stmt
         /\ Len(results) \in 0 .. Len(call.stmts) /\ Len(call.stmts) \in Nat
         /\ TheCall[Len(results)] \in CallState /\ TheCall[Len(results)].db \in DB
<1>1. /\ call.before \in DB /\ call.stmts \in Seq(Stmt) /\ call.readOnly \in BOOLEAN
      /\ call.includeResult \in BOOLEAN /\ stmt \in Stmt /\ results \in Seq(Result)
  BY DEF TypeOK, Call
<1>2. Len(results) \in 0 .. Len(call.stmts) /\ Len(call.stmts) \in Nat
  BY <1>1 DEF ResultsAreRun
<1>3. TheCall \in [0 .. Len(call.stmts) -> CallState]
  BY <1>1, CallRunFacts DEF TheCall
<1>4. TheCall[Len(results)] \in CallState
  BY <1>2, <1>3
<1> QED BY <1>1, <1>2, <1>4 DEF CallState

\* The statement's run goes on with the query at the head of the SQL.
LEMMA NextQuery ==
  ASSUME TypeOK, ResultsAreRun, QueriesAreRun, pc \in {"queries", "vet"}, sql # << >>,
         NEW rest, rest = << >> <=> Tail(sql) = << >>
  PROVE  /\ Taken + 1 \in 1 .. StmtLen(stmt)
         /\ TheStmt[Taken + 1] = RunQuery([db |-> db, res |-> res], stmt, Head(sql), rest,
                                          call.readOnly, call.includeResult)
<1>1. InCall
  BY DEF InCall
<1>2. /\ stmt \in Stmt /\ call.readOnly \in BOOLEAN /\ call.includeResult \in BOOLEAN
      /\ TheCall[Len(results)].db \in DB
  BY <1>1, RunTypes
<1>3. /\ StmtLen(stmt) = Len(stmt.sql) /\ res.error = NoError /\ Len(sql) <= Len(stmt.sql)
      /\ \A i \in 1 .. Len(sql) : sql[i] = stmt.sql[Taken + i]
      /\ TheStmt[Taken] = [db |-> db, res |-> res]
  BY DEF QueriesAreRun, StmtLen
<1>4. /\ sql \in Seq(Query) /\ stmt.sql \in Seq(Query)
      /\ Len(stmt.sql) \in Nat /\ Len(sql) \in Nat \ {0} /\ Head(sql) = sql[1]
      /\ Len(Tail(sql)) = Len(sql) - 1 /\ Tail(sql) \in Seq(Query)
  <2>1. sql \in Seq(Query) /\ stmt.sql \in Seq(Query)
    BY <1>2 DEF TypeOK, Stmt
  <2> QED BY <2>1
<1>5. /\ Taken \in Nat /\ Taken + 1 \in 1 .. StmtLen(stmt) /\ (Taken + 1) - 1 = Taken
      /\ Taken = StmtLen(stmt) - Len(sql)
  BY <1>3, <1>4 DEF Taken
<1>6. Head(sql) = stmt.sql[Taken + 1]
  BY <1>3, <1>4
<1> DEFINE k == Taken + 1
           ahead == SubSeq(stmt.sql, k + 1, StmtLen(stmt))
<1>7. ahead = << >> <=> Tail(sql) = << >>
  <2>1. Len(ahead) = Len(sql) - 1 /\ ahead \in Seq(Query)
    BY <1>3, <1>4, <1>5
  <2>2. \A t \in Seq(Query) : t = << >> <=> Len(t) = 0
    OBVIOUS
  <2> HIDE DEF ahead
  <2> QED BY <1>4, <2>1, <2>2
<1>8. TheStmt[k] = StmtStep(TheStmt[k - 1], stmt, k, call.readOnly, call.includeResult)
  BY <1>2, <1>5, StmtRunFacts DEF TheStmt
<1>9. TheStmt[k] = RunQuery([db |-> db, res |-> res], stmt, Head(sql), ahead,
                            call.readOnly, call.includeResult)
  BY <1>3, <1>5, <1>6, <1>8 DEF StmtStep
<1>10. \A q, ro, m, nd : Refusal(q, ahead, ro, m, nd) = Refusal(q, rest, ro, m, nd)
  <2> HIDE DEF ahead
  <2> QED BY <1>7 DEF Refusal
<1>11. TheStmt[k] = RunQuery([db |-> db, res |-> res], stmt, Head(sql), rest,
                             call.readOnly, call.includeResult)
  <2> HIDE DEF ahead, k
  <2> QED BY <1>9, <1>10 DEF RunQuery
<1> QED BY <1>5, <1>11

\* A call starts as its run does.
LEMMA RunStart ==
  ASSUME TypeOK, TypeOK', NEW stmts \in Seq(Stmt), NEW mode \in Modes, Start(stmts, mode)
  PROVE  RunInv'
<1>1. /\ pc' = "stmts" /\ results' = << >> /\ todo' = call'.stmts /\ call'.before = db
      /\ db' = db
  BY DEF Start
<1>2. /\ db \in DB /\ call'.stmts \in Seq(Stmt) /\ call'.readOnly \in BOOLEAN
      /\ call'.includeResult \in BOOLEAN
  BY DEF TypeOK, Call
<1>3. TheCall'[0] = [db |-> db, results |-> << >>]
  BY <1>1, <1>2, CallRunFacts DEF TheCall
<1>4. Len(results') = 0 /\ ~HasStopped(results') /\ Len(call'.stmts) \in Nat
  BY <1>1, <1>2 DEF HasStopped
<1>5. TodoIsRest'
  BY <1>1, <1>2, <1>4 DEF TodoIsRest
<1>6. ResultsAreRun'
  BY <1>1, <1>3, <1>4 DEF ResultsAreRun
<1>7. QueriesAreRun'
  BY <1>1 DEF QueriesAreRun
<1> QED BY <1>5, <1>6, <1>7 DEF RunInv

\* A statement starts as its run does.
LEMMA RunNextStmt ==
  ASSUME TypeOK, TypeOK', RunInv, NextStmt
  PROVE  RunInv'
<1>1. /\ pc = "stmts" /\ InCall /\ todo # << >> /\ stmt' = Head(todo) /\ todo' = Tail(todo)
      /\ res' = WithError(NoResult, Malformed(stmt')) /\ db' = db /\ call' = call
      /\ results' = results /\ pc' \in {"queries", "append"}
      /\ IF Malformed(stmt') = NoError THEN pc' = "queries" /\ sql' = stmt'.sql
         ELSE pc' = "append"
  BY DEF NextStmt, InCall
<1>2. /\ call.before \in DB /\ call.stmts \in Seq(Stmt) /\ call.readOnly \in BOOLEAN
      /\ call.includeResult \in BOOLEAN /\ stmt' \in Stmt /\ Len(results) \in Nat
      /\ Len(call.stmts) \in Nat
  BY <1>1, RunTypes DEF RunInv, TypeOK
<1>3. /\ ~HasStopped(results) /\ Len(results) + Len(todo) = Len(call.stmts)
      /\ \A i \in 1 .. Len(todo) : todo[i] = call.stmts[Len(results) + i]
  BY <1>1 DEF RunInv, TodoIsRest
<1>4. /\ Len(todo) \in Nat \ {0} /\ Head(todo) = todo[1] /\ Len(Tail(todo)) = Len(todo) - 1
      /\ \A i \in 1 .. Len(todo) - 1 : Tail(todo)[i] = todo[i + 1]
  <2>1. todo \in Seq(Stmt)
    BY DEF TypeOK
  <2> QED BY <1>1, <2>1
<1>5. stmt' = call.stmts[Len(results) + 1] /\ Len(results) < Len(call.stmts)
  BY <1>1, <1>2, <1>3, <1>4
<1>6. TheCall[Len(results)].results = results /\ TheCall[Len(results)].db = db
  BY <1>1 DEF RunInv, ResultsAreRun
<1>7. TheCall' = TheCall
  BY <1>1 DEF TheCall
<1>8. TodoIsRest'
  <2>1. \A i \in 1 .. Len(todo') : todo'[i] = call.stmts[(Len(results) + 1) + i]
    <3>1. ASSUME NEW i \in 1 .. Len(todo) - 1
          PROVE  todo'[i] = call.stmts[(Len(results) + 1) + i]
      <4>1. i + 1 \in 1 .. Len(todo) /\ Len(results) + (i + 1) = (Len(results) + 1) + i
        BY <1>2, <1>4
      <4> QED BY <1>1, <1>3, <1>4, <4>1
    <3> QED BY <1>1, <1>4, <3>1
  <2>2. (Len(results) + 1) + Len(todo') = Len(call.stmts)
    <3>1. Len(todo') = Len(todo) - 1
      BY <1>1, <1>4
    <3>2. Len(results) + Len(todo) = Len(call.stmts) /\ Len(todo) \in Nat
      BY <1>3, <1>4
    <3> QED BY <1>2, <3>1, <3>2
  <2>3. pc' # "stmts" /\ ~HasStopped(results') /\ results' = results /\ call' = call
    BY <1>1, <1>3
  <2> QED BY <2>1, <2>2, <2>3 DEF TodoIsRest
<1>9. ResultsAreRun'
  BY <1>1, <1>2, <1>5, <1>6, <1>7 DEF ResultsAreRun
<1>10. TheStmt'[0] = [db |-> db, res |-> res'] /\ StmtLen(stmt') \in Nat
  <2>1. TheStmt' = StmtRun(db, stmt', call.readOnly, call.includeResult)
    BY <1>1, <1>6, <1>7 DEF TheStmt
  <2>2. db \in DB
    BY DEF TypeOK
  <2> QED BY <1>1, <1>2, <2>1, <2>2, StmtRunFacts
<1>11. QueriesAreRun'
  <2>1. CASE Malformed(stmt') = NoError
    <3>1. pc' = "queries" /\ sql' = stmt'.sql /\ stmt'.sql \in Seq(Query)
      BY <1>1, <1>2, <2>1 DEF Stmt
    <3>2. Taken' = 0
      BY <3>1 DEF Taken
    <3>3. res'.error = NoError
      BY <1>1, <2>1 DEF WithError, NoResult
    <3> QED BY <1>1, <1>10, <2>1, <3>1, <3>2, <3>3 DEF QueriesAreRun
  <2>2. CASE Malformed(stmt') # NoError
    <3>1. StmtLen(stmt') = 0 /\ pc' = "append"
      BY <1>1, <2>2 DEF StmtLen
    <3> QED BY <1>1, <1>10, <3>1 DEF QueriesAreRun
  <2> QED BY <2>1, <2>2
<1> QED BY <1>8, <1>9, <1>11 DEF RunInv

\* What a step within a statement leaves as it was.
LEMMA RunFrame ==
  ASSUME RunInv, pc \in {"queries", "vet"}, pc' \in {"queries", "vet", "append"},
         UNCHANGED <<call, todo, stmt, results>>
  PROVE  TodoIsRest' /\ ResultsAreRun' /\ TheStmt' = TheStmt
<1>1. TheCall' = TheCall
  BY DEF TheCall
<1> QED BY <1>1 DEF RunInv, TodoIsRest, ResultsAreRun, InCall, TheStmt

\* A statement ends as its run does.
LEMMA RunFails ==
  ASSUME TypeOK, RunInv, pc \in {"queries", "vet"}, pc' = "append",
         Taken + 1 \in 1 .. StmtLen(stmt), UNCHANGED <<call, todo, stmt, results>>,
         res'.error # NoError,
         TheStmt[Taken + 1] = [db |-> db', res |-> res']
  PROVE  RunInv'
<1>1. InCall
  BY DEF InCall
<1>2. /\ stmt \in Stmt /\ call.readOnly \in BOOLEAN /\ call.includeResult \in BOOLEAN
      /\ TheCall[Len(results)].db \in DB
  BY <1>1, RunTypes DEF RunInv
<1>3. Taken + 1 \in 0 .. StmtLen(stmt)
  OBVIOUS
<1>4. TheStmt[StmtLen(stmt)] = [db |-> db', res |-> res']
  BY <1>2, <1>3, FailedStays DEF TheStmt
<1> QED BY <1>4, RunFrame DEF RunInv, QueriesAreRun

\* The steps of a query are those of its run.
LEMMA RunQueries ==
  ASSUME TypeOK, TypeOK', FlagsFresh, RunInv,
         Prepare \/ Refuse \/ StepRows \/ EndQueries
  PROVE  RunInv'
<1> DEFINE rest == Tail(sql)
           before == [db |-> db, res |-> res]
           next == RunQuery(before, stmt, Head(sql), rest, call.readOnly, call.includeResult)
<1>1. /\ pc \in {"queries", "vet"} /\ pc' \in {"queries", "vet", "append"}
      /\ UNCHANGED <<call, todo, stmt, results>>
  BY DEF Prepare, Refuse, StepRows, EndQueries
<1>2. TodoIsRest' /\ ResultsAreRun' /\ TheStmt' = TheStmt
  BY <1>1, RunFrame
<1>3. sql # << >> => TheStmt[Taken + 1] = next /\ Taken + 1 \in 1 .. StmtLen(stmt)
  BY <1>1, NextQuery DEF RunInv
<1>4. \A e : WithError(res, e).error = e /\ [before EXCEPT !.res = e] = [db |-> db, res |-> e]
  BY DEF WithError, TypeOK, Result
<1>5. before.db = db /\ before.res = res /\ before.res.error = res.error
  OBVIOUS
<1> HIDE DEF before
<1>6. CASE Prepare
  <2>1. sql # << >> /\ db' = db /\ sql' = sql
    BY <1>6 DEF Prepare
  <2>2. CASE Prepares(db, Head(sql))
    <3>1. pc' = "vet" /\ UNCHANGED <<res, stmt, db, sql>> /\ Taken' = Taken
      BY <1>6, <2>2 DEF Prepare, Taken
    <3>2. QueriesAreRun'
      BY <1>1, <1>2, <2>2, <3>1 DEF RunInv, QueriesAreRun
    <3> QED BY <1>2, <3>2 DEF RunInv
  <2>3. CASE ~Prepares(db, Head(sql))
    <3>1. pc' = "append" /\ res' = WithError(res, "prepare")
      BY <1>6, <2>3 DEF Prepare
    <3>2. next = [db |-> db', res |-> res']
      BY <1>4, <1>5, <2>1, <2>3, <3>1 DEF RunQuery
    <3>3. res'.error # NoError
      BY <1>4, <3>1 DEF NoError
    <3> HIDE DEF next
    <3> QED BY <1>1, <1>3, <2>1, <3>1, <3>2, <3>3, RunFails
  <2> QED BY <2>2, <2>3
<1>7. ASSUME pc = "vet"
      PROVE  /\ sql # << >> /\ Prepares(db, Head(sql))
             /\ Refusal(stmt, rest, call.readOnly, Mutates(Head(sql)), NonDet(Head(sql)))
                  = Vetting
  BY <1>7 DEF TypeOK, RunInv, QueriesAreRun, FlagsFresh, Vetting
<1>8. CASE Refuse
  <2>1. pc = "vet" /\ Vetting # NoError /\ res' = WithError(res, Vetting) /\ pc' = "append"
        /\ db' = db
    BY <1>8 DEF Refuse
  <2>2. next = [db |-> db', res |-> res']
    BY <1>4, <1>5, <1>7, <2>1 DEF RunQuery
  <2>3. res'.error # NoError
    BY <1>4, <2>1
  <2> HIDE DEF next
  <2> QED BY <1>1, <1>3, <1>7, <2>1, <2>2, <2>3, RunFails
<1>9. CASE StepRows
  <2>1. pc = "vet" /\ Vetting = NoError /\ db' = Effect(db, Head(sql))
    BY <1>9 DEF StepRows
  <2>2. CASE ~StepOk(db, Head(sql))
    <3>1. pc' = "append" /\ res' = WithError(res, "step")
      BY <1>9, <2>2 DEF StepRows
    <3>2. next = [db |-> db', res |-> res']
      BY <1>5, <1>7, <2>1, <2>2, <3>1 DEF RunQuery
    <3>3. res'.error # NoError
      BY <1>4, <3>1 DEF NoError
    <3> HIDE DEF next
    <3> QED BY <1>1, <1>3, <1>7, <2>1, <3>1, <3>2, <3>3, RunFails
  <2>3. CASE StepOk(db, Head(sql))
    <3>1. /\ pc' = "queries" /\ sql' = Tail(sql)
          /\ res' = WithSuccess(res, Success(db, Head(sql), call.includeResult))
      BY <1>9, <2>3 DEF StepRows
    <3>2. next = [db |-> db', res |-> res']
      BY <1>5, <1>7, <2>1, <2>3, <3>1 DEF RunQuery
    <3>3. res'.error = NoError
      BY <2>1, <3>1 DEF WithSuccess, RunInv, QueriesAreRun, TypeOK, Result
    <3>4. /\ sql \in Seq(Query) /\ Len(sql) \in Nat \ {0} /\ Len(sql') = Len(sql) - 1
          /\ \A i \in 1 .. Len(sql) - 1 : sql'[i] = sql[i + 1]
      <4>1. sql \in Seq(Query) /\ sql # << >>
        BY <1>7, <2>1 DEF TypeOK
      <4> QED BY <3>1, <4>1
    <3>5. Len(stmt.sql) \in Nat
      BY DEF TypeOK, Stmt
    <3>6. Taken' = Taken + 1 /\ Taken \in Int
      BY <1>1, <3>4, <3>5 DEF Taken
    <3>7. \A i \in 1 .. Len(sql') : sql'[i] = stmt.sql[Taken' + i]
      <4>1. ASSUME NEW i \in 1 .. Len(sql) - 1 PROVE sql'[i] = stmt.sql[Taken' + i]
        <5>1. i + 1 \in 1 .. Len(sql) /\ Taken + (i + 1) = Taken' + i
          BY <3>4, <3>6
        <5> QED BY <1>1, <3>4, <5>1 DEF RunInv, QueriesAreRun
      <4> QED BY <3>4, <4>1
    <3>8. TheStmt'[Taken'] = [db |-> db', res |-> res']
      <4> HIDE DEF next
      <4> QED BY <1>2, <1>3, <1>7, <2>1, <3>2, <3>6
    <3>9. Malformed(stmt) = NoError /\ Len(sql') <= Len(stmt.sql)
      BY <1>1, <3>4, <3>5 DEF RunInv, QueriesAreRun
    <3>10. QueriesAreRun'
      BY <1>1, <3>1, <3>3, <3>7, <3>8, <3>9 DEF QueriesAreRun
    <3> QED BY <1>2, <3>10 DEF RunInv
  <2> QED BY <2>2, <2>3
<1>10. CASE EndQueries
  <2>1. pc = "queries" /\ sql = << >> /\ pc' = "append" /\ UNCHANGED <<db, stmt, res>>
    BY <1>10 DEF EndQueries
  <2>2. Taken = StmtLen(stmt)
    <3>1. Malformed(stmt) = NoError /\ Len(sql) = 0 /\ Len(stmt.sql) \in Nat
      BY <2>1 DEF RunInv, QueriesAreRun, TypeOK, Stmt
    <3> QED BY <3>1 DEF Taken, StmtLen
  <2>3. QueriesAreRun'
    BY <1>2, <2>1, <2>2 DEF RunInv, QueriesAreRun
  <2> QED BY <1>2, <2>3 DEF RunInv
<1> QED BY <1>6, <1>8, <1>9, <1>10

\* A statement's result goes to the call's as in its run, which then goes on or not.
LEMMA RunAppend ==
  ASSUME TypeOK, TypeOK', RunInv, AppendResult
  PROVE  RunInv'
<1>1. /\ pc = "append" /\ InCall /\ pc' = "stmts" /\ results' = Append(results, res)
      /\ todo' = (IF Stops(res) THEN << >> ELSE todo) /\ UNCHANGED <<db, call, stmt>>
  BY DEF AppendResult, InCall
<1>2. /\ call.before \in DB /\ call.stmts \in Seq(Stmt) /\ call.readOnly \in BOOLEAN
      /\ call.includeResult \in BOOLEAN /\ stmt \in Stmt
      /\ Len(results) \in Nat /\ Len(call.stmts) \in Nat
      /\ TheCall[Len(results)] \in CallState /\ TheCall[Len(results)].db \in DB
  BY <1>1, RunTypes DEF RunInv
<1>3. /\ ~HasStopped(results) /\ (Len(results) + 1) + Len(todo) = Len(call.stmts)
      /\ \A i \in 1 .. Len(todo) : todo[i] = call.stmts[(Len(results) + 1) + i]
  BY <1>1 DEF RunInv, TodoIsRest
<1>4. /\ Len(results) < Len(call.stmts) /\ stmt = call.stmts[Len(results) + 1]
      /\ TheCall[Len(results)].results = results
  BY <1>1 DEF RunInv, ResultsAreRun
<1>5. /\ results \in Seq(Result) /\ Len(results') = Len(results) + 1
      /\ results'[Len(results) + 1] = res
      /\ DOMAIN results' = 1 .. Len(results) + 1 /\ DOMAIN results = 1 .. Len(results)
      /\ \A i \in 1 .. Len(results) : results'[i] = results[i]
  <2>1. results \in Seq(Result)
    BY DEF TypeOK
  <2> QED BY <1>1, <2>1
<1>6. HasStopped(results') <=> Stops(res)
  BY <1>2, <1>3, <1>5 DEF HasStopped
<1>7. RunStmt(TheCall[Len(results)].db, stmt, call.readOnly, call.includeResult)
        = [db |-> db, res |-> res]
  BY <1>1, RunStmtIs DEF RunInv, QueriesAreRun, TheStmt
<1>8. TheCall[Len(results) + 1] = [db |-> db, results |-> results']
  <2>1. Len(results) + 1 \in 1 .. Len(call.stmts) /\ (Len(results) + 1) - 1 = Len(results)
    BY <1>2, <1>4
  <2>2. TheCall[Len(results) + 1]
          = CallStep(TheCall[Len(results)], stmt, call.readOnly, call.includeResult)
    BY <1>2, <1>4, <2>1, CallRunStep DEF TheCall
  <2> QED BY <1>1, <1>3, <1>4, <1>7, <2>2 DEF CallStep
<1>9. TheCall' = TheCall
  BY <1>1 DEF TheCall
<1>10. ResultsAreRun'
  BY <1>1, <1>2, <1>4, <1>5, <1>8, <1>9 DEF ResultsAreRun
<1>11. TodoIsRest'
  BY <1>1, <1>3, <1>5, <1>6 DEF TodoIsRest
<1>12. QueriesAreRun'
  BY <1>1 DEF QueriesAreRun
<1> QED BY <1>10, <1>11, <1>12 DEF RunInv

\* Every step keeps to the runs.
LEMMA NextRun == IInv /\ TypeOK' /\ RunInv /\ [Step]_vars => RunInv'
<1> SUFFICES ASSUME TypeOK, FlagsFresh, TypeOK', RunInv, [Step]_vars PROVE RunInv'
  BY DEF IInv
<1>1. CASE Return
  BY <1>1 DEF Return, RunInv, TodoIsRest, ResultsAreRun, QueriesAreRun, InCall
<1>2. CASE UNCHANGED vars
  BY <1>2
     DEF vars, RunInv, TodoIsRest, ResultsAreRun, QueriesAreRun, InCall, TheCall, TheStmt,
         Taken
<1> QED BY <1>1, <1>2, RunStart, RunNextStmt, RunQueries, RunAppend DEF Step

\* At the end of a call its run has ended, or has stopped for good.
LEMMA RunEnds == TypeOK /\ RunInv => StepsMatchExecAll
<1> SUFFICES ASSUME TypeOK, RunInv, pc = "stmts", todo = << >>
             PROVE  [db |-> db, results |-> results]
                      = ExecAll(call.before, call.stmts, call.readOnly, call.includeResult)
  BY DEF StepsMatchExecAll
<1>1. InCall
  BY DEF InCall
<1>2. /\ call.before \in DB /\ call.stmts \in Seq(Stmt) /\ call.readOnly \in BOOLEAN
      /\ call.includeResult \in BOOLEAN /\ Len(results) \in 0 .. Len(call.stmts)
      /\ TheCall[Len(results)] \in CallState
  BY <1>1, RunTypes DEF RunInv
<1>3. TheCall[Len(results)].results = results /\ TheCall[Len(results)].db = db
  BY <1>1 DEF RunInv, ResultsAreRun
<1>4. TheCall[Len(results)] = [db |-> db, results |-> results]
  BY <1>2, <1>3 DEF CallState
<1>5. CASE HasStopped(results)
  BY <1>2, <1>3, <1>4, <1>5, StoppedStays DEF TheCall
<1>6. CASE ~HasStopped(results)
  <2>1. Len(results) = Len(call.stmts)
    BY <1>1, <1>2, <1>6 DEF RunInv, TodoIsRest
  <2> QED BY <1>4, <2>1, ExecAllIs DEF TheCall
<1> QED BY <1>5, <1>6

-----------------------------------------------------------------------------
(* What the connection guarantees for any statements.                      *)

Connection == IInv /\ ErrorFree /\ RefusalJustified /\ RunInv

\* It holds before the first call.
LEMMA ConnectionInit == Init => Connection
<1>1. Init => TypeOK
  BY InitTypes
<1>2. Init => FlagsFresh /\ ReadOnlyPreserves /\ ErrorFree /\ RefusalJustified
  BY DEF Init, FlagsFresh, ReadOnlyPreserves, ErrorFree, RefusalJustified, InCall
<1>3. Init => RunInv
  BY DEF Init, RunInv, TodoIsRest, ResultsAreRun, QueriesAreRun, InCall
<1> QED BY <1>1, <1>2, <1>3 DEF Connection, IInv

\* Every step keeps it.
LEMMA ConnectionNext == Connection /\ [Step]_vars => Connection'
<1> SUFFICES ASSUME Connection, [Step]_vars PROVE Connection'
  OBVIOUS
<1>1. IInv /\ TypeOK /\ FlagsFresh /\ ReadOnlyPreserves
  BY DEF Connection, IInv
<1>2. TypeOK'
  BY <1>1, NextTypes
<1>3. FlagsFresh' /\ ReadOnlyPreserves'
  BY <1>1, FlagsStep
<1>4. ErrorFree' /\ RefusalJustified'
  BY RefusalStep DEF Connection
<1>5. RunInv'
  BY <1>1, <1>2, NextRun DEF Connection
<1> QED BY <1>2, <1>3, <1>4, <1>5 DEF Connection, IInv

\* So it holds whenever callers send the requests of SqliteDb.
LEMMA SpecIsConnection == Spec => [](TypeOK /\ Connection)
<1>1. Connection => TypeOK
  BY DEF Connection, IInv
<1> QED BY <1>1, ConnectionInit, ConnectionNext, NextIsStep, PTL DEF Spec

\* For every engine and every request: no query request changes the database, what is
\* refused is refused for itself, the steps add up to ExecAll, and no query with a
\* disallowed function is stepped.
THEOREM ConnectionIsSafe ==
  Spec => /\ [](TypeOK /\ ReadOnlyPreserves /\ RefusalJustified /\ StepsMatchExecAll)
          /\ OnlyDeterministicRun
<1>1. TypeOK /\ Connection
        => IInv /\ ReadOnlyPreserves /\ RefusalJustified /\ StepsMatchExecAll
  BY RunEnds DEF Connection, IInv
<1> QED BY <1>1, SpecIsConnection, DeterministicStep, NextIsStep, PTL
        DEF Spec, OnlyDeterministicRun

-----------------------------------------------------------------------------
(* The path of a statement.                                                *)

\* What is converted without an error is a statement of the connection.
LEMMA CarriedType ==
  ASSUME NEW s \in Sent, Convertible(s), NEW w \in ToProtos(s)
  PROVE  Carried(w) \in Stmt
<1>1. /\ DOMAIN s = {"sql", "indexed", "named", "multi"}
      /\ s.multi \in BOOLEAN /\ s.sql.blank \in BOOLEAN
      /\ s.sql.texts \in Seq({s.sql.texts[i] : i \in DOMAIN s.sql.texts})
      /\ \A i \in DOMAIN s.sql.texts :
           [text |-> s.sql.texts[i], args |-> BoundArgs(s.sql.texts[i], w)] \in Query
  BY PathAssumption
<1>2. w.sql = s.sql /\ w.multi = s.multi
  <2>1. PICK x, y : w = [s EXCEPT !.indexed = x, !.named = y]
    BY DEF ToProtos
  <2> QED BY <1>1, <2>1
<1> DEFINE texts == s.sql.texts
           queries == [i \in DOMAIN texts |->
                         [text |-> texts[i], args |-> BoundArgs(texts[i], w)]]
<1>3. queries \in Seq(Query)
  <2>1. DOMAIN texts = 1 .. Len(texts) /\ Len(texts) \in Nat
    BY <1>1
  <2>2. \A i \in 1 .. Len(texts) :
          [text |-> texts[i], args |-> BoundArgs(texts[i], w)] \in Query
    BY <1>1, <2>1
  <2> HIDE DEF texts
  <2> QED BY <2>1, <2>2
<1> HIDE DEF queries
<1>4. \E p \in Params :
        Carried(w) = [blank |-> s.sql.blank, multi |-> s.multi, sql |-> queries, params |-> p]
  BY <1>2 DEF Carried, Params, queries
<1> QED BY <1>1, <1>3, <1>4 DEF Stmt

\* So every request is made of them, as many as the caller gave.
LEMMA RequestType ==
  ASSUME NEW stmts \in Seq(Sent), StmtsConvertible(stmts), NEW ws \in StmtsToProtos(stmts)
  PROVE  /\ [i \in DOMAIN ws |-> Carried(ws[i])] \in Seq(Stmt)
         /\ Len([i \in DOMAIN ws |-> Carried(ws[i])]) = Len(stmts)
<1>1. DOMAIN ws = DOMAIN stmts /\ \A i \in DOMAIN stmts : ws[i] \in ToProtos(stmts[i])
  BY DEF StmtsToProtos
<1>2. DOMAIN stmts = 1 .. Len(stmts) /\ Len(stmts) \in Nat
  OBVIOUS
<1>3. ASSUME NEW i \in 1 .. Len(stmts) PROVE Carried(ws[i]) \in Stmt
  <2>1. stmts[i] \in Sent /\ Convertible(stmts[i])
    BY <1>2 DEF StmtsConvertible
  <2> QED BY <1>1, <1>2, <2>1, CarriedType
<1> QED BY <1>1, <1>2, <1>3

\* An index is in the range that the wire has.
IsNarrow(s) == \A k \in DOMAIN s.indexed : k \in 0 .. Uint32Range - 1

ProperCall(api, shape, stmts) ==
  /\ api \in Apis
  /\ shape # "list" => Len(stmts) = 1
  /\ shape = "simple" => ~stmts[1].multi

\* The statements of the call in progress are those that its caller sent, as they are on
\* the wire, and the caller has been told nothing.
Underway ==
  InCall =>
    /\ told = NotTold /\ ProperCall(caller.api, caller.shape, caller.stmts)
    /\ caller.stmts \in Seq(Sent) /\ StmtsConvertible(caller.stmts)
    /\ Len(call.stmts) = Len(caller.stmts)
    /\ \A i \in DOMAIN caller.stmts :
         \E w \in ToProtos(caller.stmts[i]) : call.stmts[i] = Carried(w)
    /\ call.includeResult <=> caller.api \in {"query", "exec"}
    /\ narrow => \A i \in DOMAIN caller.stmts : IsNarrow(caller.stmts[i])

\* What a caller sends begins a call of the connection, if it can be converted.
LEMMA SendStep ==
  ASSUME NEW api, NEW shape, NEW stmts \in Seq(Sent), ProperCall(api, shape, stmts),
         Send(api, shape, stmts)
  PROVE  /\ [Step]_vars /\ Underway'
         /\ told' \in {NotTold, Told("refused", << >>)}
         /\ db' = db /\ (narrow' => narrow /\ given' = given)
         /\ pc' = "idle" \/ (pc' = "stmts" /\ results' = << >>)
<1>1. pc = "idle" /\ caller' = [api |-> api, shape |-> shape, stmts |-> stmts]
  BY DEF Send
<1>2. CASE NoStatements(stmts) \/ ~StmtsConvertible(stmts)
  BY <1>1, <1>2 DEF Send, Underway, InCall, vars
<1>3. CASE ~(NoStatements(stmts) \/ ~StmtsConvertible(stmts))
  <2>1. /\ told' = NotTold
        /\ narrow' = (narrow /\ \A i \in DOMAIN stmts :
                        \A k \in DOMAIN stmts[i].indexed : k \in 0 .. Uint32Range - 1)
        /\ given' = IF narrow' THEN given ELSE << >>
    BY <1>3 DEF Send
  <2>2. PICK ws \in StmtsToProtos(stmts) :
               Start([i \in DOMAIN ws |-> Carried(ws[i])], Mode(api))
    BY <1>3 DEF Send
  <2> DEFINE request == [i \in DOMAIN ws |-> Carried(ws[i])]
  <2>3. request \in Seq(Stmt) /\ Len(request) = Len(stmts)
    BY <1>3, RequestType
  <2>4. \A i \in DOMAIN stmts : \E w \in ToProtos(stmts[i]) : request[i] = Carried(w)
    BY Zenon DEF StmtsToProtos
  <2>5. Mode(api) \in Modes
    <3>1. CASE api = "query"
      BY <3>1 DEF Mode, Modes
    <3>2. CASE api = "exec"
      BY <3>2 DEF Mode, Modes
    <3>3. CASE api = "update"
      <4>1. ("update" = "query") = FALSE /\ ("update" \in {"query", "exec"}) = FALSE
        OBVIOUS
      <4>2. Mode(api) = [readOnly |-> FALSE, includeResult |-> FALSE]
        BY <3>3, <4>1, Zenon DEF Mode
      <4> QED BY <4>2 DEF Modes
    <3> QED BY <3>1, <3>2, <3>3 DEF ProperCall, Apis
  <2>6. Start(request, Mode(api))
    BY <2>2
  <2> HIDE DEF request
  <2>7. Step /\ db' = db /\ pc' = "stmts" /\ results' = << >>
    BY <2>3, <2>5, <2>6 DEF Step, Start
  <2>8. call'.stmts = request /\ (call'.includeResult <=> api \in {"query", "exec"})
    BY <2>6 DEF Start, Mode
  <2>9. narrow' => \A i \in DOMAIN stmts : IsNarrow(stmts[i])
    BY <2>1 DEF IsNarrow
  <2>10. Underway'
    BY <1>1, <1>3, <2>1, <2>3, <2>4, <2>8, <2>9 DEF Underway
  <2> QED BY <2>1, <2>7, <2>10
<1> QED BY <1>2, <1>3

LEMMA PathInitIs == PathInit => Init
BY DEF PathInit

\* What a call or a command does is to send, or to be refused.
LEMMA CallerStep ==
  ASSUME (\E c \in Calls : ClientCall(c)) \/ (\E c \in Commands : CommandLine(c))
  PROVE  /\ [Step]_vars /\ Underway'
         /\ told' \in {NotTold, Told("refused", << >>)}
         /\ db' = db /\ (narrow' => narrow /\ given' = given)
         /\ pc' = "idle" \/ (pc' = "stmts" /\ results' = << >>)
<1> DEFINE Sends == \E stmts \in Seq(Sent) : \E api, shape :
                      ProperCall(api, shape, stmts) /\ Send(api, shape, stmts)
<1>1. ASSUME NEW c \in Calls, ClientCall(c) PROVE Sends
  <2>1. c.stmts \in Seq(Sent) /\ ProperCall(c.api, c.shape, c.stmts)
    BY PathAssumption DEF ProperCall
  <2> QED BY <1>1, <2>1, Zenon DEF ClientCall
<1>2. ASSUME NEW c \in Commands, CommandLine(c), ~Refuses(c.args, c.multi, c.params)
      PROVE  Sends
  <2> DEFINE s == toStmt(c.args, c.multi, c.params)
  <2>1. s \in Sent
    <3>1. c \in {k \in Commands : ~Refuses(k.args, k.multi, k.params)}
      BY <1>2
    <3>2. s \in SentByCommands
      BY <3>1, Zenon DEF SentByCommands
    <3> HIDE DEF s
    <3> QED BY <3>2, Zenon DEF Sent
  <2>2. Send(c.api, "command", <<s>>)
    BY <1>2 DEF CommandLine
  <2> HIDE DEF s
  <2>3. <<s>> \in Seq(Sent) /\ ProperCall(c.api, "command", <<s>>)
    BY <2>1, PathAssumption DEF ProperCall
  <2> QED BY <2>2, <2>3, Zenon
<1>3. CASE \E c \in Commands : CommandLine(c) /\ Refuses(c.args, c.multi, c.params)
  <2>1. /\ UNCHANGED <<vars, given, narrow>> /\ pc = "idle"
        /\ told' = Told("refused", << >>)
    BY <1>3, Zenon DEF CommandLine
  <2> QED BY <2>1 DEF Underway, InCall, vars
<1>4. CASE Sends
  <2>1. PICK stmts \in Seq(Sent) :
               \E api, shape : ProperCall(api, shape, stmts) /\ Send(api, shape, stmts)
    BY <1>4
  <2>2. PICK api, shape : ProperCall(api, shape, stmts) /\ Send(api, shape, stmts)
    BY <2>1
  <2> QED BY <2>2, SendStep
<1> HIDE DEF Sends
<1> QED BY <1>1, <1>2, <1>3, <1>4

LEMMA PathIsStep == [PathNext]_pathVars => [Step]_vars
<1>1. Execute \/ ExecuteRows \/ Receive => Step
  BY DEF Execute, ExecuteRows, Receive, Step
<1>2. UNCHANGED pathVars => UNCHANGED vars
  BY DEF pathVars
<1> QED BY <1>1, <1>2, CallerStep DEF PathNext

\* So the connection keeps along the path what it guarantees.
LEMMA PathIsConnection == PathSpec => [](TypeOK /\ Connection)
<1>1. Connection => TypeOK
  BY DEF Connection, IInv
<1> QED BY <1>1, PathInitIs, ConnectionInit, ConnectionNext, PathIsStep, PTL DEF PathSpec

\* Every variable of the connection keeps its type, whatever callers send.
THEOREM TypeCorrect == PathSpec => []TypeOK
BY PathIsConnection, PTL

\* Whatever a query request holds, executing it leaves the database unchanged.
THEOREM ReadOnlyIsSafe == PathSpec => []ReadOnlyPreserves
<1>1. Connection => ReadOnlyPreserves
  BY DEF Connection, IInv
<1> QED BY <1>1, PathIsConnection, PTL

\* No query calling a disallowed function is ever stepped.
THEOREM DeterministicOnly == PathSpec => OnlyDeterministicRun
<1>1. Connection => IInv
  BY DEF Connection
<1> QED BY <1>1, PathIsConnection, DeterministicStep, PathIsStep, PTL
        DEF PathSpec, OnlyDeterministicRun

\* A refusal for mutating or for a disallowed function is about the very query
\* it stops, whatever was compiled on the connection before.
THEOREM RefusalsAreJustified == PathSpec => []RefusalJustified
<1>1. Connection => RefusalJustified
  BY DEF Connection
<1> QED BY <1>1, PathIsConnection, PTL

\* The steps of a call add up to ExecAll, for every engine and request: its results and
\* the state it leaves depend on nothing that was executed or vetted before it.
THEOREM StepsAreExecAll == PathSpec => []StepsMatchExecAll
<1>1. TypeOK /\ Connection => StepsMatchExecAll
  BY RunEnds DEF Connection
<1> QED BY <1>1, PathIsConnection, PTL

-----------------------------------------------------------------------------
(* What the callers are told.                                              *)

\* A result has no error if all queries were executed, and otherwise an error and
\* fewer successes than queries.
Justified(r, s) ==
  IF r.error = NoError THEN Malformed(s) = NoError /\ Len(r.successes) = Len(s.sql)
  ELSE Malformed(s) # NoError \/ Len(r.successes) < Len(s.sql)

\* The same of a result of the first i queries.
JustifiedAt(r, s, i) ==
  IF r.error = NoError THEN Malformed(s) = NoError /\ Len(r.successes) = i
  ELSE Malformed(s) # NoError \/ Len(r.successes) < i

\* One query more.
LEMMA StepIsJustified ==
  ASSUME NEW s \in Stmt, NEW i \in 1 .. StmtLen(s), NEW ro \in BOOLEAN, NEW inc \in BOOLEAN,
         NEW r \in StmtState, JustifiedAt(r.res, s, i - 1)
  PROVE  JustifiedAt(StmtStep(r, s, i, ro, inc).res, s, i)
<1> DEFINE q == s.sql[i]
           refused == Refusal(s, SubSeq(s.sql, i + 1, StmtLen(s)), ro, Mutates(q), NonDet(q))
           after == StmtStep(r, s, i, ro, inc).res
<1> SUFFICES JustifiedAt(after, s, i)
  OBVIOUS
<1>1. i \in Nat /\ i - 1 < i /\ r.res \in Result /\ Len(r.res.successes) \in Nat
  BY DEF StmtState, Result, StmtLen, Stmt
<1>2. \A e : WithError(r.res, e).error = e /\ WithError(r.res, e).successes = r.res.successes
  BY <1>1 DEF WithError, Result
<1>3. \A x : /\ WithSuccess(r.res, x).error = r.res.error
             /\ Len(WithSuccess(r.res, x).successes) = Len(r.res.successes) + 1
  <2>1. r.res.successes \in Seq(RowSet \cup {NoRows})
    BY <1>1 DEF Result
  <2> QED BY <1>1, <2>1 DEF WithSuccess, Result
<1>4. CASE r.res.error # NoError
  <2>1. after = r.res
    BY <1>4 DEF StmtStep
  <2> HIDE DEF after
  <2> QED BY <1>1, <1>4, <2>1 DEF JustifiedAt
<1>5. CASE r.res.error = NoError
  <2>1. Malformed(s) = NoError /\ Len(r.res.successes) = i - 1
    BY <1>5 DEF JustifiedAt
  <2>2. \/ after = WithError(r.res, "prepare") \/ after = WithError(r.res, "step")
        \/ refused # NoError /\ after = WithError(r.res, refused)
        \/ after = WithSuccess(r.res, Success(r.db, q, inc))
    <3>1. r = [db |-> r.db, res |-> r.res]
      BY DEF StmtState
    <3> HIDE DEF q, refused
    <3> QED BY <1>5, <3>1 DEF StmtStep, RunQuery, q, refused
  <2> HIDE DEF after, q, refused
  <2>3. CASE \E e : e # NoError /\ after = WithError(r.res, e)
    BY <1>1, <1>2, <2>1, <2>3 DEF JustifiedAt
  <2>4. CASE after = WithSuccess(r.res, Success(r.db, q, inc))
    BY <1>1, <1>3, <1>5, <2>1, <2>4 DEF JustifiedAt
  <2>5. "prepare" # NoError /\ "step" # NoError
    BY DEF NoError
  <2> QED BY <2>2, <2>3, <2>4, <2>5
<1> QED BY <1>4, <1>5

\* Any number of them.
LEMMA RunIsJustified ==
  ASSUME NEW d \in DB, NEW s \in Stmt, NEW ro \in BOOLEAN, NEW inc \in BOOLEAN
  PROVE  \A i \in 0 .. StmtLen(s) : JustifiedAt(StmtRun(d, s, ro, inc)[i].res, s, i)
<1> DEFINE run == StmtRun(d, s, ro, inc)
           n == StmtLen(s)
           T == {i \in 0 .. n : JustifiedAt(run[i].res, s, i)}
<1>1. /\ n \in Nat /\ run \in [0 .. n -> StmtState]
      /\ run[0] = [db |-> d, res |-> WithError(NoResult, Malformed(s))]
      /\ \A i \in 1 .. n : run[i] = StmtStep(run[i - 1], s, i, ro, inc)
  BY StmtRunFacts
<1> HIDE DEF run
<1>2. 0 \in T
  <2>1. /\ WithError(NoResult, Malformed(s)).error = Malformed(s)
        /\ WithError(NoResult, Malformed(s)).successes = << >>
    BY DEF WithError, NoResult
  <2>2. JustifiedAt(run[0].res, s, 0)
    BY <1>1, <2>1 DEF JustifiedAt
  <2> QED BY <1>1, <2>2
<1>3. ASSUME NEW i \in 0 .. n - 1, i \in T PROVE i + 1 \in T
  <2>1. i + 1 \in 1 .. n /\ (i + 1) - 1 = i /\ run[i] \in StmtState /\ i + 1 \in 0 .. n
    BY <1>1
  <2>2. run[i + 1] = StmtStep(run[i], s, i + 1, ro, inc)
    BY <1>1, <2>1
  <2>3. JustifiedAt(run[i].res, s, (i + 1) - 1)
    BY <1>3, <2>1
  <2>4. JustifiedAt(StmtStep(run[i], s, i + 1, ro, inc).res, s, i + 1)
    <3> HIDE DEF T
    <3> QED BY <2>1, <2>3, StepIsJustified DEF n
  <2> QED BY <2>1, <2>2, <2>4
<1>4. 0 .. n \subseteq T
  <2> HIDE DEF T, n
  <2> QED BY <1>1, <1>2, <1>3, IntervalInduction
<1> QED BY <1>4 DEF run

\* And all of them.
LEMMA ResultIsJustified ==
  ASSUME NEW d \in DB, NEW s \in Stmt, NEW ro \in BOOLEAN, NEW inc \in BOOLEAN
  PROVE  Justified(RunStmt(d, s, ro, inc).res, s)
<1> DEFINE r == StmtRun(d, s, ro, inc)[StmtLen(s)].res
<1>1. StmtLen(s) \in Nat
  BY StmtRunFacts
<1>2. JustifiedAt(r, s, StmtLen(s))
  BY <1>1, RunIsJustified
<1>3. Malformed(s) = NoError => StmtLen(s) = Len(s.sql)
  BY DEF StmtLen
<1> HIDE DEF r
<1>4. Justified(r, s)
  BY <1>2, <1>3 DEF JustifiedAt, Justified
<1> QED BY <1>4, RunStmtIs DEF r

\* A call of one statement ends with the result of that.
LEMMA SingleResult ==
  ASSUME TypeOK, RunInv, pc = "stmts", todo = << >>, Len(call.stmts) = 1
  PROVE  Len(results) = 1 /\ results[1] \in Result /\ Justified(results[1], call.stmts[1])
<1>1. InCall
  BY DEF InCall
<1>2. /\ call.before \in DB /\ call.stmts \in Seq(Stmt) /\ call.readOnly \in BOOLEAN
      /\ call.includeResult \in BOOLEAN /\ results \in Seq(Result) /\ Len(results) \in 0 .. 1
  BY <1>1, RunTypes DEF RunInv, TypeOK
<1>3. Len(results) = 1
  <2>1. HasStopped(results) => Len(results) # 0
    BY <1>2 DEF HasStopped
  <2>2. ~HasStopped(results) => Len(results) + Len(todo) = 1
    BY <1>1 DEF RunInv, TodoIsRest
  <2> QED BY <1>2, <2>1, <2>2
<1>4. results[1] \in Result /\ call.stmts[1] \in Stmt
  BY <1>2, <1>3
<1>5. TheCall[1].results = results
  BY <1>1, <1>3 DEF RunInv, ResultsAreRun
<1>6. TheCall[1] = CallStep(TheCall[0], call.stmts[1], call.readOnly, call.includeResult)
  <2>1. 1 \in 1 .. Len(call.stmts) /\ 1 - 1 = 0
    OBVIOUS
  <2>2. TheCall[1] = CallStep(TheCall[1 - 1], call.stmts[1], call.readOnly, call.includeResult)
    BY <1>2, <2>1, CallRunStep DEF TheCall
  <2> QED BY <2>1, <2>2
<1>7. TheCall[0] = [db |-> call.before, results |-> << >>]
  BY <1>2, CallRunFacts DEF TheCall
<1>8. results[1] = RunStmt(call.before, call.stmts[1], call.readOnly, call.includeResult).res
  <2>1. ~HasStopped(<< >>)
    BY DEF HasStopped
  <2> QED BY <1>5, <1>6, <1>7, <2>1 DEF CallStep
<1>9. Justified(results[1], call.stmts[1])
  BY <1>2, <1>4, <1>8, ResultIsJustified
<1> QED BY <1>3, <1>4, <1>9

\* The conversion of a result keeps its error and whether it has a success.
LEMMA FromProtoKeeps ==
  ASSUME NEW r \in Result
  PROVE  /\ FromProto(r).error = r.error
         /\ FromProto(r).successes = << >> <=> Len(r.successes) = 0
<1>1. DOMAIN r.successes = 1 .. Len(r.successes) /\ Len(r.successes) \in Nat
  BY DEF Result
<1> DEFINE rows == [i \in DOMAIN r.successes |-> GoRow(r.successes[i])]
<1>2. FromProto(r) = [successes |-> rows, error |-> r.error]
  BY DEF FromProto
<1>3. rows = << >> <=> Len(r.successes) = 0
  <2>1. CASE Len(r.successes) = 0
    BY <1>1, <2>1
  <2>2. CASE rows = << >>
    <3>1. DOMAIN rows = {} /\ DOMAIN rows = DOMAIN r.successes
      BY <2>2
    <3>2. 1 \notin 1 .. Len(r.successes)
      BY <1>1, <3>1
    <3> QED BY <1>1, <3>2
  <2> QED BY <2>1, <2>2
<1> HIDE DEF rows
<1> QED BY <1>2, <1>3

\* What a caller receives is true.
LEMMA AnswerIsTrue ==
  ASSUME TypeOK, RunInv, Underway, Receive
  PROVE  ToldTheTruth'
<1> DEFINE R == [i \in DOMAIN results |->
                   IF call.includeResult THEN FromProto(results[i]) ELSE results[i]]
           r == results[1]
           s == call.stmts[1]
<1>1. /\ pc = "stmts" /\ todo = << >> /\ InCall /\ told' = Answer(R)
      /\ UNCHANGED <<caller, call, results>>
  BY DEF Receive, Return, InCall
<1> SUFFICES ASSUME caller.shape # "list", told'.kind \in {"success", "error", "panic"}
             PROVE  CASE told'.kind = "success" -> Len(r.successes) = Len(s.sql) /\ ~s.blank
                      [] told'.kind = "error" ->
                           Len(r.successes) < Len(s.sql) \/ Malformed(s) # NoError
                      [] OTHER -> Len(s.sql) = 0 /\ caller.shape = "simple"
  BY <1>1, Zenon DEF ToldTheTruth
<1>2. Len(results) = 1 /\ r \in Result /\ Justified(r, s)
  <2>1. Len(call.stmts) = 1
    BY <1>1 DEF Underway, ProperCall
  <2> QED BY <1>1, <2>1, SingleResult
<1>3. R[1] = IF call.includeResult THEN FromProto(r) ELSE r
  <2>1. results \in Seq(Result)
    BY DEF TypeOK
  <2>2. 1 \in DOMAIN results
    BY <1>2, <2>1
  <2> QED BY <2>2
<1>4. R[1].error = r.error /\ (R[1].successes = << >> <=> Len(r.successes) = 0)
  <2>1. r.successes = << >> <=> Len(r.successes) = 0
    <3>1. r.successes \in Seq(RowSet \cup {NoRows})
      BY <1>2 DEF Result
    <3> QED BY <3>1
  <2> HIDE DEF R, r
  <2> QED BY <1>2, <1>3, <2>1, FromProtoKeeps
<1>5. Malformed(s) = NoError => ~s.blank
  BY DEF Malformed, NoError
<1> HIDE DEF R, r, s
<1>6. CASE caller.api = "update"
  BY <1>1, <1>6 DEF Answer, Told
<1>7. CASE caller.api # "update" /\ caller.shape = "simple"
  <2>1. told' = ToldSimple(R[1])
    BY <1>1, <1>7 DEF Answer
  <2>2. CASE r.error # NoError
    <3>1. told'.kind = "error"
      BY <1>4, <2>1, <2>2 DEF ToldSimple, Told
    <3> QED BY <1>2, <2>2, <3>1 DEF Justified
  <2>3. CASE r.error = NoError /\ Len(r.successes) = 0
    <3>1. told'.kind = "panic"
      BY <1>4, <2>1, <2>3 DEF ToldSimple, Told
    <3> QED BY <1>2, <1>7, <2>3, <3>1 DEF Justified
  <2>4. CASE r.error = NoError /\ Len(r.successes) # 0
    <3>1. told'.kind = "success"
      BY <1>4, <2>1, <2>4 DEF ToldSimple, Told
    <3> QED BY <1>2, <1>5, <2>4, <3>1 DEF Justified
  <2> QED BY <2>2, <2>3, <2>4
<1>8. CASE caller.api # "update" /\ caller.shape # "simple"
  <2>1. told' = ToldMulti(R[1])
    BY <1>1, <1>8 DEF Answer
  <2>2. CASE r.error # NoError
    <3>1. told'.kind = "error"
      BY <1>4, <2>1, <2>2 DEF ToldMulti, Told
    <3> QED BY <1>2, <2>2, <3>1 DEF Justified
  <2>3. CASE r.error = NoError
    <3>1. told'.kind = "success"
      BY <1>4, <2>1, <2>3 DEF ToldMulti, Told
    <3> QED BY <1>2, <1>5, <2>3, <3>1 DEF Justified
  <2> QED BY <2>2, <2>3
<1> QED BY <1>6, <1>7, <1>8

\* Every step keeps the call to what its caller sent.
LEMMA NextUnderway == TypeOK /\ Connection /\ Underway /\ [PathNext]_pathVars => Underway'
<1> SUFFICES ASSUME Underway, [PathNext]_pathVars PROVE Underway'
  OBVIOUS
<1>1. CASE Execute \/ ExecuteRows
  <2>1. InCall /\ UNCHANGED <<told, caller, call, narrow>>
    BY <1>1 DEF Execute, ExecuteRows, NextStmt, Prepare, Refuse, StepRows, EndQueries,
                AppendResult, InCall
  <2> QED BY <2>1 DEF Underway
<1>2. CASE Receive
  BY <1>2 DEF Receive, Return, InCall, Underway
<1>3. CASE UNCHANGED pathVars
  BY <1>3 DEF pathVars, vars, InCall, Underway
<1> QED BY <1>1, <1>2, <1>3, CallerStep DEF PathNext

\* And what callers were told true.
LEMMA NextTold ==
  TypeOK /\ Connection /\ Underway /\ ToldTheTruth /\ [PathNext]_pathVars => ToldTheTruth'
<1> SUFFICES ASSUME TypeOK, RunInv, Underway, ToldTheTruth, [PathNext]_pathVars
             PROVE  ToldTheTruth'
  BY DEF Connection
<1>1. ASSUME told' \in {NotTold, Told("refused", << >>)} PROVE ToldTheTruth'
  BY <1>1 DEF ToldTheTruth, NotTold, Told
<1>2. CASE (\E c \in Calls : ClientCall(c)) \/ (\E c \in Commands : CommandLine(c))
  BY <1>1, <1>2, CallerStep
<1>3. CASE Execute \/ ExecuteRows
  <2>1. InCall /\ UNCHANGED told
    BY <1>3 DEF Execute, ExecuteRows, NextStmt, Prepare, Refuse, StepRows, EndQueries,
                AppendResult, InCall
  <2> QED BY <1>1, <2>1 DEF Underway
<1>4. CASE Receive
  BY <1>4, AnswerIsTrue
<1>5. CASE UNCHANGED pathVars
  BY <1>5 DEF pathVars, vars, ToldTheTruth
<1> QED BY <1>2, <1>3, <1>4, <1>5 DEF PathNext

\* Whatever callers send: a caller with one statement is told of success only if all
\* its SQL was executed, of an error only if some was not, and gets a panic for nothing
\* but SQL without a query.
THEOREM CallersAreToldTheTruth == PathSpec => []ToldTheTruth
<1>1. PathInit => Underway /\ ToldTheTruth
  BY DEF PathInit, Init, NotTold, Told, Underway, InCall, ToldTheTruth
<1> QED BY <1>1, NextUnderway, NextTold, PathIsConnection, PTL DEF PathSpec
-----------------------------------------------------------------------------
(* What is read back.                                                      *)

\* A Go value that is converted, stored and read is what the caller meant.
LEMMA ValueReadsBack ==
  ASSUME NEW v, v = Value(v.kind, v.data), v.kind = "nil" => v = Nil,
         ToProtoValue(v) # Invalid
  PROVE  FromProtoValue(ColumnValue(ToProtoValue(v))) = Meant(v)
<1>1. CASE v.kind = "nil"
  BY <1>1 DEF ToProtoValue, ColumnValue, FromProtoValue, Meant, Nil, Null, Value
<1>2. CASE v.kind \in {"bool", "int"}
  <2>1. ToProtoValue(v) = Value("int", v.data)
    BY <1>2 DEF ToProtoValue
  <2>2. FromProtoValue(ColumnValue(Value("int", v.data))) = Value("int", v.data)
    BY DEF ColumnValue, FromProtoValue, Value
  <2>3. Meant(v) = Value("int", v.data)
    BY <1>2 DEF Meant, Value
  <2> QED BY <2>1, <2>2, <2>3
<1>3. CASE v.kind = "uint"
  <2>1. ToProtoValue(v) = Value("int", v.data)
    BY <1>3 DEF ToProtoValue
  <2>2. FromProtoValue(ColumnValue(Value("int", v.data))) = Value("int", v.data)
    BY DEF ColumnValue, FromProtoValue, Value
  <2>3. Meant(v) = Value("int", v.data)
    BY <1>3 DEF Meant, Value
  <2> QED BY <2>1, <2>2, <2>3
<1>4. CASE v.kind \in {"float", "string", "bytes"}
  <2>1. ToProtoValue(v) = v /\ Meant(v) = v
    BY <1>4 DEF ToProtoValue, Meant
  <2>2. FromProtoValue(ColumnValue(v)) = v
    BY <1>4 DEF ColumnValue, FromProtoValue
  <2> QED BY <2>1, <2>2
<1>5. v.kind \in {"nil", "bool", "int", "uint", "float", "string", "bytes"}
  BY DEF ToProtoValue
<1> QED BY <1>1, <1>2, <1>3, <1>4, <1>5

\* What is on the wire for a statement.
LEMMA WireIs ==
  ASSUME NEW s \in Sent, NEW w \in ToProtos(s)
  PROVE  /\ w.sql = s.sql /\ w.multi = s.multi
         /\ DOMAIN w.named = DOMAIN s.named
         /\ \A n \in DOMAIN s.named : w.named[n] = ToProtoValue(s.named[n])
         /\ IsNarrow(s) =>
              /\ DOMAIN w.indexed = DOMAIN s.indexed
              /\ \A k \in DOMAIN s.indexed : w.indexed[k] = ToProtoValue(s.indexed[k])
<1> DEFINE wire == {Uint32(k) : k \in DOMAIN s.indexed}
           last == {f \in [wire -> DOMAIN s.indexed] : \A i \in wire : Uint32(f[i]) = i}
           indexed(f) == [i \in wire |-> ToProtoValue(s.indexed[f[i]])]
           named == [n \in DOMAIN s.named |-> ToProtoValue(s.named[n])]
<1>1. PICK f \in last : w = [s EXCEPT !.indexed = indexed(f), !.named = named]
  BY Zenon DEF ToProtos
<1>2. DOMAIN s = {"sql", "indexed", "named", "multi"}
  BY PathAssumption
<1>3. w.sql = s.sql /\ w.multi = s.multi /\ w.indexed = indexed(f) /\ w.named = named
  <2> HIDE DEF last, indexed, named
  <2> QED BY <1>1, <1>2
<1>4. ASSUME IsNarrow(s)
      PROVE  wire = DOMAIN s.indexed /\ \A k \in DOMAIN s.indexed : f[k] = k
  <2>1. \A k \in DOMAIN s.indexed : Uint32(k) = k
    <3>1. ASSUME NEW k \in DOMAIN s.indexed PROVE Uint32(k) = k
      <4>1. k \in 0 .. Uint32Range - 1 /\ Uint32Range \in Nat \ {0}
        BY <1>4, ValueAssumption DEF IsNarrow
      <4>2. k % Uint32Range = k
        BY <4>1
      <4> QED BY <4>2 DEF Uint32
    <3> QED BY <3>1
  <2>2. wire = DOMAIN s.indexed
    BY <2>1
  <2>3. f \in [wire -> DOMAIN s.indexed] /\ \A i \in wire : Uint32(f[i]) = i
    BY <1>1
  <2> HIDE DEF wire
  <2> QED BY <2>1, <2>2, <2>3
<1> QED BY <1>3, <1>4

\* So what is bound to a query reads as the caller means it.
LEMMA BoundIsMeant ==
  ASSUME NEW s \in Sent, Convertible(s), IsNarrow(s), NEW w \in ToProtos(s), NEW text
  PROVE  GoRow(BoundArgs(text, w)) = MeantArgs(text, s)
<1> DEFINE Named(i) == \E n \in DOMAIN s.named : Index(text, n) = i
           name(i) == CHOOSE n \in DOMAIN s.named : Index(text, n) = i
           Go(v) == FromProtoValue(ColumnValue(v))
<1>1. /\ DOMAIN w.named = DOMAIN s.named
      /\ \A n \in DOMAIN s.named : w.named[n] = ToProtoValue(s.named[n])
      /\ DOMAIN w.indexed = DOMAIN s.indexed
      /\ \A k \in DOMAIN s.indexed : w.indexed[k] = ToProtoValue(s.indexed[k])
  BY WireIs
<1>2. \A v \in Values(s) : Go(ToProtoValue(v)) = Meant(v)
  <2>1. ASSUME NEW v \in Values(s) PROVE Go(ToProtoValue(v)) = Meant(v)
    <3>1. ToProtoValue(v) # Invalid /\ v = Value(v.kind, v.data) /\ (v.kind = "nil" => v = Nil)
      BY PathAssumption DEF Convertible
    <3> QED BY <3>1, ValueReadsBack
  <2> QED BY <2>1
<1>3. ASSUME NEW i \in 1 .. Count(text)
      PROVE  Go(BoundArgs(text, w)[i]) = MeantArgs(text, s)[i]
  <2>1. BoundArgs(text, w)[i] = IF Named(i) THEN w.named[name(i)]
                                ELSE IF i \in DOMAIN s.indexed THEN w.indexed[i] ELSE Null
    BY <1>1 DEF BoundArgs
  <2>2. MeantArgs(text, s)[i] = IF Named(i) THEN Meant(s.named[name(i)])
                                ELSE IF i \in DOMAIN s.indexed THEN Meant(s.indexed[i])
                                ELSE Nil
    BY DEF MeantArgs
  <2>3. CASE Named(i)
    <3>1. name(i) \in DOMAIN s.named
      BY <2>3
    <3>2. s.named[name(i)] \in Values(s)
      BY <3>1 DEF Values
    <3> HIDE DEF Named, name, Go
    <3> QED BY <1>1, <1>2, <2>1, <2>2, <2>3, <3>1, <3>2
  <2>4. CASE ~Named(i) /\ i \in DOMAIN s.indexed
    <3>1. s.indexed[i] \in Values(s)
      BY <2>4 DEF Values
    <3> HIDE DEF Named, name, Go
    <3> QED BY <1>1, <1>2, <2>1, <2>2, <2>4, <3>1
  <2>5. CASE ~Named(i) /\ i \notin DOMAIN s.indexed
    <3>1. Go(Null) = Nil
      BY DEF FromProtoValue, ColumnValue, Null, Nil, Value
    <3> HIDE DEF Named, name, Go
    <3> QED BY <2>1, <2>2, <2>5, <3>1
  <2> QED BY <2>3, <2>4, <2>5
<1>4. /\ DOMAIN BoundArgs(text, w) = 1 .. Count(text)
      /\ DOMAIN MeantArgs(text, s) = 1 .. Count(text)
  BY DEF BoundArgs, MeantArgs
<1>5. GoRow(BoundArgs(text, w)) = [i \in 1 .. Count(text) |-> Go(BoundArgs(text, w)[i])]
  BY <1>4 DEF GoRow
<1>6. MeantArgs(text, s) = [i \in 1 .. Count(text) |-> MeantArgs(text, s)[i]]
  BY DEF MeantArgs
<1> HIDE DEF Go
<1> QED BY <1>3, <1>5, <1>6

\* Rows are converted value by value.
LEMMA GoRowConcat ==
  ASSUME NEW S, NEW a \in Seq(S), NEW b \in Seq(S)
  PROVE  GoRow(a \o b) = GoRow(a) \o GoRow(b)
<1> DEFINE Go(v) == FromProtoValue(ColumnValue(v))
           G == {Go(v) : v \in S}
<1>1. \A r \in Seq(S) : GoRow(r) \in Seq(G) /\ Len(GoRow(r)) = Len(r)
                        /\ \A i \in 1 .. Len(r) : GoRow(r)[i] = Go(r[i])
  BY DEF GoRow
<1> HIDE DEF Go, G
<1>2. a \o b \in Seq(S) /\ Len(a \o b) = Len(a) + Len(b)
  OBVIOUS
<1>3. /\ GoRow(a) \o GoRow(b) \in Seq(G) /\ Len(GoRow(a) \o GoRow(b)) = Len(a) + Len(b)
      /\ Len(a) \in Nat /\ Len(b) \in Nat
  <2>1. /\ GoRow(a) \in Seq(G) /\ GoRow(b) \in Seq(G)
        /\ Len(GoRow(a)) = Len(a) /\ Len(GoRow(b)) = Len(b)
    BY <1>1
  <2>2. \A r, t \in Seq(G) : r \o t \in Seq(G) /\ Len(r \o t) = Len(r) + Len(t)
    OBVIOUS
  <2> QED BY <2>1, <2>2
<1>4. ASSUME NEW i \in 1 .. Len(a) + Len(b)
      PROVE  GoRow(a \o b)[i] = (GoRow(a) \o GoRow(b))[i]
  <2>1. GoRow(a \o b)[i] = Go((a \o b)[i])
    BY <1>1, <1>2
  <2>2. CASE i <= Len(a)
    <3>1. (a \o b)[i] = a[i] /\ (GoRow(a) \o GoRow(b))[i] = GoRow(a)[i]
      BY <1>1, <1>3, <2>2
    <3> QED BY <1>1, <1>3, <2>1, <2>2, <3>1
  <2>3. CASE i > Len(a)
    <3>1. /\ (a \o b)[i] = b[i - Len(a)] /\ i - Len(a) \in 1 .. Len(b)
          /\ (GoRow(a) \o GoRow(b))[i] = GoRow(b)[i - Len(a)]
      BY <1>1, <1>3, <2>3
    <3> QED BY <1>1, <2>1, <3>1
  <2> QED BY <1>3, <2>2, <2>3
<1>5. GoRow(a \o b) \in Seq(G) /\ Len(GoRow(a \o b)) = Len(a) + Len(b)
  BY <1>1, <1>2
<1>6. \A r, t \in Seq(G) : Len(r) = Len(t) /\ (\A i \in 1 .. Len(r) : r[i] = t[i]) => r = t
  OBVIOUS
<1> QED BY <1>3, <1>4, <1>5, <1>6

\* The last row set of a result of s: t if it lists the table; one of a statement with a
\* single query is its only one.
LastRows(t, r, s) ==
  LET j == Len(r.successes)
  IN  /\ j <= Len(s.sql)
      /\ j # 0 => s.multi \/ Len(s.sql) = 1
      /\ j # 0 /\ call.includeResult /\ Lists(s.sql[j].text) => r.successes[j] = t

\* The values that callers gave are those of the table, and so is what was listed last.
TableInv(T) ==
  /\ narrow => given = GoRow(T[db])
  /\ pc \in {"queries", "vet", "append"} => LastRows(T[db], res, stmt)
  /\ pc = "stmts" /\ results # << >> =>
       LastRows(T[db], results[Len(results)], call.stmts[Len(results)])

\* In a statement without an error, each query so far has its row set.
LEMMA SuccessesAreTaken ==
  ASSUME TypeOK, RunInv, pc \in {"queries", "vet"}
  PROVE  /\ Len(res.successes) = Taken /\ Taken \in Nat /\ Taken + Len(sql) = Len(stmt.sql)
         /\ \A i \in 1 .. Len(sql) : sql[i] = stmt.sql[Taken + i]
         /\ Len(sql) \in Nat /\ Len(stmt.sql) \in Nat
<1>1. InCall
  BY DEF InCall
<1>2. /\ stmt \in Stmt /\ call.readOnly \in BOOLEAN /\ call.includeResult \in BOOLEAN
      /\ TheCall[Len(results)].db \in DB
  BY <1>1, RunTypes DEF RunInv
<1>3. /\ Malformed(stmt) = NoError /\ res.error = NoError /\ Len(sql) <= Len(stmt.sql)
      /\ \A i \in 1 .. Len(sql) : sql[i] = stmt.sql[Taken + i]
      /\ TheStmt[Taken] = [db |-> db, res |-> res]
  BY DEF RunInv, QueriesAreRun
<1>4. Len(sql) \in Nat /\ Len(stmt.sql) \in Nat /\ StmtLen(stmt) = Len(stmt.sql)
  BY <1>2, <1>3 DEF TypeOK, Stmt, StmtLen
<1>5. Taken \in 0 .. StmtLen(stmt) /\ Taken + Len(sql) = Len(stmt.sql)
  BY <1>3, <1>4 DEF Taken
<1>6. JustifiedAt(TheStmt[Taken].res, stmt, Taken)
  BY <1>2, <1>5, RunIsJustified DEF TheStmt
<1>7. Len(res.successes) = Taken
  BY <1>3, <1>6 DEF JustifiedAt
<1> QED BY <1>3, <1>4, <1>5, <1>7

\* The query that is vetted has what the caller sent.
LEMMA CurrentQuery ==
  ASSUME TypeOK, RunInv, Underway, pc = "vet"
  PROVE  /\ Statement \in Sent /\ Convertible(Statement) /\ (narrow => IsNarrow(Statement))
         /\ \E w \in ToProtos(Statement) :
              Head(sql) = [text |-> Head(sql).text, args |-> BoundArgs(Head(sql).text, w)]
<1> DEFINE i == Len(results) + 1
           k == Taken + 1
<1>1. InCall
  BY DEF InCall
<1>2. /\ caller.stmts \in Seq(Sent) /\ StmtsConvertible(caller.stmts)
      /\ Len(call.stmts) = Len(caller.stmts)
      /\ \A n \in DOMAIN caller.stmts :
           \E w \in ToProtos(caller.stmts[n]) : call.stmts[n] = Carried(w)
      /\ narrow => \A n \in DOMAIN caller.stmts : IsNarrow(caller.stmts[n])
  BY <1>1 DEF Underway
<1>3. i \in 1 .. Len(call.stmts) /\ stmt = call.stmts[i]
  <2>1. Len(results) \in 0 .. Len(call.stmts) /\ Len(call.stmts) \in Nat
    BY <1>1, RunTypes DEF RunInv
  <2>2. Len(results) < Len(call.stmts) /\ stmt = call.stmts[i]
    BY <1>1 DEF RunInv, ResultsAreRun
  <2> QED BY <2>1, <2>2
<1>4. i \in DOMAIN caller.stmts /\ Statement = caller.stmts[i]
  BY <1>2, <1>3 DEF Statement
<1> HIDE DEF i
<1>5. Statement \in Sent /\ Convertible(Statement) /\ (narrow => IsNarrow(Statement))
  BY <1>2, <1>4 DEF StmtsConvertible
<1>6. PICK w \in ToProtos(Statement) : stmt = Carried(w)
  BY <1>2, <1>3, <1>4
<1>7. Head(sql) = stmt.sql[k] /\ k \in 1 .. Len(stmt.sql)
  <2>1. sql \in Seq(Query) /\ sql # << >>
    BY DEF TypeOK
  <2>2. Head(sql) = sql[1] /\ Len(sql) > 0
    BY <2>1
  <2> QED BY <2>2, SuccessesAreTaken
<1>8. k \in DOMAIN stmt.sql
  <2>1. stmt.sql \in Seq(Query)
    BY DEF TypeOK, Stmt
  <2> QED BY <1>7, <2>1
<1> HIDE DEF k
<1>9. stmt.sql[k] = [text |-> w.sql.texts[k], args |-> BoundArgs(w.sql.texts[k], w)]
  <2>1. stmt.sql = [n \in DOMAIN w.sql.texts |->
                      [text |-> w.sql.texts[n], args |-> BoundArgs(w.sql.texts[n], w)]]
    BY <1>6 DEF Carried
  <2> QED BY <1>8, <2>1
<1> QED BY <1>5, <1>7, <1>9

\* Stepping over rows changes the table as it changes what was given.
LEMMA RowsKeepTable ==
  ASSUME NEW T, NEW S, IsTable(T, S), TypeOK, RunInv, Underway, TableInv(T), ExecuteRows
  PROVE  TableInv(T)'
<1> DEFINE q == Head(sql)
           given2 == given \o Adds([text |-> q.text, args |-> MeantArgs(q.text, Statement)])
<1>1. /\ pc = "vet" /\ Vetting = NoError /\ db' = Effect(db, q)
      /\ UNCHANGED <<call, stmt, results, narrow>>
      /\ IF StepOk(db, q)
           THEN /\ pc' = "queries"
                /\ res' = WithSuccess(res, Success(db, q, call.includeResult))
           ELSE pc' = "append" /\ res' = WithError(res, "step")
      /\ given' = IF narrow /\ Len(res'.successes) > Len(res.successes) THEN given2 ELSE given
  BY DEF ExecuteRows, StepRows
<1>2. /\ db \in DB /\ sql \in Seq(Query) /\ sql # << >> /\ q \in Query
      /\ res \in Result /\ res.successes \in Seq(RowSet \cup {NoRows})
      /\ Len(res.successes) \in Nat
  <2>1. db \in DB /\ sql \in Seq(Query) /\ sql # << >> /\ res \in Result
    BY <1>1 DEF TypeOK
  <2> QED BY <2>1 DEF Result
<1>3. /\ T \in [DB -> Seq(S)] /\ T[db] \in Seq(S) /\ Adds(q) \in Seq(S)
      /\ Adds([q EXCEPT !.args = GoRow(@)]) = GoRow(Adds(q))
      /\ T[db'] = IF StepOk(db, q) THEN T[db] \o Adds(q) ELSE T[db]
      /\ Lists(q.text) => Adds(q) = << >> /\ Rows(db, q) = T[db]
  BY <1>1, <1>2 DEF IsTable
<1>4. LastRows(T[db], res, stmt) /\ (narrow => given = GoRow(T[db]))
  BY <1>1 DEF TableInv
<1>5. /\ Len(res.successes) = Taken /\ Taken \in Nat /\ Taken + Len(sql) = Len(stmt.sql)
      /\ Len(sql) \in Nat /\ Len(sql) > 0 /\ q = stmt.sql[Taken + 1]
  <2>1. Len(sql) > 0 /\ q = sql[1]
    BY <1>2
  <2> QED BY <1>1, <2>1, SuccessesAreTaken
<1>6. narrow => given2 = given \o GoRow(Adds(q))
  <2> SUFFICES ASSUME narrow PROVE given2 = given \o GoRow(Adds(q))
    OBVIOUS
  <2>1. PICK w \in ToProtos(Statement) : q = [text |-> q.text, args |-> BoundArgs(q.text, w)]
    BY <1>1, CurrentQuery
  <2>2. GoRow(BoundArgs(q.text, w)) = MeantArgs(q.text, Statement)
    BY <1>1, CurrentQuery, BoundIsMeant
  <2>3. [q EXCEPT !.args = GoRow(@)] = [text |-> q.text, args |-> MeantArgs(q.text, Statement)]
    <3> HIDE DEF q
    <3> QED BY <2>1, <2>2
  <2> QED BY <1>3, <2>3
<1> HIDE DEF q, given2
<1>7. CASE StepOk(db, q)
  <2> DEFINE rows == Success(db, q, call.includeResult)
  <2>1. pc' = "queries" /\ res' = WithSuccess(res, rows)
    BY <1>1, <1>7
  <2>2. /\ Len(res'.successes) = Taken + 1 /\ res'.successes[Taken + 1] = rows
    <3>1. res'.successes = Append(res.successes, rows)
      BY <1>2, <2>1 DEF WithSuccess, Result
    <3> HIDE DEF rows
    <3> QED BY <1>2, <1>5, <3>1
  <2>3. narrow' => given' = GoRow(T[db'])
    <3> SUFFICES ASSUME narrow' PROVE given' = GoRow(T[db'])
      OBVIOUS
    <3>1. narrow /\ given' = given2
      BY <1>1, <1>5, <2>2
    <3>2. given2 = GoRow(T[db]) \o GoRow(Adds(q))
      BY <1>4, <1>6, <3>1
    <3>3. GoRow(T[db] \o Adds(q)) = GoRow(T[db]) \o GoRow(Adds(q))
      BY <1>3, GoRowConcat
    <3>4. T[db'] = T[db] \o Adds(q)
      BY <1>3, <1>7
    <3> QED BY <3>1, <3>2, <3>3, <3>4
  <2>4. stmt.multi \/ Len(stmt.sql) = 1
    <3>1. CASE Taken = 0
      <4>1. stmt.multi \/ Tail(sql) = << >>
        <5>1. CASE Tail(sql) # << >> /\ ~stmt.multi
          <6>1. Vetting # NoError
            BY <5>1 DEF Vetting, Refusal, NoError
          <6> QED BY <1>1, <6>1
        <5> QED BY <5>1, Zenon
      <4>2. Tail(sql) = << >> => Len(sql) = 1
        <5>1. Len(Tail(sql)) = Len(sql) - 1
          BY <1>2
        <5>2. Len(<< >>) = 0
          OBVIOUS
        <5>3. Tail(sql) = << >> => Len(Tail(sql)) = 0
          BY <5>2, Zenon
        <5> QED BY <1>5, <5>1, <5>3
      <4> QED BY <1>5, <3>1, <4>1, <4>2
    <3>2. CASE Taken # 0
      BY <1>4, <1>5, <3>2 DEF LastRows
    <3> QED BY <3>1, <3>2
  <2>5. call.includeResult /\ Lists(q.text) => rows = T[db']
    BY <1>3, <1>7 DEF Success
  <2> HIDE DEF rows
  <2>6. LastRows(T[db], res, stmt)'
    BY <1>1, <1>5, <2>2, <2>4, <2>5 DEF LastRows
  <2> QED BY <2>1, <2>3, <2>6 DEF TableInv
<1>8. CASE ~StepOk(db, q)
  <2>1. pc' = "append" /\ res' = WithError(res, "step")
    BY <1>1, <1>8
  <2>2. res'.successes = res.successes
    BY <1>2, <2>1 DEF WithError, Result
  <2>3. T[db'] = T[db] /\ given' = given
    BY <1>1, <1>2, <1>3, <1>8, <2>2
  <2>4. LastRows(T[db], res, stmt)'
    BY <1>1, <1>4, <2>2, <2>3 DEF LastRows
  <2> QED BY <1>1, <1>4, <2>1, <2>3, <2>4 DEF TableInv
<1> QED BY <1>7, <1>8

\* The other steps of a call keep both.
LEMMA ExecuteKeepsTable ==
  ASSUME NEW T, TypeOK, RunInv, TableInv(T), Execute
  PROVE  TableInv(T)'
<1>1. db' = db /\ UNCHANGED <<call, given, narrow>>
  BY DEF Execute, NextStmt, Prepare, Refuse, EndQueries, AppendResult
<1>2. narrow' => given' = GoRow(T[db'])
  BY <1>1 DEF TableInv
<1>3. CASE NextStmt
  <2>1. /\ pc' \in {"queries", "append"} /\ stmt' = Head(todo)
        /\ res' = WithError(NoResult, Malformed(Head(todo)))
    BY <1>3 DEF NextStmt
  <2>2. Len(res'.successes) = 0
    BY <2>1 DEF WithError, NoResult
  <2>3. Len(stmt'.sql) \in Nat
    <3>1. Head(todo) \in Stmt
      BY <1>3 DEF NextStmt, TypeOK
    <3> QED BY <2>1, <3>1 DEF Stmt
  <2>4. LastRows(T[db], res, stmt)'
    BY <2>2, <2>3 DEF LastRows
  <2> QED BY <1>2, <2>1, <2>4 DEF TableInv
<1>4. CASE Prepare \/ Refuse \/ EndQueries
  <2>1. /\ pc \in {"queries", "vet"} /\ pc' \in {"queries", "vet", "append"} /\ stmt' = stmt
        /\ res' = res \/ \E e : res' = WithError(res, e)
    BY <1>4 DEF Prepare, Refuse, EndQueries
  <2>2. res'.successes = res.successes
    <3>1. res \in Result
      BY DEF TypeOK
    <3> QED BY <2>1, <3>1 DEF WithError, Result
  <2>3. LastRows(T[db], res, stmt)
    BY <2>1 DEF TableInv
  <2>4. LastRows(T[db], res, stmt)'
    BY <1>1, <2>1, <2>2, <2>3 DEF LastRows
  <2> QED BY <1>2, <2>1, <2>4 DEF TableInv
<1>5. CASE AppendResult
  <2>1. pc = "append" /\ InCall /\ pc' = "stmts" /\ results' = Append(results, res)
    BY <1>5 DEF AppendResult, InCall
  <2>2. Len(results') = Len(results) + 1 /\ results'[Len(results')] = res
    <3>1. results \in Seq(Result)
      BY DEF TypeOK
    <3> QED BY <2>1, <3>1
  <2>3. stmt = call.stmts[Len(results) + 1]
    BY <2>1 DEF RunInv, ResultsAreRun
  <2>4. LastRows(T[db], res, stmt)
    BY <2>1 DEF TableInv
  <2>5. LastRows(T[db], results[Len(results)], call.stmts[Len(results)])'
    BY <1>1, <2>2, <2>3, <2>4 DEF LastRows
  <2> QED BY <1>2, <2>1, <2>5 DEF TableInv
<1> QED BY <1>3, <1>4, <1>5 DEF Execute

\* So every step does.
LEMMA NextTable ==
  ASSUME NEW T, NEW S, IsTable(T, S)
  PROVE  TypeOK /\ Connection /\ Underway /\ TableInv(T) /\ [PathNext]_pathVars => TableInv(T)'
<1> SUFFICES ASSUME TypeOK, RunInv, Underway, TableInv(T), [PathNext]_pathVars
             PROVE  TableInv(T)'
  BY DEF Connection
<1>1. CASE (\E c \in Calls : ClientCall(c)) \/ (\E c \in Commands : CommandLine(c))
  <2>1. /\ db' = db /\ (narrow' => narrow /\ given' = given)
        /\ pc' = "idle" \/ (pc' = "stmts" /\ results' = << >>)
    BY <1>1, CallerStep
  <2> QED BY <2>1 DEF TableInv
<1>2. CASE Receive
  BY <1>2 DEF Receive, Return, TableInv
<1>3. CASE UNCHANGED pathVars
  BY <1>3 DEF pathVars, vars, TableInv, LastRows
<1> QED BY <1>1, <1>2, <1>3, RowsKeepTable, ExecuteKeepsTable DEF PathNext

\* What a caller sent, statement by statement, is what the connection executes.
LEMMA SentText ==
  ASSUME TypeOK, Underway, InCall, NEW i \in 1 .. Len(call.stmts)
  PROVE  /\ call.stmts[i].multi = caller.stmts[i].multi
         /\ \A j \in 1 .. Len(call.stmts[i].sql) :
              call.stmts[i].sql[j].text = caller.stmts[i].sql.texts[j]
<1>1. i \in DOMAIN caller.stmts /\ caller.stmts[i] \in Sent
  BY DEF Underway
<1>2. PICK w \in ToProtos(caller.stmts[i]) : call.stmts[i] = Carried(w)
  BY <1>1 DEF Underway
<1>3. w.sql = caller.stmts[i].sql /\ w.multi = caller.stmts[i].multi
  BY <1>1, WireIs
<1>4. /\ call.stmts[i].multi = w.multi
      /\ call.stmts[i].sql = [j \in DOMAIN w.sql.texts |->
                                [text |-> w.sql.texts[j],
                                 args |-> BoundArgs(w.sql.texts[j], w)]]
  BY <1>2 DEF Carried
<1>5. DOMAIN call.stmts[i].sql = 1 .. Len(call.stmts[i].sql)
  <2>1. call.stmts \in Seq(Stmt)
    BY DEF TypeOK, Call
  <2>2. call.stmts[i] \in Stmt
    BY <2>1
  <2> QED BY <2>2 DEF Stmt
<1> QED BY <1>3, <1>4, <1>5

\* So what was listed last reads as what callers gave.
LEMMA LastReadsBack ==
  ASSUME NEW T, TypeOK, RunInv, Underway, TableInv(T), pc = "stmts", results # << >>, narrow,
         call.includeResult,
         Len(results[Len(results)].successes) # 0,
         Lists(caller.stmts[Len(results)].sql.texts[Len(results[Len(results)].successes)])
  PROVE  LET r == results[Len(results)] IN GoRow(r.successes[Len(r.successes)]) = given
<1> DEFINE n == Len(results)
           j == Len(results[n].successes)
<1>1. InCall
  BY DEF InCall
<1>2. /\ n \in 1 .. Len(call.stmts) /\ results[n] \in Result
  <2>1. results \in Seq(Result) /\ n \in 0 .. Len(call.stmts) /\ Len(call.stmts) \in Nat
    BY <1>1, RunTypes DEF RunInv, TypeOK
  <2> QED BY <2>1
<1>3. j \in Nat
  BY <1>2 DEF Result
<1>4. LastRows(T[db], results[n], call.stmts[n]) /\ given = GoRow(T[db])
  BY DEF TableInv
<1>5. call.stmts[n] \in Stmt /\ Len(call.stmts[n].sql) \in Nat
  <2>1. call.stmts \in Seq(Stmt)
    BY DEF TypeOK, Call
  <2>2. call.stmts[n] \in Stmt
    BY <1>2, <2>1
  <2> QED BY <2>2 DEF Stmt
<1>6. j \in 1 .. Len(call.stmts[n].sql)
  BY <1>3, <1>4, <1>5 DEF LastRows
<1>7. Lists(call.stmts[n].sql[j].text)
  BY <1>1, <1>2, <1>6, SentText
<1> QED BY <1>4, <1>7 DEF LastRows

\* The conversion of a result converts each row set.
LEMMA FromProtoRows ==
  ASSUME NEW r \in Result
  PROVE  /\ Len(FromProto(r).successes) = Len(r.successes) /\ Len(r.successes) \in Nat
         /\ \A j \in 1 .. Len(r.successes) : FromProto(r).successes[j] = GoRow(r.successes[j])
         /\ FromProto(r).error = r.error
         /\ DOMAIN FromProto(r) = {"successes", "error"}
<1>1. DOMAIN r.successes = 1 .. Len(r.successes) /\ Len(r.successes) \in Nat
  BY DEF Result
<1> DEFINE rows == [i \in DOMAIN r.successes |-> GoRow(r.successes[i])]
<1>2. /\ Len(rows) = Len(r.successes)
      /\ \A j \in 1 .. Len(r.successes) : rows[j] = GoRow(r.successes[j])
  BY <1>1
<1>3. FromProto(r) = [successes |-> rows, error |-> r.error]
  BY DEF FromProto
<1> HIDE DEF rows
<1> QED BY <1>1, <1>2, <1>3

\* What a caller receives has what it listed last.
LEMMA AnswerReadsBack ==
  ASSUME NEW T, TypeOK, RunInv, Underway, TableInv(T), Receive
  PROVE  ReadsBack'
<1> DEFINE R == [i \in DOMAIN results |->
                   IF call.includeResult THEN FromProto(results[i]) ELSE results[i]]
           n == Len(results)
           m == Len(told'.results)
           Last(x, i) ==
             LET j == Len(x.successes)
             IN  j # 0 /\ Lists(caller.stmts[i].sql.texts[j]) => x.successes[j] = given
<1>1. /\ pc = "stmts" /\ todo = << >> /\ InCall /\ told' = Answer(R)
      /\ UNCHANGED <<caller, call, results, given, narrow>>
  BY DEF Receive, Return, InCall
<1> SUFFICES ASSUME narrow, told'.results # << >>
             PROVE  Last(told'.results[m], m)
  BY <1>1 DEF ReadsBack
<1>2. results \in Seq(Result) /\ n \in Nat /\ DOMAIN results = 1 .. n
  BY DEF TypeOK
<1>3. caller.api # "update"
  BY <1>1 DEF Answer, Told
<1>4. call.includeResult
  BY <1>1, <1>3 DEF Underway, ProperCall, Apis
<1>5. \A i \in 1 .. n : results[i] \in Result /\ R[i] = FromProto(results[i])
  BY <1>2, <1>4
<1>6. n # 0 => n \in 1 .. n /\ results # << >>
  BY <1>2
<1>7. n # 0 => Last(R[n], n)
  <2> SUFFICES ASSUME n # 0, Len(R[n].successes) # 0,
                      Lists(caller.stmts[n].sql.texts[Len(R[n].successes)])
               PROVE  R[n].successes[Len(R[n].successes)] = given
    OBVIOUS
  <2>1. n \in 1 .. n /\ results # << >>
    BY <1>6, Zenon
  <2>2. R[n] = FromProto(results[n]) /\ results[n] \in Result
    BY <1>5, <2>1
  <2> HIDE DEF R
  <2>3. LET r == results[n]
        IN  /\ Len(R[n].successes) = Len(r.successes) /\ Len(r.successes) \in Nat
            /\ \A j \in 1 .. Len(r.successes) : R[n].successes[j] = GoRow(r.successes[j])
    BY <2>2, FromProtoRows
  <2>4. LET r == results[n] IN GoRow(r.successes[Len(r.successes)]) = given
    BY <1>1, <1>4, <2>1, <2>3, LastReadsBack
  <2> QED BY <2>3, <2>4
<1>8. CASE caller.shape = "list"
  <2>1. told'.results = R
    BY <1>1, <1>3, <1>8 DEF Answer, ToldList, Told
  <2>2. Len(R) = n
    BY <1>2
  <2>3. R # << >> => n # 0
    BY <1>2
  <2> HIDE DEF R, n, Last
  <2>4. m = n /\ n # 0
    BY <2>1, <2>2, <2>3
  <2> QED BY <1>7, <2>1, <2>4
<1>9. CASE caller.shape # "list"
  <2>1. Len(call.stmts) = 1
    BY <1>1, <1>9 DEF Underway, ProperCall
  <2>2. n = 1 /\ Len(results) = 1
    BY <1>1, <2>1, SingleResult
  <2>3. results[1] \in Result /\ R[1] = FromProto(results[1]) /\ Last(R[1], 1)
    BY <1>5, <1>7, <2>2
  <2> HIDE DEF R
  <2>4. CASE caller.shape = "simple"
    <3>1. told' = ToldSimple(R[1])
      BY <1>1, <1>3, <1>9, <2>4 DEF Answer
    <3>2. CASE R[1].error # NoError
      <4>1. told'.results = <<[R[1] EXCEPT !.successes = << >>]>>
        BY <3>1, <3>2 DEF ToldSimple, Told
      <4>2. m = 1 /\ told'.results[1].successes = << >>
        BY <2>3, <4>1, FromProtoRows
      <4> QED BY <4>2
    <3>3. CASE R[1].error = NoError
      <4>1. /\ R[1].successes # << >>
            /\ told'.results = <<[R[1] EXCEPT !.successes = <<Head(@)>>]>>
        BY <3>1, <3>3 DEF ToldSimple, Told
      <4>2. Len(R[1].successes) = Len(results[1].successes) /\ Len(R[1].successes) # 0
        BY <2>3, <4>1, FromProtoRows, FromProtoKeeps
      <4>3. LastRows(T[db], results[1], call.stmts[1])
        BY <1>1, <1>2, <2>2 DEF TableInv
      <4>4. ~call.stmts[1].multi
        <5>1. ~caller.stmts[1].multi
          BY <1>1, <2>4 DEF Underway, ProperCall
        <5> QED BY <1>1, <2>1, <5>1, SentText
      <4>5. Len(R[1].successes) = 1
        <5> DEFINE j == Len(results[1].successes)
        <5>1. j <= Len(call.stmts[1].sql) /\ (j # 0 => Len(call.stmts[1].sql) = 1)
          BY <4>3, <4>4 DEF LastRows
        <5>2. j \in Nat
          BY <2>3, FromProtoRows
        <5> HIDE DEF j
        <5>3. Len(R[1].successes) = j /\ j # 0
          BY <4>2 DEF j
        <5>4. Len(call.stmts[1].sql) = 1
          BY <5>1, <5>3
        <5>5. j <= 1
          BY <5>1, <5>4
        <5> QED BY <5>2, <5>3, <5>5
      <4>6. m = 1 /\ told'.results[1].successes = <<Head(R[1].successes)>>
        BY <2>3, <4>1, FromProtoRows
      <4>7. Head(R[1].successes) = R[1].successes[1]
        OBVIOUS
      <4> QED BY <2>3, <4>5, <4>6, <4>7
    <3> QED BY <3>2, <3>3
  <2>5. CASE caller.shape # "simple"
    <3>1. told'.results = <<R[1]>>
      BY <1>1, <1>3, <1>9, <2>5 DEF Answer, ToldMulti, Told
    <3> QED BY <2>3, <3>1
  <2> QED BY <2>4, <2>5
<1> QED BY <1>8, <1>9

\* Nothing else changes what is read back.
LEMMA NextReadsBack ==
  ASSUME NEW T
  PROVE  TypeOK /\ Connection /\ Underway /\ TableInv(T) /\ ReadsBack /\ [PathNext]_pathVars
           => ReadsBack'
<1> SUFFICES ASSUME TypeOK, RunInv, Underway, TableInv(T), ReadsBack, [PathNext]_pathVars
             PROVE  ReadsBack'
  BY DEF Connection
<1>1. ASSUME told' \in {NotTold, Told("refused", << >>)} PROVE ReadsBack'
  <2>1. told'.results = << >>
    BY <1>1 DEF NotTold, Told
  <2> QED BY <2>1, Zenon DEF ReadsBack
<1>2. CASE (\E c \in Calls : ClientCall(c)) \/ (\E c \in Commands : CommandLine(c))
  BY <1>1, <1>2, CallerStep
<1>3. CASE Execute \/ ExecuteRows
  <2>1. InCall /\ UNCHANGED told
    BY <1>3 DEF Execute, ExecuteRows, NextStmt, Prepare, Refuse, StepRows, EndQueries,
                AppendResult, InCall
  <2> QED BY <1>1, <2>1 DEF Underway
<1>4. CASE Receive
  BY <1>4, AnswerReadsBack
<1>5. CASE UNCHANGED pathVars
  BY <1>5 DEF pathVars, ReadsBack
<1> QED BY <1>2, <1>3, <1>4, <1>5 DEF PathNext

\* On any engine with a table, whatever else callers do to it: a caller that lists the
\* table gets the values that callers gave, each of them as it was meant, in order.
THEOREM CallersReadBack == HasTable => (PathSpec => []ReadsBack)
<1> SUFFICES ASSUME HasTable PROVE PathSpec => []ReadsBack
  OBVIOUS
<1>1. PICK T, S : IsTable(T, S)
  BY Zenon DEF HasTable
<1>2. PathInit => Underway /\ TableInv(T) /\ ReadsBack
  <2>1. T[EmptyDB] = << >> /\ GoRow(<< >>) = << >>
    BY <1>1 DEF IsTable, GoRow
  <2> QED BY <2>1 DEF PathInit, Init, NotTold, Told, Underway, InCall, TableInv, ReadsBack
<1>3. TypeOK /\ Connection /\ Underway /\ TableInv(T) /\ [PathNext]_pathVars => TableInv(T)'
  BY <1>1, NextTable
<1>4. TypeOK /\ Connection /\ Underway /\ TableInv(T) /\ ReadsBack /\ [PathNext]_pathVars
        => ReadsBack'
  BY NextReadsBack
<1> QED BY <1>2, <1>3, <1>4, NextUnderway, PathIsConnection, PTL DEF PathSpec
=============================================================================
