--------------------------- MODULE StatementPath ----------------------------
(***************************************************************************)
(* A statement from its caller to the database and its results back: the   *)
(* client's calls (client.go) and the command line convert what they are   *)
(* given (SqliteValues), the workflow executes it on its connection step   *)
(* by step (SqliteDb), and the results are converted for the caller.       *)
(*                                                                         *)
(* How requests travel, wait and get lost is the subject of SqliteWorkflow *)
(* and CallResponse: here one call is served after the other.              *)
(*                                                                         *)
(* A query of SqliteDb is here a text with the values bound to its         *)
(* parameters; the SQL of a statement is [blank, texts].                   *)
(***************************************************************************)
EXTENDS SqliteDb, SqliteValues

CONSTANTS
  Adds(_),   (* the values a query adds to its table, in order             *)
  Lists(_),  (* the text is a query for the table                          *)
  Calls,     (* what callers of the Go client call: [api, shape, stmts]    *)
  Commands   (* what is typed: [api, args, multi, params]                  *)

VARIABLES
  caller,    (* the call in progress, or else the last one                 *)
  told,      (* what it returned                                           *)
  narrow,    (* history: no index was beyond 32 bits                       *)
  given      (* history: the values that callers gave to the queries that  *)
             (* were executed, in the order of the table (while narrow)    *)

pathVars == <<vars, caller, told, given, narrow>>

Mode(api) ==
  [readOnly |-> api = "query", includeResult |-> api \in {"query", "exec"}]

\* What SqliteDb is given for a statement on the wire.
Carried(w) ==
  [blank |-> w.sql.blank, multi |-> w.multi,
   sql |-> [i \in DOMAIN w.sql.texts |->
              [text |-> w.sql.texts[i], args |-> BoundArgs(w.sql.texts[i], w)]],
   params |-> IF ~HasParams(w) THEN "none"
              ELSE IF w.sql.texts # << >> /\ ~Binds(Head(w.sql.texts), w) THEN "bad"
              ELSE "good"]

\* The Go values of a row of columns.
GoRow(row) == [i \in DOMAIN row |-> FromProtoValue(ColumnValue(row[i]))]

FromProto(r) ==
  [successes |-> [i \in DOMAIN r.successes |-> GoRow(r.successes[i])], error |-> r.error]

Told(kind, rs) == [kind |-> kind, results |-> rs]
NotTold == Told("nothing", << >>)

\* Every statement that a caller sends.
SentByCommands ==
  {toStmt(c.args, c.multi, c.params) :
     c \in {k \in Commands : ~Refuses(k.args, k.multi, k.params)}}
Sent == SentByCommands \cup UNION {{c.stmts[i] : i \in DOMAIN c.stmts} : c \in Calls}

Apis == {"query", "update", "exec"}

\* Callers send sequences of statements, one unless they send a list, which has one
\* query in the simple forms; a value is a Go value; and an engine has the queries that
\* the texts are with what is bound to them.
ASSUME PathAssumption ==
  /\ \A c \in Calls :
       /\ c.api \in Apis /\ c.stmts \in Seq(Sent)
       /\ c.shape # "list" => Len(c.stmts) = 1
       /\ c.shape = "simple" => ~c.stmts[1].multi
  /\ \A c \in Commands : c.api \in Apis
  /\ \A s \in Sent :
       /\ DOMAIN s = {"sql", "indexed", "named", "multi"}
       /\ s.multi \in BOOLEAN /\ s.sql.blank \in BOOLEAN
       /\ s.sql.texts \in Seq({s.sql.texts[i] : i \in DOMAIN s.sql.texts})
       /\ \A v \in Values(s) : v = Value(v.kind, v.data) /\ (v.kind = "nil" => v = Nil)
       /\ \A w \in ToProtos(s), i \in DOMAIN s.sql.texts :
            Convertible(s) =>
              [text |-> s.sql.texts[i], args |-> BoundArgs(s.sql.texts[i], w)] \in Query

-----------------------------------------------------------------------------
(* What the calls return.                                                  *)

\* Exec and Query return all results; Update has none.
ToldList(rs) == Told("results", rs)

\* Mutant of ToldSimple: the first success is looked at before the error.
ToldSimpleFirst(r) ==
  IF r.successes = << >> THEN Told("panic", << >>)
  ELSE IF r.error # NoError THEN Told("error", <<[r EXCEPT !.successes = << >>]>>)
  ELSE Told("success", <<[r EXCEPT !.successes = <<Head(@)>>]>>)

\* ExecSimple and QuerySimple: the error, or else the first success, which is
\* taken without a look at how many there are.
ToldSimple(r) ==
  IF r.error # NoError THEN Told("error", <<[r EXCEPT !.successes = << >>]>>)
  ELSE IF r.successes = << >> THEN Told("panic", << >>)
  ELSE Told("success", <<[r EXCEPT !.successes = <<Head(@)>>]>>)

\* ExecMulti, QueryMulti and the commands: what succeeded, and the error.
ToldMulti(r) == Told(IF r.error # NoError THEN "error" ELSE "success", <<r>>)

Answer(rs) ==
  CASE caller.api = "update" -> Told("sent", << >>)
    [] caller.api # "update" /\ caller.shape = "list" -> ToldList(rs)
    [] caller.api # "update" /\ caller.shape = "simple" -> ToldSimple(rs[1])
    [] OTHER -> ToldMulti(rs[1])

-----------------------------------------------------------------------------
PathInit ==
  /\ Init
  /\ caller = [api |-> "none", shape |-> "list", stmts |-> << >>] /\ told = NotTold
  /\ given = << >> /\ narrow = TRUE

\* StmtsToProto, and on success the request.
Send(api, shape, stmts) ==
  /\ pc = "idle"
  /\ caller' = [api |-> api, shape |-> shape, stmts |-> stmts]
  /\ IF NoStatements(stmts) \/ ~StmtsConvertible(stmts)
       THEN told' = Told("refused", << >>) /\ UNCHANGED <<vars, narrow, given>>
       ELSE /\ told' = NotTold
            /\ narrow' = (narrow /\ \A i \in DOMAIN stmts :
                            \A k \in DOMAIN stmts[i].indexed : k \in 0 .. Uint32Range - 1)
            /\ given' = IF narrow' THEN given ELSE << >>
            /\ \E ws \in StmtsToProtos(stmts) :
                 Start([i \in DOMAIN ws |-> Carried(ws[i])], Mode(api))

ClientCall(c) == Send(c.api, c.shape, c.stmts)

\* A command line that is refused never gets to StmtsToProto.
CommandLine(c) ==
  IF Refuses(c.args, c.multi, c.params)
    THEN /\ pc = "idle"
         /\ caller' = [api |-> c.api, shape |-> "command", stmts |-> << >>]
         /\ told' = Told("refused", << >>)
         /\ UNCHANGED <<vars, given, narrow>>
    ELSE Send(c.api, "command", <<toStmt(c.args, c.multi, c.params)>>)

\* The value a caller means: what the comments on Values and Rows promise.
Meant(v) == IF v.kind \in {"bool", "uint"} THEN Value("int", v.data) ELSE v
MeantArgs(text, s) ==
  [i \in 1 .. Count(text) |->
     IF \E n \in DOMAIN s.named : Index(text, n) = i
       THEN Meant(s.named[CHOOSE n \in DOMAIN s.named : Index(text, n) = i])
     ELSE IF i \in DOMAIN s.indexed THEN Meant(s.indexed[i])
     ELSE Nil]

Statement == caller.stmts[Len(results) + 1]

\* execAll on the workflow's connection.
Execute ==
  /\ NextStmt \/ Prepare \/ Refuse \/ EndQueries \/ AppendResult
  /\ UNCHANGED <<caller, told, given, narrow>>

ExecuteRows ==
  /\ StepRows
  /\ given' = IF narrow /\ Len(res'.successes) > Len(res.successes)
                THEN given \o Adds([text |-> Head(sql).text,
                                    args |-> MeantArgs(Head(sql).text, Statement)])
                ELSE given
  /\ UNCHANGED <<caller, told, narrow>>

\* The response reaches the caller.
Receive ==
  /\ Return
  /\ told' = Answer([i \in DOMAIN results |->
                       IF call.includeResult THEN FromProto(results[i]) ELSE results[i]])
  /\ UNCHANGED <<caller, given, narrow>>

PathNext ==
  \/ \E c \in Calls : ClientCall(c)
  \/ \E c \in Commands : CommandLine(c)
  \/ Execute \/ ExecuteRows \/ Receive

PathSpec == PathInit /\ [][PathNext]_pathVars
-----------------------------------------------------------------------------
(* Properties.                                                             *)

\* T is the table of an engine, with values of S: a query that succeeds adds at its end
\* what it adds, in terms of what is bound to it; one that fails adds nothing; and one
\* that lists it returns it as it is.
IsTable(T, S) ==
  /\ T \in [DB -> Seq(S)] /\ T[EmptyDB] = << >>
  /\ \A q \in Query : Adds(q) \in Seq(S) /\ Adds([q EXCEPT !.args = GoRow(@)]) = GoRow(Adds(q))
  /\ \A d \in DB, q \in Query :
       /\ T[Effect(d, q)] = IF StepOk(d, q) THEN T[d] \o Adds(q) ELSE T[d]
       /\ Lists(q.text) => Adds(q) = << >> /\ Rows(d, q) = T[d]
HasTable == \E T, S : IsTable(T, S)

\* A caller that lists the table gets what callers gave, in the same order,
\* whether as an argument, by index, by name or on a command line: neither the
\* conversions on the way in, which change the width of indexes, nor binding, the
\* statement loops or the conversions on the way out give a value to another
\* parameter or as another value.  Indexes beyond 32 bits are excepted.
ReadsBack ==
  narrow /\ told.results # << >> =>
    LET i == Len(told.results)
        rows == told.results[i].successes
        j == Len(rows)
    IN  j # 0 /\ Lists(caller.stmts[i].sql.texts[j]) => rows[j] = given

\* A caller with one statement is told of success only if all its SQL was
\* executed, is told of an error only if some was not, and gets a panic for
\* nothing but SQL without a query, and then only from ExecSimple or QuerySimple.
ToldTheTruth ==
  caller.shape # "list" /\ told.kind \in {"success", "error", "panic"} =>
    LET executed == Len(results[1].successes)
        wanted == Len(call.stmts[1].sql)
    IN  CASE told.kind = "success" -> executed = wanted /\ ~call.stmts[1].blank
          [] told.kind = "error" -> executed < wanted \/ Malformed(call.stmts[1]) # NoError
          [] OTHER -> wanted = 0 /\ caller.shape = "simple"
=============================================================================
