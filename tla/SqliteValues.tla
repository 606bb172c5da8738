---------------------------- MODULE SqliteValues ----------------------------
(***************************************************************************)
(* How what a caller or the command line gives as a parameter becomes a    *)
(* parameter of a SQLite query, and how a column becomes a Go value again: *)
(* temporalsqlite/stmt.go, toStmt of cmd/temporalsqlite/client_query.go,   *)
(* and bindParams and stmtRow of temporalsqlite/db.go.                     *)
(*                                                                         *)
(* A value is a kind and data; data is a number, which stands for itself   *)
(* or for a float, a string or bytes.  A Go value is what is at the end of *)
(* a chain of pointers, "nil" if the chain or the value is nil.            *)
(***************************************************************************)
EXTENDS Integers, Sequences, FiniteSetsExt

CONSTANTS
  MaxInt64,     (* 2^63 - 1: the largest integer SQLite has                *)
  Uint32Range,  (* 2^32: an index is a Go int here and a uint32 on the wire *)
  Count(_),     (* how many parameters a query has: 1 .. Count(q)          *)
  Index(_, _)   (* index of the parameter with a name, 0 if there is none  *)

ASSUME ValueAssumption == MaxInt64 \in Nat /\ Uint32Range \in Nat \ {0}

Value(kind, data) == [kind |-> kind, data |-> data]
Nil == Value("nil", 0)     \* a Go nil
Null == Value("null", 0)   \* a NullValue, a SQL NULL
Invalid == Value("invalid", 0)  \* no protobuf value: the conversion fails

\* Mutant of ToProtoValue: an unsigned value is converted without a look.
ToProtoValueWraps(v) ==
  CASE v.kind = "nil" -> Null
    [] v.kind \in {"bool", "int"} -> Value("int", v.data)
    [] v.kind = "uint" -> Value("int", IF v.data > MaxInt64 THEN v.data - 2 * (MaxInt64 + 1)
                                                            ELSE v.data)
    [] v.kind \in {"float", "string", "bytes"} -> v
    [] OTHER -> Invalid

\* A bool is stored as 0 or 1.  Structs, maps, other slices and interfaces
\* behind a pointer have no SQLite value.
ToProtoValue(v) ==
  CASE v.kind = "nil" -> Null
    [] v.kind \in {"bool", "int"} -> Value("int", v.data)
    [] v.kind = "uint" -> IF v.data > MaxInt64 THEN Invalid ELSE Value("int", v.data)
    [] v.kind \in {"float", "string", "bytes"} -> v
    [] OTHER -> Invalid

FromProtoValue(v) == IF v.kind = "null" THEN Nil ELSE v

\* The value of a column of a row (stmtRow), which has one of five types.
ColumnValue(v) == IF v.kind \in {"null", "int", "float", "string", "bytes"} THEN v ELSE Invalid

-----------------------------------------------------------------------------
(* Statements of callers: [sql, indexed, named, multi], the parameters     *)
(* being functions from indexes and from names to values.                  *)

NoParams == [i \in {} |-> Nil]

\* The i-th argument is the parameter i; a sequence is a function.
NewSingleStmt(sql, args) ==
  [sql |-> sql, indexed |-> args, named |-> NoParams, multi |-> FALSE]

NewMultiStmt(sql) == [sql |-> sql, indexed |-> NoParams, named |-> NoParams, multi |-> TRUE]

-----------------------------------------------------------------------------
(* The command line: its arguments, the flag --multi, and a parameter per  *)
(* --param, [form, number, index, name, value].  "form" says how far it is *)
(* as it should be; a name that is a number is an index.                   *)

Splits(p) == p.form # "noEquals"
Parses(p) == p.form \notin {"noParenthesis", "badType", "badValue"}

\* What some of the parameters (their positions) assign to a key: the last wins.
Assigned(params, positions) == params[Max(positions)].value

Refuses(args, multi, params) ==
  \/ Len(args) # 1
  \/ multi /\ params # << >>
  \/ \E i \in DOMAIN params : ~Splits(params[i]) \/ ~Parses(params[i])

toStmt(args, multi, params) ==
  LET byNumber == {i \in DOMAIN params : params[i].number}
      byName == DOMAIN params \ byNumber
      AtIndex(n) == {i \in byNumber : params[i].index = n}
      AtName(n) == {i \in byName : params[i].name = n}
  IN  [sql |-> args[1], multi |-> multi,
       indexed |-> [n \in {params[i].index : i \in byNumber} |-> Assigned(params, AtIndex(n))],
       named |-> [n \in {params[i].name : i \in byName} |-> Assigned(params, AtName(n))]]

-----------------------------------------------------------------------------
(* The request: statements on the wire have the same fields, with protobuf *)
(* values and with indexes of 32 bits.                                     *)

Uint32(k) == k % Uint32Range

Values(s) == {s.indexed[k] : k \in DOMAIN s.indexed} \cup {s.named[n] : n \in DOMAIN s.named}
Convertible(s) == \A v \in Values(s) : ToProtoValue(v) # Invalid

\* Indexes that are the same in 32 bits overwrite one another in the order of
\* Go's map, which is any order: the outcomes of ToProto.
ToProtos(s) ==
  LET wire == {Uint32(k) : k \in DOMAIN s.indexed}
      last == {f \in [wire -> DOMAIN s.indexed] : \A i \in wire : Uint32(f[i]) = i}
  IN  {[s EXCEPT !.indexed = [i \in wire |-> ToProtoValue(s.indexed[f[i]])],
                 !.named = [n \in DOMAIN s.named |-> ToProtoValue(s.named[n])]] : f \in last}

NoStatements(stmts) == stmts = << >>
StmtsConvertible(stmts) == \A i \in DOMAIN stmts : Convertible(stmts[i])
StmtsToProtos(stmts) ==
  {ws \in [DOMAIN stmts -> UNION {ToProtos(stmts[i]) : i \in DOMAIN stmts}] :
     \A i \in DOMAIN stmts : ws[i] \in ToProtos(stmts[i])}

-----------------------------------------------------------------------------
(* Binding (external: an index or name that a query does not have is an    *)
(* error before the first row, a parameter that is not bound is NULL).     *)

HasParams(w) == DOMAIN w.indexed # {} \/ DOMAIN w.named # {}

Binds(q, w) ==
  /\ \A i \in DOMAIN w.indexed : i \in 1 .. Count(q)
  /\ \A n \in DOMAIN w.named : Index(q, n) # 0

\* bindParams binds by index, and then by name.
BoundArgs(q, w) ==
  [i \in 1 .. Count(q) |->
     IF \E n \in DOMAIN w.named : Index(q, n) = i
       THEN w.named[CHOOSE n \in DOMAIN w.named : Index(q, n) = i]
     ELSE IF i \in DOMAIN w.indexed THEN w.indexed[i]
     ELSE Null]
=============================================================================
