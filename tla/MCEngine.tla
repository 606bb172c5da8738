------------------------------ MODULE MCEngine ------------------------------
(***************************************************************************)
(* A small SQL engine for the models: one table with a primary key, one    *)
(* temporary table (state of the connection that is not in the file), and  *)
(* queries that reach every exit of execSingle.                            *)
(***************************************************************************)
EXTENDS Sequences

Keys == {"k1", "k2"}

\* The rows of the table in insertion order, and whether the temp table exists.
MCDB ==
  [main: {<< >>} \cup {<<k>> : k \in Keys}
           \cup {<<"k1", "k2">>, <<"k2", "k1">>},
   temp: BOOLEAN]
MCEmptyDB == [main |-> << >>, temp |-> FALSE]

MCQuery == Keys \cup {"select", "selectTemp", "createTemp", "random", "bad"}
MCRowSet == {d.main : d \in MCDB}

HasKey(d, k) == \E i \in DOMAIN d.main : d.main[i] = k

MCPrepares(d, q) ==
  /\ q # "bad"
  /\ q = "selectTemp" => d.temp
  /\ q = "createTemp" => ~d.temp
MCMutates(q) == q \in Keys \cup {"createTemp"}
MCNonDet(q) == q = "random"
MCStepOk(d, q) == q \in Keys => ~HasKey(d, q)
MCEffect(d, q) ==
  IF q \in Keys /\ ~HasKey(d, q) THEN [d EXCEPT !.main = Append(@, q)]
  ELSE IF q = "createTemp" THEN [d EXCEPT !.temp = TRUE]
  ELSE d
MCRows(d, q) == IF q = "select" THEN d.main ELSE << >>

\* Serialising a connection writes its file, not its temporary table.
MCImage(d) == [d EXCEPT !.temp = FALSE]

\* One state of each kind is enough to see what these failures do.
MCSerializes(d) == d.main # <<"k1">>
MCOpens(d) == d.main # <<"k2", "k1">>

Sql(queries) == [blank |-> FALSE, sql |-> queries, multi |-> FALSE, params |-> "none"]
Multi(queries) == [Sql(queries) EXCEPT !.multi = TRUE]
=============================================================================
