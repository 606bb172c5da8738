-------------------------- MODULE MCStatementPath ---------------------------
(***************************************************************************)
(* StatementPath on a small engine: a table of different values with room  *)
(* for two, a temporary table, and queries that take none, one or two      *)
(* parameters.  Integers go up to 1, indexes on the wire up to 3.          *)
(***************************************************************************)
EXTENDS StatementPath

\* What can be stored; two of them suffice for an order.  The negative integer is one
\* that no caller gives.
Stored == {Null, Value("int", 1), Value("int", -2), Value("string", 7)}
Tables == {<< >>} \cup {<<v>> : v \in Stored}
            \cup {<<p[1], p[2]>> : p \in {q \in Stored \X Stored : q[1] # q[2]}}
MCDB == [main: Tables, temp: BOOLEAN]
MCEmptyDB == [main |-> << >>, temp |-> FALSE]

Texts == {"insert", "named", "insert2", "mixed", "literal", "select", "selectTemp",
          "createTemp", "random", "bad"}
MCCount(text) == CASE text \in {"insert", "named"} -> 1
                   [] text \in {"insert2", "mixed"} -> 2
                   [] OTHER -> 0
MCIndex(text, name) == IF name # ":v" THEN 0
                       ELSE CASE text = "named" -> 1 [] text = "mixed" -> 2 [] OTHER -> 0

Args == {<< >>} \cup {<<v>> : v \in Stored} \cup (Stored \X Stored)
MCQuery == {q \in [text: Texts, args: Args] : Len(q.args) = MCCount(q.text)}
MCRowSet == Tables \cup {<< >>}

MCAdds(q) == CASE Len(q.args) > 0 -> q.args
               [] q.text = "literal" -> <<Value("int", 1)>>
               [] OTHER -> << >>
Fits(d, q) == LET t == d.main \o MCAdds(q) IN
  Len(t) <= 2 /\ \A i, j \in DOMAIN t : i # j => t[i] # t[j]

MCPrepares(d, q) ==
  /\ q.text # "bad"
  /\ q.text = "selectTemp" => d.temp
  /\ q.text = "createTemp" => ~d.temp
MCMutates(q) == q.text \in {"insert", "named", "insert2", "mixed", "literal", "createTemp"}
MCNonDet(q) == q.text = "random"
MCStepOk(d, q) == MCAdds(q) # << >> => Fits(d, q)
MCEffect(d, q) ==
  IF MCAdds(q) # << >> /\ Fits(d, q) THEN [d EXCEPT !.main = @ \o MCAdds(q)]
  ELSE IF q.text = "createTemp" THEN [d EXCEPT !.temp = TRUE]
  ELSE d
MCRows(d, q) == IF q.text = "select" THEN d.main ELSE << >>
MCLists(text) == text = "select"

\* Go values: two that are the same integer, one that is too large, one that
\* has no SQLite value.
Go == {Nil, Value("bool", 1), Value("uint", 1), Value("uint", 2), Value("string", 7),
       Value("struct", 0)}
GoPairs == {<<v, w>> : v \in {Nil, Value("bool", 1)}, w \in {Value("string", 7), Value("uint", 2)}}

SQL(texts) == [blank |-> FALSE, texts |-> texts]
Blank == [blank |-> TRUE, texts |-> << >>]
T(text) == SQL(<<text>>)
By(s, indexed) == NewSingleStmt(s, indexed)
Named(s, name, v) == [By(s, NoParams) EXCEPT !.named = [n \in {name} |-> v]]

Simple == {By(T("insert"), <<v>>) : v \in Go} \cup {By(T("insert2"), p) : p \in GoPairs}
  \cup {By(s, << >>) : s \in {T("literal"), T("createTemp"), T("selectTemp"), T("select"),
                             T("random"), T("bad"), SQL(<< >>), Blank,
                             SQL(<<"literal", "select">>)}}
  \cup {By(T("insert"), <<Nil, Nil>>), By(T("select"), <<Nil>>)}
Multis == {NewMultiStmt(s) : s \in {SQL(<<"literal", "select">>), SQL(<<"select", "random", "literal">>),
                                    SQL(<<"random", "select">>), SQL(<< >>)}}

\* Indexes 1 and 5 are the same in 32 bits, -3 is 1 as well.
Far == {By(T("insert"), [i \in {1, 5} |-> IF i = 1 THEN Nil ELSE Value("int", 1)]),
        By(T("insert"), [i \in {-3} |-> Value("string", 7)])}
Listed == {By(T("insert"), [i \in {0} |-> Nil]), By(T("insert2"), [i \in {2} |-> Value("string", 7)]),
           Named(T("named"), ":v", Value("uint", 1)), Named(T("named"), ":w", Nil),
           Named(T("mixed"), ":v", Value("struct", 0)),
           [Named(T("mixed"), ":v", Value("string", 7)) EXCEPT !.indexed = <<Value("bool", 1)>>],
           [Named(T("mixed"), ":v", Value("string", 7)) EXCEPT !.indexed = <<Nil, Nil>>],
           [NewMultiStmt(SQL(<<"literal", "select">>)) EXCEPT !.indexed = <<Nil>>]}
Lists2 == {<<s, t>> : s \in {By(T("bad"), << >>), By(Blank, << >>), By(T("literal"), << >>)},
                      t \in {By(T("insert"), <<Nil>>), By(T("select"), << >>)}}

Call1(api, shape, s) == [api |-> api, shape |-> shape, stmts |-> <<s>>]
MCCalls ==
  {[api |-> "exec", shape |-> "list", stmts |-> l] : l \in {<< >>} \cup Lists2}
  \cup {Call1("exec", "list", s) : s \in Listed \cup Far}
  \cup {Call1("exec", "simple", s) : s \in Simple} \cup {Call1("exec", "multi", s) : s \in Multis}
  \cup {Call1("query", "simple", By(T(t), << >>)) : t \in {"select", "literal", "random"}}
  \cup {Call1("query", "multi", s) : s \in Multis}
  \cup {[api |-> "query", shape |-> "list", stmts |-> l] : l \in Lists2}
  \cup {Call1("update", "simple", By(T("insert"), <<v>>)) : v \in {Nil, Value("struct", 0)}}
  \cup {Call1("update", "multi", s) : s \in Multis}

Param(form, index, name, v) ==
  [form |-> form, number |-> name = "", index |-> index, name |-> name, value |-> v]
Typed == {<<Param("typed", 1, "", Value("int", 1))>>,
          <<Param("typed", 0, ":v", Value("string", 7)), Param("null", 1, "", Nil)>>,
          <<Param("typed", 1, "", Value("int", 1)), Param("typed", 1, "", Value("string", 7))>>,
          <<Param("noEquals", 1, "", Nil)>>, <<Param("noParenthesis", 1, "", Nil)>>,
          <<Param("badType", 1, "", Nil)>>,
          <<Param("typed", 1, "", Value("int", 1)), Param("badValue", 2, "", Nil)>>}
MCCommands ==
  {[api |-> a, args |-> <<T(t)>>, multi |-> m, params |-> ps] :
     a \in {"query", "exec"}, t \in {"mixed"}, m \in BOOLEAN, ps \in Typed \cup {<< >>}}
  \cup {[api |-> "exec", args |-> as, multi |-> FALSE, params |-> << >>] :
          as \in {<< >>, <<T("select"), T("select")>>, <<SQL(<< >>)>>}}

\* The engine has a table.
ASSUME TableAssumption == IsTable([d \in MCDB |-> d.main], Stored)
=============================================================================
