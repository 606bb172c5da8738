---------------------------- MODULE MCSqliteDb -----------------------------
(* SqliteDb on the small engine, with statements for every exit. *)
EXTENDS SqliteDb, MCEngine

\* Statements that succeed, and statements that fail at each point of the code.
Good == {Sql(<<k>>) : k \in Keys} \cup {Sql(<<"select">>), Sql(<<"createTemp">>)}
Odd == {NoStmt, Sql(<< >>), Sql(<<"selectTemp">>), Sql(<<"random">>), Sql(<<"bad">>),
        Sql(<<"k1", "k2">>), [Sql(<<"k1">>) EXCEPT !.params = "bad"],
        [Multi(<<"k2">>) EXCEPT !.params = "good"],
        Multi(<<"k1", "k2">>), Multi(<<"k1", "random", "k2">>),
        Multi(<<"select", "k2">>), Multi(<<"random", "select">>)}

MCRequests == {<<s>> : s \in Good \cup Odd} \cup {<<s, t>> : s \in Good \cup Odd, t \in Good}
                \cup {<<NoStmt, s, t>> : s \in Odd, t \in Good}
=============================================================================
