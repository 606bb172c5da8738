------------------------------ MODULE Induction ------------------------------
(***************************************************************************)
(* Induction over numbers and functions defined by recursion, stated with  *)
(* sets and functions instead of operators, so that a proof can cite them  *)
(* about any state: the SQL engine's runs over the queries of a statement  *)
(* and the statements of a call, and a database's calls.                   *)
(***************************************************************************)
EXTENDS Integers, WellFoundedInduction, TLAPS

\* A set that has zero and with every number its successor has all numbers.
LEMMA SetInduction ==
  ASSUME NEW S, 0 \in S, \A n \in Nat : n \in S => n + 1 \in S
  PROVE  Nat \subseteq S
<1> DEFINE R == OpToRel(<, Nat)
           T == Nat \ S
<1>1. IsWellFoundedOn(R, Nat)
  BY NatLessThanWellFounded, Zenon
<1>2. \A x, y \in Nat : x < y => <<x, y>> \in R
  BY DEF OpToRel
<1> SUFFICES ASSUME T # {} PROVE FALSE
  OBVIOUS
<1> HIDE DEF R
<1>3. PICK x \in T : \A y \in T : ~ (<<y, x>> \in R)
  <2>1. T \subseteq Nat
    OBVIOUS
  <2> HIDE DEF T
  <2> QED BY <1>1, <2>1, WFMin
<1>4. x \in Nat /\ x # 0 /\ x - 1 \in Nat /\ x - 1 < x
  OBVIOUS
<1>5. x - 1 \in T
  BY <1>4
<1> QED BY <1>2, <1>3, <1>4, <1>5

\* The same up to a number.
LEMMA IntervalInduction ==
  ASSUME NEW k \in Nat, NEW S, 0 \in S, \A i \in 0 .. k - 1 : i \in S => i + 1 \in S
  PROVE  0 .. k \subseteq S
<1> DEFINE T == {n \in Nat : n <= k => n \in S}
<1>1. 0 \in T
  OBVIOUS
<1>2. \A n \in Nat : n \in T => n + 1 \in T
  OBVIOUS
<1> HIDE DEF T
<1>3. Nat \subseteq T
  BY <1>1, <1>2, SetInduction
<1> QED BY <1>3 DEF T

\* Two functions that agree at zero and, where they agree at a number, at the next.
LEMMA RecursionUnique ==
  ASSUME NEW k \in Nat, NEW f, NEW h, f[0] = h[0],
         \A i \in 0 .. k - 1 : f[i] = h[i] => f[i + 1] = h[i + 1]
  PROVE  \A i \in 0 .. k : f[i] = h[i]
<1> DEFINE T == {i \in 0 .. k : f[i] = h[i]}
<1>1. 0 \in T
  OBVIOUS
<1>2. \A i \in 0 .. k - 1 : i \in T => i + 1 \in T
  OBVIOUS
<1> HIDE DEF T
<1>3. 0 .. k \subseteq T
  BY <1>1, <1>2, IntervalInduction
<1> QED BY <1>3 DEF T

\* f has values in S, is a at zero, and each of its values up to n is the image of the
\* previous one under the step's function.
IsRecursion(f, n, S, a, step) ==
  /\ f \in [0 .. n -> S] /\ f[0] = a
  /\ \A i \in 1 .. n : f[i] = step[i][f[i - 1]]

\* Such a function exists.
LEMMA RecursionExists ==
  ASSUME NEW n \in Nat, NEW S, NEW a \in S, NEW step \in [1 .. n -> [S -> S]]
  PROVE  \E f : IsRecursion(f, n, S, a, step)
<1> DEFINE Is(f, k) == f[0] = a /\ \A i \in 1 .. k : f[i] = step[i][f[i - 1]]
           T == {k \in 0 .. n : \E f \in [0 .. k -> S] : Is(f, k)}
<1>1. 0 \in T
  <2>1. [i \in 0 .. 0 |-> a] \in [0 .. 0 -> S] /\ Is([i \in 0 .. 0 |-> a], 0)
    OBVIOUS
  <2>2. 0 \in 0 .. n
    OBVIOUS
  <2> HIDE DEF Is
  <2> QED BY <2>1, <2>2
<1>2. ASSUME NEW k \in 0 .. n - 1, k \in T PROVE k + 1 \in T
  <2>1. PICK f \in [0 .. k -> S] : Is(f, k)
    BY <1>2
  <2>2. step[k + 1] \in [S -> S] /\ f[k] \in S
    OBVIOUS
  <2> DEFINE h == [i \in 0 .. k + 1 |-> IF i = k + 1 THEN step[k + 1][f[k]] ELSE f[i]]
  <2>3. h \in [0 .. k + 1 -> S]
    BY <2>2
  <2>4. h[0] = a /\ \A i \in 1 .. k + 1 : h[i] = step[i][h[i - 1]]
    BY <2>1
  <2>5. Is(h, k + 1)
    <3> HIDE DEF h
    <3> QED BY <2>3, <2>4
  <2>6. k + 1 \in 0 .. n
    OBVIOUS
  <2> HIDE DEF h, Is
  <2> QED BY <2>3, <2>5, <2>6
<1>3. 0 .. n \subseteq T
  <2> HIDE DEF T
  <2> QED BY <1>1, <1>2, IntervalInduction
<1>4. n \in T
  BY <1>3
<1> QED BY <1>4 DEF IsRecursion
=============================================================================
