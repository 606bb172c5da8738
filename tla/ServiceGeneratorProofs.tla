----------------------- MODULE ServiceGeneratorProofs -----------------------
(***************************************************************************)
(* For every set of files: what one generating function refers to, another *)
(* declares, and none declares what another does.                          *)
(*                                                                         *)
(* genService's list of calls is taken to pieces first: it lists a set of  *)
(* pairs of a function and a method, each once (ServiceLists).  Of that    *)
(* set two things are shown.  A name has one owner: from a name and the    *)
(* option of the method in it one can tell the function that declares it   *)
(* (OneOwner).  And a service without errors has all the methods and       *)
(* fields its functions refer to (StepResolved).  The invariant then says  *)
(* how far the generator has come.                                         *)
(***************************************************************************)
EXTENDS ServiceGenerator, Induction, TLAPS

-----------------------------------------------------------------------------
(* Sequences that list a set.                                              *)

\* The sequence s has every member of E once, and nothing else.
Lists(s, E) ==
  /\ s \in Seq(E)
  /\ \A e \in E : \E i \in 1 .. Len(s) : s[i] = e
  /\ \A i, j \in 1 .. Len(s) : s[i] = s[j] => i = j

\* What is listed is the range of the sequence.
LEMMA ListedIsRange ==
  ASSUME NEW s, NEW E, Lists(s, E)
  PROVE  Range(s) = E /\ DOMAIN s = 1 .. Len(s) /\ Len(s) \in Nat
<1>1. s \in [1 .. Len(s) -> E] /\ Len(s) \in Nat
  BY DEF Lists
<1> QED BY <1>1 DEF Lists, Range

\* The empty sequence lists nothing.
LEMMA EmptyLists == Lists(<< >>, {})
BY DEF Lists

\* A sequence and then another one list what both do, if they share nothing.
LEMMA ConcatLists ==
  ASSUME NEW s, NEW E, NEW t, NEW F, Lists(s, E), Lists(t, F), E \cap F = {}
  PROVE  Lists(s \o t, E \cup F)
<1> DEFINE U == E \cup F
<1>1. /\ s \in Seq(U) /\ t \in Seq(U) /\ Len(s) \in Nat /\ Len(t) \in Nat
      /\ \A i \in 1 .. Len(s) : s[i] \in E
      /\ \A i \in 1 .. Len(t) : t[i] \in F
  <2>1. s \in Seq(E) /\ t \in Seq(F)
    BY DEF Lists
  <2> QED BY <2>1
<1> HIDE DEF U
<1>2. /\ s \o t \in Seq(U) /\ Len(s \o t) = Len(s) + Len(t)
      /\ \A i \in 1 .. Len(s) : (s \o t)[i] = s[i]
      /\ \A i \in 1 .. Len(t) : (s \o t)[Len(s) + i] = t[i]
      /\ \A i \in 1 .. Len(s \o t) :
           i \in 1 .. Len(s) \/ (i - Len(s) \in 1 .. Len(t) /\ i = Len(s) + (i - Len(s)))
  BY <1>1
<1> DEFINE r == s \o t
<1> HIDE DEF r
<1>3. ASSUME NEW e \in U PROVE \E i \in 1 .. Len(r) : r[i] = e
  <2>1. CASE e \in E
    <3>1. PICK i \in 1 .. Len(s) : s[i] = e
      BY <2>1 DEF Lists
    <3>2. i \in 1 .. Len(r) /\ r[i] = e
      BY <1>1, <1>2, <3>1 DEF r
    <3> QED BY <3>2
  <2>2. CASE e \in F
    <3>1. PICK i \in 1 .. Len(t) : t[i] = e
      BY <2>2 DEF Lists
    <3>2. Len(s) + i \in 1 .. Len(r) /\ r[Len(s) + i] = e
      BY <1>1, <1>2, <3>1 DEF r
    <3> QED BY <3>2
  <2> QED BY <2>1, <2>2 DEF U
<1>4. ASSUME NEW i \in 1 .. Len(r), NEW j \in 1 .. Len(r), r[i] = r[j] PROVE i = j
  <2> DEFINE k == i - Len(s)
             l == j - Len(s)
  <2>1. /\ \/ (i \in 1 .. Len(s) /\ r[i] = s[i])
           \/ (k \in 1 .. Len(t) /\ i = Len(s) + k /\ r[i] = t[k])
        /\ \/ (j \in 1 .. Len(s) /\ r[j] = s[j])
           \/ (l \in 1 .. Len(t) /\ j = Len(s) + l /\ r[j] = t[l])
    BY <1>2 DEF r
  <2> HIDE DEF k, l
  <2>0. /\ \A x, y \in 1 .. Len(s) : s[x] = s[y] => x = y
        /\ \A x, y \in 1 .. Len(t) : t[x] = t[y] => x = y
    BY DEF Lists
  <2>2. CASE i \in 1 .. Len(s) /\ r[i] = s[i] /\ j \in 1 .. Len(s) /\ r[j] = s[j]
    <3>1. s[i] = s[j]
      BY <1>4, <2>2
    <3> QED BY <2>0, <2>2, <3>1
  <2>3. CASE k \in 1 .. Len(t) /\ i = Len(s) + k /\ r[i] = t[k]
             /\ l \in 1 .. Len(t) /\ j = Len(s) + l /\ r[j] = t[l]
    <3>1. t[k] = t[l]
      BY <1>4, <2>3
    <3>2. k = l
      BY <2>0, <2>3, <3>1
    <3> QED BY <2>3, <3>2
  <2>4. \A e \in E, f \in F : e # f
    OBVIOUS
  <2> QED BY <1>1, <1>4, <2>1, <2>2, <2>3, <2>4
<1> QED BY <1>2, <1>3, <1>4 DEF Lists, U, r

\* A sequence to which something new is appended lists that as well.
LEMMA AppendLists ==
  ASSUME NEW s, NEW E, Lists(s, E), NEW e, e \notin E
  PROVE  Lists(Append(s, e), E \cup {e})
<1>1. Lists(<<e>>, {e})
  BY DEF Lists
<1>2. Append(s, e) = s \o <<e>>
  <2>1. s \in Seq(E \cup {e}) /\ e \in E \cup {e}
    BY DEF Lists
  <2> HIDE DEF Lists
  <2>2. \A S : \A q \in Seq(S), x \in S : Append(q, x) = q \o <<x>>
    OBVIOUS
  <2> QED BY <2>1, <2>2
<1> QED BY <1>1, <1>2, ConcatLists

\* Among lists the members it is asked for.
LEMMA AmongLists ==
  ASSUME NEW s, NEW E, Lists(s, E), NEW S
  PROVE  Lists(Among(s, S), E \cap S)
<1> DEFINE n == Len(s)
           step == [i \in 1 .. n |->
                      [q \in Seq(E) |-> IF s[i] \in S THEN Append(q, s[i]) ELSE q]]
           Is(f) == f = [i \in 0 .. n |-> IF i = 0 THEN << >>
                                         ELSE IF s[i] \in S THEN Append(f[i - 1], s[i])
                                         ELSE f[i - 1]]
<1>1. /\ s \in Seq(E) /\ n \in Nat /\ (\A i \in 1 .. n : s[i] \in E)
      /\ \A e \in E : \E i \in 1 .. n : s[i] = e
      /\ \A i, j \in 1 .. n : s[i] = s[j] => i = j
  BY DEF Lists
<1>2. << >> \in Seq(E)
  OBVIOUS
<1>3. step \in [1 .. n -> [Seq(E) -> Seq(E)]]
  <2>1. \A i \in 1 .. n, q \in Seq(E) : Append(q, s[i]) \in Seq(E)
    BY <1>1
  <2> HIDE DEF n
  <2> QED BY <2>1
<1> HIDE DEF n
<1>4. PICK f : IsRecursion(f, n, Seq(E), << >>, step)
  <2> HIDE DEF step
  <2> QED BY <1>1, <1>2, <1>3, RecursionExists
<1>5. \A i \in 0 .. n : f[i] = IF i = 0 THEN << >>
                               ELSE IF s[i] \in S THEN Append(f[i - 1], s[i]) ELSE f[i - 1]
  <2>1. ASSUME NEW i \in 1 .. n
        PROVE  f[i] = IF s[i] \in S THEN Append(f[i - 1], s[i]) ELSE f[i - 1]
    <3>1. f[i] = step[i][f[i - 1]] /\ f[i - 1] \in Seq(E)
      <4>1. i - 1 \in 0 .. n
        BY <1>1
      <4> HIDE DEF step
      <4> QED BY <1>4, <4>1 DEF IsRecursion
    <3> QED BY <3>1
  <2>2. f[0] = << >>
    BY <1>4 DEF IsRecursion
  <2> QED BY <1>1, <2>1, <2>2
<1>6. Is(f)
  <2> HIDE DEF step
  <2> QED BY <1>4, <1>5 DEF IsRecursion
<1>7. Among(s, S) = (CHOOSE g : Is(g))[n]
  BY Zenon DEF Among, n
<1> DEFINE kept == CHOOSE g : Is(g)
<1>8. Is(kept)
  <2> HIDE DEF Is
  <2> QED BY <1>6
<1> HIDE DEF kept, step
<1>9. kept[0] = << >> /\ \A i \in 1 .. n :
        kept[i] = IF s[i] \in S THEN Append(kept[i - 1], s[i]) ELSE kept[i - 1]
  <2>1. \A i \in 0 .. n : kept[i] = IF i = 0 THEN << >>
                                  ELSE IF s[i] \in S THEN Append(kept[i - 1], s[i])
                                  ELSE kept[i - 1]
    BY <1>8
  <2>2. n \in Nat
    BY <1>1
  <2> QED BY <2>1, <2>2
<1> DEFINE First(i) == {s[k] : k \in 1 .. i} \cap S
           T == {i \in 0 .. n : Lists(kept[i], First(i))}
<1>10. 0 \in T
  <2>1. First(0) = {}
    OBVIOUS
  <2> HIDE DEF First
  <2>2. Lists(kept[0], First(0))
    BY <1>9, <2>1, EmptyLists
  <2>3. 0 \in 0 .. n
    BY <1>1
  <2> QED BY <2>2, <2>3
<1>11. ASSUME NEW i \in 0 .. n - 1, i \in T PROVE i + 1 \in T
  <2>1. i + 1 \in 1 .. n /\ (i + 1) - 1 = i /\ i + 1 \in 0 .. n
    BY <1>1
  <2>2. kept[i + 1] = IF s[i + 1] \in S THEN Append(kept[i], s[i + 1]) ELSE kept[i]
    BY <1>9, <2>1
  <2>3. Lists(kept[i], First(i))
    BY <1>11
  <2>4. {s[k] : k \in 1 .. i + 1} = {s[k] : k \in 1 .. i} \cup {s[i + 1]}
    <3>1. 1 .. i + 1 = (1 .. i) \cup {i + 1}
      BY <2>1, <1>1
    <3> QED BY <3>1
  <2>5. s[i + 1] \notin First(i)
    <3>1. ASSUME NEW k \in 1 .. i PROVE s[k] # s[i + 1]
      <4>1. k \in 1 .. n /\ k # i + 1
        BY <1>1, <2>1
      <4> QED BY <1>1, <2>1, <4>1
    <3> QED BY <3>1
  <2>6. First(i + 1) = IF s[i + 1] \in S THEN First(i) \cup {s[i + 1]} ELSE First(i)
    BY <2>4
  <2> HIDE DEF First
  <2>7. Lists(kept[i + 1], First(i + 1))
    BY <2>2, <2>3, <2>5, <2>6, AppendLists
  <2> QED BY <2>1, <2>7
<1>12. n \in T
  <2>1. n \in Nat /\ n \in 0 .. n
    BY <1>1
  <2> HIDE DEF T
  <2> QED BY <1>10, <1>11, <2>1, IntervalInduction
<1>13. First(n) = E \cap S
  BY <1>1
<1> QED BY <1>7, <1>12, <1>13 DEF kept

\* FlattenSeq lists what its sequences do, if no two of them share anything.
LEMMA FlattenLists ==
  ASSUME NEW n \in Nat, NEW seqs, DOMAIN seqs = 1 .. n, seqs = [i \in 1 .. n |-> seqs[i]],
         NEW E, \A i \in 1 .. n : Lists(seqs[i], E[i]),
         \A i, j \in 1 .. n : i # j => E[i] \cap E[j] = {}
  PROVE  Lists(FlattenSeq(seqs), UNION {E[i] : i \in 1 .. n})
<1> DEFINE U == UNION {E[i] : i \in 1 .. n}
           step == [i \in 1 .. n |-> [q \in Seq(U) |-> q \o seqs[i]]]
           Is(f) == f = [i \in 1 .. n |-> IF i = 1 THEN seqs[i] ELSE f[i - 1] \o seqs[i]]
<1>1. ASSUME NEW i \in 1 .. n PROVE seqs[i] \in Seq(U)
  <2>1. seqs[i] \in Seq(E[i]) /\ E[i] \subseteq U
    BY DEF Lists
  <2> HIDE DEF U
  <2> QED BY <2>1
<1> HIDE DEF U
<1>2. seqs \in Seq(Seq(U)) /\ Len(seqs) = n
  BY <1>1
<1>3. step \in [1 .. n -> [Seq(U) -> Seq(U)]]
  BY <1>1
<1>4. CASE n = 0
  <2>1. U = {} /\ seqs = << >>
    BY <1>2, <1>4 DEF U
  <2>2. FlattenSeq(seqs) = seqs
    BY <1>2, <1>4 DEF FlattenSeq
  <2> QED BY <2>1, <2>2, EmptyLists DEF U
<1>5. CASE n # 0
  <2>1. PICK f : IsRecursion(f, n, Seq(U), << >>, step)
    <3>1. << >> \in Seq(U)
      OBVIOUS
    <3> HIDE DEF step
    <3> QED BY <1>3, <3>1, RecursionExists
  <2>2. \A i \in 0 .. n : f[i] \in Seq(U)
    BY <2>1 DEF IsRecursion
  <2>3. \A i \in 1 .. n : f[i] = f[i - 1] \o seqs[i]
    <3>1. ASSUME NEW i \in 1 .. n PROVE f[i] = f[i - 1] \o seqs[i]
      <4>1. f[i] = step[i][f[i - 1]] /\ f[i - 1] \in Seq(U)
        <5>1. i - 1 \in 0 .. n
          OBVIOUS
        <5> HIDE DEF step
        <5> QED BY <2>1, <2>2, <5>1 DEF IsRecursion
      <4> QED BY <4>1
    <3> QED BY <3>1
  <2>4. f[1] = seqs[1]
    <3>1. 1 \in 1 .. n /\ 1 - 1 = 0
      BY <1>5
    <3>2. f[1] = f[0] \o seqs[1] /\ seqs[1] \in Seq(U)
      BY <1>1, <2>3, <3>1
    <3>3. f[0] = << >>
      BY <2>1, Zenon DEF IsRecursion
    <3> QED BY <3>2, <3>3
  <2> DEFINE g == [i \in 1 .. n |-> f[i]]
  <2>5. Is(g)
    <3>1. ASSUME NEW i \in 1 .. n
          PROVE  g[i] = IF i = 1 THEN seqs[i] ELSE g[i - 1] \o seqs[i]
      <4>1. g[i] = f[i]
        OBVIOUS
      <4>2. CASE i = 1
        BY <2>4, <4>1, <4>2
      <4>3. CASE i # 1
        <5>1. i - 1 \in 1 .. n
          BY <4>3
        <5>2. g[i - 1] = f[i - 1]
          BY <5>1
        <5> HIDE DEF g
        <5> QED BY <2>3, <4>1, <4>3, <5>2
      <4> QED BY <4>2, <4>3
    <3> QED BY <3>1
  <2>6. FlattenSeq(seqs) = (CHOOSE h : Is(h))[n]
    <3>1. Len(seqs) # 0
      BY <1>2, <1>5
    <3> QED BY <1>2, <3>1, Zenon DEF FlattenSeq
  <2> DEFINE flatten == CHOOSE h : Is(h)
  <2>7. Is(flatten)
    <3> HIDE DEF Is, g
    <3> QED BY <2>5
  <2> HIDE DEF flatten, step, g
  <2>8. \A i \in 1 .. n : flatten[i] = IF i = 1 THEN seqs[i] ELSE flatten[i - 1] \o seqs[i]
    BY <2>7
  <2> DEFINE First(i) == UNION {E[k] : k \in 1 .. i}
             T == {i \in 0 .. n - 1 : Lists(flatten[i + 1], First(i + 1))}
  <2>9. 0 \in T
    <3>1. First(0 + 1) = E[1]
      OBVIOUS
    <3>2. flatten[0 + 1] = seqs[1] /\ 1 \in 1 .. n
      BY <1>5, <2>8
    <3>3. Lists(flatten[0 + 1], First(0 + 1))
      <4> HIDE DEF First
      <4> QED BY <3>1, <3>2
    <3>4. 0 \in 0 .. n - 1
      BY <1>5
    <3> QED BY <3>3, <3>4
  <2>10. ASSUME NEW i \in 0 .. (n - 1) - 1, i \in T PROVE i + 1 \in T
    <3>1. /\ i + 1 \in 0 .. n - 1 /\ (i + 1) + 1 \in 1 .. n /\ (i + 1) + 1 # 1
          /\ ((i + 1) + 1) - 1 = i + 1
      BY <1>5
    <3>2. flatten[(i + 1) + 1] = flatten[i + 1] \o seqs[(i + 1) + 1]
      BY <2>8, <3>1
    <3>3. First((i + 1) + 1) = First(i + 1) \cup E[(i + 1) + 1]
      <4>1. 1 .. (i + 1) + 1 = (1 .. i + 1) \cup {(i + 1) + 1}
        BY <3>1, <1>5
      <4> QED BY <4>1
    <3>4. First(i + 1) \cap E[(i + 1) + 1] = {}
      <4>1. ASSUME NEW k \in 1 .. i + 1 PROVE E[k] \cap E[(i + 1) + 1] = {}
        <5>1. k \in 1 .. n /\ k # (i + 1) + 1
          BY <3>1, <1>5
        <5> QED BY <3>1, <5>1
      <4> QED BY <4>1
    <3>5. Lists(flatten[i + 1], First(i + 1)) /\ Lists(seqs[(i + 1) + 1], E[(i + 1) + 1])
      BY <2>10, <3>1
    <3> HIDE DEF First
    <3>6. Lists(flatten[(i + 1) + 1], First((i + 1) + 1))
      BY <3>2, <3>3, <3>4, <3>5, ConcatLists
    <3> QED BY <3>1, <3>6
  <2>11. n - 1 \in T
    <3> HIDE DEF T
    <3>1. n - 1 \in Nat /\ n - 1 \in 0 .. n - 1
      BY <1>5
    <3> QED BY <2>9, <2>10, <3>1, IntervalInduction
  <2>12. (n - 1) + 1 = n
    OBVIOUS
  <2> QED BY <2>6, <2>11, <2>12 DEF flatten, U
<1> QED BY <1>4, <1>5

StepsOf(gens, methods) == {[gen |-> g, of |-> m] : g \in gens, m \in methods}

\* EachOf lists the pairs of a function and a method.
LEMMA EachOfLists ==
  ASSUME NEW gens, NEW G, Lists(gens, G), NEW methods, NEW M, Lists(methods, M)
  PROVE  Lists(EachOf(gens, methods), StepsOf(G, M))
<1> DEFINE n == Len(methods)
           seqs == [i \in 1 .. n |-> [j \in DOMAIN gens |-> [gen |-> gens[j], of |-> methods[i]]]]
           E == [i \in 1 .. n |-> StepsOf(G, {methods[i]})]
<1>1. /\ methods \in Seq(M) /\ n \in Nat /\ DOMAIN methods = 1 .. n
      /\ \A i \in 1 .. n : methods[i] \in M
      /\ \A m \in M : \E i \in 1 .. n : methods[i] = m
      /\ \A i, j \in 1 .. n : methods[i] = methods[j] => i = j
  BY DEF Lists
<1>2. /\ gens \in Seq(G) /\ DOMAIN gens = 1 .. Len(gens) /\ Len(gens) \in Nat
      /\ \A i \in 1 .. Len(gens) : gens[i] \in G
      /\ \A g \in G : \E i \in 1 .. Len(gens) : gens[i] = g
      /\ \A i, j \in 1 .. Len(gens) : gens[i] = gens[j] => i = j
  BY DEF Lists
<1>3. EachOf(gens, methods) = FlattenSeq(seqs)
  BY <1>1 DEF EachOf
<1> HIDE DEF n
<1>4. ASSUME NEW i \in 1 .. n PROVE Lists(seqs[i], E[i])
  <2> DEFINE r == [j \in 1 .. Len(gens) |-> [gen |-> gens[j], of |-> methods[i]]]
  <2>1. seqs[i] = r /\ E[i] = StepsOf(G, {methods[i]})
    BY <1>2
  <2> DEFINE P == StepsOf(G, {methods[i]})
  <2>2. \A j \in 1 .. Len(gens) : r[j] \in P
    <3>1. \A g \in G : [gen |-> g, of |-> methods[i]] \in P
      BY DEF StepsOf
    <3>2. \A j \in 1 .. Len(gens) : gens[j] \in G /\ r[j] = [gen |-> gens[j], of |-> methods[i]]
      BY <1>2
    <3> HIDE DEF r, P
    <3> QED BY <3>1, <3>2
  <2>3. r \in Seq(StepsOf(G, {methods[i]})) /\ Len(r) = Len(gens)
    <3>1. Len(gens) \in Nat
      BY <1>2
    <3> HIDE DEF P
    <3>2. r \in [1 .. Len(gens) -> P]
      BY <2>2
    <3>3. r \in Seq(P) /\ Len(r) = Len(gens)
      <4> HIDE DEF r
      <4> QED BY <3>1, <3>2
    <3> QED BY <3>3 DEF P
  <2>4. \A e \in StepsOf(G, {methods[i]}) : \E j \in 1 .. Len(gens) : r[j] = e
    BY <1>2 DEF StepsOf
  <2>5. \A j, k \in 1 .. Len(gens) : r[j] = r[k] => j = k
    <3>1. \A j \in 1 .. Len(gens) : r[j].gen = gens[j]
      OBVIOUS
    <3> QED BY <1>2, <3>1
  <2> HIDE DEF r
  <2>6. Lists(r, StepsOf(G, {methods[i]}))
    BY <2>3, <2>4, <2>5 DEF Lists
  <2> QED BY <2>1, <2>6
<1>5. ASSUME NEW i \in 1 .. n, NEW j \in 1 .. n, i # j PROVE E[i] \cap E[j] = {}
  <2>1. \A e \in E[i] : e.of = methods[i]
    BY DEF StepsOf
  <2>2. \A e \in E[j] : e.of = methods[j]
    BY DEF StepsOf
  <2>3. methods[i] # methods[j]
    BY <1>1, <1>5
  <2> HIDE DEF E
  <2> QED BY <2>1, <2>2, <2>3
<1>6. UNION {E[i] : i \in 1 .. n} = StepsOf(G, M)
  BY <1>1 DEF StepsOf
<1>7. DOMAIN seqs = 1 .. n /\ seqs = [i \in 1 .. n |-> seqs[i]]
  OBVIOUS
<1> HIDE DEF seqs, E
<1> QED BY <1>1, <1>3, <1>4, <1>5, <1>6, <1>7, FlattenLists

-----------------------------------------------------------------------------
(* The calls for a service, as a set.                                      *)

Kind(svc, option) == {m \in Range(svc) : option \in m.opts}

ServiceGens == {"genClientInterface", "genClientOptions", "genCallResponseHandler",
                "genClientImplStruct", "genClientImplConstructor", "genActivitiesImpl"}
WorkflowGens == {"workflow", "genClientImplWorkflowMethods", "genWorkflowRunInterface",
                 "genWorkflowRunImpl", "genWorkflowImplInterface", "genWorkflowInput",
                 "genWorkflowWorker", "genWorkflowChild"}
ActivityGens == {"activity", "genActivity"}
QueryGens == {"query", "genClientImplQueryMethod"}
SignalGens == {"signal", "genClientImplSignalMethod", "genSignal", "genSignalExternal"}
CallGens == {"call", "genClientImplCallMethod", "genCall"}

StepSet(svc) ==
  StepsOf(ServiceGens, {None})
  \cup StepsOf(WorkflowGens, Kind(svc, "workflow")) \cup StepsOf(ActivityGens, Kind(svc, "activity"))
  \cup StepsOf(QueryGens, Kind(svc, "query")) \cup StepsOf(SignalGens, Kind(svc, "signal"))
  \cup StepsOf(CallGens, Kind(svc, "call"))
  \cup StepsOf({"genCallExternal"}, {c \in Kind(svc, "call") : FromWorkflow(c)})

\* The methods of a kind are listed if the methods are.
LEMMA HavingLists ==
  ASSUME NEW svc, Lists(svc, Range(svc)), NEW option
  PROVE  Lists(Having(svc, option), Kind(svc, option))
<1>1. Range(svc) \cap {m \in Range(svc) : option \in m.opts} = Kind(svc, option)
  BY DEF Kind
<1> QED BY <1>1, AmongLists DEF Having

\* A sequence of one, of two and of three functions.
LEMMA OneLists == \A g : Lists(<<g>>, {g})
BY DEF Lists

\* Two.
LEMMA TwoLists == ASSUME NEW g, NEW h, g # h PROVE Lists(<<g, h>>, {g, h})
BY DEF Lists

\* Three.
LEMMA ThreeLists ==
  ASSUME NEW g, NEW h, NEW k, g # h, g # k, h # k PROVE Lists(<<g, h, k>>, {g, h, k})
BY DEF Lists

\* Each lists a function with every method.
LEMMA EachLists ==
  ASSUME NEW g, NEW methods, NEW M, Lists(methods, M)
  PROVE  Lists(Each(g, methods), StepsOf({g}, M))
BY OneLists, EachOfLists DEF Each

\* Once lists a function of the service.
LEMMA OnceLists == ASSUME NEW g PROVE Lists(Once(g), StepsOf({g}, {None}))
<1>1. StepsOf({g}, {None}) = {[gen |-> g, of |-> None]}
  BY DEF StepsOf
<1> QED BY <1>1, OneLists DEF Once

\* The calls of genClient and of genWorker, group by group.
ClientSteps(svc) ==
  <<StepsOf({"genClientInterface"}, {None}), StepsOf({"genClientOptions"}, {None}),
    StepsOf({"genCallResponseHandler"}, {None}), StepsOf({"genClientImplStruct"}, {None}),
    StepsOf({"genClientImplConstructor"}, {None}),
    StepsOf({"genClientImplWorkflowMethods"}, Kind(svc, "workflow")),
    StepsOf({"genClientImplQueryMethod"}, Kind(svc, "query")),
    StepsOf({"genClientImplSignalMethod"}, Kind(svc, "signal")),
    StepsOf({"genClientImplCallMethod"}, Kind(svc, "call")),
    StepsOf({"genWorkflowRunInterface", "genWorkflowRunImpl"}, Kind(svc, "workflow"))>>

WorkerSteps(svc) ==
  <<StepsOf({"genWorkflowImplInterface", "genWorkflowInput", "genWorkflowWorker"},
            Kind(svc, "workflow")),
    StepsOf({"genSignal"}, Kind(svc, "signal")), StepsOf({"genCall"}, Kind(svc, "call")),
    StepsOf({"genWorkflowChild"}, Kind(svc, "workflow")),
    StepsOf({"genSignalExternal"}, Kind(svc, "signal")),
    StepsOf({"genCallExternal"}, {c \in Kind(svc, "call") : FromWorkflow(c)}),
    StepsOf({"genActivitiesImpl"}, {None}), StepsOf({"genActivity"}, Kind(svc, "activity"))>>

\* genClient makes each of its calls once.
LEMMA ClientLists ==
  ASSUME NEW svc, Lists(svc, Range(svc))
  PROVE  Lists(genClient(svc), UNION {ClientSteps(svc)[i] : i \in 1 .. 10})
<1> DEFINE seqs ==
      <<Once("genClientInterface"), Once("genClientOptions"), Once("genCallResponseHandler"),
        Once("genClientImplStruct"), Once("genClientImplConstructor"),
        Each("genClientImplWorkflowMethods", Having(svc, "workflow")),
        Each("genClientImplQueryMethod", Having(svc, "query")),
        Each("genClientImplSignalMethod", Having(svc, "signal")),
        Each("genClientImplCallMethod", Having(svc, "call")),
        EachOf(<<"genWorkflowRunInterface", "genWorkflowRunImpl">>, Having(svc, "workflow"))>>
           E == ClientSteps(svc)
           At(g) == IF g = "genClientInterface" THEN 1 ELSE IF g = "genClientOptions" THEN 2
                    ELSE IF g = "genCallResponseHandler" THEN 3
                    ELSE IF g = "genClientImplStruct" THEN 4
                    ELSE IF g = "genClientImplConstructor" THEN 5
                    ELSE IF g = "genClientImplWorkflowMethods" THEN 6
                    ELSE IF g = "genClientImplQueryMethod" THEN 7
                    ELSE IF g = "genClientImplSignalMethod" THEN 8
                    ELSE IF g = "genClientImplCallMethod" THEN 9 ELSE 10
<1>1. DOMAIN seqs = 1 .. 10 /\ seqs = [i \in 1 .. 10 |-> seqs[i]]
  OBVIOUS
<1>2. \A i \in 1 .. 10 : i \in {1, 2, 3, 4, 5, 6, 7, 8, 9, 10}
  OBVIOUS
<1>3. \A option : Lists(Having(svc, option), Kind(svc, option))
  BY HavingLists
<1>4. ASSUME NEW i \in 1 .. 10 PROVE Lists(seqs[i], E[i])
  <2> USE <1>3, OnceLists, EachLists DEF ClientSteps
  <2>1. CASE i \in {1, 2, 3, 4, 5}
    BY <2>1
  <2>2. CASE i \in {6, 7, 8, 9}
    BY <2>2
  <2>3. CASE i = 10
    BY <2>3, TwoLists, EachOfLists
  <2> QED BY <1>2, <2>1, <2>2, <2>3
<1>5. ASSUME NEW i \in 1 .. 10, NEW e \in E[i] PROVE At(e.gen) = i
  <2>1. CASE i \in {1, 2, 3, 4, 5}
    BY <2>1, <1>5 DEF StepsOf, ClientSteps
  <2>2. CASE i \in {6, 7, 8, 9, 10}
    BY <2>2, <1>5 DEF StepsOf, ClientSteps
  <2> QED BY <1>2, <2>1, <2>2
<1>6. \A i, j \in 1 .. 10 : i # j => E[i] \cap E[j] = {}
  <2> HIDE DEF At, E
  <2> QED BY <1>5
<1>7. genClient(svc) = FlattenSeq(seqs)
  BY DEF genClient
<1> HIDE DEF seqs, E
<1> DEFINE n == 10
<1>8. /\ n \in Nat /\ DOMAIN seqs = 1 .. n /\ seqs = [i \in 1 .. n |-> seqs[i]]
      /\ \A i \in 1 .. n : Lists(seqs[i], E[i])
      /\ \A i, j \in 1 .. n : i # j => E[i] \cap E[j] = {}
  BY <1>1, <1>4, <1>6
<1> HIDE DEF n
<1>9. Lists(FlattenSeq(seqs), UNION {E[i] : i \in 1 .. n})
  BY <1>8, FlattenLists
<1> QED BY <1>7, <1>9 DEF E, n

\* genWorker makes each of its calls once.
LEMMA WorkerLists ==
  ASSUME NEW svc, Lists(svc, Range(svc))
  PROVE  Lists(genWorker(svc), UNION {WorkerSteps(svc)[i] : i \in 1 .. 8})
<1> DEFINE calls == Among(Having(svc, "call"), {c \in Range(svc) : FromWorkflow(c)})
           seqs ==
      <<EachOf(<<"genWorkflowImplInterface", "genWorkflowInput", "genWorkflowWorker">>,
               Having(svc, "workflow")),
        Each("genSignal", Having(svc, "signal")), Each("genCall", Having(svc, "call")),
        Each("genWorkflowChild", Having(svc, "workflow")),
        Each("genSignalExternal", Having(svc, "signal")),
        Each("genCallExternal", calls),
        Once("genActivitiesImpl"), Each("genActivity", Having(svc, "activity"))>>
           E == WorkerSteps(svc)
           At(g) == IF g = "genSignal" THEN 2 ELSE IF g = "genCall" THEN 3
                    ELSE IF g = "genWorkflowChild" THEN 4
                    ELSE IF g = "genSignalExternal" THEN 5
                    ELSE IF g = "genCallExternal" THEN 6
                    ELSE IF g = "genActivitiesImpl" THEN 7
                    ELSE IF g = "genActivity" THEN 8 ELSE 1
<1>1. DOMAIN seqs = 1 .. 8 /\ seqs = [i \in 1 .. 8 |-> seqs[i]]
  OBVIOUS
<1>2. \A i \in 1 .. 8 : i \in {1, 2, 3, 4, 5, 6, 7, 8}
  OBVIOUS
<1>3. \A option : Lists(Having(svc, option), Kind(svc, option))
  BY HavingLists
<1>4. Lists(calls, {c \in Kind(svc, "call") : FromWorkflow(c)})
  <2>1. Kind(svc, "call") \cap {c \in Range(svc) : FromWorkflow(c)}
        = {c \in Kind(svc, "call") : FromWorkflow(c)}
    BY DEF Kind
  <2> QED BY <1>3, <2>1, AmongLists
<1>5. genWorker(svc) = FlattenSeq(seqs)
  BY DEF genWorker
<1> HIDE DEF calls
<1>6. ASSUME NEW i \in 1 .. 8 PROVE Lists(seqs[i], E[i])
  <2> USE <1>3, OnceLists, EachLists DEF WorkerSteps
  <2>1. CASE i \in {2, 3, 4, 5, 7, 8}
    BY <2>1
  <2>2. CASE i = 6
    BY <1>4, <2>2
  <2>3. CASE i = 1
    BY <2>3, ThreeLists, EachOfLists
  <2> QED BY <1>2, <2>1, <2>2, <2>3
<1>7. ASSUME NEW i \in 1 .. 8, NEW e \in E[i] PROVE At(e.gen) = i
  <2>1. CASE i \in {1, 2, 3, 4}
    BY <2>1, <1>7 DEF StepsOf, WorkerSteps
  <2>2. CASE i \in {5, 6, 7, 8}
    BY <2>2, <1>7 DEF StepsOf, WorkerSteps
  <2> QED BY <1>2, <2>1, <2>2
<1>8. \A i, j \in 1 .. 8 : i # j => E[i] \cap E[j] = {}
  <2> HIDE DEF At, E
  <2> QED BY <1>7
<1> HIDE DEF seqs, E
<1> DEFINE n == 8
<1>9. /\ n \in Nat /\ DOMAIN seqs = 1 .. n /\ seqs = [i \in 1 .. n |-> seqs[i]]
      /\ \A i \in 1 .. n : Lists(seqs[i], E[i])
      /\ \A i, j \in 1 .. n : i # j => E[i] \cap E[j] = {}
  BY <1>1, <1>6, <1>8
<1> HIDE DEF n
<1>10. Lists(FlattenSeq(seqs), UNION {E[i] : i \in 1 .. n})
  BY <1>9, FlattenLists
<1> QED BY <1>5, <1>10 DEF E, n

\* genService calls every function of the set once.
LEMMA ServiceLists ==
  ASSUME NEW svc, Lists(svc, Range(svc))
  PROVE  Lists(genService(svc), StepSet(svc))
<1> DEFINE C == UNION {ClientSteps(svc)[i] : i \in 1 .. 10}
           W == UNION {WorkerSteps(svc)[i] : i \in 1 .. 8}
           K(option) == StepsOf({option}, Kind(svc, option))
           ClientGens == {"genClientInterface", "genClientOptions", "genCallResponseHandler",
                "genClientImplStruct", "genClientImplConstructor", "genClientImplWorkflowMethods",
                "genClientImplQueryMethod", "genClientImplSignalMethod",
                "genClientImplCallMethod", "genWorkflowRunInterface", "genWorkflowRunImpl"}
           WorkerGens == {"genWorkflowImplInterface", "genWorkflowInput", "genWorkflowWorker",
                "genSignal", "genCall", "genWorkflowChild", "genSignalExternal",
                "genCallExternal", "genActivitiesImpl", "genActivity"}
<1>1. \A option : Lists(Each(option, Having(svc, option)), K(option))
  BY HavingLists, EachLists
<1>2. C = StepsOf({"genClientInterface", "genClientOptions", "genCallResponseHandler",
                   "genClientImplStruct", "genClientImplConstructor"}, {None})
          \cup StepsOf({"genClientImplWorkflowMethods", "genWorkflowRunInterface",
                        "genWorkflowRunImpl"}, Kind(svc, "workflow"))
          \cup StepsOf({"genClientImplQueryMethod"}, Kind(svc, "query"))
          \cup StepsOf({"genClientImplSignalMethod"}, Kind(svc, "signal"))
          \cup StepsOf({"genClientImplCallMethod"}, Kind(svc, "call"))
  <2>1. 1 .. 10 = {1, 2, 3, 4, 5, 6, 7, 8, 9, 10}
    OBVIOUS
  <2>2. C = ClientSteps(svc)[1] \cup ClientSteps(svc)[2] \cup ClientSteps(svc)[3]
            \cup ClientSteps(svc)[4] \cup ClientSteps(svc)[5] \cup ClientSteps(svc)[6]
            \cup ClientSteps(svc)[7] \cup ClientSteps(svc)[8] \cup ClientSteps(svc)[9]
            \cup ClientSteps(svc)[10]
    BY <2>1
  <2> HIDE DEF C
  <2> QED BY <2>2 DEF ClientSteps, StepsOf
<1>3. W = StepsOf({"genActivitiesImpl"}, {None})
          \cup StepsOf({"genWorkflowImplInterface", "genWorkflowInput", "genWorkflowWorker",
                        "genWorkflowChild"}, Kind(svc, "workflow"))
          \cup StepsOf({"genActivity"}, Kind(svc, "activity"))
          \cup StepsOf({"genSignal", "genSignalExternal"}, Kind(svc, "signal"))
          \cup StepsOf({"genCall"}, Kind(svc, "call"))
          \cup StepsOf({"genCallExternal"}, {c \in Kind(svc, "call") : FromWorkflow(c)})
  <2>1. 1 .. 8 = {1, 2, 3, 4, 5, 6, 7, 8}
    OBVIOUS
  <2>2. W = WorkerSteps(svc)[1] \cup WorkerSteps(svc)[2] \cup WorkerSteps(svc)[3]
            \cup WorkerSteps(svc)[4] \cup WorkerSteps(svc)[5] \cup WorkerSteps(svc)[6]
            \cup WorkerSteps(svc)[7] \cup WorkerSteps(svc)[8]
    BY <2>1
  <2> HIDE DEF W
  <2> QED BY <2>2 DEF WorkerSteps, StepsOf
<1>4. \A e \in C : e.gen \in ClientGens
  <2> HIDE DEF C
  <2> QED BY <1>2 DEF StepsOf
<1>5. \A e \in W : e.gen \in WorkerGens
  <2> HIDE DEF W
  <2> QED BY <1>3 DEF StepsOf
<1>6. \A option : \A e \in K(option) : e.gen = option
  BY DEF StepsOf
<1>7. Lists(genClient(svc), C) /\ Lists(genWorker(svc), W)
  BY ClientLists, WorkerLists
<1>8. C \cap W = {}
  <2>1. ClientGens \cap WorkerGens = {}
    OBVIOUS
  <2> HIDE DEF C, W, ClientGens, WorkerGens
  <2> QED BY <1>4, <1>5, <2>1
<1>9. /\ \A option \in Options : K(option) \cap C = {} /\ K(option) \cap W = {}
      /\ \A option, other \in Options : option # other => K(option) \cap K(other) = {}
  <2>1. \A option \in Options : option \notin ClientGens /\ option \notin WorkerGens
    BY DEF Options
  <2> HIDE DEF C, W, K, ClientGens, WorkerGens
  <2> QED BY <1>4, <1>5, <1>6, <2>1
<1>10. StepSet(svc) = K("workflow") \cup K("activity") \cup K("query") \cup K("signal")
                      \cup K("call") \cup C \cup W
  <2> HIDE DEF C, W
  <2> QED BY <1>2, <1>3 DEF StepSet, StepsOf, ServiceGens, WorkflowGens, ActivityGens,
                            QueryGens, SignalGens, CallGens
<1> DEFINE S(option) == Each(option, Having(svc, option))
<1> HIDE DEF C, W, K, S
<1>11. \A option : Lists(S(option), K(option))
  BY <1>1 DEF S
<1>12. Lists(S("workflow") \o S("activity"), K("workflow") \cup K("activity"))
  BY <1>9, <1>11, ConcatLists DEF Options
<1>13. Lists(S("workflow") \o S("activity") \o S("query"),
             K("workflow") \cup K("activity") \cup K("query"))
  BY <1>9, <1>11, <1>12, ConcatLists DEF Options
<1>14. Lists(S("workflow") \o S("activity") \o S("query") \o S("signal"),
             K("workflow") \cup K("activity") \cup K("query") \cup K("signal"))
  BY <1>9, <1>11, <1>13, ConcatLists DEF Options
<1>15. Lists(S("workflow") \o S("activity") \o S("query") \o S("signal") \o S("call"),
             K("workflow") \cup K("activity") \cup K("query") \cup K("signal") \cup K("call"))
  BY <1>9, <1>11, <1>14, ConcatLists DEF Options
<1>16. Lists(S("workflow") \o S("activity") \o S("query") \o S("signal") \o S("call")
             \o genClient(svc),
             K("workflow") \cup K("activity") \cup K("query") \cup K("signal") \cup K("call")
             \cup C)
  BY <1>7, <1>9, <1>15, ConcatLists DEF Options
<1>17. Lists(S("workflow") \o S("activity") \o S("query") \o S("signal") \o S("call")
             \o genClient(svc) \o genWorker(svc),
             K("workflow") \cup K("activity") \cup K("query") \cup K("signal") \cup K("call")
             \cup C \cup W)
  BY <1>7, <1>8, <1>9, <1>16, ConcatLists DEF Options
<1>18. genService(svc) = S("workflow") \o S("activity") \o S("query") \o S("signal")
                         \o S("call") \o genClient(svc) \o genWorker(svc)
  BY DEF genService, S
<1> QED BY <1>10, <1>17, <1>18

-----------------------------------------------------------------------------
(* What the functions write.                                               *)

WrittenBy(svc, m) ==
  /\ \A o \in Options : Written(svc, o, m) = genConstants(m, o)
  /\ Written(svc, "genClientInterface", m) = genClientInterface(svc)
  /\ Written(svc, "genClientOptions", m) = genClientOptions
  /\ Written(svc, "genCallResponseHandler", m) = genCallResponseHandler
  /\ Written(svc, "genClientImplStruct", m) = genClientImplStruct
  /\ Written(svc, "genClientImplConstructor", m) = genClientImplConstructor(svc)
  /\ Written(svc, "genClientImplWorkflowMethods", m) = genClientImplWorkflowMethods(svc, m)
  /\ Written(svc, "genClientImplQueryMethod", m) = genClientImplQueryMethod(m)
  /\ Written(svc, "genClientImplSignalMethod", m) = genClientImplSignalMethod(m)
  /\ Written(svc, "genClientImplCallMethod", m) = genClientImplCallMethod(m)
  /\ Written(svc, "genWorkflowRunInterface", m) = genWorkflowRunInterface(m)
  /\ Written(svc, "genWorkflowRunImpl", m) = genWorkflowRunImpl(m)
  /\ Written(svc, "genWorkflowImplInterface", m) = genWorkflowImplInterface(m)
  /\ Written(svc, "genWorkflowInput", m) = genWorkflowInput(m)
  /\ Written(svc, "genWorkflowWorker", m) = genWorkflowWorker(m)
  /\ Written(svc, "genSignal", m) = genSignal(m)
  /\ Written(svc, "genCall", m) = genCall(m)
  /\ Written(svc, "genWorkflowChild", m) = genWorkflowChild(svc, m)
  /\ Written(svc, "genSignalExternal", m) = genSignalExternal(m)
  /\ Written(svc, "genCallExternal", m) = genCallExternal(m)
  /\ Written(svc, "genActivitiesImpl", m) = genActivitiesImpl(svc)
  /\ Written(svc, "genActivity", m) = genActivity(m)

\* Written is the generating function of that name.
LEMMA WrittenIs == \A svc, m : WrittenBy(svc, m)
BY DEF WrittenBy, Written, Options

\* The two parts of what is written.
LEMMA WritesIs ==
  ASSUME NEW d, NEW u PROVE Writes(d, u).declares = d /\ Writes(d, u).uses = u
BY DEF Writes

\* The functions called for a method, and those called for the service.
LEMMA StepKinds ==
  ASSUME NEW svc, NEW t \in StepSet(svc)
  PROVE  \/ t.gen \in ServiceGens /\ t.of = None
         \/ t.of \in Range(svc) /\ "workflow" \in t.of.opts /\ t.gen \in WorkflowGens
         \/ t.of \in Range(svc) /\ "activity" \in t.of.opts /\ t.gen \in ActivityGens
         \/ t.of \in Range(svc) /\ "query" \in t.of.opts /\ t.gen \in QueryGens
         \/ t.of \in Range(svc) /\ "signal" \in t.of.opts /\ t.gen \in SignalGens
         \/ t.of \in Range(svc) /\ "call" \in t.of.opts /\ t.gen \in CallGens
         \/ /\ t.of \in Range(svc) /\ "call" \in t.of.opts /\ FromWorkflow(t.of)
            /\ t.gen = "genCallExternal"
<1> DEFINE A(gens, methods) == t \in StepsOf(gens, methods)
<1>1. \A gens, methods : A(gens, methods) => t.gen \in gens /\ t.of \in methods
  BY DEF StepsOf
<1>2. \/ A(ServiceGens, {None})
      \/ A(WorkflowGens, Kind(svc, "workflow"))
      \/ A(ActivityGens, Kind(svc, "activity"))
      \/ A(QueryGens, Kind(svc, "query"))
      \/ A(SignalGens, Kind(svc, "signal"))
      \/ A(CallGens, Kind(svc, "call"))
      \/ A({"genCallExternal"}, {c \in Kind(svc, "call") : FromWorkflow(c)})
  BY DEF StepSet
<1> HIDE DEF A
<1>3. ASSUME NEW gens, NEW option, A(gens, Kind(svc, option))
      PROVE  t.of \in Range(svc) /\ option \in t.of.opts /\ t.gen \in gens
  BY <1>1, <1>3 DEF Kind
<1>4. ASSUME A({"genCallExternal"}, {c \in Kind(svc, "call") : FromWorkflow(c)})
      PROVE  /\ t.of \in Range(svc) /\ "call" \in t.of.opts /\ FromWorkflow(t.of)
             /\ t.gen = "genCallExternal"
  BY <1>1, <1>4 DEF Kind
<1>5. ASSUME A(ServiceGens, {None}) PROVE t.gen \in ServiceGens /\ t.of = None
  BY <1>1, <1>5
<1> QED BY <1>2, <1>3, <1>4, <1>5

-----------------------------------------------------------------------------
(* Who writes a name.                                                      *)

\* The function that writes a name of the service.
ServiceOwner(name) ==
  IF name = "Client" THEN "genClientInterface"
  ELSE IF name = "ClientOptions" THEN "genClientOptions"
  ELSE IF name = "CallResponseHandler" THEN "genCallResponseHandler"
  ELSE IF name = "clientImpl" THEN "genClientImplStruct"
  ELSE IF name = "NewClient" THEN "genClientImplConstructor"
  ELSE "genActivitiesImpl"

\* The function that writes a name of a method with an option.
WorkflowOwner(n) ==
  IF n[1] = "%Name" THEN "workflow"
  ELSE IF n[1] \in {"Client.Execute%", "Client.Get%"} THEN "genClientImplWorkflowMethods"
  ELSE IF n[1] = "%Run" /\ 3 \notin DOMAIN n THEN "genWorkflowRunInterface"
  ELSE IF n[1] \in {"%Run", "private %Run"} THEN "genWorkflowRunImpl"
  ELSE IF n[1] = "%Impl" THEN "genWorkflowImplInterface"
  ELSE IF n[1] = "%Input" THEN "genWorkflowInput"
  ELSE IF n[1] \in {"%Child", "%ChildRun"} THEN "genWorkflowChild"
  ELSE "genWorkflowWorker"
Owner(n, option) ==
  IF option = "workflow" THEN WorkflowOwner(n)
  ELSE IF option = "activity" THEN IF n[1] = "%Name" THEN "activity" ELSE "genActivity"
  ELSE IF option = "query" THEN IF n[1] = "%Name" THEN "query" ELSE "genClientImplQueryMethod"
  ELSE IF option = "signal"
       THEN IF n[1] = "%Name" THEN "signal"
            ELSE IF n[1] = "Client.%" THEN "genClientImplSignalMethod"
            ELSE IF n[1] = "%" THEN "genSignal" ELSE "genSignalExternal"
  ELSE IF n[1] \in {"%SignalName", "%ResponseName"} THEN "call"
  ELSE IF n[1] = "Client.%" THEN "genClientImplCallMethod"
  ELSE IF n[1] \in {"%", "%.Respond returns"} THEN "genCall" ELSE "genCallExternal"

\* What is declared for a service has no method in it, and one owner.
LEMMA ServiceNames ==
  ASSUME NEW svc, NEW g \in ServiceGens, NEW n \in Written(svc, g, None).declares
  PROVE  n[2] = None /\ g = ServiceOwner(n[1])
<1>0. WrittenBy(svc, None)
  BY WrittenIs
<1>1. CASE g \in {"genClientInterface", "genClientOptions", "genCallResponseHandler"}
  BY <1>1, <1>0, WritesIs
     DEF WrittenBy, genClientInterface, genClientOptions, genCallResponseHandler, ServiceOwner
<1>2. CASE g \in {"genClientImplStruct", "genClientImplConstructor"}
  BY <1>2, <1>0, WritesIs DEF WrittenBy, genClientImplStruct, genClientImplConstructor, ServiceOwner
<1>3. CASE g = "genActivitiesImpl"
  <2>1. n \in genActivitiesImpl(svc).declares
    BY <1>0, <1>3 DEF WrittenBy
  <2>2. n \in {<<"ActivitiesImpl", None>>, <<"RegisterActivities", None>>}
    <3>1. CASE Names(svc, "activity") = {}
      BY <2>1, <3>1, WritesIs DEF genActivitiesImpl
    <3>2. CASE Names(svc, "activity") # {}
      BY <2>1, <3>2, WritesIs DEF genActivitiesImpl
    <3> QED BY <3>1, <3>2
  <2> QED BY <1>3, <2>2 DEF ServiceOwner
<1> QED BY <1>1, <1>2, <1>3 DEF ServiceGens

\* What is declared for a workflow has its name in it, and one owner.
LEMMA WorkflowNames ==
  ASSUME NEW svc, NEW g \in WorkflowGens, NEW w, NEW n \in Written(svc, g, w).declares
  PROVE  n[2] = w.name /\ g = WorkflowOwner(n)
<1> DEFINE W == Written(svc, g, w)
<1>0. WrittenBy(svc, w)
  BY WrittenIs
<1>1. \A type, members : \A k \in In(type, w, members) :
        k[1] = type /\ k[2] = w.name /\ 3 \in DOMAIN k
  BY DEF In
<1>2. \A type, a : <<type, a>>[1] = type /\ <<type, a>>[2] = a /\ 3 \notin DOMAIN <<type, a>>
  OBVIOUS
<1>3. CASE g = "workflow"
  <2>1. n = <<"%Name", w.name>>
    BY <1>3, <1>0, WritesIs DEF WrittenBy, genConstants, Options
  <2> QED BY <1>2, <1>3, <2>1 DEF WorkflowOwner
<1>4. CASE g = "genClientImplWorkflowMethods"
  <2>1. n \in {<<"Client.Execute%", w.name>>, <<"Client.Get%", w.name>>}
    BY <1>4, <1>0, WritesIs DEF WrittenBy, genClientImplWorkflowMethods
  <2> QED BY <1>4, <2>1 DEF WorkflowOwner
<1>5. CASE g = "genWorkflowRunInterface"
  <2>1. n = <<"%Run", w.name>>
    BY <1>5, <1>0, WritesIs DEF WrittenBy, genWorkflowRunInterface
  <2> QED BY <1>2, <1>5, <2>1 DEF WorkflowOwner
<1>6. CASE g = "genWorkflowRunImpl"
  <2>1. n \in genWorkflowRunImpl(w).declares
    BY <1>0, <1>6 DEF WrittenBy
  <2>2. genWorkflowRunImpl(w).declares =
         {<<"private %Run", w.name>>}
           \cup In("%Run", w, Range(w.query) \cup Range(w.signal) \cup Range(w.call))
    BY WritesIs DEF genWorkflowRunImpl
  <2>3. CASE n \in {<<"private %Run", w.name>>}
    <3>1. n = <<"private %Run", w.name>>
      BY <2>3
    <3>2. n[1] = "private %Run" /\ n[2] = w.name /\ 3 \notin DOMAIN n
      BY <1>2, <3>1
    <3> QED BY <1>6, <3>2 DEF WorkflowOwner
  <2>4. CASE n \in In("%Run", w, Range(w.query) \cup Range(w.signal) \cup Range(w.call))
    <3>1. n[1] = "%Run" /\ n[2] = w.name /\ 3 \in DOMAIN n
      BY <1>1, <2>4
    <3> QED BY <1>6, <3>1 DEF WorkflowOwner
  <2> QED BY <2>1, <2>2, <2>3, <2>4
<1>7. CASE g = "genWorkflowImplInterface"
  <2>1. n \in genWorkflowImplInterface(w).declares
    BY <1>0, <1>7 DEF WrittenBy
  <2>2. genWorkflowImplInterface(w).declares =
         {<<"%Impl", w.name>>}
           \cup In("%Impl", w, Range(w.query))
    BY WritesIs DEF genWorkflowImplInterface
  <2>3. CASE n \in {<<"%Impl", w.name>>}
    <3>1. n = <<"%Impl", w.name>>
      BY <2>3
    <3>2. n[1] = "%Impl" /\ n[2] = w.name /\ 3 \notin DOMAIN n
      BY <3>1
    <3> QED BY <1>7, <3>2 DEF WorkflowOwner
  <2>4. CASE n \in In("%Impl", w, Range(w.query))
    <3>1. n[1] = "%Impl" /\ n[2] = w.name /\ 3 \in DOMAIN n
      BY <1>1, <2>4
    <3> QED BY <1>7, <3>1 DEF WorkflowOwner
  <2> QED BY <2>1, <2>2, <2>3, <2>4
<1>8. CASE g = "genWorkflowInput"
  <2>1. n \in genWorkflowInput(w).declares
    BY <1>0, <1>8 DEF WrittenBy
  <2>2. genWorkflowInput(w).declares =
         {<<"%Input", w.name>>}
           \cup In("%Input", w, Range(w.signal) \cup Range(w.call))
    BY WritesIs DEF genWorkflowInput
  <2>3. CASE n \in {<<"%Input", w.name>>}
    <3>1. n = <<"%Input", w.name>>
      BY <2>3
    <3>2. n[1] = "%Input" /\ n[2] = w.name /\ 3 \notin DOMAIN n
      BY <3>1
    <3> QED BY <1>8, <3>2 DEF WorkflowOwner
  <2>4. CASE n \in In("%Input", w, Range(w.signal) \cup Range(w.call))
    <3>1. n[1] = "%Input" /\ n[2] = w.name /\ 3 \in DOMAIN n
      BY <1>1, <2>4
    <3> QED BY <1>8, <3>1 DEF WorkflowOwner
  <2> QED BY <2>1, <2>2, <2>3, <2>4
<1>9. CASE g = "genWorkflowWorker"
  <2>1. n \in genWorkflowWorker(w).declares
    BY <1>0, <1>9 DEF WrittenBy
  <2>2. genWorkflowWorker(w).declares =
          Of("private %Worker", {w.name}) \cup Of("Build%", {w.name}) \cup Of("Register%", {w.name})
    BY WritesIs DEF genWorkflowWorker
  <2>3. \A name : \A k \in Of(name, {w.name}) : k[1] = name /\ k[2] = w.name
    BY DEF Of
  <2> QED BY <1>9, <2>1, <2>2, <2>3 DEF WorkflowOwner
<1>10. CASE g = "genWorkflowChild"
  <2>1. n \in genWorkflowChild(svc, w).declares
    BY <1>0, <1>10 DEF WrittenBy
  <2>2. genWorkflowChild(svc, w).declares =
         {<<"%Child", w.name>>, <<"%ChildRun", w.name>>}
           \cup In("%ChildRun", w, Range(w.signal) \cup FromWorkflows(svc, Range(w.call)))
    BY WritesIs DEF genWorkflowChild
  <2>3. CASE n \in {<<"%Child", w.name>>, <<"%ChildRun", w.name>>}
    <3>1. n[1] \in {"%Child", "%ChildRun"} /\ n[2] = w.name
      BY <2>3
    <3> QED BY <1>10, <3>1 DEF WorkflowOwner
  <2>4. CASE n \in In("%ChildRun", w, Range(w.signal) \cup FromWorkflows(svc, Range(w.call)))
    <3>1. n[1] = "%ChildRun" /\ n[2] = w.name /\ 3 \in DOMAIN n
      BY <1>1, <2>4
    <3> QED BY <1>10, <3>1 DEF WorkflowOwner
  <2> QED BY <2>1, <2>2, <2>3, <2>4
<1> QED BY <1>3, <1>4, <1>5, <1>6, <1>7, <1>8, <1>9, <1>10 DEF WorkflowGens

\* What is declared for an activity, a query, a signal or a call.
LEMMA MethodNames ==
  ASSUME NEW svc, NEW g, NEW m, NEW n \in Written(svc, g, m).declares, NEW o,
         \/ o = "activity" /\ g \in ActivityGens
         \/ o = "query" /\ g \in QueryGens
         \/ o = "signal" /\ g \in SignalGens
         \/ o = "call" /\ g \in CallGens \cup {"genCallExternal"}
  PROVE  n[2] = m.name /\ g = Owner(n, o)
<1>0. WrittenBy(svc, m)
  BY WrittenIs
<1>1. CASE o = "activity" /\ g \in ActivityGens
  <2>1. CASE g = "activity"
    BY <1>1, <2>1, <1>0, WritesIs DEF WrittenBy, genConstants, Options, Owner
  <2>2. CASE g = "genActivity"
    BY <1>1, <2>2, <1>0, WritesIs DEF WrittenBy, genActivity, Owner
  <2> QED BY <1>1, <2>1, <2>2 DEF ActivityGens
<1>2. CASE o = "query" /\ g \in QueryGens
  <2>1. CASE g = "query"
    BY <1>2, <2>1, <1>0, WritesIs DEF WrittenBy, genConstants, Options, Owner
  <2>2. CASE g = "genClientImplQueryMethod"
    BY <1>2, <2>2, <1>0, WritesIs DEF WrittenBy, genClientImplQueryMethod, Owner
  <2> QED BY <1>2, <2>1, <2>2 DEF QueryGens
<1>3. CASE o = "signal" /\ g \in SignalGens
  <2>1. CASE g = "signal"
    BY <1>3, <2>1, <1>0, WritesIs DEF WrittenBy, genConstants, Options, Owner
  <2>2. CASE g = "genClientImplSignalMethod"
    BY <1>3, <2>2, <1>0, WritesIs
       DEF WrittenBy, genClientImplSignalMethod, genClientImplQueryMethod, Owner
  <2>3. CASE g = "genSignal"
    BY <1>3, <2>3, <1>0, WritesIs DEF WrittenBy, genSignal, Owner
  <2>4. CASE g = "genSignalExternal"
    BY <1>3, <2>4, <1>0, WritesIs DEF WrittenBy, genSignalExternal, Owner
  <2> QED BY <1>3, <2>1, <2>2, <2>3, <2>4 DEF SignalGens
<1>4. CASE o = "call" /\ g \in CallGens \cup {"genCallExternal"}
  <2>1. CASE g = "call"
    BY <1>4, <2>1, <1>0, WritesIs DEF WrittenBy, genConstants, Options, Owner
  <2>2. CASE g = "genClientImplCallMethod"
    BY <1>4, <2>2, <1>0, WritesIs DEF WrittenBy, genClientImplCallMethod, Owner
  <2>3. CASE g = "genCall"
    <3>1. n \in genCall(m).declares
      BY <1>0, <2>3 DEF WrittenBy
    <3>2. genCall(m).declares =
            {<<"%", m.name>>} \cup (IF FromClient(m) \/ FromWorkflow(m)
                                  THEN {<<"%.Respond returns", m.name>>} ELSE {})
      BY WritesIs DEF genCall
    <3>3. n \in {<<"%", m.name>>, <<"%.Respond returns", m.name>>}
      <4>1. CASE FromClient(m) \/ FromWorkflow(m)
        BY <3>1, <3>2, <4>1
      <4>2. CASE ~ (FromClient(m) \/ FromWorkflow(m))
        BY <3>1, <3>2, <4>2
      <4> QED BY <4>1, <4>2
    <3>4. n[1] \in {"%", "%.Respond returns"} /\ n[2] = m.name
      <4>1. CASE n = <<"%", m.name>>
        BY <4>1
      <4>2. CASE n = <<"%.Respond returns", m.name>>
        BY <4>2
      <4> QED BY <3>3, <4>1, <4>2
    <3> QED BY <1>4, <2>3, <3>4 DEF Owner
  <2>4. CASE g = "genCallExternal"
    <3>1. n \in {<<"%External", m.name>>, <<"%ResponseExternal", m.name>>}
      BY <2>4, <1>0, WritesIs DEF WrittenBy, genCallExternal
    <3>2. n[1] \in {"%External", "%ResponseExternal"} /\ n[2] = m.name
      BY <3>1
    <3> QED BY <1>4, <2>4, <3>2 DEF Owner
  <2> QED BY <1>4, <2>1, <2>2, <2>3, <2>4 DEF CallGens
<1> QED BY <1>1, <1>2, <1>3, <1>4

\* A name is the service's, or belongs to one method of it.
LEMMA NameOwner ==
  ASSUME NEW svc, NEW t \in StepSet(svc), NEW n \in Written(svc, t.gen, t.of).declares
  PROVE  \/ t.of = None /\ n[2] = None /\ t.gen = ServiceOwner(n[1])
         \/ /\ t.of \in Range(svc) /\ n[2] = t.of.name
            /\ \E o \in t.of.opts : t.gen = Owner(n, o)
<1>1. CASE t.gen \in ServiceGens /\ t.of = None
  BY <1>1, ServiceNames
<1>2. CASE t.of \in Range(svc) /\ "workflow" \in t.of.opts /\ t.gen \in WorkflowGens
  <2>1. n[2] = t.of.name /\ t.gen = WorkflowOwner(n)
    BY <1>2, WorkflowNames
  <2>2. Owner(n, "workflow") = WorkflowOwner(n)
    BY DEF Owner
  <2> QED BY <1>2, <2>1, <2>2
<1>3. CASE t.of \in Range(svc) /\ "activity" \in t.of.opts /\ t.gen \in ActivityGens
  <2>1. n[2] = t.of.name /\ t.gen = Owner(n, "activity")
    BY <1>3, MethodNames
  <2> QED BY <1>3, <2>1
<1>4. CASE t.of \in Range(svc) /\ "query" \in t.of.opts /\ t.gen \in QueryGens
  <2>1. n[2] = t.of.name /\ t.gen = Owner(n, "query")
    BY <1>4, MethodNames
  <2> QED BY <1>4, <2>1
<1>5. CASE t.of \in Range(svc) /\ "signal" \in t.of.opts /\ t.gen \in SignalGens
  <2>1. n[2] = t.of.name /\ t.gen = Owner(n, "signal")
    BY <1>5, MethodNames
  <2> QED BY <1>5, <2>1
<1>6. CASE t.of \in Range(svc) /\ "call" \in t.of.opts /\ t.gen \in CallGens \cup {"genCallExternal"}
  <2>1. n[2] = t.of.name /\ t.gen = Owner(n, "call")
    BY <1>6, MethodNames
  <2> QED BY <1>6, <2>1
<1> QED BY <1>1, <1>2, <1>3, <1>4, <1>5, <1>6, StepKinds

-----------------------------------------------------------------------------
(* A name is written by one call.                                          *)

\* A call is a pair of a function and a method.
LEMMA StepIs ==
  ASSUME NEW svc, NEW t \in StepSet(svc)
  PROVE  t = [gen |-> t.gen, of |-> t.of]
<1>1. \A gens, methods : t \in StepsOf(gens, methods) => t = [gen |-> t.gen, of |-> t.of]
  BY DEF StepsOf
<1> QED BY <1>1 DEF StepSet

\* The facts about the services of a file that has what WellFormed asks for.
LEMMA ServicesOf ==
  ASSUME file \in Files, WellFormed, NEW i \in DOMAIN file
  PROVE  /\ Lists(file[i], Range(file[i])) /\ DOMAIN file = 1 .. Len(file) /\ Len(file) \in Nat
         /\ \A m \in Range(file[i]) :
              /\ m.name # None /\ \A o, p \in m.opts : o = p
              /\ "call" \in m.opts => FromClient(m) /\ IsString(m.out, "id")
              /\ \A j \in DOMAIN file : \A l \in Range(file[j]) :
                   m.name = l.name => i = j /\ m = l
<1> DEFINE svc == file[i]
<1>1. file \in Seq({file[j] : j \in DOMAIN file})
  BY FileAssumption
<1>2. /\ \A j \in DOMAIN file : /\ file[j] \in Seq({file[j][k] : k \in DOMAIN file[j]})
                              /\ \A k \in DOMAIN file[j] : file[j][k].name # None
  BY FileAssumption
<1>3. DOMAIN file = 1 .. Len(file) /\ Len(file) \in Nat
  BY <1>1
<1>4. \A j \in DOMAIN file : Range(file[j]) = {file[j][k] : k \in DOMAIN file[j]}
  BY DEF Range
<1>5. svc \in Seq(Range(svc)) /\ DOMAIN svc = 1 .. Len(svc)
  BY <1>2, <1>4
<1>6. \A j \in DOMAIN file, l \in DOMAIN file : \A k \in DOMAIN file[j], h \in DOMAIN file[l] :
        file[j][k].name = file[l][h].name => j = l /\ k = h
  BY DEF WellFormed
<1>7. Lists(svc, Range(svc))
  <2>1. \A e \in Range(svc) : \E k \in 1 .. Len(svc) : svc[k] = e
    BY <1>4, <1>5
  <2>2. \A k, h \in 1 .. Len(svc) : svc[k] = svc[h] => k = h
    BY <1>5, <1>6
  <2> QED BY <1>5, <2>1, <2>2 DEF Lists
<1>8. ASSUME NEW m \in Range(svc)
      PROVE  /\ m.name # None /\ \A o, p \in m.opts : o = p
             /\ "call" \in m.opts => FromClient(m) /\ IsString(m.out, "id")
             /\ \A j \in DOMAIN file : \A l \in Range(file[j]) :
                  m.name = l.name => i = j /\ m = l
  <2>1. PICK k \in DOMAIN svc : m = svc[k]
    BY <1>4
  <2>2. m \in Methods
    BY DEF Methods
  <2>3. /\ \A o, p \in m.opts : o = p
        /\ "call" \in m.opts => FromClient(m) /\ IsString(m.out, "id")
    BY <2>2 DEF WellFormed
  <2>4. m.name # None
    BY <1>2, <2>1
  <2>5. ASSUME NEW j \in DOMAIN file, NEW l \in Range(file[j]), m.name = l.name
        PROVE  i = j /\ m = l
    <3>1. PICK h \in DOMAIN file[j] : l = file[j][h]
      BY <1>4
    <3>2. file[i][k].name = file[j][h].name
      BY <2>1, <2>5, <3>1
    <3>3. i = j /\ k = h
      BY <1>6, <2>1, <3>1, <3>2
    <3> QED BY <2>1, <3>1, <3>3
  <2> QED BY <2>3, <2>4, <2>5
<1> QED BY <1>3, <1>7, <1>8

\* Two calls, of any two services, write a name of a method only if they are the
\* same call, and within a service any name.
LEMMA OneOwner ==
  ASSUME file \in Files, WellFormed, NEW i \in DOMAIN file, NEW j \in DOMAIN file,
         NEW t \in StepSet(file[i]), NEW u \in StepSet(file[j]),
         NEW n, n \in Written(file[i], t.gen, t.of).declares,
         n \in Written(file[j], u.gen, u.of).declares,
         n[2] # None \/ i = j
  PROVE  i = j /\ t = u
<1>1. \/ t.of = None /\ n[2] = None /\ t.gen = ServiceOwner(n[1])
      \/ /\ t.of \in Range(file[i]) /\ n[2] = t.of.name
         /\ \E o \in t.of.opts : t.gen = Owner(n, o)
  BY NameOwner
<1>2. \/ u.of = None /\ n[2] = None /\ u.gen = ServiceOwner(n[1])
      \/ /\ u.of \in Range(file[j]) /\ n[2] = u.of.name
         /\ \E o \in u.of.opts : u.gen = Owner(n, o)
  BY NameOwner
<1>3. t = [gen |-> t.gen, of |-> t.of] /\ u = [gen |-> u.gen, of |-> u.of]
  BY StepIs
<1>4. CASE n[2] = None
  <2>1. t.of \in Range(file[i]) => t.of.name # None
    BY ServicesOf
  <2>2. u.of \in Range(file[j]) => u.of.name # None
    BY ServicesOf
  <2>3. t.of = None /\ t.gen = ServiceOwner(n[1])
    BY <1>1, <1>4, <2>1
  <2>4. u.of = None /\ u.gen = ServiceOwner(n[1])
    BY <1>2, <1>4, <2>2
  <2> QED BY <1>3, <1>4, <2>3, <2>4
<1>5. CASE n[2] # None
  <2>1. PICK o \in t.of.opts : t.gen = Owner(n, o)
    BY <1>1, <1>5
  <2>2. PICK p \in u.of.opts : u.gen = Owner(n, p)
    BY <1>2, <1>5
  <2>3. t.of \in Range(file[i]) /\ u.of \in Range(file[j]) /\ t.of.name = u.of.name
    BY <1>1, <1>2, <1>5
  <2>4. i = j /\ t.of = u.of
    BY <2>3, ServicesOf
  <2>5. \A a, b \in t.of.opts : a = b
    BY <2>3, ServicesOf
  <2>6. o = p
    BY <2>4, <2>5
  <2> QED BY <1>3, <2>1, <2>2, <2>4, <2>6
<1> QED BY <1>4, <1>5

-----------------------------------------------------------------------------
(* What is declared for the methods of a service.                          *)

DeclaredIn(svc, n) == \E t \in StepSet(svc) : n \in Written(svc, t.gen, t.of).declares

\* The functions that are called for a method, by its option.
LEMMA InStepSet ==
  ASSUME NEW svc, NEW m
  PROVE  /\ \A g \in ServiceGens : [gen |-> g, of |-> None] \in StepSet(svc)
         /\ m \in Kind(svc, "workflow") => \A g \in WorkflowGens : [gen |-> g, of |-> m] \in StepSet(svc)
         /\ m \in Kind(svc, "activity") => \A g \in ActivityGens : [gen |-> g, of |-> m] \in StepSet(svc)
         /\ m \in Kind(svc, "query") => \A g \in QueryGens : [gen |-> g, of |-> m] \in StepSet(svc)
         /\ m \in Kind(svc, "signal") => \A g \in SignalGens : [gen |-> g, of |-> m] \in StepSet(svc)
         /\ m \in Kind(svc, "call") => \A g \in CallGens : [gen |-> g, of |-> m] \in StepSet(svc)
         /\ m \in Kind(svc, "call") /\ FromWorkflow(m) =>
              [gen |-> "genCallExternal", of |-> m] \in StepSet(svc)
<1>1. \A gens, methods : \A g \in gens, k \in methods : [gen |-> g, of |-> k] \in StepsOf(gens, methods)
  BY DEF StepsOf
<1>2. \A gens, methods : StepsOf(gens, methods) \subseteq StepSet(svc) =>
        \A g \in gens, k \in methods : [gen |-> g, of |-> k] \in StepSet(svc)
  BY <1>1
<1>3. /\ StepsOf(ServiceGens, {None}) \subseteq StepSet(svc)
      /\ StepsOf(WorkflowGens, Kind(svc, "workflow")) \subseteq StepSet(svc)
      /\ StepsOf(ActivityGens, Kind(svc, "activity")) \subseteq StepSet(svc)
      /\ StepsOf(QueryGens, Kind(svc, "query")) \subseteq StepSet(svc)
      /\ StepsOf(SignalGens, Kind(svc, "signal")) \subseteq StepSet(svc)
      /\ StepsOf(CallGens, Kind(svc, "call")) \subseteq StepSet(svc)
      /\ StepsOf({"genCallExternal"}, {c \in Kind(svc, "call") : FromWorkflow(c)}) \subseteq StepSet(svc)
  BY DEF StepSet
<1>4. None \in {None} /\ "genCallExternal" \in {"genCallExternal"}
      /\ (m \in Kind(svc, "call") /\ FromWorkflow(m) =>
            m \in {c \in Kind(svc, "call") : FromWorkflow(c)})
  OBVIOUS
<1> QED BY <1>2, <1>3, <1>4

\* What a call for the service declares is declared in it.
LEMMA Declares ==
  ASSUME NEW svc, NEW g, NEW m, [gen |-> g, of |-> m] \in StepSet(svc),
         NEW n \in Written(svc, g, m).declares
  PROVE  DeclaredIn(svc, n)
<1>1. [gen |-> g, of |-> m].gen = g /\ [gen |-> g, of |-> m].of = m
  OBVIOUS
<1> QED BY <1>1 DEF DeclaredIn

\* Names that every service has.
LEMMA ServiceDeclares ==
  ASSUME NEW svc, NEW name \in {"Client", "ClientOptions", "CallResponseHandler", "clientImpl"}
  PROVE  DeclaredIn(svc, <<name, None>>)
<1>0. WrittenBy(svc, None)
  BY WrittenIs
<1> DEFINE g == ServiceOwner(name)
<1>1. g \in ServiceGens /\ <<name, None>> \in Written(svc, g, None).declares
  <2>1. CASE name \in {"Client", "ClientOptions"}
    BY <1>0, <2>1, WritesIs
       DEF WrittenBy, ServiceOwner, ServiceGens, genClientInterface, genClientOptions
  <2>2. CASE name \in {"CallResponseHandler", "clientImpl"}
    BY <1>0, <2>2, WritesIs
       DEF WrittenBy, ServiceOwner, ServiceGens, genCallResponseHandler, genClientImplStruct
  <2> QED BY <2>1, <2>2
<1> HIDE DEF g
<1> QED BY <1>1, InStepSet, Declares

\* The names of a kind are those of the methods of that kind.
LEMMA NamesOfKind ==
  ASSUME NEW svc, Lists(svc, Range(svc)), NEW option
  PROVE  /\ Range(Having(svc, option)) = Kind(svc, option)
         /\ \A r \in Names(svc, option) : \E m \in Kind(svc, option) : m.name = r
         /\ \A m \in Kind(svc, option) : m.name \in Names(svc, option)
<1>1. Range(Having(svc, option)) = Kind(svc, option)
  BY HavingLists, ListedIsRange
<1> QED BY <1>1 DEF Names

\* Names that a workflow has.
LEMMA WorkflowDeclares ==
  ASSUME NEW svc, NEW w \in Kind(svc, "workflow")
  PROVE  /\ \A name \in {"%Name", "%Run", "private %Run", "%Impl", "%Input", "Client.Execute%",
                         "Client.Get%"} : DeclaredIn(svc, <<name, w.name>>)
         /\ \A n \in In("%Run", w, Range(w.query) \cup Range(w.signal) \cup Range(w.call))
                     \cup In("%Impl", w, Range(w.query))
                     \cup In("%Input", w, Range(w.signal) \cup Range(w.call)) : DeclaredIn(svc, n)
<1>0. WrittenBy(svc, w)
  BY WrittenIs
<1>1. \A g \in WorkflowGens : \A n \in Written(svc, g, w).declares : DeclaredIn(svc, n)
  BY InStepSet, Declares
<1>2. DeclaredIn(svc, <<"%Name", w.name>>)
  <2>1. <<"%Name", w.name>> \in Written(svc, "workflow", w).declares
    BY <1>0, WritesIs DEF WrittenBy, Options, genConstants
  <2> QED BY <1>1, <2>1 DEF WorkflowGens
<1>3. DeclaredIn(svc, <<"%Run", w.name>>)
  <2>1. <<"%Run", w.name>> \in Written(svc, "genWorkflowRunInterface", w).declares
    BY <1>0, WritesIs DEF WrittenBy, genWorkflowRunInterface
  <2> QED BY <1>1, <2>1 DEF WorkflowGens
<1>4. \A n \in {<<"private %Run", w.name>>}
               \cup In("%Run", w, Range(w.query) \cup Range(w.signal) \cup Range(w.call)) :
        DeclaredIn(svc, n)
  <2>1. genWorkflowRunImpl(w).declares = {<<"private %Run", w.name>>}
               \cup In("%Run", w, Range(w.query) \cup Range(w.signal) \cup Range(w.call))
    BY WritesIs DEF genWorkflowRunImpl
  <2>2. Written(svc, "genWorkflowRunImpl", w) = genWorkflowRunImpl(w)
    BY <1>0 DEF WrittenBy
  <2> QED BY <1>1, <2>1, <2>2 DEF WorkflowGens
<1>5. \A n \in {<<"%Impl", w.name>>} \cup In("%Impl", w, Range(w.query)) : DeclaredIn(svc, n)
  <2>1. genWorkflowImplInterface(w).declares
        = {<<"%Impl", w.name>>} \cup In("%Impl", w, Range(w.query))
    BY WritesIs DEF genWorkflowImplInterface
  <2>2. Written(svc, "genWorkflowImplInterface", w) = genWorkflowImplInterface(w)
    BY <1>0 DEF WrittenBy
  <2> QED BY <1>1, <2>1, <2>2 DEF WorkflowGens
<1>6. \A n \in {<<"%Input", w.name>>} \cup In("%Input", w, Range(w.signal) \cup Range(w.call)) :
        DeclaredIn(svc, n)
  <2>1. genWorkflowInput(w).declares
        = {<<"%Input", w.name>>} \cup In("%Input", w, Range(w.signal) \cup Range(w.call))
    BY WritesIs DEF genWorkflowInput
  <2>2. Written(svc, "genWorkflowInput", w) = genWorkflowInput(w)
    BY <1>0 DEF WrittenBy
  <2> QED BY <1>1, <2>1, <2>2 DEF WorkflowGens
<1>7. DeclaredIn(svc, <<"Client.Execute%", w.name>>) /\ DeclaredIn(svc, <<"Client.Get%", w.name>>)
  <2>1. genClientImplWorkflowMethods(svc, w).declares
        = {<<"Client.Execute%", w.name>>, <<"Client.Get%", w.name>>}
    BY WritesIs DEF genClientImplWorkflowMethods
  <2>2. Written(svc, "genClientImplWorkflowMethods", w) = genClientImplWorkflowMethods(svc, w)
    BY <1>0 DEF WrittenBy
  <2> QED BY <1>1, <2>1, <2>2 DEF WorkflowGens
<1>8. /\ DeclaredIn(svc, <<"private %Run", w.name>>)
      /\ DeclaredIn(svc, <<"%Impl", w.name>>) /\ DeclaredIn(svc, <<"%Input", w.name>>)
  BY <1>4, <1>5, <1>6
<1> QED BY <1>2, <1>3, <1>4, <1>5, <1>6, <1>7, <1>8

\* Names that an activity has.
LEMMA ActivityDeclares ==
  ASSUME NEW svc, NEW m \in Kind(svc, "activity"), NEW name \in {"%Name", "Register%"}
  PROVE  DeclaredIn(svc, <<name, m.name>>)
<1>0. WrittenBy(svc, m)
  BY WrittenIs
<1>1. \A g \in ActivityGens : \A n \in Written(svc, g, m).declares : DeclaredIn(svc, n)
  BY InStepSet, Declares
<1>2. <<"%Name", m.name>> \in Written(svc, "activity", m).declares
  BY <1>0, WritesIs DEF WrittenBy, Options, genConstants
<1>3. <<"Register%", m.name>> \in Written(svc, "genActivity", m).declares
  BY <1>0, WritesIs DEF WrittenBy, genActivity
<1> QED BY <1>1, <1>2, <1>3 DEF ActivityGens

\* Names that a query has.
LEMMA QueryDeclares ==
  ASSUME NEW svc, NEW m \in Kind(svc, "query"), NEW name \in {"%Name", "Client.%"}
  PROVE  DeclaredIn(svc, <<name, m.name>>)
<1>0. WrittenBy(svc, m)
  BY WrittenIs
<1>1. \A g \in QueryGens : \A n \in Written(svc, g, m).declares : DeclaredIn(svc, n)
  BY InStepSet, Declares
<1>2. <<"%Name", m.name>> \in Written(svc, "query", m).declares
  BY <1>0, WritesIs DEF WrittenBy, Options, genConstants
<1>3. <<"Client.%", m.name>> \in Written(svc, "genClientImplQueryMethod", m).declares
  BY <1>0, WritesIs DEF WrittenBy, genClientImplQueryMethod
<1> QED BY <1>1, <1>2, <1>3 DEF QueryGens

\* Names that a signal has.
LEMMA SignalDeclares ==
  ASSUME NEW svc, NEW m \in Kind(svc, "signal"), NEW name \in {"%Name", "Client.%", "%"}
  PROVE  DeclaredIn(svc, <<name, m.name>>)
<1>0. WrittenBy(svc, m)
  BY WrittenIs
<1>1. \A g \in SignalGens : \A n \in Written(svc, g, m).declares : DeclaredIn(svc, n)
  BY InStepSet, Declares
<1>2. <<"%Name", m.name>> \in Written(svc, "signal", m).declares
  BY <1>0, WritesIs DEF WrittenBy, Options, genConstants
<1>3. <<"Client.%", m.name>> \in Written(svc, "genClientImplSignalMethod", m).declares
  BY <1>0, WritesIs DEF WrittenBy, genClientImplSignalMethod, genClientImplQueryMethod
<1>4. <<"%", m.name>> \in Written(svc, "genSignal", m).declares
  BY <1>0, WritesIs DEF WrittenBy, genSignal
<1> QED BY <1>1, <1>2, <1>3, <1>4 DEF SignalGens

\* Names that a call has, some of them only if a client or a workflow can make it.
LEMMA CallDeclares ==
  ASSUME NEW svc, NEW m \in Kind(svc, "call")
  PROVE  /\ \A name \in {"%SignalName", "%ResponseName", "Client.%", "%"} :
              DeclaredIn(svc, <<name, m.name>>)
         /\ FromClient(m) => DeclaredIn(svc, <<"%.Respond returns", m.name>>)
         /\ FromWorkflow(m) => DeclaredIn(svc, <<"%ResponseExternal", m.name>>)
<1>0. WrittenBy(svc, m)
  BY WrittenIs
<1>1. \A g \in CallGens : \A n \in Written(svc, g, m).declares : DeclaredIn(svc, n)
  BY InStepSet, Declares
<1>2. /\ <<"%SignalName", m.name>> \in Written(svc, "call", m).declares
      /\ <<"%ResponseName", m.name>> \in Written(svc, "call", m).declares
  BY <1>0, WritesIs DEF WrittenBy, Options, genConstants
<1>3. <<"Client.%", m.name>> \in Written(svc, "genClientImplCallMethod", m).declares
  BY <1>0, WritesIs DEF WrittenBy, genClientImplCallMethod
<1>4. /\ <<"%", m.name>> \in Written(svc, "genCall", m).declares
      /\ FromClient(m) => <<"%.Respond returns", m.name>> \in Written(svc, "genCall", m).declares
  <2>1. genCall(m).declares =
          {<<"%", m.name>>} \cup (IF FromClient(m) \/ FromWorkflow(m)
                                THEN {<<"%.Respond returns", m.name>>} ELSE {})
    BY WritesIs DEF genCall
  <2>2. Written(svc, "genCall", m) = genCall(m)
    BY <1>0 DEF WrittenBy
  <2> QED BY <2>1, <2>2
<1>5. ASSUME FromWorkflow(m) PROVE DeclaredIn(svc, <<"%ResponseExternal", m.name>>)
  <2>1. <<"%ResponseExternal", m.name>> \in Written(svc, "genCallExternal", m).declares
    BY <1>0, WritesIs DEF WrittenBy, genCallExternal
  <2> QED BY <1>5, <2>1, InStepSet, Declares
<1> QED BY <1>1, <1>2, <1>3, <1>4, <1>5 DEF CallGens

-----------------------------------------------------------------------------
(* What the functions refer to is there.                                   *)

\* A service without errors, whose calls are what WellFormed asks for.
Sound(svc) ==
  /\ Lists(svc, Range(svc)) /\ ServiceErrors(svc) = {}
  /\ \A m \in Range(svc) : "call" \in m.opts => FromClient(m) /\ IsString(m.out, "id")

Resolved(svc, uses) ==
  \A n \in uses : IF n[1] = "field" THEN IsString(n[2], n[3]) ELSE DeclaredIn(svc, n)

\* A workflow that passes validation refers to items of its service.
LEMMA WorkflowValid ==
  ASSUME NEW svc, Sound(svc), NEW w \in Kind(svc, "workflow")
  PROVE  /\ Range(w.query) \subseteq Names(svc, "query")
         /\ Range(w.signal) \subseteq Names(svc, "signal")
         /\ Range(w.call) \subseteq Names(svc, "call")
         /\ w.start \in {None} \cup Names(svc, "signal")
         /\ w.idField = None \/ IsString(w.in, w.idField)
<1>1. w \in Range(Having(svc, "workflow"))
  BY NamesOfKind DEF Sound
<1>2. WorkflowErrors(svc, w) = {}
  <2>1. WorkflowErrors(svc, w) \subseteq ServiceErrors(svc)
    BY <1>1 DEF ServiceErrors
  <2> QED BY <2>1 DEF Sound
<1>3. /\ Unresolved(w.query, svc, "query") = {} /\ Unresolved(w.signal, svc, "signal") = {}
      /\ Unresolved(w.call, svc, "call") = {}
      /\ Unless(w.start \in {None} \cup (Range(w.signal) \cap Names(svc, "signal")),
                <<"signal start", w.name>>) = {}
      /\ Unless(w.idField = None \/ IsString(w.in, w.idField), <<"workflow ID field", w.name>>) = {}
  BY <1>2 DEF WorkflowErrors
<1>4. \A refs, option : Unresolved(refs, svc, option) = {} => Range(refs) \subseteq Names(svc, option)
  BY DEF Unresolved
<1>5. w.start \in {None} \cup (Range(w.signal) \cap Names(svc, "signal"))
  BY <1>3 DEF Unless
<1>6. w.idField = None \/ IsString(w.in, w.idField)
  BY <1>3 DEF Unless
<1> QED BY <1>3, <1>4, <1>5, <1>6

\* A call that passes validation, and is well-formed, has the fields it needs.
LEMMA CallValid ==
  ASSUME NEW svc, Sound(svc), NEW c \in Kind(svc, "call")
  PROVE  /\ IsString(c.in, "id") /\ IsString(c.in, TaskQueue) /\ IsString(c.out, "id")
         /\ FromWorkflow(c) => IsString(c.in, WorkflowId)
         /\ FromClient(c)
<1>1. c \in Range(Having(svc, "call"))
  BY NamesOfKind DEF Sound
<1>2. CallErrors(c) = {}
  <2>1. CallErrors(c) \subseteq ServiceErrors(svc)
    <3>1. CallErrors(c) \subseteq UNION {CallErrors(d) : d \in Range(Having(svc, "call"))}
      BY <1>1
    <3> QED BY <3>1 DEF ServiceErrors
  <2> QED BY <2>1 DEF Sound
<1>3. FromClient(c) /\ IsString(c.out, "id")
  BY DEF Sound, Kind
<1>4. /\ Unless(IsString(c.in, "id"), <<"id", c.name>>) = {}
      /\ Unless(FromClient(c) => IsString(c.in, TaskQueue), <<TaskQueue, c.name>>) = {}
      /\ Unless(FromWorkflow(c) => IsString(c.in, WorkflowId), <<WorkflowId, c.name>>) = {}
  <2>1. c.in # Empty /\ c.out # Empty
    BY <1>2 DEF CallErrors
  <2> QED BY <1>2, <2>1 DEF CallErrors
<1>5. IsString(c.in, "id")
  BY <1>4 DEF Unless
<1>6. FromClient(c) => IsString(c.in, TaskQueue)
  BY <1>4 DEF Unless
<1>7. FromWorkflow(c) => IsString(c.in, WorkflowId)
  BY <1>4 DEF Unless
<1> QED BY <1>3, <1>5, <1>6, <1>7

\* References of one form are resolved if each is declared, or is a field.
LEMMA Resolve ==
  ASSUME NEW svc
  PROVE  /\ \A name, a : name # "field" /\ DeclaredIn(svc, <<name, a>>) =>
              Resolved(svc, {<<name, a>>})
         /\ \A name, methods :
              name # "field" /\ (\A m \in methods : DeclaredIn(svc, <<name, m>>)) =>
                Resolved(svc, Of(name, methods))
         /\ \A type, w, members :
              type # "field" /\ (\A n \in In(type, w, members) : DeclaredIn(svc, n)) =>
                Resolved(svc, In(type, w, members))
         /\ \A message, fields :
              (\A f \in fields : IsString(message, f)) => Resolved(svc, FieldsOf(message, fields))
         /\ Resolved(svc, {})
         /\ \A S, T : Resolved(svc, S) /\ Resolved(svc, T) => Resolved(svc, S \cup T)
<1>1. \A name, a : <<name, a>>[1] = name
  OBVIOUS
<1>2. ASSUME NEW name, NEW a, name # "field", DeclaredIn(svc, <<name, a>>)
      PROVE  Resolved(svc, {<<name, a>>})
  BY <1>1, <1>2 DEF Resolved
<1>3. ASSUME NEW name, NEW methods, name # "field",
             \A m \in methods : DeclaredIn(svc, <<name, m>>)
      PROVE  Resolved(svc, Of(name, methods))
  BY <1>1, <1>3 DEF Resolved, Of
<1>4. ASSUME NEW type, NEW w, NEW members, type # "field",
             \A n \in In(type, w, members) : DeclaredIn(svc, n)
      PROVE  Resolved(svc, In(type, w, members))
  <2>1. \A n \in In(type, w, members) : n[1] = type
    BY DEF In
  <2> QED BY <1>4, <2>1 DEF Resolved
<1>5. ASSUME NEW message, NEW fields, \A f \in fields : IsString(message, f)
      PROVE  Resolved(svc, FieldsOf(message, fields))
  <2>1. \A n \in FieldsOf(message, fields) : n[1] = "field" /\ n[2] = message /\ n[3] \in fields
    BY DEF FieldsOf
  <2> QED BY <1>5, <2>1 DEF Resolved
<1>6. Resolved(svc, {}) /\ \A S, T : Resolved(svc, S) /\ Resolved(svc, T) => Resolved(svc, S \cup T)
  BY DEF Resolved
<1> QED BY <1>2, <1>3, <1>4, <1>5, <1>6

\* What clients, or workflows, can call among some names.
LEMMA CallersNames ==
  ASSUME NEW svc, Lists(svc, Range(svc)), NEW names
  PROVE  /\ FromClients(svc, names) \subseteq names \cap Names(svc, "call")
         /\ FromWorkflows(svc, names) \subseteq names \cap Names(svc, "call")
         /\ \A r \in FromWorkflows(svc, names) :
              \E c \in Kind(svc, "call") : FromWorkflow(c) /\ c.name = r
<1>1. Range(Having(svc, "call")) = Kind(svc, "call")
  BY NamesOfKind
<1>2. \A c \in Calls(svc, names) :
        c \in Kind(svc, "call") /\ c.name \in names /\ c.name \in Names(svc, "call")
  BY <1>1, NamesOfKind DEF Calls
<1> QED BY <1>2 DEF FromClients, FromWorkflows

\* The names that validation finds for each kind are declared in the forms of the kind.
LEMMA NamesDeclared ==
  ASSUME NEW svc, Lists(svc, Range(svc))
  PROVE  /\ \A r \in Names(svc, "workflow") :
              \A name \in {"%Name", "%Run", "Client.Execute%", "Client.Get%"} :
                DeclaredIn(svc, <<name, r>>)
         /\ \A r \in Names(svc, "activity") : DeclaredIn(svc, <<"Register%", r>>)
         /\ \A r \in Names(svc, "query") :
              \A name \in {"%Name", "Client.%"} : DeclaredIn(svc, <<name, r>>)
         /\ \A r \in Names(svc, "signal") :
              \A name \in {"%Name", "Client.%", "%"} : DeclaredIn(svc, <<name, r>>)
         /\ \A r \in Names(svc, "call") :
              \A name \in {"%SignalName", "%ResponseName", "Client.%", "%"} :
                DeclaredIn(svc, <<name, r>>)
<1>1. \A option : \A r \in Names(svc, option) : \E m \in Kind(svc, option) : m.name = r
  BY NamesOfKind
<1>2. ASSUME NEW r \in Names(svc, "workflow"),
             NEW name \in {"%Name", "%Run", "Client.Execute%", "Client.Get%"}
      PROVE  DeclaredIn(svc, <<name, r>>)
  <2>1. PICK m \in Kind(svc, "workflow") : m.name = r
    BY <1>1
  <2>2. name \in {"%Name", "%Run", "private %Run", "%Impl", "%Input", "Client.Execute%",
                  "Client.Get%"}
    OBVIOUS
  <2>3. DeclaredIn(svc, <<name, m.name>>)
    BY <2>2, WorkflowDeclares
  <2> QED BY <2>1, <2>3
<1>3. ASSUME NEW r \in Names(svc, "activity") PROVE DeclaredIn(svc, <<"Register%", r>>)
  <2>1. PICK m \in Kind(svc, "activity") : m.name = r
    BY <1>1
  <2>2. DeclaredIn(svc, <<"Register%", m.name>>)
    BY ActivityDeclares
  <2> QED BY <2>1, <2>2
<1>4. ASSUME NEW r \in Names(svc, "query"), NEW name \in {"%Name", "Client.%"}
      PROVE  DeclaredIn(svc, <<name, r>>)
  <2>1. PICK m \in Kind(svc, "query") : m.name = r
    BY <1>1
  <2>2. DeclaredIn(svc, <<name, m.name>>)
    BY QueryDeclares
  <2> QED BY <2>1, <2>2
<1>5. ASSUME NEW r \in Names(svc, "signal"), NEW name \in {"%Name", "Client.%", "%"}
      PROVE  DeclaredIn(svc, <<name, r>>)
  <2>1. PICK m \in Kind(svc, "signal") : m.name = r
    BY <1>1
  <2>2. DeclaredIn(svc, <<name, m.name>>)
    BY SignalDeclares
  <2> QED BY <2>1, <2>2
<1>6. ASSUME NEW r \in Names(svc, "call"),
             NEW name \in {"%SignalName", "%ResponseName", "Client.%", "%"}
      PROVE  DeclaredIn(svc, <<name, r>>)
  <2>1. PICK m \in Kind(svc, "call") : m.name = r
    BY <1>1
  <2>2. DeclaredIn(svc, <<name, m.name>>)
    BY CallDeclares
  <2> QED BY <2>1, <2>2
<1> QED BY <1>2, <1>3, <1>4, <1>5, <1>6

\* The references in what is written for the service.
LEMMA ServiceUses ==
  ASSUME NEW svc, Sound(svc), NEW g \in ServiceGens
  PROVE  Resolved(svc, Written(svc, g, None).uses)
<1>0. WrittenBy(svc, None)
  BY WrittenIs
<1>1. Lists(svc, Range(svc))
  BY DEF Sound
<1>2. \A name \in {"Client", "ClientOptions", "CallResponseHandler", "clientImpl"} :
        Resolved(svc, {<<name, None>>})
  BY ServiceDeclares, Resolve
<1>3. CASE g = "genClientInterface"
  <2>1. Written(svc, g, None).uses = Of("%Run", Names(svc, "workflow"))
    BY <1>0, <1>3, WritesIs DEF WrittenBy, genClientInterface
  <2>2. Resolved(svc, Of("%Run", Names(svc, "workflow")))
    BY <1>1, NamesDeclared, Resolve
  <2> QED BY <2>1, <2>2
<1>4. CASE g \in {"genClientOptions", "genClientImplStruct"}
  <2>1. Written(svc, g, None).uses = {<<"CallResponseHandler", None>>}
    BY <1>0, <1>4, WritesIs DEF WrittenBy, genClientOptions, genClientImplStruct
  <2> QED BY <1>2, <2>1
<1>5. CASE g = "genCallResponseHandler"
  <2>1. Written(svc, g, None).uses = {}
    BY <1>0, <1>5, WritesIs DEF WrittenBy, genCallResponseHandler
  <2> QED BY <2>1, Resolve
<1>6. CASE g = "genClientImplConstructor"
  <2> DEFINE A == {<<"Client", None>>, <<"ClientOptions", None>>, <<"clientImpl", None>>}
             B == ClientMethods(svc)
             C == Of("%ResponseName", FromClients(svc, Names(svc, "call")))
  <2>1. Written(svc, g, None).uses = A \cup B \cup C
    BY <1>0, <1>6, WritesIs DEF WrittenBy, genClientImplConstructor
  <2>2. Resolved(svc, A)
    BY <1>2 DEF Resolved
  <2>3. FromClients(svc, Names(svc, "call")) \subseteq Names(svc, "call")
    BY <1>1, CallersNames
  <2>4. Resolved(svc, B)
    <3>1. Resolved(svc, Of("Client.Execute%", Names(svc, "workflow")))
      BY <1>1, NamesDeclared, Resolve
    <3>2. Resolved(svc, Of("Client.Get%", Names(svc, "workflow")))
      BY <1>1, NamesDeclared, Resolve
    <3>3. Resolved(svc, Of("Client.%", Names(svc, "query") \cup Names(svc, "signal")
                                       \cup FromClients(svc, Names(svc, "call"))))
      BY <1>1, <2>3, NamesDeclared, Resolve
    <3> QED BY <3>1, <3>2, <3>3, Resolve DEF ClientMethods
  <2>5. Resolved(svc, C)
    BY <1>1, <2>3, NamesDeclared, Resolve
  <2> HIDE DEF A, B, C
  <2> QED BY <2>1, <2>2, <2>4, <2>5 DEF Resolved
<1>7. CASE g = "genActivitiesImpl"
  <2>1. Written(svc, g, None) = genActivitiesImpl(svc)
    BY <1>0, <1>7 DEF WrittenBy
  <2>2. CASE Names(svc, "activity") = {}
    <3>1. genActivitiesImpl(svc).uses = {}
      BY <2>2, WritesIs DEF genActivitiesImpl
    <3> QED BY <2>1, <3>1, Resolve
  <2>3. CASE Names(svc, "activity") # {}
    <3>1. genActivitiesImpl(svc).uses = Of("Register%", Names(svc, "activity"))
      BY <2>3, WritesIs DEF genActivitiesImpl
    <3>2. Resolved(svc, Of("Register%", Names(svc, "activity")))
      BY <1>1, NamesDeclared, Resolve
    <3> QED BY <2>1, <3>1, <3>2
  <2> QED BY <2>2, <2>3
<1> QED BY <1>3, <1>4, <1>5, <1>6, <1>7 DEF ServiceGens

\* The references in what is written for a workflow.
LEMMA WorkflowUses ==
  ASSUME NEW svc, Sound(svc), NEW w \in Kind(svc, "workflow"), NEW g \in WorkflowGens
  PROVE  Resolved(svc, Written(svc, g, w).uses)
<1>0. WrittenBy(svc, w)
  BY WrittenIs
<1>1. Lists(svc, Range(svc))
  BY DEF Sound
<1>2. /\ Range(w.query) \subseteq Names(svc, "query")
      /\ Range(w.signal) \subseteq Names(svc, "signal")
      /\ Range(w.call) \subseteq Names(svc, "call")
      /\ {w.start} \ {None} \subseteq Names(svc, "signal")
  BY WorkflowValid
<1>3. Resolved(svc, FieldsOf(w.in, {w.idField} \ {None}))
  <2>1. \A f \in {w.idField} \ {None} : IsString(w.in, f)
    BY WorkflowValid
  <2> QED BY <2>1, Resolve
<1>4. \A name \in {"%Name", "%Run", "private %Run", "%Impl", "%Input"} :
        Resolved(svc, {<<name, w.name>>})
  <2>1. \A name \in {"%Name", "%Run", "private %Run", "%Impl", "%Input"} :
          name # "field" /\ DeclaredIn(svc, <<name, w.name>>)
    BY WorkflowDeclares
  <2> QED BY <2>1, Resolve
<1>5. Resolved(svc, {<<"clientImpl", None>>})
  BY ServiceDeclares, Resolve
<1>6. /\ \A names : names \subseteq Names(svc, "query") \cup Names(svc, "signal") \cup {w.name} =>
           Resolved(svc, Of("%Name", names))
      /\ \A names :
           names \subseteq Names(svc, "query") \cup Names(svc, "signal") \cup Names(svc, "call") =>
           Resolved(svc, Of("Client.%", names))
      /\ \A names : names \subseteq Names(svc, "signal") \cup Names(svc, "call") =>
           Resolved(svc, Of("%", names))
      /\ \A names : names \subseteq Names(svc, "call") =>
           Resolved(svc, Of("%SignalName", names)) /\ Resolved(svc, Of("%ResponseName", names))
  <2>1. DeclaredIn(svc, <<"%Name", w.name>>)
    BY WorkflowDeclares
  <2>2. ASSUME NEW names, names \subseteq Names(svc, "query") \cup Names(svc, "signal") \cup {w.name}
        PROVE  Resolved(svc, Of("%Name", names))
    BY <1>1, <2>1, <2>2, NamesDeclared, Resolve
  <2>3. ASSUME NEW names,
               names \subseteq Names(svc, "query") \cup Names(svc, "signal") \cup Names(svc, "call")
        PROVE  Resolved(svc, Of("Client.%", names))
    BY <1>1, <2>3, NamesDeclared, Resolve
  <2>4. ASSUME NEW names, names \subseteq Names(svc, "signal") \cup Names(svc, "call")
        PROVE  Resolved(svc, Of("%", names))
    BY <1>1, <2>4, NamesDeclared, Resolve
  <2>5. ASSUME NEW names, names \subseteq Names(svc, "call")
        PROVE  Resolved(svc, Of("%SignalName", names)) /\ Resolved(svc, Of("%ResponseName", names))
    BY <1>1, <2>5, NamesDeclared, Resolve
  <2> QED BY <2>2, <2>3, <2>4, <2>5
<1> DEFINE members == Range(w.query) \cup Range(w.signal) \cup Range(w.call)
           asked == Range(w.signal) \cup Range(w.call)
<1>7. /\ \A some : some \subseteq members => Resolved(svc, In("%Run", w, some))
      /\ Resolved(svc, In("%Impl", w, Range(w.query)))
      /\ Resolved(svc, In("%Input", w, asked))
  <2>1. /\ \A n \in In("%Run", w, members) : DeclaredIn(svc, n)
        /\ \A n \in In("%Impl", w, Range(w.query)) : DeclaredIn(svc, n)
        /\ \A n \in In("%Input", w, asked) : DeclaredIn(svc, n)
    BY WorkflowDeclares
  <2>2. ASSUME NEW some, some \subseteq members PROVE Resolved(svc, In("%Run", w, some))
    <3>1. In("%Run", w, some) \subseteq In("%Run", w, members)
      BY <2>2 DEF In
    <3> HIDE DEF members
    <3> QED BY <2>1, <3>1, Resolve
  <2> HIDE DEF members, asked
  <2> QED BY <2>1, <2>2, Resolve
<1>8. CASE g = "workflow"
  <2>1. Written(svc, g, w).uses = {}
    BY <1>0, <1>8, WritesIs DEF WrittenBy, genConstants, Options
  <2> QED BY <2>1, Resolve
<1>9. CASE g = "genClientImplWorkflowMethods"
  <2>1. Written(svc, g, w) = genClientImplWorkflowMethods(svc, w)
    BY <1>0, <1>9 DEF WrittenBy
  <2>2. genClientImplWorkflowMethods(svc, w).uses =
          {<<"clientImpl", None>>, <<"%Name", w.name>>, <<"%Run", w.name>>,
           <<"private %Run", w.name>>}
          \cup In("%Run", w, RunMethods(svc, w)) \cup Of("%Name", {w.start} \ {None})
          \cup FieldsOf(w.in, {w.idField} \ {None})
    BY WritesIs DEF genClientImplWorkflowMethods
  <2>3. RunMethods(svc, w) \subseteq members
    BY <1>1, CallersNames DEF RunMethods
  <2>4. Resolved(svc, {<<"clientImpl", None>>, <<"%Name", w.name>>, <<"%Run", w.name>>,
                       <<"private %Run", w.name>>})
    BY <1>4, <1>5 DEF Resolved
  <2>5. Resolved(svc, In("%Run", w, RunMethods(svc, w)))
    BY <1>7, <2>3
  <2>6. Resolved(svc, Of("%Name", {w.start} \ {None}))
    BY <1>2, <1>6
  <2> QED BY <1>3, <2>1, <2>2, <2>4, <2>5, <2>6 DEF Resolved
<1>10. CASE g \in {"genWorkflowRunInterface", "genWorkflowImplInterface"}
  <2>1. Written(svc, g, w).uses = {}
    BY <1>0, <1>10, WritesIs DEF WrittenBy, genWorkflowRunInterface, genWorkflowImplInterface
  <2> QED BY <2>1, Resolve
<1>11. CASE g = "genWorkflowRunImpl"
  <2>1. Written(svc, g, w) = genWorkflowRunImpl(w)
    BY <1>0, <1>11 DEF WrittenBy
  <2>2. genWorkflowRunImpl(w).uses = {<<"clientImpl", None>>} \cup Of("Client.%", members)
    BY WritesIs DEF genWorkflowRunImpl
  <2>3. Resolved(svc, Of("Client.%", members))
    BY <1>2, <1>6
  <2> HIDE DEF members
  <2> QED BY <1>5, <2>1, <2>2, <2>3 DEF Resolved
<1>12. CASE g = "genWorkflowInput"
  <2>1. Written(svc, g, w) = genWorkflowInput(w)
    BY <1>0, <1>12 DEF WrittenBy
  <2>2. genWorkflowInput(w).uses = Of("%", asked)
    BY WritesIs DEF genWorkflowInput
  <2>3. Resolved(svc, Of("%", asked))
    BY <1>2, <1>6
  <2> QED BY <2>1, <2>2, <2>3
<1>13. CASE g = "genWorkflowWorker"
  <2> DEFINE named == {w.name} \cup Range(w.signal) \cup Range(w.query)
  <2>1. Written(svc, g, w) = genWorkflowWorker(w)
    BY <1>0, <1>13 DEF WrittenBy
  <2>2. genWorkflowWorker(w).uses =
          {<<"%Input", w.name>>, <<"%Impl", w.name>>}
          \cup In("%Input", w, asked) \cup In("%Impl", w, Range(w.query))
          \cup Of("%Name", named) \cup Of("%SignalName", Range(w.call))
    BY WritesIs DEF genWorkflowWorker
  <2>3. Resolved(svc, {<<"%Input", w.name>>, <<"%Impl", w.name>>})
    BY <1>4 DEF Resolved
  <2>4. Resolved(svc, Of("%Name", named)) /\ Resolved(svc, Of("%SignalName", Range(w.call)))
    BY <1>2, <1>6
  <2> HIDE DEF members, asked, named
  <2> QED BY <1>7, <2>1, <2>2, <2>3, <2>4 DEF Resolved
<1>14. CASE g = "genWorkflowChild"
  <2> DEFINE calls == FromWorkflows(svc, Range(w.call))
             named == {w.name} \cup Range(w.signal)
  <2>1. Written(svc, g, w) = genWorkflowChild(svc, w)
    BY <1>0, <1>14 DEF WrittenBy
  <2>2. genWorkflowChild(svc, w).uses =
          Of("%Name", named) \cup FieldsOf(w.in, {w.idField} \ {None})
          \cup Of("%ResponseExternal", calls) \cup Of("%ResponseName", calls)
          \cup Of("%SignalName", calls)
    BY WritesIs DEF genWorkflowChild
  <2>3. /\ calls \subseteq Names(svc, "call")
        /\ \A r \in calls : \E c \in Kind(svc, "call") : FromWorkflow(c) /\ c.name = r
    BY <1>1, CallersNames
  <2> HIDE DEF calls
  <2>4. Resolved(svc, Of("%Name", named))
    BY <1>2, <1>6
  <2>5. Resolved(svc, Of("%ResponseName", calls)) /\ Resolved(svc, Of("%SignalName", calls))
    BY <1>6, <2>3
  <2>6. Resolved(svc, Of("%ResponseExternal", calls))
    <3>1. ASSUME NEW r \in calls PROVE DeclaredIn(svc, <<"%ResponseExternal", r>>)
      <4>1. PICK c \in Kind(svc, "call") : FromWorkflow(c) /\ c.name = r
        BY <2>3
      <4>2. DeclaredIn(svc, <<"%ResponseExternal", c.name>>)
        BY <4>1, CallDeclares
      <4> QED BY <4>1, <4>2
    <3> QED BY <3>1, Resolve
  <2> HIDE DEF named
  <2> QED BY <1>3, <2>1, <2>2, <2>4, <2>5, <2>6 DEF Resolved
<1> QED BY <1>8, <1>9, <1>10, <1>11, <1>12, <1>13, <1>14 DEF WorkflowGens

\* The references in what is written for an activity, a query or a signal.
LEMMA MethodUses ==
  ASSUME NEW svc, Sound(svc), NEW m, NEW g,
         \/ m \in Kind(svc, "activity") /\ g \in ActivityGens
         \/ m \in Kind(svc, "query") /\ g \in QueryGens
         \/ m \in Kind(svc, "signal") /\ g \in SignalGens
  PROVE  Resolved(svc, Written(svc, g, m).uses)
<1>0. WrittenBy(svc, m)
  BY WrittenIs
<1>1. Resolved(svc, {}) /\ Resolved(svc, {<<"clientImpl", None>>})
  BY ServiceDeclares, Resolve
<1>2. Resolved(svc, {<<"%Name", m.name>>})
  <2>1. DeclaredIn(svc, <<"%Name", m.name>>)
    BY ActivityDeclares, QueryDeclares, SignalDeclares
  <2> QED BY <2>1, Resolve
<1>3. Resolved(svc, {<<"clientImpl", None>>, <<"%Name", m.name>>})
  BY <1>1, <1>2 DEF Resolved
<1>4. CASE g \in {"activity", "query", "signal"}
  <2>1. Written(svc, g, m).uses = {}
    BY <1>0, <1>4, WritesIs DEF WrittenBy, genConstants, Options
  <2> QED BY <1>1, <2>1
<1>5. CASE g = "genActivity"
  <2>1. Written(svc, g, m).uses = {<<"%Name", m.name>>}
    BY <1>0, <1>5, WritesIs DEF WrittenBy, genActivity
  <2> QED BY <1>2, <2>1
<1>6. CASE g \in {"genClientImplQueryMethod", "genClientImplSignalMethod"}
  <2>1. Written(svc, g, m).uses = {<<"clientImpl", None>>, <<"%Name", m.name>>}
    BY <1>0, <1>6, WritesIs DEF WrittenBy, genClientImplQueryMethod, genClientImplSignalMethod
  <2> QED BY <1>3, <2>1
<1>7. CASE g = "genSignal"
  <2>1. Written(svc, g, m).uses = {}
    BY <1>0, <1>7, WritesIs DEF WrittenBy, genSignal
  <2> QED BY <1>1, <2>1
<1>8. CASE g = "genSignalExternal"
  <2>1. Written(svc, g, m).uses = {<<"%Name", m.name>>}
    BY <1>0, <1>8, WritesIs DEF WrittenBy, genSignalExternal
  <2> QED BY <1>2, <2>1
<1> QED BY <1>4, <1>5, <1>6, <1>7, <1>8 DEF ActivityGens, QueryGens, SignalGens

\* The references in what is written for a call.
LEMMA CallUses ==
  ASSUME NEW svc, Sound(svc), NEW c \in Kind(svc, "call"),
         NEW g \in CallGens \cup {"genCallExternal"}, g = "genCallExternal" => FromWorkflow(c)
  PROVE  Resolved(svc, Written(svc, g, c).uses)
<1>0. WrittenBy(svc, c)
  BY WrittenIs
<1>1. /\ IsString(c.in, "id") /\ IsString(c.in, TaskQueue) /\ IsString(c.out, "id")
      /\ FromWorkflow(c) => IsString(c.in, WorkflowId)
      /\ FromClient(c)
  BY CallValid
<1>2. Resolved(svc, {}) /\ Resolved(svc, {<<"clientImpl", None>>})
  BY ServiceDeclares, Resolve
<1>3. \A name \in {"%SignalName", "%ResponseName", "%.Respond returns"} :
        Resolved(svc, {<<name, c.name>>})
  <2>1. \A name \in {"%SignalName", "%ResponseName", "%.Respond returns"} :
          name # "field" /\ DeclaredIn(svc, <<name, c.name>>)
    BY <1>1, CallDeclares
  <2> QED BY <2>1, Resolve
<1>4. CASE g = "call"
  <2>1. Written(svc, g, c).uses = {}
    BY <1>0, <1>4, WritesIs DEF WrittenBy, genConstants, Options
  <2> QED BY <1>2, <2>1
<1>5. CASE g = "genClientImplCallMethod"
  <2> DEFINE F == FieldsOf(c.in, {"id", TaskQueue})
  <2>1. Written(svc, g, c) = genClientImplCallMethod(c)
    BY <1>0, <1>5 DEF WrittenBy
  <2>2. genClientImplCallMethod(c).uses =
          {<<"clientImpl", None>>, <<"%SignalName", c.name>>} \cup F
    BY WritesIs DEF genClientImplCallMethod
  <2>3. Resolved(svc, F)
    BY <1>1, Resolve
  <2>4. Resolved(svc, {<<"clientImpl", None>>, <<"%SignalName", c.name>>})
    BY <1>2, <1>3 DEF Resolved
  <2> HIDE DEF F
  <2> QED BY <2>1, <2>2, <2>3, <2>4 DEF Resolved
<1>6. CASE g = "genCall"
  <2> DEFINE F == FieldsOf(c.out, {"id"})
             H == FieldsOf(c.in, {"id"} \cup ({TaskQueue, WorkflowId} \cap Fields(c.in)))
  <2>1. Written(svc, g, c) = genCall(c)
    BY <1>0, <1>6 DEF WrittenBy
  <2>2. genCall(c).uses =
          {<<"%.Respond returns", c.name>>, <<"%ResponseName", c.name>>} \cup F \cup H
    BY WritesIs DEF genCall
  <2>3. Resolved(svc, F)
    BY <1>1, Resolve
  <2>4. Resolved(svc, H)
    <3>1. \A f \in {"id"} \cup ({TaskQueue, WorkflowId} \cap Fields(c.in)) : IsString(c.in, f)
      BY <1>1 DEF FromWorkflow
    <3> QED BY <3>1, Resolve
  <2>5. Resolved(svc, {<<"%.Respond returns", c.name>>, <<"%ResponseName", c.name>>})
    BY <1>3 DEF Resolved
  <2> HIDE DEF F, H
  <2> QED BY <2>1, <2>2, <2>3, <2>4, <2>5 DEF Resolved
<1>7. CASE g = "genCallExternal"
  <2> DEFINE F == FieldsOf(c.in, {"id", WorkflowId} \cup ({TaskQueue} \cap Fields(c.in)))
  <2>1. Written(svc, g, c) = genCallExternal(c)
    BY <1>0, <1>7 DEF WrittenBy
  <2>2. genCallExternal(c).uses =
          {<<"%ResponseName", c.name>>, <<"%SignalName", c.name>>} \cup F
    BY WritesIs DEF genCallExternal
  <2>3. Resolved(svc, F)
    <3>1. \A f \in {"id", WorkflowId} \cup ({TaskQueue} \cap Fields(c.in)) : IsString(c.in, f)
      BY <1>1, <1>7
    <3> QED BY <3>1, Resolve
  <2>4. Resolved(svc, {<<"%ResponseName", c.name>>, <<"%SignalName", c.name>>})
    BY <1>3 DEF Resolved
  <2> HIDE DEF F
  <2> QED BY <2>1, <2>2, <2>3, <2>4 DEF Resolved
<1> QED BY <1>4, <1>5, <1>6, <1>7 DEF CallGens

\* Every reference of every call is resolved, and none follows a nil pointer.
LEMMA StepResolved ==
  ASSUME NEW svc, Sound(svc), NEW t \in StepSet(svc)
  PROVE  Resolved(svc, Written(svc, t.gen, t.of).uses) /\ ~ IsNil(t)
<1>1. \A m, option : m \in Range(svc) /\ option \in m.opts => m \in Kind(svc, option)
  BY DEF Kind
<1>2. Resolved(svc, Written(svc, t.gen, t.of).uses)
  <2>1. CASE t.gen \in ServiceGens /\ t.of = None
    BY <2>1, ServiceUses
  <2>2. CASE t.of \in Kind(svc, "workflow") /\ t.gen \in WorkflowGens
    BY <2>2, WorkflowUses
  <2>3. CASE \/ t.of \in Kind(svc, "activity") /\ t.gen \in ActivityGens
             \/ t.of \in Kind(svc, "query") /\ t.gen \in QueryGens
             \/ t.of \in Kind(svc, "signal") /\ t.gen \in SignalGens
    BY <2>3, MethodUses
  <2>4. CASE t.of \in Kind(svc, "call") /\ t.gen \in CallGens
    <3>1. t.gen # "genCallExternal"
      BY <2>4 DEF CallGens
    <3> QED BY <2>4, <3>1, CallUses
  <2>5. CASE t.of \in Kind(svc, "call") /\ FromWorkflow(t.of) /\ t.gen = "genCallExternal"
    BY <2>5, CallUses
  <2> QED BY <1>1, <2>1, <2>2, <2>3, <2>4, <2>5, StepKinds
<1>3. ~ IsNil(t)
  <2>1. CASE t.gen \in {"genClientImplCallMethod", "genCall", "genCallExternal"}
    <3>1. t.of \in Kind(svc, "call")
      BY <1>1, <2>1, StepKinds
         DEF ServiceGens, WorkflowGens, ActivityGens, QueryGens, SignalGens
    <3>2. "id" \in Fields(t.of.in) /\ TaskQueue \in Fields(t.of.in)
      BY <3>1, CallValid DEF IsString
    <3>3. Dereferences(t.gen) \subseteq {"id", TaskQueue}
      BY <2>1 DEF Dereferences
    <3> QED BY <3>2, <3>3 DEF IsNil
  <2>2. CASE t.gen \notin {"genClientImplCallMethod", "genCall", "genCallExternal"}
    <3>1. Dereferences(t.gen) = {}
      BY <2>2 DEF Dereferences
    <3> QED BY <3>1 DEF IsNil
  <2> QED BY <2>1, <2>2
<1> QED BY <1>2, <1>3

-----------------------------------------------------------------------------
(* The invariant.                                                          *)

Accepted == {i \in 1 .. begun : i \notin failed}
Done(i) == IF i = begun THEN StepSet(file[i]) \ Range(steps) ELSE StepSet(file[i])
DeclaredBy(i, t) == Written(file[i], t.gen, t.of).declares

\* A file's services are generated one after the other, each by its list of calls;
\* what has been written is what the calls made so far write, and what has been
\* referred to is written by some call of the services that have been begun.
GeneratesInOrder ==
  /\ \A i \in Accepted : ServiceErrors(file[i]) = {}
  /\ Lists(steps, Range(steps))
  /\ steps # << >> => begun \in Accepted /\ Range(steps) \subseteq StepSet(file[begun])
  /\ \A i \in Accepted : \A t \in Done(i) : DeclaredBy(i, t) \subseteq declared
  /\ \A n \in declared : \E i \in Accepted : \E t \in Done(i) : n \in DeclaredBy(i, t)
  /\ \A n \in used : IF n[1] = "field" THEN IsString(n[2], n[3])
                     ELSE \E i \in Accepted : DeclaredIn(file[i], n)
  /\ \A n \in clashes : n[2] = None /\ Len(file) > 1
  /\ result # "panic"
  /\ result = "ok" => steps = << >>

GeneratorInv ==
  /\ file \in Files /\ begun \in 0 .. Len(file) /\ failed \subseteq 1 .. begun
  /\ WellFormed => GeneratesInOrder
\* The calls that are left are listed, too.
LEMMA TailLists ==
  ASSUME NEW s, NEW E, Lists(s, E), s # << >>
  PROVE  Head(s) \in E /\ Lists(Tail(s), E \ {Head(s)})
<1>1. /\ s \in Seq(E) /\ Len(s) \in Nat /\ Len(s) # 0
      /\ \A e \in E : \E i \in 1 .. Len(s) : s[i] = e
      /\ \A i, j \in 1 .. Len(s) : s[i] = s[j] => i = j
  BY DEF Lists
<1> DEFINE r == Tail(s)
<1>2. /\ Head(s) = s[1] /\ Head(s) \in E /\ r \in Seq(E) /\ Len(r) = Len(s) - 1
      /\ \A i \in 1 .. Len(r) : r[i] = s[i + 1]
  BY <1>1
<1> HIDE DEF r
<1>3. ASSUME NEW i \in 1 .. Len(r) PROVE r[i] \in E \ {Head(s)}
  <2>1. i + 1 \in 1 .. Len(s) /\ 1 \in 1 .. Len(s) /\ i + 1 # 1
    BY <1>1, <1>2
  <2>2. s[i + 1] # s[1]
    BY <1>1, <2>1
  <2>3. r[i] = s[i + 1] /\ r[i] \in E
    BY <1>2
  <2> QED BY <1>2, <2>2, <2>3
<1>4. r \in Seq(E \ {Head(s)})
  <2> DEFINE F == E \ {Head(s)}
  <2>1. \A i \in 1 .. Len(r) : r[i] \in F
    BY <1>3
  <2>2. r \in Seq(E)
    BY <1>2
  <2> HIDE DEF F
  <2>3. Len(r) \in Nat /\ r = [i \in 1 .. Len(r) |-> r[i]]
    BY <2>2
  <2>4. [i \in 1 .. Len(r) |-> r[i]] \in Seq(F)
    BY <2>1, <2>3
  <2>5. r \in Seq(F)
    BY <2>3, <2>4
  <2> QED BY <2>5 DEF F
<1>5. ASSUME NEW e \in E \ {Head(s)} PROVE \E i \in 1 .. Len(r) : r[i] = e
  <2>1. PICK j \in 1 .. Len(s) : s[j] = e
    BY <1>1
  <2>2. j # 1
    BY <1>2, <2>1
  <2>3. j - 1 \in 1 .. Len(r) /\ (j - 1) + 1 = j
    BY <1>1, <1>2, <2>2
  <2>4. r[j - 1] = e
    BY <1>2, <2>1, <2>3
  <2> QED BY <2>3, <2>4
<1>6. ASSUME NEW i \in 1 .. Len(r), NEW j \in 1 .. Len(r), r[i] = r[j] PROVE i = j
  <2>1. i + 1 \in 1 .. Len(s) /\ j + 1 \in 1 .. Len(s)
    BY <1>1, <1>2
  <2>2. s[i + 1] = s[j + 1]
    BY <1>2, <1>6
  <2>3. i + 1 = j + 1
    BY <1>1, <2>1, <2>2
  <2> QED BY <2>3
<1>7. Lists(r, E \ {Head(s)})
  BY <1>4, <1>5, <1>6 DEF Lists
<1> QED BY <1>2, <1>7 DEF r

\* Nothing is left of no calls.
LEMMA NothingLeft == Range(<< >>) = {}
BY DEF Range

\* Services that are accepted are sound.
LEMMA AcceptedSound ==
  ASSUME GeneratorInv, WellFormed, NEW i \in Accepted
  PROVE  i \in DOMAIN file /\ Sound(file[i])
<1>1. i \in 1 .. begun /\ begun \in 0 .. Len(file) /\ ServiceErrors(file[i]) = {} /\ file \in Files
  BY DEF GeneratorInv, GeneratesInOrder, Accepted
<1>2. DOMAIN file = 1 .. Len(file) /\ Len(file) \in Nat
  <2>1. file \in Seq({file[j] : j \in DOMAIN file})
    BY <1>1, FileAssumption
  <2> QED BY <2>1
<1>3. i \in DOMAIN file
  BY <1>1, <1>2
<1> QED BY <1>1, <1>3, ServicesOf DEF Sound

\* The invariant holds before the first service,
LEMMA InitGenerates == Init => GeneratorInv
<1> SUFFICES ASSUME Init PROVE GeneratorInv
  OBVIOUS
<1>1. file \in Seq({file[j] : j \in DOMAIN file})
  BY FileAssumption DEF Init
<1>2. begun \in 0 .. Len(file) /\ failed \subseteq 1 .. begun /\ file \in Files
  BY <1>1 DEF Init
<1>3. Accepted = {}
  BY DEF Init, Accepted
<1>4. Lists(steps, Range(steps))
  BY EmptyLists, NothingLeft DEF Init
<1>5. GeneratesInOrder
  BY <1>3, <1>4 DEF Init, GeneratesInOrder
<1> QED BY <1>2, <1>5 DEF GeneratorInv

\* What stays when the file and its services stay.
LEMMA SameFile ==
  ASSUME file' = file
  PROVE  /\ WellFormed' => WellFormed
         /\ \A i, t : DeclaredBy(i, t)' = DeclaredBy(i, t)
<1>1. WellFormed' => WellFormed
  BY DEF WellFormed, Methods
<1> QED BY <1>1 DEF DeclaredBy

\* when a service is begun, which adds calls but no names, or is refused,
LEMMA NewServiceGenerates == GeneratorInv /\ NewService => GeneratorInv'
<1> SUFFICES ASSUME GeneratorInv, NewService PROVE GeneratorInv'
  OBVIOUS
<1> DEFINE b == begun + 1
<1>1. /\ file \in Files /\ begun \in 0 .. Len(file) /\ failed \subseteq 1 .. begun
      /\ begun < Len(file) /\ Len(file) \in Nat
      /\ result = "running" /\ steps = << >> /\ begun' = b
      /\ file' = file /\ declared' = declared /\ clashes' = clashes /\ used' = used
      /\ result' = result
  <2>1. file \in Seq({file[j] : j \in DOMAIN file})
    BY FileAssumption DEF GeneratorInv
  <2>2. Len(file) \in Nat
    BY <2>1
  <2> QED BY <2>2 DEF GeneratorInv, NewService
<1>2. begun' \in 0 .. Len(file)' /\ failed' \subseteq 1 .. begun'
  <2>1. failed' = failed \/ failed' = failed \cup {b}
    BY DEF NewService
  <2>2. b \in 0 .. Len(file) /\ b \in 1 .. b /\ 1 .. begun \subseteq 1 .. b
    BY <1>1
  <2>3. failed' \subseteq 1 .. b
    BY <1>1, <2>1, <2>2
  <2> QED BY <1>1, <2>2, <2>3
<1>3. ASSUME WellFormed' PROVE GeneratesInOrder'
  <2>1. WellFormed /\ \A i, t : DeclaredBy(i, t)' = DeclaredBy(i, t)
    BY <1>1, <1>3, SameFile
  <2>2. GeneratesInOrder
    BY <2>1 DEF GeneratorInv
  <2>3. \A i \in Accepted : i \in 1 .. begun /\ i # b
    BY <1>1 DEF Accepted
  <2>4. \A i \in Accepted : Done(i) = StepSet(file[i])
    BY <1>1, NothingLeft DEF Done
  <2>5. CASE ServiceErrors(file[b]) = {} /\ steps' = genService(file[b]) /\ failed' = failed
    <3>1. b \in DOMAIN file
      <4>1. file \in Seq({file[j] : j \in DOMAIN file})
        BY <1>1, FileAssumption
      <4> QED BY <1>1, <4>1
    <3>2. Lists(steps', StepSet(file[b]))
      BY <1>1, <2>1, <2>5, <3>1, ServicesOf, ServiceLists
    <3>3. Range(steps') = StepSet(file[b])
      BY <3>2, ListedIsRange
    <3>4. Accepted' = Accepted \cup {b}
      BY <1>1, <2>5 DEF Accepted
    <3>5. /\ \A i \in Accepted : Done(i)' = Done(i)
          /\ \A i : i = b => Done(i)' = {}
      <4>1. ASSUME NEW i \in Accepted PROVE Done(i)' = Done(i)
        BY <1>1, <2>3, <2>4 DEF Done
      <4>2. ASSUME NEW i, i = b PROVE Done(i)' = {}
        BY <1>1, <3>3, <4>2 DEF Done
      <4> QED BY <4>1, <4>2
    <3>6. \A i \in Accepted' : ServiceErrors(file'[i]) = {}
      BY <1>1, <2>2, <2>5, <3>4 DEF GeneratesInOrder
    <3>7. Lists(steps', Range(steps'))
      BY <3>2, <3>3
    <3>8. begun' \in Accepted' /\ Range(steps') \subseteq StepSet(file'[begun'])
      BY <1>1, <3>3, <3>4
    <3>9. \A i \in Accepted' : \A t \in Done(i)' : DeclaredBy(i, t)' \subseteq declared'
      BY <1>1, <2>1, <2>2, <3>4, <3>5 DEF GeneratesInOrder
    <3>10. \A n \in declared' : \E i \in Accepted' : \E t \in Done(i)' : n \in DeclaredBy(i, t)'
      BY <1>1, <2>1, <2>2, <3>4, <3>5 DEF GeneratesInOrder
    <3>11. \A n \in used' : IF n[1] = "field" THEN IsString(n[2], n[3])
                            ELSE \E i \in Accepted' : DeclaredIn(file'[i], n)
      BY <1>1, <2>2, <3>4 DEF GeneratesInOrder
    <3>12. /\ \A n \in clashes' : n[2] = None /\ Len(file') > 1
           /\ result' # "panic" /\ (result' = "ok" => steps' = << >>)
      BY <1>1, <2>2 DEF GeneratesInOrder
    <3> QED BY <3>6, <3>7, <3>8, <3>9, <3>10, <3>11, <3>12 DEF GeneratesInOrder
  <2>6. CASE failed' = failed \cup {b} /\ steps' = steps
    <3>1. Accepted' = Accepted
      BY <1>1, <2>6 DEF Accepted
    <3>2. \A i \in Accepted : Done(i)' = Done(i)
      <4>1. ASSUME NEW i \in Accepted PROVE Done(i)' = StepSet(file[i])
        BY <1>1, <2>6, NothingLeft DEF Done
      <4> QED BY <2>4, <4>1
    <3>3. \A i \in Accepted' : ServiceErrors(file'[i]) = {}
      BY <1>1, <2>2, <3>1 DEF GeneratesInOrder
    <3>4. Lists(steps', Range(steps')) /\ steps' = << >>
      BY <1>1, <2>2, <2>6 DEF GeneratesInOrder
    <3>5. \A i \in Accepted' : \A t \in Done(i)' : DeclaredBy(i, t)' \subseteq declared'
      BY <1>1, <2>1, <2>2, <3>1, <3>2 DEF GeneratesInOrder
    <3>6. \A n \in declared' : \E i \in Accepted' : \E t \in Done(i)' : n \in DeclaredBy(i, t)'
      BY <1>1, <2>1, <2>2, <3>1, <3>2 DEF GeneratesInOrder
    <3>7. \A n \in used' : IF n[1] = "field" THEN IsString(n[2], n[3])
                           ELSE \E i \in Accepted' : DeclaredIn(file'[i], n)
      BY <1>1, <2>2, <3>1 DEF GeneratesInOrder
    <3>8. /\ \A n \in clashes' : n[2] = None /\ Len(file') > 1
          /\ result' # "panic" /\ (result' = "ok" => steps' = << >>)
      BY <1>1, <2>2 DEF GeneratesInOrder
    <3> QED BY <3>3, <3>4, <3>5, <3>6, <3>7, <3>8 DEF GeneratesInOrder
  <2> QED BY <2>5, <2>6 DEF NewService
<1> QED BY <1>1, <1>2, <1>3 DEF GeneratorInv

\* when a function is called, which declares what no call has declared so far,
LEMMA GenerateGenerates == GeneratorInv /\ Generate => GeneratorInv'
<1> SUFFICES ASSUME GeneratorInv, Generate PROVE GeneratorInv'
  OBVIOUS
<1> DEFINE t == Head(steps)
           w == Written(file[begun], t.gen, t.of)
<1>1. /\ file \in Files /\ begun \in 0 .. Len(file) /\ failed \subseteq 1 .. begun
      /\ result = "running" /\ steps # << >> /\ steps' = Tail(steps)
      /\ clashes' = clashes \cup (declared \cap w.declares)
      /\ declared' = declared \cup w.declares /\ used' = used \cup w.uses
      /\ file' = file /\ begun' = begun /\ failed' = failed /\ result' = result
  BY DEF GeneratorInv, Generate
<1>2. ASSUME WellFormed' PROVE GeneratesInOrder'
  <2>1. WellFormed /\ \A i, u : DeclaredBy(i, u)' = DeclaredBy(i, u)
    BY <1>1, <1>2, SameFile
  <2>2. GeneratesInOrder
    BY <2>1 DEF GeneratorInv
  <2>3. /\ begun \in Accepted /\ Range(steps) \subseteq StepSet(file[begun])
        /\ Lists(steps, Range(steps))
    BY <1>1, <2>2 DEF GeneratesInOrder
  <2>4. begun \in DOMAIN file /\ Sound(file[begun])
    BY <2>1, <2>3, AcceptedSound
  <2>5. /\ t \in Range(steps) /\ t \in StepSet(file[begun])
        /\ Lists(steps', Range(steps) \ {t}) /\ Range(steps') = Range(steps) \ {t}
    BY <1>1, <2>3, TailLists, ListedIsRange
  <2>6. Resolved(file[begun], w.uses)
    BY <2>4, <2>5, StepResolved
  <2>7. w.declares = DeclaredBy(begun, t)
    BY DEF DeclaredBy
  <2> HIDE DEF t, w
  <2>8. Accepted' = Accepted
    BY <1>1 DEF Accepted
  <2>9. /\ \A i : Done(i)' = IF i = begun THEN Done(i) \cup {t} ELSE Done(i)
        /\ t \notin Done(begun)
    BY <1>1, <2>5 DEF Done
  <2>10. \A i \in Accepted' : ServiceErrors(file'[i]) = {}
    BY <1>1, <2>2, <2>8 DEF GeneratesInOrder
  <2>11. Lists(steps', Range(steps'))
    BY <2>5
  <2>12. begun' \in Accepted' /\ Range(steps') \subseteq StepSet(file'[begun'])
    BY <1>1, <2>3, <2>5, <2>8
  <2>13. \A i \in Accepted' : \A u \in Done(i)' : DeclaredBy(i, u)' \subseteq declared'
    <3>1. ASSUME NEW i \in Accepted, NEW u \in Done(i)' PROVE DeclaredBy(i, u) \subseteq declared'
      <4>1. CASE u \in Done(i)
        BY <1>1, <2>2, <4>1 DEF GeneratesInOrder
      <4>2. CASE i = begun /\ u = t
        BY <1>1, <2>7, <4>2
      <4> QED BY <2>9, <3>1, <4>1, <4>2
    <3> QED BY <2>1, <2>8, <3>1
  <2>14. \A n \in declared' : \E i \in Accepted' : \E u \in Done(i)' : n \in DeclaredBy(i, u)'
    <3>1. ASSUME NEW n \in declared PROVE \E i \in Accepted : \E u \in Done(i)' : n \in DeclaredBy(i, u)
      BY <2>2, <2>9 DEF GeneratesInOrder
    <3>2. ASSUME NEW n \in w.declares
          PROVE  \E i \in Accepted : \E u \in Done(i)' : n \in DeclaredBy(i, u)
      BY <2>3, <2>7, <2>9
    <3> QED BY <1>1, <2>1, <2>8, <3>1, <3>2
  <2>15. \A n \in used' : IF n[1] = "field" THEN IsString(n[2], n[3])
                          ELSE \E i \in Accepted' : DeclaredIn(file'[i], n)
    <3>1. ASSUME NEW n \in used
          PROVE  IF n[1] = "field" THEN IsString(n[2], n[3])
                 ELSE \E i \in Accepted : DeclaredIn(file[i], n)
      BY <2>2 DEF GeneratesInOrder
    <3>2. ASSUME NEW n \in w.uses
          PROVE  IF n[1] = "field" THEN IsString(n[2], n[3])
                 ELSE \E i \in Accepted : DeclaredIn(file[i], n)
      BY <2>3, <2>6 DEF Resolved
    <3> QED BY <1>1, <2>8, <3>1, <3>2
  <2>16. \A n \in clashes' : n[2] = None /\ Len(file') > 1
    <3>1. ASSUME NEW n \in declared \cap w.declares PROVE n[2] = None /\ Len(file) > 1
      <4>1. PICK i \in Accepted : \E u \in Done(i) : n \in DeclaredBy(i, u)
        BY <2>2 DEF GeneratesInOrder
      <4>2. PICK u \in Done(i) : n \in DeclaredBy(i, u)
        BY <4>1
      <4>3. i \in DOMAIN file
        BY <2>1, AcceptedSound
      <4>4. u \in StepSet(file[i])
        BY <4>2 DEF Done
      <4>5. /\ n \in Written(file[i], u.gen, u.of).declares
            /\ n \in Written(file[begun], t.gen, t.of).declares
        BY <2>7, <4>2 DEF DeclaredBy
      <4>6. ~ (i = begun /\ u = t)
        BY <2>9, <4>2
      <4>7. n[2] = None /\ i # begun
        BY <1>1, <2>1, <2>4, <2>5, <4>3, <4>4, <4>5, <4>6, OneOwner
      <4>8. i \in 1 .. Len(file) /\ begun \in 1 .. Len(file) /\ Len(file) \in Nat
        BY <1>1, <2>1, <2>4, <4>3, ServicesOf
      <4> QED BY <4>7, <4>8
    <3> QED BY <1>1, <2>2, <3>1 DEF GeneratesInOrder
  <2>17. result' # "panic" /\ (result' = "ok" => steps' = << >>)
    BY <1>1
  <2> QED BY <2>10, <2>11, <2>12, <2>13, <2>14, <2>15, <2>16, <2>17 DEF GeneratesInOrder
<1> QED BY <1>1, <1>2 DEF GeneratorInv

\* and in every step: what a function dereferences is not nil.
LEMMA NextGenerates == GeneratorInv /\ [Next]_vars => GeneratorInv'
<1> SUFFICES ASSUME GeneratorInv, [Next]_vars PROVE GeneratorInv'
  OBVIOUS
<1>1. CASE NewService
  BY <1>1, NewServiceGenerates
<1>2. CASE Generate
  BY <1>2, GenerateGenerates
<1>3. ASSUME UNCHANGED <<file, begun, steps, declared, clashes, used, failed>>,
             WellFormed => result' # "panic", result' = "ok" => steps = << >>
      PROVE  GeneratorInv'
  <2>1. ASSUME WellFormed' PROVE GeneratesInOrder'
    <3>1. WellFormed /\ \A i, t : DeclaredBy(i, t)' = DeclaredBy(i, t)
      BY <1>3, <2>1, SameFile
    <3>2. GeneratesInOrder
      BY <3>1 DEF GeneratorInv
    <3>3. Accepted' = Accepted /\ \A i : Done(i)' = Done(i)
      BY <1>3 DEF Accepted, Done
    <3> QED BY <1>3, <3>1, <3>2, <3>3 DEF GeneratesInOrder
  <2> QED BY <1>3, <2>1 DEF GeneratorInv
<1>4. CASE Panic
  <2>1. ASSUME WellFormed PROVE FALSE
    <3>1. steps # << >> /\ IsNil(Head(steps)) /\ GeneratesInOrder
      BY <1>4, <2>1 DEF GeneratorInv, Panic
    <3>2. begun \in Accepted /\ Range(steps) \subseteq StepSet(file[begun]) /\ Lists(steps, Range(steps))
      BY <3>1 DEF GeneratesInOrder
    <3>3. Head(steps) \in StepSet(file[begun])
      BY <3>1, <3>2, TailLists
    <3>4. Sound(file[begun])
      BY <2>1, <3>2, AcceptedSound
    <3> QED BY <3>1, <3>3, <3>4, StepResolved
  <2> QED BY <1>3, <1>4, <2>1 DEF Panic
<1>5. CASE Finish
  BY <1>3, <1>5 DEF Finish
<1>6. CASE UNCHANGED vars
  <2>1. WellFormed => result # "panic"
    BY DEF GeneratorInv, GeneratesInOrder
  <2>2. UNCHANGED <<file, begun, steps, declared, clashes, used, failed>> /\ result' = result
    BY <1>6 DEF vars
  <2>3. ASSUME WellFormed' PROVE GeneratesInOrder'
    <3>1. WellFormed /\ \A i, t : DeclaredBy(i, t)' = DeclaredBy(i, t)
      BY <2>2, <2>3, SameFile
    <3>2. GeneratesInOrder
      BY <3>1 DEF GeneratorInv
    <3>3. Accepted' = Accepted /\ \A i : Done(i)' = Done(i)
      BY <2>2 DEF Accepted, Done
    <3> QED BY <2>2, <3>1, <3>2, <3>3 DEF GeneratesInOrder
  <2> QED BY <2>2, <2>3 DEF GeneratorInv
<1> QED BY <1>1, <1>2, <1>4, <1>5, <1>6 DEF Next

\* What a run of the generator writes is found again by the compiler.
LEMMA GeneratesCompiling == GeneratorInv => Compiles
<1> SUFFICES ASSUME GeneratorInv, WellFormed
             PROVE  /\ result # "panic"
                    /\ result = "ok" =>
                         /\ \A n \in used : IF n[1] = "field" THEN IsString(n[2], n[3])
                                            ELSE n \in declared
                         /\ \A n \in clashes : n[2] = None /\ Len(file) > 1
  BY DEF Compiles
<1>1. GeneratesInOrder
  BY DEF GeneratorInv
<1>2. ASSUME result = "ok", NEW n \in used, n[1] # "field" PROVE n \in declared
  <2>1. PICK i \in Accepted : DeclaredIn(file[i], n)
    BY <1>1, <1>2 DEF GeneratesInOrder
  <2>2. PICK t \in StepSet(file[i]) : n \in Written(file[i], t.gen, t.of).declares
    BY <2>1 DEF DeclaredIn
  <2>3. steps = << >>
    BY <1>1, <1>2 DEF GeneratesInOrder
  <2>4. t \in Done(i)
    BY <2>2, <2>3, NothingLeft DEF Done
  <2>5. DeclaredBy(i, t) \subseteq declared
    BY <1>1, <2>4 DEF GeneratesInOrder
  <2> QED BY <2>2, <2>5 DEF DeclaredBy
<1> QED BY <1>1, <1>2 DEF GeneratesInOrder

\* Compiles: a file that passes validation, and is what the generator expects of its
\* author, is generated, and the generated Go file declares every name and has every
\* field that gen.go, gen_client.go and gen_worker.go write references to, once.
THEOREM GeneratedCompiles == Spec => []Compiles
BY InitGenerates, NextGenerates, GeneratesCompiling, PTL DEF Spec
=============================================================================
