------------------------ MODULE EventListenersProofs ------------------------
(***************************************************************************)
(* For any number of goroutines and listeners: concurrent changes of the   *)
(* list take effect one after the other (EventListeners implements         *)
(* ListenerList), registered listeners hear, in the order of registration. *)
(***************************************************************************)
EXTENDS EventListeners, SequenceTheorems, TLAPS

Busy(p) == pc[p] # "idle"

\* Whoever is between reading and returning holds the lock, so what was read is
\* still the list.
Exclusive ==
  \A p \in Procs :
    /\ pc[p] \in Locked <=> mutex = p
    /\ pc[p] = "write" => snap[p] = list

\* What a goroutine in a call works on; only one adds a listener.
WorkingOn(p) ==
  /\ arg[p] \in Listeners
  /\ adding[p] => status[arg[p]] = "adding"
  /\ ~adding[p] => status[arg[p]] \in {"removing", "removed"} /\ pc[p] \notin {"init", "hook"}
  /\ adding[p] /\ pc[p] \notin {"init", "hook"} => once = "done"
Working ==
  /\ \A p \in Procs : Busy(p) => WorkingOn(p)
  /\ \A p, q \in Procs : p # q /\ Busy(p) /\ Busy(q) /\ adding[p] => arg[q] # arg[p]

\* A listener enters the list in the middle of its addition and leaves it in the
\* middle of a removal.
Amid ==
  \A p \in Procs :
    /\ Busy(p) /\ adding[p] => (arg[p] \in Range(list) <=> pc[p] = "unlock")
    /\ pc[p] = "unlock" /\ ~adding[p] => arg[p] \notin Range(list)
Settled ==
  \A l \in Listeners :
    /\ status[l] \in {"new", "removed"} => l \notin Range(list)
    /\ status[l] = "added" => l \in Range(list) /\ once = "done"

IInv == TypeOK /\ Exclusive /\ Working /\ Amid /\ Settled /\ IsInjective(list)

-----------------------------------------------------------------------------
\* Appending to a sequence keeps its elements in place and adds one at the end.
LEMMA AppendFacts ==
  ASSUME NEW S, NEW s \in Seq(S), NEW e \in S
  PROVE  /\ Append(s, e) \in Seq(S) /\ Len(s) \in Nat
         /\ DOMAIN s = 1 .. Len(s) /\ DOMAIN Append(s, e) = 1 .. Len(s) + 1
         /\ Append(s, e)[Len(s) + 1] = e
         /\ \A i \in 1 .. Len(s) : Append(s, e)[i] = s[i]
OBVIOUS

\* Taking out an element moves those after it down by one.
LEMMA RemoveAtFacts ==
  ASSUME NEW S, NEW s \in Seq(S), NEW i \in DOMAIN s
  PROVE  /\ RemoveAt(s, i) \in Seq(S) /\ Len(s) \in Nat /\ i \in 1 .. Len(s)
         /\ DOMAIN s = 1 .. Len(s) /\ DOMAIN RemoveAt(s, i) = 1 .. Len(s) - 1
         /\ \A j \in 1 .. Len(s) - 1 :
              /\ j < i => RemoveAt(s, i)[j] = s[j]
              /\ j >= i => RemoveAt(s, i)[j] = s[j + 1]
<1> DEFINE a == SubSeq(s, 1, i - 1)
           b == SubSeq(s, i + 1, Len(s))
<1>1. Len(s) \in Nat /\ DOMAIN s = 1 .. Len(s) /\ i \in 1 .. Len(s)
  OBVIOUS
<1>2. \A j \in 1 .. Len(s) : s[j] \in S
  BY <1>1, ElementOfSeq
<1>3. /\ a \in Seq(S) /\ Len(a) = i - 1 /\ \A j \in 1 .. i - 1 : a[j] = s[j]
      /\ b \in Seq(S) /\ Len(b) = Len(s) - i /\ \A j \in 1 .. Len(s) - i : b[j] = s[j + i]
  <2>1. /\ a \in Seq(S) /\ Len(a) = (IF 1 <= i - 1 THEN i - 1 - 1 + 1 ELSE 0)
        /\ \A j \in 1 .. i - 1 - 1 + 1 : a[j] = s[1 + j - 1]
    <3>1. \A j \in 1 .. i - 1 : s[j] \in S
      BY <1>1, <1>2
    <3> QED BY <1>1, <3>1, SubSeqProperties
  <2>2. /\ b \in Seq(S) /\ Len(b) = (IF i + 1 <= Len(s) THEN Len(s) - (i + 1) + 1 ELSE 0)
        /\ \A j \in 1 .. Len(s) - (i + 1) + 1 : b[j] = s[i + 1 + j - 1]
    <3>1. \A j \in i + 1 .. Len(s) : s[j] \in S
      BY <1>1, <1>2
    <3> QED BY <1>1, <3>1, SubSeqProperties
  <2> HIDE DEF a, b
  <2>3. Len(a) = i - 1 /\ Len(b) = Len(s) - i
    BY <1>1, <2>1, <2>2
  <2>4. ASSUME NEW j \in 1 .. i - 1 PROVE a[j] = s[j]
    <3>1. 1 + j - 1 = j /\ j \in 1 .. i - 1 - 1 + 1
      BY <1>1
    <3> QED BY <2>1, <3>1
  <2>5. ASSUME NEW j \in 1 .. Len(s) - i PROVE b[j] = s[j + i]
    <3>1. i + 1 + j - 1 = j + i /\ j \in 1 .. Len(s) - (i + 1) + 1
      BY <1>1
    <3> QED BY <2>2, <3>1
  <2> QED BY <2>1, <2>2, <2>3, <2>4, <2>5
<1> HIDE DEF a, b
<1>4. /\ a \o b \in Seq(S) /\ DOMAIN (a \o b) = 1 .. Len(s) - 1
      /\ \A j \in 1 .. Len(s) - 1 :
           (a \o b)[j] = IF j <= i - 1 THEN a[j] ELSE b[j - (i - 1)]
  <2>1. /\ a \o b \in Seq(S) /\ Len(a \o b) = Len(a) + Len(b)
        /\ \A j \in 1 .. Len(a) + Len(b) :
             (a \o b)[j] = IF j <= Len(a) THEN a[j] ELSE b[j - Len(a)]
    BY <1>3, ConcatProperties
  <2>2. Len(a) + Len(b) = Len(s) - 1
    BY <1>1, <1>3
  <2>3. DOMAIN (a \o b) = 1 .. Len(a \o b)
    BY <2>1, LenProperties
  <2> QED BY <1>3, <2>1, <2>2, <2>3
<1>5. ASSUME NEW j \in 1 .. Len(s) - 1
      PROVE  (j < i => (a \o b)[j] = s[j]) /\ (j >= i => (a \o b)[j] = s[j + 1])
  <2>1. CASE j < i
    <3>1. j \in 1 .. i - 1 /\ j <= i - 1 /\ ~(j >= i)
      BY <1>1, <2>1
    <3>2. (a \o b)[j] = a[j] /\ a[j] = s[j]
      BY <1>3, <1>4, <3>1
    <3> QED BY <3>1, <3>2
  <2>2. CASE j >= i
    <3>1. /\ j - (i - 1) \in 1 .. Len(s) - i /\ (j - (i - 1)) + i = j + 1
          /\ ~(j <= i - 1) /\ ~(j < i)
      BY <1>1, <2>2
    <3>2. (a \o b)[j] = b[j - (i - 1)]
      BY <1>4, <3>1
    <3>3. b[j - (i - 1)] = s[(j - (i - 1)) + i]
      BY <1>3, <3>1
    <3> QED BY <3>1, <3>2, <3>3
  <2> QED BY <1>1, <2>1, <2>2
<1>6. RemoveAt(s, i) = a \o b
  BY DEF RemoveAt, a, b
<1> QED BY <1>1, <1>4, <1>5, <1>6

\* Appending a new element keeps a sequence free of repetitions.
LEMMA AppendRange ==
  ASSUME NEW S, NEW s \in Seq(S), NEW e \in S
  PROVE  /\ Range(Append(s, e)) = Range(s) \cup {e}
         /\ IsInjective(s) /\ e \notin Range(s) => IsInjective(Append(s, e))
<1>1. Range(Append(s, e)) = Range(s) \cup {e}
  BY AppendFacts DEF Range
<1>2. ASSUME IsInjective(s), e \notin Range(s) PROVE IsInjective(Append(s, e))
  BY <1>2, AppendFacts DEF Range, IsInjective
<1> QED BY <1>1, <1>2

\* Taking out an element of a sequence without repetitions takes out its value.
LEMMA RemoveAtRange ==
  ASSUME NEW S, NEW s \in Seq(S), NEW i \in DOMAIN s, IsInjective(s)
  PROVE  IsInjective(RemoveAt(s, i)) /\ Range(RemoveAt(s, i)) = Range(s) \ {s[i]}
<1> DEFINE r == RemoveAt(s, i)
           old(j) == IF j < i THEN j ELSE j + 1
<1>1. /\ Len(s) \in Nat /\ i \in 1 .. Len(s) /\ DOMAIN s = 1 .. Len(s)
      /\ DOMAIN r = 1 .. Len(s) - 1
      /\ \A j \in 1 .. Len(s) - 1 : (j < i => r[j] = s[j]) /\ (j >= i => r[j] = s[j + 1])
  BY RemoveAtFacts
<1> HIDE DEF r
<1>2. \A j \in 1 .. Len(s) - 1 : old(j) \in 1 .. Len(s) /\ old(j) # i /\ r[j] = s[old(j)]
  BY <1>1
<1>3. \A j, k \in 1 .. Len(s) - 1 : old(j) = old(k) => j = k
  BY <1>1
<1>4. ASSUME NEW k \in 1 .. Len(s), k # i
      PROVE  \E j \in 1 .. Len(s) - 1 : old(j) = k
  <2>1. CASE k < i
    <3>1. k \in 1 .. Len(s) - 1 /\ old(k) = k
      BY <1>1, <2>1
    <3> QED BY <3>1
  <2>2. CASE k > i
    <3>1. k - 1 \in 1 .. Len(s) - 1 /\ old(k - 1) = k
      BY <1>1, <2>2
    <3> QED BY <3>1
  <2> QED BY <1>1, <1>4, <2>1, <2>2
<1> HIDE DEF old
<1>5. IsInjective(r)
  BY <1>1, <1>2, <1>3 DEF IsInjective
<1>6. Range(r) = Range(s) \ {s[i]}
  <2>1. ASSUME NEW x \in Range(r) PROVE x \in Range(s) \ {s[i]}
    BY <1>1, <1>2 DEF Range, IsInjective
  <2>2. ASSUME NEW x \in Range(s) \ {s[i]} PROVE x \in Range(r)
    <3>1. PICK k \in 1 .. Len(s) : x = s[k] /\ k # i
      BY <1>1 DEF Range
    <3>2. PICK j \in 1 .. Len(s) - 1 : old(j) = k
      BY <1>4, <3>1
    <3> QED BY <1>1, <1>2, <3>1, <3>2 DEF Range
  <2> QED BY <2>1, <2>2
<1> QED BY <1>5, <1>6 DEF r

-----------------------------------------------------------------------------
\* What is written: a new listener is appended, one that is there is taken out,
\* and where there is none the list stays.
LEMMA WriteCases ==
  ASSUME IInv, NEW p \in Procs, Write(p)
  PROVE  /\ arg[p] \in Listeners /\ list \in Seq(Listeners)
         /\ \/ adding[p] /\ arg[p] \notin Range(list) /\ list' = Append(list, arg[p])
            \/ ~adding[p] /\ \E i \in DOMAIN list : list[i] = arg[p] /\ list' = RemoveAt(list, i)
            \/ ~adding[p] /\ arg[p] \notin Range(list) /\ list' = list
<1>1. pc[p] = "write" /\ snap[p] = list
  BY DEF Write, Goto, IInv, Exclusive
<1>2. arg[p] \in Listeners /\ list \in Seq(Listeners)
  BY <1>1 DEF IInv, Working, WorkingOn, Busy, TypeOK
<1>3. adding[p] => arg[p] \notin Range(list)
  BY <1>1 DEF IInv, Amid, Busy
<1> QED BY <1>1, <1>2, <1>3 DEF Write, Found

\* What is listed after a write.
LEMMA WriteListed ==
  ASSUME IInv, NEW p \in Procs, Write(p)
  PROVE  /\ list' \in Seq(Listeners) /\ IsInjective(list')
         /\ Range(list') = IF adding[p] THEN Range(list) \cup {arg[p]} ELSE Range(list) \ {arg[p]}
<1>0. arg[p] \in Listeners /\ list \in Seq(Listeners) /\ IsInjective(list)
  BY WriteCases DEF IInv
<1>1. CASE adding[p] /\ arg[p] \notin Range(list) /\ list' = Append(list, arg[p])
  BY <1>0, <1>1, AppendFacts, AppendRange
<1>2. CASE ~adding[p] /\ \E i \in DOMAIN list : list[i] = arg[p] /\ list' = RemoveAt(list, i)
  BY <1>0, <1>2, RemoveAtFacts, RemoveAtRange
<1>3. CASE ~adding[p] /\ arg[p] \notin Range(list) /\ list' = list
  BY <1>0, <1>3
<1> QED BY <1>1, <1>2, <1>3, WriteCases

-----------------------------------------------------------------------------
\* A step of a goroutine that alters its place and perhaps the lock, the hook or
\* its copy of the list keeps the invariant.
LEMMA QuietSteps ==
  ASSUME IInv, NEW p \in Procs, EnterOnce(p) \/ SetHook(p) \/ Lock(p) \/ Read(p)
  PROVE  IInv'
<1> USE DEF Goto, Pc, Locked, Busy
<1>0. TypeOK /\ Exclusive /\ Working /\ Amid /\ Settled /\ IsInjective(list)
  BY DEF IInv
<1>1. TypeOK'
  BY <1>0 DEF TypeOK, EnterOnce, SetHook, Lock, Read
<1>2. Exclusive'
  BY <1>0, NoneAssumption DEF TypeOK, Exclusive, EnterOnce, SetHook, Lock, Read
<1>3. Working'
  <2>1. /\ UNCHANGED <<arg, adding, status>> /\ (once = "done" => once' = "done")
        /\ pc[p] \notin {"init", "hook"} \/ once' = "done" \/ pc'[p] = "hook"
        /\ pc[p] # "idle" /\ (pc'[p] \in {"init", "hook"} => pc[p] \in {"init", "hook"})
    BY <1>0 DEF TypeOK, EnterOnce, SetHook, Lock, Read
  <2>2. \A q \in Procs : q # p => pc'[q] = pc[q]
    BY <1>0 DEF TypeOK, EnterOnce, SetHook, Lock, Read
  <2>3. ASSUME NEW q \in Procs, Busy(q)' PROVE WorkingOn(q)'
    <3>1. WorkingOn(q)
      BY <1>0, <2>1, <2>2, <2>3 DEF Working
    <3> QED BY <2>1, <2>2, <3>1 DEF WorkingOn
  <2>4. ASSUME NEW q \in Procs, NEW r \in Procs, q # r, Busy(q)', Busy(r)', adding'[q]
        PROVE  arg'[r] # arg'[q]
    BY <1>0, <2>1, <2>2, <2>4 DEF Working
  <2> QED BY <2>3, <2>4 DEF Working
<1>4. Amid' /\ Settled' /\ IsInjective(list)'
  BY <1>0 DEF TypeOK, Amid, Settled, EnterOnce, SetHook, Lock, Read
<1> QED BY <1>1, <1>2, <1>3, <1>4 DEF IInv

\* Beginning to add a listener keeps the invariant.
LEMMA BeginAddStep ==
  ASSUME IInv, NEW p \in Procs, NEW l \in Listeners, BeginAdd(p, l)
  PROVE  IInv'
<1> USE DEF Goto, Pc, Locked, Busy
<1>0. TypeOK /\ Exclusive /\ Working /\ Amid /\ Settled /\ IsInjective(list)
  BY DEF IInv
<1>1. TypeOK'
  <2>1. earlier' \in [Listeners -> SUBSET Listeners]
    BY <1>0 DEF TypeOK, BeginAdd
  <2> QED BY <1>0, <2>1 DEF TypeOK, Status, BeginAdd
<1>2. Exclusive'
  BY <1>0 DEF TypeOK, Exclusive, BeginAdd
<1>3. Working'
  <2>1. ASSUME NEW q \in Procs, Busy(q)' PROVE WorkingOn(q)'
    BY <1>0, <2>1 DEF TypeOK, Working, WorkingOn, BeginAdd
  <2>2. ASSUME NEW q \in Procs, NEW r \in Procs, q # r, Busy(q)', Busy(r)', adding'[q]
        PROVE  arg'[r] # arg'[q]
    <3>1. \A k \in Procs : k # p /\ Busy(k) => arg[k] \in Listeners /\ arg[k] # l
      BY <1>0 DEF Working, WorkingOn, BeginAdd
    <3>2. \A k \in Procs : k # p =>
            Busy(k)' = Busy(k) /\ arg'[k] = arg[k] /\ adding'[k] = adding[k]
      BY <1>0 DEF TypeOK, BeginAdd
    <3>3. arg'[p] = l
      BY <1>0 DEF TypeOK, BeginAdd
    <3>4. CASE q = p
      BY <2>2, <3>1, <3>2, <3>3, <3>4
    <3>5. CASE r = p
      BY <2>2, <3>1, <3>2, <3>3, <3>5
    <3>6. CASE q # p /\ r # p
      BY <1>0, <2>2, <3>2, <3>6 DEF Working
    <3> QED BY <3>4, <3>5, <3>6
  <2> QED BY <2>1, <2>2 DEF Working
<1>4. Amid' /\ Settled' /\ IsInjective(list)'
  BY <1>0 DEF TypeOK, Amid, Settled, BeginAdd
<1> QED BY <1>1, <1>2, <1>3, <1>4 DEF IInv

\* Beginning to remove a listener keeps the invariant.
LEMMA BeginRemoveStep ==
  ASSUME IInv, NEW p \in Procs, NEW l \in Listeners, BeginRemove(p, l)
  PROVE  IInv'
<1> USE DEF Goto, Pc, Locked, Busy
<1>0. TypeOK /\ Exclusive /\ Working /\ Amid /\ Settled /\ IsInjective(list)
  BY DEF IInv
<1>1. TypeOK'
  BY <1>0 DEF TypeOK, Status, BeginRemove
<1>2. Exclusive'
  BY <1>0 DEF TypeOK, Exclusive, BeginRemove
<1>3. Working'
  <2>1. ASSUME NEW q \in Procs, Busy(q)' PROVE WorkingOn(q)'
    BY <1>0, <2>1 DEF TypeOK, Working, WorkingOn, BeginRemove
  <2>2. ASSUME NEW q \in Procs, NEW r \in Procs, q # r, Busy(q)', Busy(r)', adding'[q]
        PROVE  arg'[r] # arg'[q]
    BY <1>0, <2>2 DEF TypeOK, Working, WorkingOn, BeginRemove
  <2> QED BY <2>1, <2>2 DEF Working
<1>4. Amid' /\ Settled' /\ IsInjective(list)'
  BY <1>0 DEF TypeOK, Amid, Settled, BeginRemove
<1> QED BY <1>1, <1>2, <1>3, <1>4 DEF IInv

\* Writing the new list keeps the invariant: the others do not hold the lock.
LEMMA WriteStep ==
  ASSUME IInv, NEW p \in Procs, Write(p)
  PROVE  IInv'
<1> USE DEF Goto, Pc, Locked, Busy
<1>0. /\ TypeOK /\ Exclusive /\ Working /\ Amid /\ Settled
      /\ Goto(p, "write", "unlock")
      /\ UNCHANGED <<mutex, once, arg, adding, snap, calls, status, earlier>>
  BY DEF IInv, Write
<1>1. /\ list' \in Seq(Listeners) /\ IsInjective(list')
      /\ Range(list') = IF adding[p] THEN Range(list) \cup {arg[p]} ELSE Range(list) \ {arg[p]}
  BY WriteListed
<1>2. TypeOK'
  BY <1>0, <1>1 DEF TypeOK
<1>3. Exclusive'
  BY <1>0 DEF TypeOK, Exclusive
<1>4. Working'
  BY <1>0 DEF TypeOK, Working, WorkingOn
<1>5. Amid'
  BY <1>0, <1>1 DEF TypeOK, Exclusive, Working, Amid
<1>6. Settled'
  BY <1>0, <1>1 DEF Working, WorkingOn, Settled
<1> QED BY <1>1, <1>2, <1>3, <1>4, <1>5, <1>6 DEF IInv

\* Returning keeps the invariant: a listener is where its new status says.
LEMMA ReturnStep ==
  ASSUME IInv, NEW p \in Procs, Return(p)
  PROVE  IInv'
<1> USE DEF Goto, Pc, Locked, Busy, EndCall
<1>0. TypeOK /\ Exclusive /\ Working /\ Amid /\ Settled /\ IsInjective(list)
  BY DEF IInv
<1>1. TypeOK'
  <2>1. << >> \in Seq(Listeners)
    OBVIOUS
  <2> QED BY <1>0, <2>1 DEF TypeOK, Status, Return
<1>2. Exclusive'
  BY <1>0, NoneAssumption DEF TypeOK, Exclusive, Return
<1>3. Working'
  <2>1. ASSUME NEW q \in Procs, Busy(q)' PROVE WorkingOn(q)'
    BY <1>0, <2>1 DEF TypeOK, Working, WorkingOn, Return
  <2>2. ASSUME NEW q \in Procs, NEW r \in Procs, q # r, Busy(q)', Busy(r)', adding'[q]
        PROVE  arg'[r] # arg'[q]
    BY <1>0, <2>2 DEF TypeOK, Working, Return
  <2> QED BY <2>1, <2>2 DEF Working
<1>4. Amid' /\ IsInjective(list)'
  BY <1>0 DEF TypeOK, Amid, Return
<1>5. Settled'
  BY <1>0 DEF TypeOK, Working, WorkingOn, Amid, Settled, Return
<1> QED BY <1>1, <1>2, <1>3, <1>4, <1>5 DEF IInv

\* Reporting an event and calling a listener touch nothing but the calls.
LEMMA EventSteps ==
  ASSUME IInv, NEW p \in Procs, Report(p) \/ CallListener(p)
  PROVE  IInv'
<1>1. UNCHANGED <<list, mutex, once, pc, arg, adding, snap, status, earlier>>
  BY DEF Report, CallListener
<1>2. calls' \in [Procs -> Seq(Listeners)]
  <2>1. calls \in [Procs -> Seq(Listeners)] /\ list \in Seq(Listeners)
    BY DEF IInv, TypeOK
  <2>2. CASE Report(p)
    BY <2>1, <2>2 DEF Report
  <2>3. CASE CallListener(p)
    <3>1. calls[p] # << >> /\ calls[p] \in Seq(Listeners)
      BY <2>1, <2>3 DEF CallListener
    <3>2. Tail(calls[p]) \in Seq(Listeners)
      BY <3>1, HeadTailProperties
    <3> QED BY <2>1, <2>3, <3>2 DEF CallListener
  <2> QED BY <2>2, <2>3
<1> QED BY <1>1, <1>2 DEF IInv, TypeOK, Exclusive, Working, WorkingOn, Amid, Settled, Busy

\* The invariant holds at the start.
LEMMA InitInv == Init => IInv
<1> SUFFICES ASSUME Init PROVE IInv
  OBVIOUS
<1>1. << >> \in Seq(Listeners) /\ DOMAIN << >> = {}
  OBVIOUS
<1>2. TypeOK
  BY <1>1 DEF Init, TypeOK, Pc, Status
<1>3. Exclusive /\ Working
  BY NoneAssumption DEF Init, Exclusive, Working, Busy, Locked
<1>4. Amid /\ Settled /\ IsInjective(list)
  BY <1>1 DEF Init, Amid, Settled, Busy, Range, IsInjective
<1> QED BY <1>2, <1>3, <1>4 DEF IInv

\* Every step keeps the invariant.
LEMMA NextInv == IInv /\ [Next]_vars => IInv'
<1> SUFFICES ASSUME IInv, [Next]_vars PROVE IInv'
  OBVIOUS
<1>1. CASE UNCHANGED vars
  BY <1>1 DEF vars, IInv, TypeOK, Exclusive, Working, WorkingOn, Amid, Settled, Busy
<1>2. ASSUME NEW p \in Procs,
             \/ \E l \in Listeners : BeginAdd(p, l) \/ BeginRemove(p, l)
             \/ Change(p) \/ Report(p) \/ CallListener(p)
      PROVE  IInv'
  BY <1>2, QuietSteps, BeginAddStep, BeginRemoveStep, WriteStep, ReturnStep, EventSteps
  DEF Change
<1> QED BY <1>1, <1>2 DEF Next

\* The invariant holds in every state of every behaviour.
THEOREM Invariant == Spec => []IInv
BY InitInv, NextInv, PTL DEF Spec

\* Types of the list, the locks and the goroutines, for any number of both.
THEOREM TypeCorrect == Spec => []TypeOK
<1>1. IInv => TypeOK
  BY DEF IInv
<1> QED BY Invariant, <1>1, PTL

\* A registered listener is in the list that the next event is reported to, and
\* the runtime reports events, whatever others add and remove meanwhile.
THEOREM RegisteredAreListed == Spec => []RegisteredHear
<1>1. IInv => RegisteredHear
  BY DEF IInv, Settled, RegisteredHear
<1> QED BY Invariant, <1>1, PTL

-----------------------------------------------------------------------------
(* The order in which listeners are called.                                *)

\* What an event is reported to, and what is left of it, keeps the order; no
\* listener counts as earlier, or is called, before its addition began.
InOrder(s) == \A i, j \in DOMAIN s : i < j => s[j] \notin earlier[s[i]]
Ordered ==
  /\ InOrder(list)
  /\ \A p \in Procs :
       InOrder(calls[p]) /\ \A i \in DOMAIN calls[p] : status[calls[p][i]] # "new"
  /\ \A l \in Listeners : \A k \in earlier[l] : status[k] \notin {"new", "adding"}

\* A sequence that another one's elements, from some place on, are moved up from
\* keeps their order.
LEMMA MovedInOrder ==
  ASSUME NEW s, NEW r, NEW old \in [DOMAIN r -> DOMAIN s], DOMAIN r \subseteq Int,
         \A i \in DOMAIN r : r[i] = s[old[i]],
         \A i, j \in DOMAIN r : i < j => old[i] < old[j],
         InOrder(s)
  PROVE  InOrder(r)
BY DEF InOrder

\* Taking out an element keeps the order of the others.
LEMMA RemoveAtInOrder ==
  ASSUME NEW S, NEW s \in Seq(S), NEW i \in DOMAIN s, InOrder(s)
  PROVE  InOrder(RemoveAt(s, i))
<1> DEFINE r == RemoveAt(s, i)
           old == [j \in 1 .. Len(s) - 1 |-> IF j < i THEN j ELSE j + 1]
<1>1. /\ Len(s) \in Nat /\ i \in 1 .. Len(s) /\ DOMAIN s = 1 .. Len(s)
      /\ DOMAIN r = 1 .. Len(s) - 1
      /\ \A j \in 1 .. Len(s) - 1 : (j < i => r[j] = s[j]) /\ (j >= i => r[j] = s[j + 1])
  BY RemoveAtFacts
<1> HIDE DEF r
<1>2. old \in [DOMAIN r -> DOMAIN s]
  BY <1>1
<1>3. \A j \in DOMAIN r : r[j] = s[old[j]]
  BY <1>1
<1>4. \A j, k \in DOMAIN r : j < k => old[j] < old[k]
  BY <1>1
<1>5. DOMAIN r \subseteq Int
  BY <1>1
<1> HIDE DEF old
<1>6. InOrder(r)
  BY <1>2, <1>3, <1>4, <1>5, MovedInOrder
<1> QED BY <1>6 DEF r

\* What is left after a call keeps the order.
LEMMA TailInOrder ==
  ASSUME NEW S, NEW s \in Seq(S), s # << >>, InOrder(s)
  PROVE  /\ InOrder(Tail(s))
         /\ \A i \in DOMAIN Tail(s) : i + 1 \in DOMAIN s /\ Tail(s)[i] = s[i + 1]
<1> DEFINE r == Tail(s)
           old == [j \in DOMAIN r |-> j + 1]
<1>1. /\ Len(s) \in Nat /\ DOMAIN s = 1 .. Len(s) /\ DOMAIN r = 1 .. Len(s) - 1
      /\ \A j \in 1 .. Len(s) - 1 : r[j] = s[j + 1]
  BY HeadTailProperties, LenProperties
<1> HIDE DEF r
<1>2. \A j \in DOMAIN r : j \in Int /\ j + 1 \in DOMAIN s
  BY <1>1
<1>3. old \in [DOMAIN r -> DOMAIN s] /\ \A j \in DOMAIN r : r[j] = s[old[j]]
  BY <1>1, <1>2
<1>4. \A j, k \in DOMAIN r : j < k => old[j] < old[k]
  BY <1>2
<1> HIDE DEF old
<1>5. InOrder(r)
  BY <1>2, <1>3, <1>4, MovedInOrder
<1> QED BY <1>1, <1>2, <1>5 DEF r

\* Every step keeps the order.
LEMMA NextOrdered == IInv /\ Ordered /\ [Next]_vars => Ordered'
<1> SUFFICES ASSUME IInv, Ordered, [Next]_vars PROVE Ordered'
  OBVIOUS
<1>0. /\ TypeOK /\ Working /\ Settled /\ list \in Seq(Listeners)
      /\ calls \in [Procs -> Seq(Listeners)] /\ earlier \in [Listeners -> SUBSET Listeners]
  BY DEF IInv, TypeOK
<1>1. CASE UNCHANGED <<list, calls, earlier, status>>
  BY <1>1 DEF Ordered, InOrder
<1>2. ASSUME NEW p \in Procs, NEW l \in Listeners, BeginAdd(p, l) PROVE Ordered'
  <2>1. /\ status[l] = "new" /\ UNCHANGED <<list, calls>>
        /\ status' = [status EXCEPT ![l] = "adding"]
        /\ \A k \in Listeners : k # l => earlier'[k] = earlier[k]
        /\ earlier'[l] = {k \in Listeners : status[k] = "added"}
    BY <1>0, <1>2 DEF BeginAdd
  <2>2. ASSUME NEW s \in Seq(Listeners), InOrder(s), l \notin Range(s) PROVE InOrder(s)'
    <3>1. \A i \in DOMAIN s : s[i] \in Listeners /\ s[i] # l
      BY <2>2, ElementOfSeq, LenProperties DEF Range
    <3> QED BY <2>1, <2>2, <3>1 DEF InOrder
  <2>3. InOrder(list)'
    <3>1. l \notin Range(list)
      BY <1>0, <2>1 DEF Settled
    <3>2. InOrder(list)
      BY DEF Ordered
    <3> QED BY <1>0, <2>1, <2>2, <3>1, <3>2 DEF InOrder
  <2>4. ASSUME NEW q \in Procs
        PROVE  InOrder(calls[q])' /\ \A i \in DOMAIN calls'[q] : status'[calls'[q][i]] # "new"
    <3>1. calls[q] \in Seq(Listeners) /\ InOrder(calls[q]) /\ l \notin Range(calls[q])
      BY <1>0, <2>1 DEF Ordered, Range
    <3>2. InOrder(calls[q])'
      BY <2>1, <2>2, <3>1 DEF InOrder
    <3>3. \A i \in DOMAIN calls[q] : calls[q][i] \in Listeners /\ status[calls[q][i]] # "new"
      BY <1>0, <3>1, ElementOfSeq, LenProperties DEF Ordered
    <3> QED BY <1>0, <2>1, <3>2, <3>3 DEF TypeOK
  <2>5. ASSUME NEW m \in Listeners, NEW k \in earlier'[m]
        PROVE  status'[k] \notin {"new", "adding"}
    <3>1. k \in Listeners /\ status[k] \notin {"new", "adding"}
      BY <1>0, <2>1, <2>5 DEF Ordered
    <3> QED BY <1>0, <2>1, <3>1 DEF TypeOK
  <2> QED BY <2>3, <2>4, <2>5 DEF Ordered
<1>3. ASSUME NEW p \in Procs, BeginRemove(p, arg'[p]) \/ Return(p), arg'[p] \in Listeners \/ Return(p)
      PROVE  Ordered'
  <2>1. UNCHANGED <<list, calls, earlier>>
    BY <1>3 DEF BeginRemove, Return
  <2>2. \A k \in Listeners :
          /\ status[k] # "new" => status'[k] # "new"
          /\ status[k] \notin {"new", "adding"} => status'[k] \notin {"new", "adding"}
    BY <1>0, <1>3 DEF TypeOK, BeginRemove, Return
  <2>3. \A q \in Procs : \A i \in DOMAIN calls[q] : calls[q][i] \in Listeners
    BY <1>0, ElementOfSeq, LenProperties
  <2> QED BY <1>0, <2>1, <2>2, <2>3 DEF Ordered, InOrder
<1>4. ASSUME NEW p \in Procs, Write(p) PROVE Ordered'
  <2>1. UNCHANGED <<calls, earlier, status>> /\ pc[p] = "write"
    BY <1>4 DEF Write, Goto
  <2>2. InOrder(list) /\ arg[p] \in Listeners
    BY <1>4, WriteCases DEF Ordered
  <2>3. CASE adding[p] /\ list' = Append(list, arg[p])
    <3>1. status[arg[p]] = "adding"
      BY <1>0, <2>1, <2>3 DEF Working, WorkingOn, Busy
    <3>2. \A k \in Listeners : arg[p] \notin earlier[k]
      BY <3>1 DEF Ordered
    <3>3. \A i \in DOMAIN list : list[i] \in Listeners
      BY <1>0, ElementOfSeq, LenProperties
    <3>4. InOrder(list)'
      BY <1>0, <2>1, <2>2, <2>3, <3>2, <3>3, AppendFacts DEF InOrder
    <3> QED BY <2>1, <3>4 DEF Ordered, InOrder
  <2>4. CASE \E i \in DOMAIN list : list' = RemoveAt(list, i)
    <3>1. PICK i \in DOMAIN list : list' = RemoveAt(list, i)
      BY <2>4
    <3>2. InOrder(RemoveAt(list, i))
      BY <1>0, <2>2, RemoveAtInOrder
    <3> QED BY <2>1, <3>1, <3>2 DEF Ordered, InOrder
  <2>5. CASE list' = list
    BY <2>1, <2>5 DEF Ordered, InOrder
  <2> QED BY <1>4, <2>3, <2>4, <2>5, WriteCases
<1>5. ASSUME NEW p \in Procs, Report(p) PROVE Ordered'
  <2>1. UNCHANGED <<list, earlier, status>> /\ calls' = [calls EXCEPT ![p] = list]
    BY <1>5 DEF Report
  <2>2. \A i \in DOMAIN list : status[list[i]] # "new"
    <3>1. \A i \in DOMAIN list : list[i] \in Listeners /\ list[i] \in Range(list)
      BY <1>0, ElementOfSeq, LenProperties DEF Range
    <3> QED BY <1>0, <3>1 DEF Settled
  <2> QED BY <1>0, <2>1, <2>2 DEF Ordered, InOrder
<1>6. ASSUME NEW p \in Procs, CallListener(p) PROVE Ordered'
  <2>1. /\ UNCHANGED <<list, earlier, status>> /\ calls[p] # << >>
        /\ calls' = [calls EXCEPT ![p] = Tail(calls[p])]
    BY <1>6 DEF CallListener
  <2>2. calls[p] \in Seq(Listeners) /\ InOrder(calls[p])
    BY <1>0 DEF Ordered
  <2>3. /\ InOrder(Tail(calls[p]))
        /\ \A i \in DOMAIN Tail(calls[p]) : status[Tail(calls[p])[i]] # "new"
    BY <2>1, <2>2, TailInOrder DEF Ordered
  <2> QED BY <1>0, <2>1, <2>3 DEF Ordered, InOrder
<1> QED
  <2>1. ASSUME NEW p \in Procs, NEW l \in Listeners, BeginRemove(p, l) PROVE Ordered'
    <3>1. arg'[p] = l
      BY <1>0, <2>1 DEF TypeOK, BeginRemove
    <3> QED BY <1>3, <2>1, <3>1
  <2>2. ASSUME NEW p \in Procs, Change(p) PROVE Ordered'
    <3>1. CASE EnterOnce(p) \/ SetHook(p) \/ Lock(p) \/ Read(p)
      BY <1>1, <3>1 DEF EnterOnce, SetHook, Lock, Read
    <3> QED BY <1>3, <1>4, <2>2, <3>1 DEF Change
  <2> QED BY <1>1, <1>2, <1>5, <1>6, <2>1, <2>2 DEF Next, vars

\* Whoever reports an event calls the listeners in the order in which they were
\* registered, also when others add and remove listeners during the calls.
THEOREM CallsAreOrdered == Spec => []CalledInOrder
<1>1. Init => Ordered
  <2>1. DOMAIN << >> = {}
    OBVIOUS
  <2> QED BY <2>1 DEF Init, Ordered, InOrder
<1>2. IInv /\ Ordered /\ [Next]_vars => Ordered'
  BY NextOrdered
<1>3. Ordered => CalledInOrder
  BY DEF Ordered, InOrder, CalledInOrder
<1> QED BY Invariant, <1>1, <1>2, <1>3, PTL DEF Spec

-----------------------------------------------------------------------------
(* The list is linearizable.                                               *)

\* A step of the goroutines is a step of the abstract list, or none.
LEMMA StepsImplement == IInv /\ [Next]_vars => [Abstract!LNext]_(Abstract!lvars)
<1> SUFFICES ASSUME IInv, [Next]_vars PROVE [Abstract!LNext]_(Abstract!lvars)
  OBVIOUS
<1> USE DEF Abstract!lvars, Abstract!Becomes, Abstract!Listed
<1>0. TypeOK /\ Exclusive /\ Working /\ Amid /\ Settled
  BY DEF IInv
<1>1. CASE UNCHANGED <<list, status>>
  BY <1>1
<1>2. ASSUME NEW p \in Procs, NEW l \in Listeners, BeginAdd(p, l)
      PROVE  Abstract!StartAdding(l)
  BY <1>2 DEF BeginAdd, Abstract!StartAdding
<1>3. ASSUME NEW p \in Procs, NEW l \in Listeners, BeginRemove(p, l)
      PROVE  Abstract!StartRemoving(l) \/ UNCHANGED <<list, status>>
  BY <1>0, <1>3 DEF TypeOK, BeginRemove, Abstract!StartRemoving
<1>4. ASSUME NEW p \in Procs, Write(p)
      PROVE  \/ Abstract!Append1(arg[p]) \/ Abstract!TakeOut(arg[p])
             \/ UNCHANGED <<list, status>>
  <2>1. UNCHANGED status /\ pc[p] = "write"
    BY <1>4 DEF Write, Goto
  <2>2. /\ adding[p] => status[arg[p]] = "adding"
        /\ ~adding[p] => status[arg[p]] \in {"removing", "removed"}
    BY <1>0, <2>1 DEF Working, WorkingOn, Busy
  <2>3. CASE adding[p] /\ arg[p] \notin Range(list) /\ list' = Append(list, arg[p])
    BY <2>1, <2>2, <2>3 DEF Abstract!Append1, Range, Abstract!Range
  <2>4. CASE ~adding[p] /\ \E i \in DOMAIN list : list[i] = arg[p] /\ list' = RemoveAt(list, i)
    <3>1. arg[p] \in Range(list) /\ arg[p] \in Listeners
      BY <1>4, <2>4, WriteCases DEF Range
    <3>2. status[arg[p]] = "removing"
      BY <1>0, <2>2, <2>4, <3>1 DEF Settled
    <3> QED BY <2>1, <2>4, <3>2
      DEF Abstract!TakeOut, RemoveAt, Abstract!RemoveAt
  <2>5. CASE list' = list
    BY <2>1, <2>5
  <2> QED BY <1>4, <2>3, <2>4, <2>5, WriteCases
<1>5. ASSUME NEW p \in Procs, Return(p)
      PROVE  \/ Abstract!ReturnAdded(arg[p]) \/ Abstract!ReturnRemoved(arg[p])
             \/ UNCHANGED <<list, status>>
  <2>1. /\ pc[p] = "unlock" /\ UNCHANGED list
        /\ status' = [status EXCEPT ![arg[p]] = IF adding[p] THEN "added" ELSE "removed"]
    BY <1>5 DEF Return, Goto
  <2>2. /\ arg[p] \in Listeners
        /\ adding[p] => status[arg[p]] = "adding" /\ arg[p] \in Range(list)
        /\ ~adding[p] => status[arg[p]] \in {"removing", "removed"} /\ arg[p] \notin Range(list)
    BY <1>0, <2>1 DEF Working, WorkingOn, Amid, Busy
  <2>3. CASE adding[p]
    BY <2>1, <2>2, <2>3 DEF Abstract!ReturnAdded, Range, Abstract!Range
  <2>4. CASE ~adding[p] /\ status[arg[p]] = "removing"
    BY <2>1, <2>2, <2>4 DEF Abstract!ReturnRemoved, Range, Abstract!Range
  <2>5. CASE ~adding[p] /\ status[arg[p]] = "removed"
    BY <1>0, <2>1, <2>2, <2>5 DEF TypeOK
  <2> QED BY <2>2, <2>3, <2>4, <2>5
<1>6. ASSUME NEW p \in Procs, Write(p) \/ Return(p) PROVE arg[p] \in Listeners
  BY <1>0, <1>6 DEF Working, WorkingOn, Busy, Write, Return, Goto
<1>7. ASSUME NEW p \in Procs,
             EnterOnce(p) \/ SetHook(p) \/ Lock(p) \/ Read(p) \/ Report(p) \/ CallListener(p)
      PROVE  UNCHANGED <<list, status>>
  BY <1>7 DEF EnterOnce, SetHook, Lock, Read, Report, CallListener
<1>8. CASE UNCHANGED vars
  BY <1>8 DEF vars
<1> HIDE DEF Abstract!lvars
<1>9. CASE UNCHANGED <<list, status>>
  BY <1>9 DEF Abstract!lvars
<1> QED
  BY <1>2, <1>3, <1>4, <1>5, <1>6, <1>7, <1>8, <1>9 DEF Next, Change, Abstract!LNext, vars

\* Concurrent additions and removals have the same effect as if each had taken
\* place at one instant between its call and its return.
THEOREM ListIsLinearizable == Spec => Linearizes
<1>1. Init => Abstract!LInit
  BY DEF Init, Abstract!LInit
<1> QED BY Invariant, StepsImplement, <1>1, PTL DEF Spec, Linearizes, Abstract!LSpec
=============================================================================
