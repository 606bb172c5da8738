------------------------ MODULE SqliteWorkflowProofs ------------------------
(***************************************************************************)
(* For every set of calls, database, limit and number of crashes: types,   *)
(* that no accepted signal is lost, executed twice or out of order, and    *)
(* that what was answered stays.                                           *)
(*                                                                         *)
(* The first inductive invariant says where a consumed signal is while a   *)
(* worker rebuilds its state: executed, in its inbox, or in a batch still  *)
(* to be fed; and that nothing else is there.                              *)
(***************************************************************************)
EXTENDS SqliteWorkflow, TLAPS

\* Calls signalled to the current run in tasks that were completed.
Recorded == UNION {Signalled(history[i]) : i \in DOMAIN history}

\* Batches of consumed history that the worker has not been fed; -1 when it has
\* also been fed the batch of the task in progress.
Behind == IF task THEN Len(feed) - 1 ELSE Len(feed)

\* Between batches the inbox is empty, and between tasks there is no batch.
Idle == pc \in {"start", "blocked"} => inbox = << >>
NoTaskNoBatch == ~task => batch = << >>

\* A worker has executed every consumed call or will be fed it, also while it is
\* still replaying: what a crash took away comes back.
ConsumedIsTracked ==
  up => \A c \in Recorded :
          \/ c \in Elems(handled)
          \/ Behind >= 0 /\ c \in Signalled(inbox)
          \/ \E i \in DOMAIN feed : i <= Behind /\ c \in Signalled(feed[i])

\* The batch of the task in progress is the last to be fed, or was fed.
BatchIsTracked ==
  up /\ task =>
    \/ feed # << >> /\ feed[Len(feed)] = batch
    \/ feed = << >> /\ Signalled(batch) \subseteq Elems(handled) \cup Signalled(inbox)

\* The worker knows only of calls that the service gave it.
NothingInvented ==
  up => /\ Elems(handled) \subseteq Recorded \cup Signalled(batch)
        /\ Signalled(inbox) \subseteq Recorded \cup Signalled(batch)
        /\ \A i \in DOMAIN feed : Signalled(feed[i]) \subseteq Recorded \cup Signalled(batch)

\* What a completed task saved is what the run consumed, no more and, while the
\* run is open, no less; responses are for calls the worker executed.
SavedIsRecorded == Elems(saved.handled) \subseteq Recorded
RespondingIsHandled == up => responding \subseteq Elems(handled)
RecordedIsSaved == status = "running" => Recorded \subseteq Elems(saved.handled)

\* Only a worker holds a task.
TaskHasWorker == task => up

\* The inductive invariant: NothingLost and AnsweredIsDurable are not inductive
\* alone, since a task's completion records what the worker's cache holds.
IInv ==
  /\ Idle /\ NoTaskNoBatch /\ TaskHasWorker
  /\ ConsumedIsTracked /\ BatchIsTracked /\ NothingInvented
  /\ SavedIsRecorded /\ RecordedIsSaved /\ RespondingIsHandled
  /\ NothingLost /\ AnsweredIsDurable
-----------------------------------------------------------------------------
(* Sequences and the calls signalled in them.                              *)

\* Appending to a sequence keeps its elements in place and adds one at the end.
LEMMA AppendFacts ==
  ASSUME NEW S, NEW s \in Seq(S), NEW e
  PROVE  /\ Len(s) \in Nat /\ DOMAIN s = 1 .. Len(s)
         /\ Len(Append(s, e)) = Len(s) + 1 /\ DOMAIN Append(s, e) = 1 .. Len(s) + 1
         /\ Append(s, e) # << >> /\ Append(s, e)[Len(s) + 1] = e
         /\ \A i \in 1 .. Len(s) : Append(s, e)[i] = s[i]
OBVIOUS

\* The tail of a sequence is the sequence moved down by one.
LEMMA TailFacts ==
  ASSUME NEW S, NEW s \in Seq(S), s # << >>
  PROVE  /\ Len(s) \in Nat \ {0} /\ DOMAIN s = 1 .. Len(s) /\ Head(s) = s[1]
         /\ Len(Tail(s)) = Len(s) - 1 /\ DOMAIN Tail(s) = 1 .. Len(s) - 1
         /\ \A i \in 1 .. Len(s) - 1 : Tail(s)[i] = s[i + 1]
         /\ Tail(s) = << >> <=> Len(s) = 1
<1>1. /\ Len(s) \in Nat \ {0} /\ DOMAIN s = 1 .. Len(s) /\ Head(s) = s[1]
      /\ Tail(s) \in Seq(S) /\ Len(Tail(s)) = Len(s) - 1
      /\ \A i \in 1 .. Len(s) - 1 : Tail(s)[i] = s[i + 1]
  OBVIOUS
<1>2. DOMAIN Tail(s) = 1 .. Len(s) - 1
  BY <1>1
<1>3. \A t \in Seq(S) : t = << >> <=> Len(t) = 0
  OBVIOUS
<1>4. Tail(s) = << >> <=> Len(s) = 1
  BY <1>1, <1>3
<1> QED BY <1>1, <1>2, <1>4

\* Appending adds one element.
LEMMA ElemsAppend ==
  ASSUME NEW S, NEW s \in Seq(S), NEW e PROVE Elems(Append(s, e)) = Elems(s) \cup {e}
<1>1. /\ DOMAIN Append(s, e) = 1 .. Len(s) + 1 /\ DOMAIN s = 1 .. Len(s)
      /\ Append(s, e)[Len(s) + 1] = e /\ Len(s) \in Nat
      /\ \A i \in 1 .. Len(s) : Append(s, e)[i] = s[i]
  OBVIOUS
<1>2. ASSUME NEW x \in Elems(Append(s, e)) PROVE x \in Elems(s) \cup {e}
  BY <1>1, <1>2 DEF Elems
<1>3. ASSUME NEW x \in Elems(s) \cup {e} PROVE x \in Elems(Append(s, e))
  BY <1>1, <1>3 DEF Elems
<1> QED BY <1>2, <1>3

\* A concatenation has the elements of both sequences.
LEMMA ElemsConcat ==
  ASSUME NEW S, NEW s \in Seq(S), NEW t \in Seq(S)
  PROVE  Elems(s \o t) = Elems(s) \cup Elems(t)
<1>1. /\ DOMAIN (s \o t) = 1 .. Len(s) + Len(t) /\ Len(s) \in Nat /\ Len(t) \in Nat
      /\ DOMAIN s = 1 .. Len(s) /\ DOMAIN t = 1 .. Len(t)
      /\ \A i \in 1 .. Len(s) : (s \o t)[i] = s[i]
      /\ \A i \in 1 .. Len(s) + Len(t) : i > Len(s) => (s \o t)[i] = t[i - Len(s)]
  OBVIOUS
<1>2. ASSUME NEW i \in DOMAIN t PROVE i + Len(s) \in DOMAIN (s \o t) /\ (s \o t)[i + Len(s)] = t[i]
  BY <1>1
<1>3. ASSUME NEW x \in Elems(s \o t) PROVE x \in Elems(s) \cup Elems(t)
  <2>1. PICK i \in 1 .. Len(s) + Len(t) : x = (s \o t)[i]
    BY <1>1, <1>3 DEF Elems
  <2>2. CASE i <= Len(s)
    BY <1>1, <2>1, <2>2 DEF Elems
  <2>3. CASE i > Len(s)
    <3>1. i - Len(s) \in DOMAIN t /\ x = t[i - Len(s)]
      BY <1>1, <2>1, <2>3
    <3> QED BY <3>1 DEF Elems
  <2> QED BY <1>1, <2>1, <2>2, <2>3
<1>4. ASSUME NEW x \in Elems(s) \cup Elems(t) PROVE x \in Elems(s \o t)
  <2>1. CASE x \in Elems(s)
    BY <1>1, <2>1 DEF Elems
  <2>2. CASE x \in Elems(t)
    BY <1>2, <2>2 DEF Elems
  <2> QED BY <1>4, <2>1, <2>2
<1> QED BY <1>3, <1>4

\* Taking one element out of a sequence leaves a sequence of all the others.
LEMMA WithoutElems ==
  ASSUME NEW S, NEW s \in Seq(S), NEW i \in DOMAIN s
  PROVE  /\ Without(s, i) \in Seq(S)
         /\ Elems(s) = Elems(Without(s, i)) \cup {s[i]}
<1> DEFINE a == SubSeq(s, 1, i - 1)
           b == SubSeq(s, i + 1, Len(s))
<1>0. i \in Nat /\ 1 <= i /\ i <= Len(s) /\ Len(s) \in Nat /\ DOMAIN s = 1 .. Len(s)
  OBVIOUS
<1>1. a \in Seq(S) /\ b \in Seq(S) /\ Without(s, i) = a \o b
  BY <1>0 DEF Without
<1>2. Len(a) = i - 1 /\ DOMAIN a = 1 .. i - 1 /\ \A k \in 1 .. i - 1 : a[k] = s[k]
  BY <1>0
<1>3. /\ Len(b) = Len(s) - i /\ DOMAIN b = 1 .. Len(s) - i
      /\ \A k \in 1 .. Len(s) - i : b[k] = s[k + i]
  BY <1>0
<1> HIDE DEF a, b
<1>4. ASSUME NEW x \in Elems(s) PROVE x \in Elems(a) \cup Elems(b) \cup {s[i]}
  <2>1. PICK k \in 1 .. Len(s) : x = s[k]
    BY <1>0, <1>4 DEF Elems
  <2>2. CASE k < i
    BY <1>0, <1>2, <2>1, <2>2 DEF Elems
  <2>3. CASE k > i
    <3>1. k - i \in 1 .. Len(s) - i /\ (k - i) + i = k
      BY <1>0, <2>1, <2>3
    <3>2. b[k - i] = x
      BY <1>3, <2>1, <3>1
    <3> QED BY <1>3, <3>1, <3>2 DEF Elems
  <2> QED BY <1>0, <2>1, <2>2, <2>3
<1>5. ASSUME NEW x \in Elems(a) \cup Elems(b) \cup {s[i]} PROVE x \in Elems(s)
  <2>1. CASE x \in Elems(a)
    BY <1>0, <1>2, <2>1 DEF Elems
  <2>2. CASE x \in Elems(b)
    <3>1. PICK k \in 1 .. Len(s) - i : x = b[k]
      BY <1>3, <2>2 DEF Elems
    <3>2. k + i \in 1 .. Len(s) /\ x = s[k + i]
      BY <1>0, <1>3, <3>1
    <3> QED BY <1>0, <3>2 DEF Elems
  <2>3. CASE x = s[i]
    BY <2>3 DEF Elems
  <2> QED BY <1>5, <2>1, <2>2, <2>3
<1>6. Elems(a \o b) = Elems(a) \cup Elems(b)
  BY <1>1, ElemsConcat
<1> QED BY <1>1, <1>4, <1>5, <1>6

\* No events signal no calls.
LEMMA SignalledEmpty == Signalled(<< >>) = {}
BY DEF Signalled, Elems

\* An event adds its call if it is a signal, and nothing otherwise.
LEMMA SignalledAppend ==
  ASSUME NEW es \in Seq(Event), NEW e \in Event
  PROVE  Signalled(Append(es, e)) = Signalled(es) \cup (IF IsSignal(e) THEN {e.call} ELSE {})
BY ElemsAppend DEF Signalled

\* A concatenation of events signals the calls of both.
LEMMA SignalledConcat ==
  ASSUME NEW es \in Seq(Event), NEW fs \in Seq(Event)
  PROVE  Signalled(es \o fs) = Signalled(es) \cup Signalled(fs)
BY ElemsConcat DEF Signalled

\* Taking an event out removes at most its call.
LEMMA SignalledWithout ==
  ASSUME NEW es \in Seq(Event), NEW i \in DOMAIN es
  PROVE  Signalled(es)
           = Signalled(Without(es, i)) \cup (IF IsSignal(es[i]) THEN {es[i].call} ELSE {})
BY WithoutElems DEF Signalled

-----------------------------------------------------------------------------
(* Types.                                                                  *)

\* The events that clients and activities add are events, of the kinds they say.
LEMMA EventTypes ==
  /\ \A c \in Calls : Signal(c) \in Event /\ IsSignal(Signal(c)) /\ Signal(c).call = c
  /\ CancelRequest \in Event /\ ~IsSignal(CancelRequest)
  /\ \A c \in Execs : Responded(c) \in Event /\ ~IsSignal(Responded(c))
BY DEF Signal, CancelRequest, Responded, Event, IsSignal, Calls

\* The wrapping request counter stays a number.
LEMMA IncrementType == ASSUME NEW n \in Nat PROVE Increment(n) \in Nat
BY WorkflowAssumption DEF Increment

\* An exec event carries an Exec, an update event an Update.
LEMMA EventKinds ==
  ASSUME NEW e \in Event
  PROVE  /\ e.kind = "exec" => e.call \in Execs
         /\ e.kind = "update" => e.call \in Updates
         /\ IsSignal(e) => e.call \in Calls
BY DEF Signal, CancelRequest, Responded, Event, IsSignal, Calls

\* Batches and histories stay sequences of events.
LEMMA BatchTypes ==
  /\ << >> \in Seq(Event) /\ << >> \in Seq(Seq(Event)) /\ << >> \in Seq(Calls)
  /\ \A es, fs \in Seq(Event) : es \o fs \in Seq(Event)
  /\ \A bs \in Seq(Seq(Event)), es \in Seq(Event) : Append(bs, es) \in Seq(Seq(Event))
OBVIOUS

\* What a task's completion makes of the responses are responses.
LEMMA ResponseTypes ==
  ASSUME TypeOK
  PROVE  Issued \in [Execs -> Response] /\ Dropped \in [Execs -> Response]
<1>1. Issued \in [Execs -> Response]
  BY DEF TypeOK, Issued, Response
<1> QED BY <1>1 DEF Dropped, Response

\* A restarted worker has well-typed state if its input and batches are.
LEMMA RestartTypes ==
  ASSUME NEW bs \in Seq(Seq(Event)), NEW d \in DB, Restart(bs, d)
  PROVE  /\ feed' \in Seq(Seq(Event)) /\ pc' \in Pc
         /\ inbox' \in Seq(Event) /\ woken' \in BOOLEAN /\ ctxDone' \in BOOLEAN
         /\ db' \in DB /\ count' \in Nat /\ handled' \in Seq(Calls)
         /\ responding' \subseteq Execs
BY BatchTypes DEF Restart, Pc

\* Giving a task up keeps every variable's type.
LEMMA GiveUpTypes ==
  ASSUME TypeOK, GiveUpTask
  PROVE  /\ status' \in Status /\ input' \in DB /\ history' \in Seq(Seq(Event))
         /\ buffer' \in Seq(Event) /\ task' \in BOOLEAN /\ batch' \in Seq(Event)
         /\ response' \in [Execs -> Response] /\ up' \in BOOLEAN
         /\ feed' \in Seq(Seq(Event)) /\ pc' \in Pc
         /\ inbox' \in Seq(Event) /\ woken' \in BOOLEAN /\ ctxDone' \in BOOLEAN
         /\ db' \in DB /\ count' \in Nat /\ handled' \in Seq(Calls)
         /\ responding' \subseteq Execs
<1>1. Restart(<< >>, input)
  BY DEF GiveUpTask, Evict
<1>2. input \in DB
  BY DEF TypeOK
<1> QED BY <1>1, <1>2, RestartTypes, BatchTypes DEF GiveUpTask, Evict, TypeOK

\* Executing a selected signal keeps the types of what it changes.
LEMMA ExecuteTypes ==
  ASSUME TypeOK, NEW i \in DOMAIN inbox, Take(i)
  PROVE  /\ inbox' \in Seq(Event) /\ woken' \in BOOLEAN /\ ctxDone' \in BOOLEAN
         /\ inbox[i] \in Event
         /\ \A c \in Calls : Execute(c) =>
              db' \in DB /\ count' \in Nat /\ handled' \in Seq(Calls)
<1>1. inbox' \in Seq(Event) /\ inbox[i] \in Event
  BY WithoutElems DEF TypeOK, Take
<1>2. ASSUME NEW c \in Calls, Execute(c)
      PROVE  db' \in DB /\ count' \in Nat /\ handled' \in Seq(Calls)
  BY <1>2, WorkflowAssumption, IncrementType DEF Execute, TypeOK
<1> QED BY <1>1, <1>2 DEF Take, TypeOK

\* The initial values have their types.
LEMMA InitTypes == Init => TypeOK
<1> SUFFICES ASSUME Init PROVE TypeOK
  OBVIOUS
<1>1. saved \in Saved
  BY WorkflowAssumption, BatchTypes DEF Init, Saved
<1>2. response \in [Execs -> Response]
  BY DEF Init, Response
<1>3. query \in [state: {"none", "sent", "answered", "refused"},
                 must: SUBSET Execs, saw: SUBSET Calls]
  BY DEF Init
<1>4. crashes \in 0 .. MaxCrashes
  BY WorkflowAssumption DEF Init
<1> QED
  BY <1>1, <1>2, <1>3, <1>4, WorkflowAssumption, BatchTypes
     DEF Init, TypeOK, Status, Pc

\* Every step keeps the types.
LEMMA NextTypes == TypeOK /\ [Next]_vars => TypeOK'
<1> SUFFICES ASSUME TypeOK, [Next]_vars PROVE TypeOK'
  OBVIOUS
<1> USE DEF service, channels, local, ghosts
<1>1. ASSUME NEW c \in Calls, Send(c) PROVE TypeOK'
  BY <1>1, EventTypes DEF Send, TypeOK
<1>2. CASE StopDB
  BY <1>2, EventTypes DEF StopDB, TypeOK
<1>3. CASE SendQuery
  BY <1>3 DEF SendQuery, TypeOK
<1>4. CASE StartTask
  <2>1. CASE up
    BY <1>4, <2>1, BatchTypes DEF StartTask, TypeOK
  <2>2. CASE ~up
    <3>1. Restart(Append(history, buffer), input) /\ up'
      BY <1>4, <2>2 DEF StartTask, Load
    <3>2. Append(history, buffer) \in Seq(Seq(Event)) /\ input \in DB
      BY BatchTypes DEF TypeOK
    <3> QED BY <1>4, <3>1, <3>2, RestartTypes, BatchTypes DEF StartTask, TypeOK
  <2> QED BY <2>1, <2>2
<1>5. CASE LoadForQuery
  <2>1. Restart(history, input) /\ up'
    BY <1>5 DEF LoadForQuery, Load
  <2> QED BY <1>5, <2>1, RestartTypes DEF LoadForQuery, TypeOK
<1>6. CASE RefuseQuery
  BY <1>6 DEF RefuseQuery, TypeOK
<1>7. CASE Feed
  <2>1. Head(feed) \in Seq(Event) /\ Tail(feed) \in Seq(Seq(Event))
    BY <1>7 DEF Feed, TypeOK
  <2>2. woken' \in BOOLEAN /\ ctxDone' \in BOOLEAN /\ pc' \in Pc /\ responding' = {}
    BY <1>7 DEF Feed, TypeOK, Pc
  <2> QED BY <1>7, <2>1, <2>2 DEF Feed, TypeOK
<1>8. CASE Crash
  <2>1. crashes' \in 0 .. MaxCrashes
    BY <1>8, WorkflowAssumption DEF Crash, TypeOK
  <2>2. GiveUpTask
    BY <1>8 DEF Crash
  <2> QED BY <1>8, <2>1, <2>2, GiveUpTypes DEF Crash, TypeOK
<1>9. ASSUME NEW c \in Execs, DeliverResponse(c) \/ TimeOutResponse(c) PROVE TypeOK'
  <2>1. PICK outcome \in {"delivered", "timedOut"} : EndResponse(c, outcome)
    BY <1>9 DEF DeliverResponse, TimeOutResponse
  <2> QED BY <2>1, EventTypes DEF EndResponse, TypeOK, Response
<1>10. ASSUME NEW i \in DOMAIN inbox, HandleExec(i) PROVE TypeOK'
  <2>1. inbox[i].call \in Execs /\ inbox[i].call \in Calls
    BY <1>10, ExecuteTypes, EventKinds DEF HandleExec, Calls
  <2> QED BY <1>10, <2>1, ExecuteTypes DEF HandleExec, TypeOK
<1>11. ASSUME NEW i \in DOMAIN inbox, HandleUpdate(i) PROVE TypeOK'
  <2>1. inbox[i].call \in Calls
    BY <1>11, ExecuteTypes, EventKinds DEF HandleUpdate, Calls
  <2> QED BY <1>11, <2>1, ExecuteTypes DEF HandleUpdate, TypeOK, Pc
<1>12. ASSUME NEW i \in DOMAIN inbox, HandleOther(i) PROVE TypeOK'
  BY <1>12, ExecuteTypes DEF HandleOther, TypeOK
<1>13. CASE Block
  BY <1>13 DEF Block, TypeOK, Pc
<1>14. Now \in Saved
  BY DEF Now, Saved, TypeOK
<1>15. CASE CompleteTask
  BY <1>15, <1>14, BatchTypes, ResponseTypes DEF CompleteTask, TypeOK
<1>16. CASE RefuseClose
  BY <1>16, GiveUpTypes DEF RefuseClose, TypeOK
<1>17. ASSUME NEW s \in Status, Close(s) PROVE TypeOK'
  BY <1>17, <1>14, BatchTypes, ResponseTypes DEF Close, TypeOK
<1>18. CASE ReturnError \/ ReturnSerializeError
  BY <1>17, <1>18 DEF ReturnError, ReturnSerializeError, Status
<1>19. CASE ReturnCanceled
  BY <1>17, <1>19 DEF ReturnCanceled, Status
<1>20. CASE ContinueAsNew
  <2>1. Image(db) \in DB
    BY WorkflowAssumption DEF TypeOK
  <2>2. saved' \in Saved /\ base' \in Seq(Calls)
    BY <1>20, <2>1, BatchTypes DEF ContinueAsNew, Saved, TypeOK
  <2>3. Restart(<< >>, Image(db)) /\ up' = FALSE
    BY <1>20 DEF ContinueAsNew, Evict
  <2> QED
    BY <1>20, <2>1, <2>2, <2>3, RestartTypes, BatchTypes, ResponseTypes
       DEF ContinueAsNew, TypeOK
<1>21. CASE AnswerQuery
  <2>1. Elems(base \o handled) \subseteq Calls
    BY ElemsConcat DEF TypeOK, Elems
  <2> QED BY <1>21, <2>1 DEF AnswerQuery, TypeOK
<1>22. CASE UNCHANGED vars
  BY <1>22 DEF vars, TypeOK
<1> QED
  BY <1>1, <1>2, <1>3, <1>4, <1>5, <1>6, <1>7, <1>8, <1>9, <1>10, <1>11,
     <1>12, <1>13, <1>15, <1>16, <1>18, <1>19, <1>20, <1>21, <1>22
     DEF Next, Client, Service, Workflow, Outcome

\* Every variable keeps its type.
THEOREM TypeCorrect == Spec => []TypeOK
BY InitTypes, NextTypes, PTL DEF Spec
-----------------------------------------------------------------------------
(* Nothing is lost, and what was answered stays.                           *)

\* Completing a task records the calls of its batch.
LEMMA RecordedAppend ==
  ASSUME history \in Seq(Seq(Event)), batch \in Seq(Event), history' = Append(history, batch)
  PROVE  Recorded' = Recorded \cup Signalled(batch)
<1>1. /\ DOMAIN history' = 1 .. Len(history) + 1 /\ DOMAIN history = 1 .. Len(history)
      /\ history'[Len(history) + 1] = batch /\ Len(history) \in Nat
      /\ \A i \in 1 .. Len(history) : history'[i] = history[i]
  OBVIOUS
<1>2. ASSUME NEW c \in Recorded' PROVE c \in Recorded \cup Signalled(batch)
  <2>1. PICK i \in 1 .. Len(history) + 1 : c \in Signalled(history'[i])
    BY <1>1, <1>2 DEF Recorded
  <2> QED BY <1>1, <2>1 DEF Recorded
<1>3. ASSUME NEW c \in Recorded \cup Signalled(batch) PROVE c \in Recorded'
  <2>1. CASE c \in Recorded
    BY <1>1, <2>1 DEF Recorded
  <2>2. CASE c \in Signalled(batch)
    BY <1>1, <2>2 DEF Recorded
  <2> QED BY <1>3, <2>1, <2>2
<1> QED BY <1>2, <1>3

\* A run without history has recorded nothing.
LEMMA RecordedEmpty == history = << >> => Recorded = {}
BY DEF Recorded

\* What NothingLost says of one call.
LEMMA NothingLostIs ==
  NothingLost <=> (status = "running" =>
    Elems(sent) \subseteq Signalled(buffer) \cup Signalled(batch) \cup Recorded \cup Elems(base))
BY DEF NothingLost, Recorded

\* The log holds the calls of earlier runs and of the last completed task.
LEMMA LogElems ==
  TypeOK => Elems(Log) = Elems(base) \cup Elems(saved.handled)
BY ElemsConcat DEF TypeOK, Log, Saved

\* The part of the invariant about the worker and the task it holds.
Worker ==
  /\ Idle /\ NoTaskNoBatch /\ TaskHasWorker
  /\ ConsumedIsTracked /\ BatchIsTracked /\ NothingInvented
  /\ SavedIsRecorded /\ RecordedIsSaved /\ RespondingIsHandled

\* Steps that change none of its variables keep it.
LEMMA WorkerFrame ==
  ASSUME Worker,
         UNCHANGED <<status, history, batch, task, up, feed, pc, inbox, handled,
                     responding, saved>>
  PROVE  Worker' /\ Recorded' = Recorded
BY DEF Worker, Idle, NoTaskNoBatch, TaskHasWorker, ConsumedIsTracked, BatchIsTracked,
       NothingInvented, SavedIsRecorded, RecordedIsSaved, RespondingIsHandled,
       Recorded, Behind

\* A worker that starts over is to be fed every batch of the history.
LEMMA WorkerLoad ==
  ASSUME TypeOK, Worker, ~task, UNCHANGED <<status, history, saved>>,
         \/ task' = TRUE /\ batch' = buffer /\ Load(Append(history, buffer))
         \/ task' = FALSE /\ batch' = batch /\ Load(history)
  PROVE  Worker' /\ Recorded' = Recorded
<1>1. /\ up' /\ pc' = "start" /\ inbox' = << >> /\ handled' = << >> /\ responding' = {}
      /\ Recorded' = Recorded
  BY DEF Load, Restart, Recorded
<1>2. Elems(<< >>) = {} /\ Signalled(<< >>) = {}
  BY SignalledEmpty DEF Elems
<1>3. /\ Len(history) \in Nat /\ DOMAIN history = 1 .. Len(history)
      /\ Behind' = Len(history)
      /\ Len(history) <= Len(feed') /\ DOMAIN feed' = 1 .. Len(feed')
      /\ \A i \in DOMAIN history : feed'[i] = history[i]
      /\ task' => feed' # << >> /\ feed'[Len(feed')] = batch'
      /\ \A i \in DOMAIN feed' : i \in DOMAIN history \/ (task' /\ feed'[i] = batch')
  <2>1. history \in Seq(Seq(Event)) /\ Len(history) \in Nat
        /\ DOMAIN history = 1 .. Len(history)
    BY DEF TypeOK
  <2>2. CASE task' = TRUE /\ batch' = buffer /\ Load(Append(history, buffer))
    <3>1. feed' = Append(history, buffer)
      BY <2>2 DEF Load, Restart
    <3> QED BY <2>1, <2>2, <3>1, AppendFacts DEF Behind
  <2>3. CASE task' = FALSE /\ batch' = batch /\ Load(history)
    <3>1. feed' = history
      BY <2>3 DEF Load, Restart
    <3> QED BY <2>1, <2>3, <3>1 DEF Behind
  <2> QED BY <2>2, <2>3
<1>4. \A c \in Recorded : \E i \in DOMAIN history : c \in Signalled(history[i])
  BY DEF Recorded
<1>5. ConsumedIsTracked'
  BY <1>1, <1>3, <1>4 DEF ConsumedIsTracked
<1>6. NothingInvented'
  BY <1>1, <1>2, <1>3 DEF NothingInvented, Recorded
<1>7. NoTaskNoBatch'
  BY DEF Worker, NoTaskNoBatch
<1> QED
  BY <1>1, <1>2, <1>3, <1>5, <1>6, <1>7
     DEF Worker, Idle, TaskHasWorker, BatchIsTracked, SavedIsRecorded, RecordedIsSaved,
         RespondingIsHandled

\* A worker that keeps its state is to be fed one more batch.
LEMMA WorkerTask ==
  ASSUME TypeOK, Worker, ~task, up, task' = TRUE, batch' = buffer,
         feed' = Append(feed, buffer),
         UNCHANGED <<status, history, up, pc, inbox, handled, responding, saved>>
  PROVE  Worker' /\ Recorded' = Recorded
<1>1. Recorded' = Recorded
  BY DEF Recorded
<1>2. /\ Len(feed) \in Nat /\ Behind = Len(feed) /\ Behind' = Len(feed)
      /\ DOMAIN feed = 1 .. Len(feed) /\ DOMAIN feed' = 1 .. Len(feed) + 1
      /\ Len(feed') = Len(feed) + 1 /\ feed' # << >>
      /\ feed'[Len(feed) + 1] = buffer
      /\ \A i \in 1 .. Len(feed) : feed'[i] = feed[i]
  <2>1. feed \in Seq(Seq(Event))
    BY DEF TypeOK
  <2> QED BY <2>1, AppendFacts, SMTT(30) DEF Behind
<1>3. Signalled(batch) = {}
  BY SignalledEmpty DEF Worker, NoTaskNoBatch
<1>4. ConsumedIsTracked'
  BY <1>1, <1>2 DEF Worker, ConsumedIsTracked
<1>5. NothingInvented'
  BY <1>1, <1>2, <1>3 DEF Worker, NothingInvented
<1> QED
  BY <1>1, <1>2, <1>4, <1>5
     DEF Worker, Idle, NoTaskNoBatch, TaskHasWorker, BatchIsTracked, SavedIsRecorded,
         RecordedIsSaved, RespondingIsHandled

\* Feeding a batch moves its signals into the inbox and loses none.
LEMMA WorkerFeed ==
  ASSUME TypeOK, Worker, Feed PROVE Worker' /\ Recorded' = Recorded
<1> USE DEF Feed, service, ghosts
<1>1. Recorded' = Recorded
  BY DEF Recorded
<1>2. Signalled(inbox) = {}
  BY SignalledEmpty DEF Worker, Idle
<1>3. /\ Len(feed) \in Nat \ {0} /\ DOMAIN feed = 1 .. Len(feed) /\ inbox' = feed[1]
      /\ Len(feed') = Len(feed) - 1 /\ DOMAIN feed' = 1 .. Len(feed) - 1
      /\ \A i \in 1 .. Len(feed) - 1 : feed'[i] = feed[i + 1]
      /\ feed' = << >> <=> Len(feed) = 1
  <2>1. feed \in Seq(Seq(Event)) /\ feed # << >> /\ feed' = Tail(feed) /\ inbox' = Head(feed)
    BY DEF TypeOK
  <2> QED BY <2>1, TailFacts
<1>4. Behind' = Behind - 1 /\ Behind \in Nat /\ Behind <= Len(feed)
  BY <1>3 DEF Behind, TypeOK
<1>5. ConsumedIsTracked'
  <2> SUFFICES ASSUME NEW c \in Recorded, c \notin Elems(handled)
               PROVE  \/ Behind' >= 0 /\ c \in Signalled(inbox')
                      \/ \E i \in DOMAIN feed' : i <= Behind' /\ c \in Signalled(feed'[i])
    BY <1>1 DEF ConsumedIsTracked
  <2>1. PICK i \in DOMAIN feed : i <= Behind /\ c \in Signalled(feed[i])
    BY <1>2 DEF Worker, ConsumedIsTracked
  <2>2. CASE i = 1
    BY <1>3, <1>4, <2>1, <2>2
  <2>3. CASE i # 1
    <3>1. i - 1 \in DOMAIN feed' /\ i - 1 <= Behind' /\ feed'[i - 1] = feed[i]
      BY <1>3, <1>4, <2>1, <2>3
    <3> QED BY <2>1, <3>1
  <2> QED BY <2>2, <2>3
<1>6. BatchIsTracked'
  <2> SUFFICES ASSUME task PROVE BatchIsTracked'
    BY DEF BatchIsTracked
  <2>1. feed[Len(feed)] = batch
    BY <1>3 DEF Worker, BatchIsTracked
  <2>2. CASE Len(feed) = 1
    BY <1>3, <2>1, <2>2 DEF BatchIsTracked
  <2>3. CASE Len(feed) # 1
    BY <1>3, <2>1, <2>3 DEF BatchIsTracked
  <2> QED BY <2>2, <2>3
<1>7. NothingInvented'
  <2>1. \A i \in DOMAIN feed : Signalled(feed[i]) \subseteq Recorded \cup Signalled(batch)
    BY DEF Worker, NothingInvented
  <2>2. \A i \in DOMAIN feed' : Signalled(feed'[i]) \subseteq Recorded \cup Signalled(batch)
    BY <1>3, <2>1
  <2> QED BY <1>1, <1>3, <2>1, <2>2 DEF Worker, NothingInvented
<1> QED
  BY <1>1, <1>5, <1>6, <1>7
     DEF Worker, Idle, NoTaskNoBatch, TaskHasWorker, SavedIsRecorded, RecordedIsSaved,
         RespondingIsHandled
\* Taking an event out of the inbox loses no signal when it is also executed.
LEMMA WorkerTake ==
  ASSUME TypeOK, Worker, up, pc = "running", NEW i \in DOMAIN inbox, Take(i),
         (\/ handled' = Append(handled, inbox[i].call) /\ IsSignal(inbox[i])
          \/ handled' = handled /\ ~IsSignal(inbox[i])),
         (\/ responding' = responding
          \/ responding' = responding \cup {inbox[i].call} /\ IsSignal(inbox[i])),
         pc' \in {"running", "failing"},
         UNCHANGED <<status, history, batch, task, up, feed, saved>>
  PROVE  Worker' /\ Recorded' = Recorded
<1>1. Recorded' = Recorded /\ Behind' = Behind
  BY DEF Recorded, Behind
<1>2. Signalled(inbox)
        = Signalled(inbox') \cup (IF IsSignal(inbox[i]) THEN {inbox[i].call} ELSE {})
  BY SignalledWithout DEF TypeOK, Take
<1>3. Elems(handled')
        = Elems(handled) \cup (IF IsSignal(inbox[i]) THEN {inbox[i].call} ELSE {})
  BY ElemsAppend DEF TypeOK
<1>4. ConsumedIsTracked'
  BY <1>1, <1>2, <1>3 DEF Worker, ConsumedIsTracked
<1>5. BatchIsTracked'
  BY <1>2, <1>3 DEF Worker, BatchIsTracked
<1>6. NothingInvented'
  BY <1>1, <1>2, <1>3 DEF Worker, NothingInvented
<1>7. RespondingIsHandled'
  BY <1>3 DEF Worker, RespondingIsHandled
<1> QED
  BY <1>1, <1>4, <1>5, <1>6, <1>7
     DEF Worker, Idle, NoTaskNoBatch, TaskHasWorker, SavedIsRecorded, RecordedIsSaved

\* A task given up leaves no worker to speak of.
LEMMA WorkerGiveUp ==
  ASSUME TypeOK, Worker, GiveUpTask, UNCHANGED saved
  PROVE  Worker' /\ Recorded' = Recorded
<1>1. up' = FALSE /\ inbox' = << >> /\ task' = FALSE /\ batch' = << >>
  BY DEF GiveUpTask, Evict, Restart
<1>2. Recorded' = Recorded
  BY DEF GiveUpTask, Recorded
<1> QED
  BY <1>1, <1>2
     DEF GiveUpTask, Worker, Idle, NoTaskNoBatch, TaskHasWorker, ConsumedIsTracked,
         BatchIsTracked, NothingInvented, SavedIsRecorded, RecordedIsSaved,
         RespondingIsHandled

\* When a worker has consumed all it was fed, the history was executed, and the
\* task's batch was too unless the inbox still holds some of it.
LEMMA AllConsumed ==
  ASSUME TypeOK, Worker, task, CaughtUp
  PROVE  /\ Recorded \subseteq Elems(handled)
         /\ Signalled(batch) \subseteq Elems(handled) \cup Signalled(inbox)
         /\ Elems(handled) \subseteq Recorded \cup Signalled(batch)
         /\ responding \subseteq Elems(handled)
         /\ Elems(saved.handled) \subseteq Elems(handled)
<1>1. up /\ feed = << >> /\ Behind = -1
  BY DEF CaughtUp, Behind, TypeOK
<1>2. \A i \in DOMAIN feed : ~(i <= Behind)
  BY <1>1
<1>3. Recorded \subseteq Elems(handled)
  BY <1>1, <1>2 DEF Worker, ConsumedIsTracked
<1> QED
  BY <1>1, <1>3
     DEF Worker, BatchIsTracked, NothingInvented, RespondingIsHandled, SavedIsRecorded

\* Recording a completed task, whether or not it closed the chain.
LEMMA WorkerRecord ==
  ASSUME TypeOK, Worker, task, CaughtUp,
         task' = FALSE, batch' = << >>, history' = Append(history, batch), saved' = Now,
         status' = "running" => inbox = << >>,
         UNCHANGED <<up, feed, inbox, handled, responding>>,
         pc' = pc
  PROVE  Worker' /\ Recorded' = Recorded \cup Signalled(batch)
<1>1. Recorded' = Recorded \cup Signalled(batch)
  BY RecordedAppend DEF TypeOK
<1>2. up /\ feed = << >> /\ Behind' = 0 /\ saved'.handled = handled
  BY DEF CaughtUp, Behind, Now
<1>3. ConsumedIsTracked'
  BY <1>1, <1>2, AllConsumed DEF ConsumedIsTracked
<1>4. NothingInvented'
  BY <1>1, <1>2, SignalledEmpty DEF NothingInvented, Worker
<1>5. SavedIsRecorded' /\ RespondingIsHandled'
  BY <1>1, <1>2, AllConsumed DEF SavedIsRecorded, RespondingIsHandled
<1>6. RecordedIsSaved'
  BY <1>1, <1>2, AllConsumed, SignalledEmpty DEF RecordedIsSaved
<1>7. BatchIsTracked' /\ NoTaskNoBatch' /\ TaskHasWorker'
  BY DEF BatchIsTracked, NoTaskNoBatch, TaskHasWorker
<1> QED BY <1>1, <1>3, <1>4, <1>5, <1>6, <1>7 DEF Worker, Idle

\* A response is issued for an executed call, and dropping is not answering.
LEMMA IssuedIsHandled ==
  ASSUME TypeOK, Worker, AnsweredIsDurable, task, CaughtUp,
         response' \in {Issued, Dropped}, NEW c \in Execs, response'[c] # "none"
  PROVE  c \in Elems(base) \cup Elems(handled)
<1>1. c \in responding \/ response[c] # "none"
  BY DEF Issued, Dropped, TypeOK
<1>2. Elems(Log) \subseteq Elems(base) \cup Elems(handled)
  BY LogElems, AllConsumed
<1> QED BY <1>1, <1>2, AllConsumed DEF AnsweredIsDurable

\* The invariant holds when the chain starts.
LEMMA InitIInv == Init => IInv
<1> SUFFICES ASSUME Init PROVE IInv
  OBVIOUS
<1>1. Elems(<< >>) = {} /\ Recorded = {}
  BY RecordedEmpty DEF Init, Elems
<1> QED
  BY <1>1
     DEF Init, IInv, Idle, NoTaskNoBatch, TaskHasWorker, ConsumedIsTracked, BatchIsTracked,
         NothingInvented, SavedIsRecorded, RecordedIsSaved, RespondingIsHandled,
         NothingLost, AnsweredIsDurable, Elems

\* The invariant by its three parts.
LEMMA IInvIs == IInv <=> Worker /\ NothingLost /\ AnsweredIsDurable
BY DEF IInv, Worker

\* Steps that leave the log and the responses alone keep what was answered.
LEMMA AnsweredFrame ==
  ASSUME AnsweredIsDurable, UNCHANGED <<base, saved>>,
         \A c \in Execs : response'[c] # "none" => response[c] # "none"
  PROVE  AnsweredIsDurable'
BY DEF AnsweredIsDurable, Log, Elems

\* Every step keeps the invariant.
LEMMA NextIInv == TypeOK /\ IInv /\ [Next]_vars => IInv'
<1> SUFFICES ASSUME TypeOK, Worker, NothingLost, AnsweredIsDurable, [Next]_vars
             PROVE  Worker' /\ NothingLost' /\ AnsweredIsDurable'
  BY IInvIs DEF IInv, Worker
<1> DEFINE Tracked == Signalled(buffer) \cup Signalled(batch) \cup Recorded \cup Elems(base)
           Goal == Worker' /\ NothingLost' /\ AnsweredIsDurable'
<1>0. NothingLost <=> (status = "running" => Elems(sent) \subseteq Tracked)
  BY NothingLostIs
<1>00. NothingLost' <=> (status' = "running" => Elems(sent') \subseteq Tracked')
  BY NothingLostIs DEF NothingLost, Recorded
<1> USE DEF service, channels, local, ghosts
<1>1. ASSUME NEW c \in Calls, Send(c) PROVE Goal
  <2>1. Worker' /\ Recorded' = Recorded
    BY <1>1, WorkerFrame DEF Send
  <2>2. Signalled(buffer') = Signalled(buffer) \cup {c}
    BY <1>1, EventTypes, SignalledAppend DEF Send, TypeOK
  <2>3. Elems(sent') = Elems(sent) \cup {c}
    BY <1>1, ElemsAppend DEF Send, TypeOK
  <2>4. NothingLost'
    BY <1>0, <1>00, <1>1, <2>1, <2>2, <2>3 DEF Send
  <2> QED BY <1>1, <2>1, <2>4, AnsweredFrame DEF Send
<1>2. CASE StopDB
  <2>1. Worker' /\ Recorded' = Recorded
    BY <1>2, WorkerFrame DEF StopDB
  <2>2. Signalled(buffer') = Signalled(buffer)
    BY <1>2, EventTypes, SignalledAppend DEF StopDB, TypeOK
  <2>3. NothingLost'
    BY <1>0, <1>00, <1>2, <2>1, <2>2 DEF StopDB
  <2> QED BY <1>2, <2>1, <2>3, AnsweredFrame DEF StopDB
<1>3. CASE SendQuery \/ RefuseQuery \/ AnswerQuery \/ UNCHANGED vars
  <2>1. UNCHANGED <<service, up, feed, pc, channels, local, sent, ghosts>>
    BY <1>3 DEF SendQuery, RefuseQuery, AnswerQuery, vars
  <2>2. Worker' /\ Recorded' = Recorded
    BY <2>1, WorkerFrame
  <2>3. NothingLost'
    BY <1>0, <1>00, <2>1, <2>2
  <2> QED BY <2>1, <2>2, <2>3, AnsweredFrame
<1>4. CASE StartTask
  <2>1. Worker' /\ Recorded' = Recorded
    <3>1. CASE up
      BY <1>4, <3>1, WorkerTask DEF StartTask
    <3>2. CASE ~up
      BY <1>4, <3>2, WorkerLoad DEF StartTask
    <3> QED BY <3>1, <3>2
  <2>2. Signalled(batch) = {} /\ Signalled(buffer') = {} /\ batch' = buffer
    BY <1>4, SignalledEmpty DEF StartTask, Worker, NoTaskNoBatch
  <2>3. NothingLost'
    BY <1>0, <1>00, <1>4, <2>1, <2>2 DEF StartTask
  <2> QED BY <1>4, <2>1, <2>3, AnsweredFrame DEF StartTask
<1>5. CASE LoadForQuery
  <2>1. Worker' /\ Recorded' = Recorded
    BY <1>5, WorkerLoad DEF LoadForQuery, TypeOK
  <2>2. NothingLost'
    BY <1>0, <1>00, <1>5, <2>1 DEF LoadForQuery
  <2> QED BY <1>5, <2>1, <2>2, AnsweredFrame DEF LoadForQuery
<1>6. CASE Feed
  <2>1. Worker' /\ Recorded' = Recorded
    BY <1>6, WorkerFeed
  <2>2. NothingLost'
    BY <1>0, <1>00, <1>6, <2>1 DEF Feed
  <2> QED BY <1>6, <2>1, <2>2, AnsweredFrame DEF Feed
<1>7. CASE Crash \/ RefuseClose
  <2>1. GiveUpTask /\ UNCHANGED <<sent, base, saved>>
    BY <1>7 DEF Crash, RefuseClose
  <2>2. Worker' /\ Recorded' = Recorded
    BY <2>1, WorkerGiveUp
  <2>3. Signalled(buffer') = Signalled(batch) \cup Signalled(buffer)
    BY <2>1, SignalledConcat DEF GiveUpTask, TypeOK
  <2>4. NothingLost'
    BY <1>0, <1>00, <2>1, <2>2, <2>3 DEF GiveUpTask
  <2> QED BY <2>1, <2>2, <2>4, AnsweredFrame DEF GiveUpTask
<1>8. ASSUME NEW c \in Execs, DeliverResponse(c) \/ TimeOutResponse(c) PROVE Goal
  <2>1. PICK outcome : EndResponse(c, outcome)
    BY <1>8 DEF DeliverResponse, TimeOutResponse
  <2>2. Worker' /\ Recorded' = Recorded
    BY <2>1, WorkerFrame DEF EndResponse
  <2>3. Signalled(buffer') = Signalled(buffer)
    <3>1. buffer' = Append(buffer, Responded(c)) /\ buffer \in Seq(Event)
      BY <2>1 DEF EndResponse, TypeOK
    <3>2. Responded(c) \in Event /\ ~IsSignal(Responded(c))
      BY EventTypes
    <3> QED BY <3>1, <3>2, SignalledAppend
  <2>4. NothingLost'
    BY <1>0, <1>00, <2>1, <2>2, <2>3 DEF EndResponse
  <2>5. \A x \in Execs : response'[x] # "none" => response[x] # "none"
    BY <2>1 DEF EndResponse, TypeOK
  <2> QED BY <2>1, <2>2, <2>4, <2>5, AnsweredFrame DEF EndResponse
<1>9. ASSUME NEW i \in DOMAIN inbox, HandleExec(i) \/ HandleUpdate(i) \/ HandleOther(i)
      PROVE  Goal
  <2>1. /\ up /\ pc = "running" /\ Take(i) /\ pc' \in {"running", "failing"}
        /\ UNCHANGED <<status, history, buffer, batch, task, response, up, feed, saved,
                       sent, base>>
    BY <1>9 DEF HandleExec, HandleUpdate, HandleOther, InSelect
  <2>2. \/ handled' = Append(handled, inbox[i].call) /\ IsSignal(inbox[i])
        \/ handled' = handled /\ ~IsSignal(inbox[i])
    BY <1>9 DEF HandleExec, HandleUpdate, HandleOther, Execute, IsSignal
  <2>3. \/ responding' = responding
        \/ responding' = responding \cup {inbox[i].call} /\ IsSignal(inbox[i])
    BY <1>9 DEF HandleExec, HandleUpdate, HandleOther, IsSignal
  <2>4. Worker' /\ Recorded' = Recorded
    BY <2>1, <2>2, <2>3, WorkerTake
  <2>5. NothingLost'
    BY <1>0, <1>00, <2>1, <2>4
  <2> QED BY <2>1, <2>4, <2>5, AnsweredFrame
<1>10. CASE Block
  <2>1. inbox = << >> /\ pc' = "blocked"
    BY <1>10 DEF Block, HasPending
  <2>2. Recorded' = Recorded /\ Behind' = Behind
    BY <1>10 DEF Block, Recorded, Behind
  <2>3. Worker'
    BY <1>10, <2>1, <2>2
       DEF Block, Worker, Idle, NoTaskNoBatch, TaskHasWorker, ConsumedIsTracked,
           BatchIsTracked, NothingInvented, SavedIsRecorded, RecordedIsSaved,
           RespondingIsHandled
  <2>4. NothingLost'
    BY <1>0, <1>00, <1>10, <2>2 DEF Block
  <2> QED BY <1>10, <2>3, <2>4, AnsweredFrame DEF Block
<1>11. ASSUME CompleteTask \/ \E s \in {"failed", "canceled"} : Close(s) PROVE Goal
  <2>1. /\ task /\ CaughtUp /\ task' = FALSE /\ batch' = << >>
        /\ history' = Append(history, batch) /\ saved' = Now
        /\ UNCHANGED <<buffer, up, feed, pc, inbox, handled, responding, sent, base>>
        /\ response' \in {Issued, Dropped}
    BY <1>11 DEF CompleteTask, Close, Closes
  <2>2. status' = "running" => status = "running" /\ inbox = << >>
    BY <1>11 DEF CompleteTask, Close, Worker, Idle
  <2>3. Worker' /\ Recorded' = Recorded \cup Signalled(batch)
    BY <2>1, <2>2, WorkerRecord
  <2>4. NothingLost'
    BY <1>0, <1>00, <2>1, <2>2, <2>3
  <2>5. Elems(Log') = Elems(base) \cup Elems(handled)
    BY <2>1, ElemsConcat DEF TypeOK, Log, Now
  <2>6. AnsweredIsDurable'
    BY <2>1, <2>5, IssuedIsHandled DEF AnsweredIsDurable
  <2> QED BY <2>3, <2>4, <2>6
<1>12. CASE ContinueAsNew
  <2>1. task /\ CaughtUp /\ inbox = << >>
    BY <1>12 DEF ContinueAsNew, Closes, Returns, LoopContinues, HasPending
  <2>2. /\ up' = FALSE /\ inbox' = << >> /\ task' = FALSE /\ batch' = << >>
        /\ history' = << >> /\ saved'.handled = << >> /\ base' = base \o handled
        /\ UNCHANGED <<status, buffer, sent>> /\ response' = Dropped
    BY <1>12 DEF ContinueAsNew, Evict, Restart
  <2>3. Recorded' = {} /\ Elems(<< >>) = {} /\ Signalled(<< >>) = {}
    BY <2>2, SignalledEmpty DEF Recorded, Elems
  <2>4. Worker'
    BY <2>2, <2>3
       DEF Worker, Idle, NoTaskNoBatch, TaskHasWorker, ConsumedIsTracked, BatchIsTracked,
           NothingInvented, SavedIsRecorded, RecordedIsSaved, RespondingIsHandled
  <2>5. Elems(base') = Elems(base) \cup Elems(handled)
    BY <2>2, ElemsConcat DEF TypeOK
  <2>6. NothingLost'
    BY <1>0, <1>00, <2>1, <2>2, <2>3, <2>5, AllConsumed
  <2>7. Elems(Log') = Elems(base')
    <3>1. base' \in Seq(Calls) /\ Log' = base' \o << >>
      BY <2>2 DEF TypeOK, Log
    <3> QED BY <3>1
  <2>8. AnsweredIsDurable'
    BY <2>1, <2>2, <2>5, <2>7, IssuedIsHandled DEF AnsweredIsDurable
  <2> QED BY <2>4, <2>6, <2>8
<1> QED
  BY <1>1, <1>2, <1>3, <1>4, <1>5, <1>6, <1>7, <1>8, <1>9, <1>10, <1>11, <1>12
     DEF Next, Client, Service, Workflow, Outcome, ReturnError, ReturnSerializeError,
         ReturnCanceled

\* No crash, retry or continue-as-new loses an accepted signal.
THEOREM NoSignalLost == Spec => []NothingLost
<1>1. IInv => NothingLost
  BY DEF IInv
<1> QED BY <1>1, InitIInv, NextIInv, TypeCorrect, PTL DEF Spec

\* A call whose response was issued stays executed for good.
THEOREM AnswersAreDurable == Spec => []AnsweredIsDurable
<1>1. IInv => AnsweredIsDurable
  BY DEF IInv
<1> QED BY <1>1, InitIInv, NextIInv, TypeCorrect, PTL DEF Spec

\* Every consumed signal has been executed when no task is in progress.
THEOREM ConsumedIsExecuted == Spec => []IdleMeansExecuted
<1>1. IInv => IdleMeansExecuted
  BY DEF IInv, RecordedIsSaved, Recorded, IdleMeansExecuted
<1> QED BY <1>1, InitIInv, NextIInv, TypeCorrect, PTL DEF Spec

-----------------------------------------------------------------------------
(* The order of execution: no signal is executed twice, and signals of one *)
(* kind are executed in the order in which the service accepted them.      *)
(*                                                                         *)
(* The invariant says that a signal is ahead of all that the service       *)
(* accepted later on every way it can take: from the buffer through a      *)
(* batch, the history and the batches a worker is fed to the inbox.  Only  *)
(* signals of different kinds overtake each other, in the inbox.           *)

\* In the sequence q of accepted calls c comes before d, C before D.
Sooner(q, c, d) == \E i, j \in DOMAIN q : i < j /\ q[i] = c /\ q[j] = d
Before(q, C, D) == \A c \in C, d \in D : Sooner(q, c, d)

\* The signals among the events es are in the order of q.
InOrder(q, es) ==
  \A i, j \in DOMAIN es :
    i < j /\ IsSignal(es[i]) /\ IsSignal(es[j]) => Sooner(q, es[i].call, es[j].call)

\* The calls of s that are of one kind are in the order of q.
SameKind(c, d) == c \in Execs <=> d \in Execs
KindOrder(q, s) ==
  \A i, j \in DOMAIN s : i < j /\ SameKind(s[i], s[j]) => Sooner(q, s[i], s[j])

Distinct(q) == \A i, j \in DOMAIN q : q[i] = q[j] => i = j

\* The earlier runs, the history, the batch and the buffer hold accepted calls, each
\* of them only calls that were accepted before those of the next.
ServiceOrder ==
  /\ Distinct(sent)
  /\ Elems(base) \cup Recorded \cup Signalled(batch) \cup Signalled(buffer) \subseteq Elems(sent)
  /\ KindOrder(sent, base) /\ KindOrder(sent, saved.handled)
  /\ InOrder(sent, buffer) /\ InOrder(sent, batch)
  /\ \A i \in DOMAIN history : InOrder(sent, history[i])
  /\ Before(sent, Elems(base), Recorded \cup Signalled(batch) \cup Signalled(buffer))
  /\ \A i, j \in DOMAIN history :
       i < j => Before(sent, Signalled(history[i]), Signalled(history[j]))
  /\ Before(sent, Recorded, Signalled(batch) \cup Signalled(buffer))
  /\ Before(sent, Signalled(batch), Signalled(buffer))

\* So do the calls a worker has executed, its inbox and the batches it will be fed;
\* of what is in the inbox an executed call is ahead if it is of the same kind.
WorkerOrder ==
  up =>
    /\ KindOrder(sent, handled)
    /\ InOrder(sent, inbox) /\ \A i \in DOMAIN feed : InOrder(sent, feed[i])
    /\ \A c \in Elems(handled), d \in Signalled(inbox) : SameKind(c, d) => Sooner(sent, c, d)
    /\ \A i \in DOMAIN feed :
         Before(sent, Elems(handled) \cup Signalled(inbox), Signalled(feed[i]))
    /\ \A i, j \in DOMAIN feed :
         i < j => Before(sent, Signalled(feed[i]), Signalled(feed[j]))

-----------------------------------------------------------------------------
(* Orders.                                                                 *)

\* An accepted call comes after all that were accepted before, whose order stays.
LEMMA SoonerAppend ==
  ASSUME NEW q \in Seq(Calls), NEW x \in Calls
  PROVE  /\ \A c, d : Sooner(q, c, d) => Sooner(Append(q, x), c, d)
         /\ \A c \in Elems(q) : Sooner(Append(q, x), c, x)
<1>1. /\ Len(q) \in Nat /\ DOMAIN q = 1 .. Len(q)
      /\ DOMAIN Append(q, x) = 1 .. Len(q) + 1 /\ Append(q, x)[Len(q) + 1] = x
      /\ \A i \in 1 .. Len(q) : Append(q, x)[i] = q[i]
  BY AppendFacts
<1>2. ASSUME NEW c, NEW d, Sooner(q, c, d) PROVE Sooner(Append(q, x), c, d)
  <2>1. PICK i, j \in DOMAIN q : i < j /\ q[i] = c /\ q[j] = d
    BY <1>2 DEF Sooner
  <2>2. /\ i \in DOMAIN Append(q, x) /\ j \in DOMAIN Append(q, x)
        /\ Append(q, x)[i] = c /\ Append(q, x)[j] = d
    BY <1>1, <2>1
  <2> QED BY <2>1, <2>2 DEF Sooner
<1>3. ASSUME NEW c \in Elems(q) PROVE Sooner(Append(q, x), c, x)
  <2>1. PICK i \in DOMAIN q : q[i] = c
    BY DEF Elems
  <2>2. /\ i \in DOMAIN Append(q, x) /\ Len(q) + 1 \in DOMAIN Append(q, x)
        /\ Append(q, x)[i] = c /\ i < Len(q) + 1
    BY <1>1, <2>1
  <2> QED BY <1>1, <2>2 DEF Sooner
<1> QED BY <1>2, <1>3

\* No call comes before itself when each is accepted once.
LEMMA SoonerOnce ==
  ASSUME NEW q \in Seq(Calls), Distinct(q), NEW c, NEW d, Sooner(q, c, d)
  PROVE  c # d
<1>1. PICK i, j \in DOMAIN q : i < j /\ q[i] = c /\ q[j] = d
  BY DEF Sooner
<1>2. DOMAIN q \subseteq Int
  OBVIOUS
<1> QED BY <1>1, <1>2 DEF Distinct

\* Orders hold in a longer sequence.
LEMMA OrdersExtend ==
  ASSUME NEW q, NEW r, \A c, d : Sooner(q, c, d) => Sooner(r, c, d)
  PROVE  /\ \A es : InOrder(q, es) => InOrder(r, es)
         /\ \A s : KindOrder(q, s) => KindOrder(r, s)
         /\ \A C, D : Before(q, C, D) => Before(r, C, D)
BY DEF InOrder, KindOrder, Before

\* An event may be added that is no signal, or one of a later call.
LEMMA InOrderAppend ==
  ASSUME NEW q, NEW es \in Seq(Event), NEW e \in Event, InOrder(q, es),
         IsSignal(e) => Before(q, Signalled(es), {e.call})
  PROVE  InOrder(q, Append(es, e))
<1> SUFFICES ASSUME NEW i \in DOMAIN Append(es, e), NEW j \in DOMAIN Append(es, e), i < j,
                    IsSignal(Append(es, e)[i]), IsSignal(Append(es, e)[j])
             PROVE  Sooner(q, Append(es, e)[i].call, Append(es, e)[j].call)
  BY DEF InOrder
<1>1. /\ Len(es) \in Nat /\ DOMAIN es = 1 .. Len(es)
      /\ DOMAIN Append(es, e) = 1 .. Len(es) + 1 /\ Append(es, e)[Len(es) + 1] = e
      /\ \A k \in 1 .. Len(es) : Append(es, e)[k] = es[k]
  BY AppendFacts
<1>2. i \in DOMAIN es /\ Append(es, e)[i] = es[i]
  BY <1>1
<1>3. CASE j \in DOMAIN es
  BY <1>1, <1>2, <1>3 DEF InOrder
<1>4. CASE j = Len(es) + 1
  <2>1. es[i].call \in Signalled(es)
    BY <1>2 DEF Signalled, Elems
  <2> QED BY <1>1, <1>2, <1>4, <2>1 DEF Before
<1> QED BY <1>1, <1>3, <1>4

\* What a concatenation has at which place.
LEMMA ConcatFacts ==
  ASSUME NEW S, NEW s \in Seq(S), NEW t \in Seq(S), NEW i \in DOMAIN (s \o t)
  PROVE  /\ i \in Int /\ Len(s) \in Nat
         /\ \/ i <= Len(s) /\ i \in DOMAIN s /\ (s \o t)[i] = s[i]
            \/ i > Len(s) /\ i - Len(s) \in DOMAIN t /\ (s \o t)[i] = t[i - Len(s)]
<1>1. /\ DOMAIN (s \o t) = 1 .. Len(s) + Len(t) /\ Len(s) \in Nat /\ Len(t) \in Nat
      /\ DOMAIN s = 1 .. Len(s) /\ DOMAIN t = 1 .. Len(t)
      /\ \A k \in 1 .. Len(s) : (s \o t)[k] = s[k]
      /\ \A k \in 1 .. Len(s) + Len(t) : k > Len(s) => (s \o t)[k] = t[k - Len(s)]
  OBVIOUS
<1>2. CASE i <= Len(s)
  BY <1>1, <1>2
<1>3. CASE i > Len(s)
  BY <1>1, <1>3
<1> QED BY <1>1, <1>2, <1>3

\* Batches of which one is ahead of the other are in order one after the other.
LEMMA InOrderConcat ==
  ASSUME NEW q, NEW es \in Seq(Event), NEW fs \in Seq(Event), InOrder(q, es), InOrder(q, fs),
         Before(q, Signalled(es), Signalled(fs))
  PROVE  InOrder(q, es \o fs)
<1> SUFFICES ASSUME NEW i \in DOMAIN (es \o fs), NEW j \in DOMAIN (es \o fs), i < j,
                    IsSignal((es \o fs)[i]), IsSignal((es \o fs)[j])
             PROVE  Sooner(q, (es \o fs)[i].call, (es \o fs)[j].call)
  BY DEF InOrder
<1>i. /\ i \in Int /\ Len(es) \in Nat
      /\ \/ i <= Len(es) /\ i \in DOMAIN es /\ (es \o fs)[i] = es[i]
         \/ i > Len(es) /\ i - Len(es) \in DOMAIN fs /\ (es \o fs)[i] = fs[i - Len(es)]
  BY ConcatFacts
<1>j. /\ j \in Int
      /\ \/ j <= Len(es) /\ j \in DOMAIN es /\ (es \o fs)[j] = es[j]
         \/ j > Len(es) /\ j - Len(es) \in DOMAIN fs /\ (es \o fs)[j] = fs[j - Len(es)]
  BY ConcatFacts
<1>1. CASE j <= Len(es)
  BY <1>i, <1>j, <1>1 DEF InOrder
<1>2. CASE i > Len(es)
  BY <1>i, <1>j, <1>2 DEF InOrder
<1>3. CASE i <= Len(es) /\ j > Len(es)
  <2>1. es[i].call \in Signalled(es)
    BY <1>i, <1>3 DEF Signalled, Elems
  <2>2. fs[j - Len(es)].call \in Signalled(fs)
    BY <1>j, <1>3 DEF Signalled, Elems
  <2> QED BY <1>i, <1>j, <1>3, <2>1, <2>2 DEF Before
<1> QED BY <1>i, <1>j, <1>1, <1>2, <1>3

\* A call may be executed after all of its kind that are ahead of it.
LEMMA KindOrderAppend ==
  ASSUME NEW q, NEW s \in Seq(Calls), NEW x \in Calls, KindOrder(q, s),
         \A c \in Elems(s) : SameKind(c, x) => Sooner(q, c, x)
  PROVE  KindOrder(q, Append(s, x))
<1> SUFFICES ASSUME NEW i \in DOMAIN Append(s, x), NEW j \in DOMAIN Append(s, x), i < j,
                    SameKind(Append(s, x)[i], Append(s, x)[j])
             PROVE  Sooner(q, Append(s, x)[i], Append(s, x)[j])
  BY DEF KindOrder
<1>1. /\ Len(s) \in Nat /\ DOMAIN s = 1 .. Len(s)
      /\ DOMAIN Append(s, x) = 1 .. Len(s) + 1 /\ Append(s, x)[Len(s) + 1] = x
      /\ \A k \in 1 .. Len(s) : Append(s, x)[k] = s[k]
  BY AppendFacts
<1>2. i \in DOMAIN s /\ Append(s, x)[i] = s[i]
  BY <1>1
<1>3. CASE j \in DOMAIN s
  BY <1>1, <1>2, <1>3 DEF KindOrder
<1>4. CASE j = Len(s) + 1
  <2>1. s[i] \in Elems(s)
    BY <1>2 DEF Elems
  <2> QED BY <1>1, <1>2, <1>4, <2>1
<1> QED BY <1>1, <1>3, <1>4

\* The calls of two runs are in order if those of the first are ahead of the others.
LEMMA KindOrderConcat ==
  ASSUME NEW q, NEW s \in Seq(Calls), NEW t \in Seq(Calls), KindOrder(q, s), KindOrder(q, t),
         Before(q, Elems(s), Elems(t))
  PROVE  KindOrder(q, s \o t)
<1> SUFFICES ASSUME NEW i \in DOMAIN (s \o t), NEW j \in DOMAIN (s \o t), i < j,
                    SameKind((s \o t)[i], (s \o t)[j])
             PROVE  Sooner(q, (s \o t)[i], (s \o t)[j])
  BY DEF KindOrder
<1>i. /\ i \in Int /\ Len(s) \in Nat
      /\ \/ i <= Len(s) /\ i \in DOMAIN s /\ (s \o t)[i] = s[i]
         \/ i > Len(s) /\ i - Len(s) \in DOMAIN t /\ (s \o t)[i] = t[i - Len(s)]
  BY ConcatFacts
<1>j. /\ j \in Int
      /\ \/ j <= Len(s) /\ j \in DOMAIN s /\ (s \o t)[j] = s[j]
         \/ j > Len(s) /\ j - Len(s) \in DOMAIN t /\ (s \o t)[j] = t[j - Len(s)]
  BY ConcatFacts
<1>1. CASE j <= Len(s)
  BY <1>i, <1>j, <1>1 DEF KindOrder
<1>2. CASE i > Len(s)
  BY <1>i, <1>j, <1>2 DEF KindOrder
<1>3. CASE i <= Len(s) /\ j > Len(s)
  <2>1. s[i] \in Elems(s) /\ t[j - Len(s)] \in Elems(t)
    BY <1>i, <1>j, <1>3 DEF Elems
  <2> QED BY <1>i, <1>j, <1>3, <2>1 DEF Before
<1> QED BY <1>i, <1>j, <1>1, <1>2, <1>3

\* Taking an element out moves those after it down by one.
LEMMA WithoutFacts ==
  ASSUME NEW S, NEW s \in Seq(S), NEW i \in DOMAIN s, NEW j \in DOMAIN Without(s, i)
  PROVE  /\ i \in Int /\ j \in Int
         /\ \/ j < i /\ j \in DOMAIN s /\ Without(s, i)[j] = s[j]
            \/ j >= i /\ j + 1 \in DOMAIN s /\ Without(s, i)[j] = s[j + 1]
<1> DEFINE a == SubSeq(s, 1, i - 1)
           b == SubSeq(s, i + 1, Len(s))
<1>0. i \in Nat /\ 1 <= i /\ i <= Len(s) /\ Len(s) \in Nat /\ DOMAIN s = 1 .. Len(s)
  OBVIOUS
<1>1. a \in Seq(S) /\ b \in Seq(S) /\ Without(s, i) = a \o b
  BY <1>0 DEF Without
<1>2. Len(a) = i - 1 /\ DOMAIN a = 1 .. i - 1 /\ \A k \in 1 .. i - 1 : a[k] = s[k]
  BY <1>0
<1>3. DOMAIN b = 1 .. Len(s) - i /\ \A k \in 1 .. Len(s) - i : b[k] = s[k + i]
  BY <1>0
<1> HIDE DEF a, b
<1>4. /\ j \in Int
      /\ \/ j <= Len(a) /\ j \in DOMAIN a /\ (a \o b)[j] = a[j]
         \/ j > Len(a) /\ j - Len(a) \in DOMAIN b /\ (a \o b)[j] = b[j - Len(a)]
  BY <1>1, ConcatFacts
<1>5. CASE j <= Len(a)
  BY <1>0, <1>1, <1>2, <1>4, <1>5
<1>6. CASE j > Len(a)
  <2>1. j - (i - 1) \in 1 .. Len(s) - i /\ (a \o b)[j] = b[j - (i - 1)]
    BY <1>2, <1>3, <1>4, <1>6
  <2>2. b[j - (i - 1)] = s[(j - (i - 1)) + i]
    BY <1>3, <2>1
  <2>3. (j - (i - 1)) + i = j + 1 /\ j + 1 \in DOMAIN s /\ j >= i
    BY <1>0, <1>2, <1>4, <1>6, <2>1
  <2> QED BY <1>0, <1>1, <1>4, <2>1, <2>2, <2>3
<1> QED BY <1>0, <1>2, <1>4, <1>5, <1>6

\* The rest of an inbox is in order, and what Select takes is ahead of all of its
\* kind: of the ready cases it takes the oldest of the first ready channel.
LEMMA TakenIsFirst ==
  ASSUME TypeOK, NEW q, InOrder(q, inbox), NEW i \in DOMAIN inbox, Selects(i)
  PROVE  /\ InOrder(q, Without(inbox, i))
         /\ IsSignal(inbox[i]) =>
              \A d \in Signalled(Without(inbox, i)) :
                SameKind(inbox[i].call, d) => Sooner(q, inbox[i].call, d)
<1> DEFINE rest == Without(inbox, i)
<1>0. inbox \in Seq(Event) /\ DOMAIN inbox = 1 .. Len(inbox) /\ Len(inbox) \in Nat
  BY DEF TypeOK
<1>1. ASSUME NEW j \in DOMAIN rest
      PROVE  /\ i \in Int /\ j \in Int
             /\ \/ j < i /\ j \in DOMAIN inbox /\ rest[j] = inbox[j]
                \/ j >= i /\ j + 1 \in DOMAIN inbox /\ rest[j] = inbox[j + 1]
  BY <1>0, WithoutFacts
<1> HIDE DEF rest
<1>2. InOrder(q, rest)
  <2> SUFFICES ASSUME NEW j \in DOMAIN rest, NEW k \in DOMAIN rest, j < k,
                      IsSignal(rest[j]), IsSignal(rest[k])
               PROVE  Sooner(q, rest[j].call, rest[k].call)
    BY DEF InOrder
  <2>1. PICK m \in DOMAIN inbox : rest[j] = inbox[m] /\ m = IF j < i THEN j ELSE j + 1
    BY <1>1
  <2>2. PICK n \in DOMAIN inbox : rest[k] = inbox[n] /\ n = IF k < i THEN k ELSE k + 1
    BY <1>1
  <2>3. m < n
    BY <1>1, <2>1, <2>2
  <2> QED BY <2>1, <2>2, <2>3 DEF InOrder
<1>3. ASSUME IsSignal(inbox[i]), NEW d \in Signalled(rest), SameKind(inbox[i].call, d)
      PROVE  Sooner(q, inbox[i].call, d)
  <2>1. PICK j \in DOMAIN rest : IsSignal(rest[j]) /\ rest[j].call = d
    BY <1>3 DEF Signalled, Elems
  <2>2. PICK m \in DOMAIN inbox : m # i /\ rest[j] = inbox[m]
    BY <1>1
  <2>3. inbox[i] \in Event /\ inbox[m] \in Event
    BY <1>0, <2>2
  <2>4. inbox[i].kind = inbox[m].kind
    BY <1>3, <2>1, <2>2, <2>3, EventKinds, WorkflowAssumption DEF SameKind, IsSignal
  <2>5. i < m
    <3>1. i <= m
      <4>1. CASE woken
        BY <1>0, <4>1 DEF Selects
      <4>2. CASE ~woken
        <5>1. Rank(inbox[m]) = Rank(inbox[i]) /\ Rank(inbox[i]) \in Int
          BY <1>3, <2>4 DEF Rank, IsSignal
        <5>2. Rank(inbox[i]) < Rank(inbox[m]) \/ i <= m
          BY <4>2 DEF Selects
        <5> QED BY <5>1, <5>2
      <4> QED BY <4>1, <4>2
    <3> QED BY <1>0, <2>2, <3>1
  <2> QED BY <1>3, <2>1, <2>2, <2>5 DEF InOrder
<1> QED BY <1>2, <1>3 DEF rest

-----------------------------------------------------------------------------
(* Steps of the service.                                                   *)

\* Steps that change nothing of it keep the service's order.
LEMMA ServiceFrame ==
  ASSUME ServiceOrder, UNCHANGED <<sent, base, history, batch, buffer, saved>>
  PROVE  ServiceOrder'
<1>1. Recorded' = Recorded
  BY DEF Recorded
<1> QED BY <1>1 DEF ServiceOrder

\* Steps that change nothing of the worker keep its order, also if more is accepted.
LEMMA WorkerOrderFrame ==
  ASSUME WorkerOrder, UNCHANGED <<up, feed, inbox, handled>>,
         \A c, d : Sooner(sent, c, d) => Sooner(sent', c, d)
  PROVE  WorkerOrder'
<1>1. /\ \A es : InOrder(sent, es) => InOrder(sent', es)
      /\ \A s : KindOrder(sent, s) => KindOrder(sent', s)
      /\ \A C, D : Before(sent, C, D) => Before(sent', C, D)
  BY OrdersExtend
<1> QED BY <1>1 DEF WorkerOrder

\* What is added to the buffer is no signal, or one that is accepted now.
LEMMA PostOrder ==
  ASSUME TypeOK, ServiceOrder, WorkerOrder, NEW e \in Event, buffer' = Append(buffer, e),
         \/ sent' = sent /\ ~IsSignal(e)
         \/ sent' = Append(sent, e.call) /\ e.call \notin Elems(sent) /\ IsSignal(e),
         UNCHANGED <<base, history, batch, saved, up, feed, inbox, handled>>
  PROVE  ServiceOrder' /\ WorkerOrder'
<1>1. sent \in Seq(Calls) /\ buffer \in Seq(Event) /\ (IsSignal(e) => e.call \in Calls)
  BY EventKinds DEF TypeOK
<1>2. /\ \A c, d : Sooner(sent, c, d) => Sooner(sent', c, d)
      /\ IsSignal(e) => \A c \in Elems(sent) : Sooner(sent', c, e.call)
  BY <1>1, SoonerAppend
<1>3. /\ \A es : InOrder(sent, es) => InOrder(sent', es)
      /\ \A s : KindOrder(sent, s) => KindOrder(sent', s)
      /\ \A C, D : Before(sent, C, D) => Before(sent', C, D)
  BY <1>2, OrdersExtend
<1>4. /\ Signalled(buffer') = Signalled(buffer) \cup (IF IsSignal(e) THEN {e.call} ELSE {})
      /\ Elems(sent') = Elems(sent) \cup (IF IsSignal(e) THEN {e.call} ELSE {})
  BY <1>1, SignalledAppend, ElemsAppend
<1>5. Recorded' = Recorded
  BY DEF Recorded
<1>6. Distinct(sent')
  <2>1. CASE sent' = Append(sent, e.call) /\ e.call \notin Elems(sent)
    BY <1>1, <2>1, AppendFacts DEF ServiceOrder, Distinct, Elems
  <2> QED BY <2>1 DEF ServiceOrder
<1>7. InOrder(sent', buffer')
  <2>1. IsSignal(e) => Before(sent', Signalled(buffer), {e.call})
    BY <1>2 DEF Before, ServiceOrder
  <2> QED BY <1>1, <1>3, <2>1, InOrderAppend DEF ServiceOrder
<1>8. /\ Before(sent', Elems(base), Recorded \cup Signalled(batch) \cup Signalled(buffer'))
      /\ Before(sent', Recorded, Signalled(batch) \cup Signalled(buffer'))
      /\ Before(sent', Signalled(batch), Signalled(buffer'))
  BY <1>2, <1>3, <1>4 DEF ServiceOrder, Before
<1>9. ServiceOrder'
  BY <1>3, <1>4, <1>5, <1>6, <1>7, <1>8 DEF ServiceOrder
<1>10. WorkerOrder'
  BY <1>2, WorkerOrderFrame
<1> QED BY <1>9, <1>10

\* A task takes the buffer, after all that the run has consumed.
LEMMA TaskOrder ==
  ASSUME TypeOK, Worker, ServiceOrder, WorkerOrder, StartTask
  PROVE  ServiceOrder' /\ WorkerOrder'
<1> USE DEF channels, local, ghosts
<1>0. /\ batch = << >> /\ batch' = buffer /\ buffer' = << >>
      /\ UNCHANGED <<sent, base, history, saved>>
  BY DEF StartTask, Worker, NoTaskNoBatch
<1>1. Recorded' = Recorded /\ Signalled(<< >>) = {} /\ Elems(<< >>) = {}
  BY <1>0, SignalledEmpty DEF Recorded, Elems
<1>2. ServiceOrder'
  BY <1>0, <1>1 DEF ServiceOrder, InOrder, Before
<1>3. CASE up
  <2>1. /\ feed' = Append(feed, buffer) /\ feed \in Seq(Seq(Event))
        /\ UNCHANGED <<up, inbox, handled>>
    BY <1>3 DEF StartTask, TypeOK
  <2>2. /\ Len(feed) \in Nat /\ DOMAIN feed = 1 .. Len(feed)
        /\ DOMAIN feed' = 1 .. Len(feed) + 1 /\ feed'[Len(feed) + 1] = buffer
        /\ \A i \in 1 .. Len(feed) : feed'[i] = feed[i]
    BY <2>1, AppendFacts
  <2>3. /\ Elems(handled) \cup Signalled(inbox) \subseteq Recorded
        /\ \A i \in DOMAIN feed : Signalled(feed[i]) \subseteq Recorded
    BY <1>0, <1>1, <1>3 DEF Worker, NothingInvented
  <2>4. /\ Before(sent, Elems(handled) \cup Signalled(inbox), Signalled(buffer))
        /\ \A i \in DOMAIN feed : Before(sent, Signalled(feed[i]), Signalled(buffer))
    BY <2>3 DEF ServiceOrder, Before
  <2>5. /\ \A i \in DOMAIN feed' : InOrder(sent, feed'[i])
        /\ \A i \in DOMAIN feed' :
             Before(sent, Elems(handled) \cup Signalled(inbox), Signalled(feed'[i]))
    <3>1. \A i \in DOMAIN feed' : feed'[i] = buffer \/ (i \in DOMAIN feed /\ feed'[i] = feed[i])
      BY <2>2
    <3> QED BY <1>3, <2>4, <3>1 DEF WorkerOrder, ServiceOrder
  <2>6. ASSUME NEW i \in DOMAIN feed', NEW j \in DOMAIN feed', i < j
        PROVE  Before(sent, Signalled(feed'[i]), Signalled(feed'[j]))
    <3>1. i \in DOMAIN feed /\ (j \in DOMAIN feed \/ j = Len(feed) + 1)
      BY <2>2, <2>6
    <3> QED BY <1>3, <2>2, <2>4, <2>6, <3>1 DEF WorkerOrder
  <2> QED BY <1>0, <1>2, <1>3, <2>1, <2>5, <2>6 DEF WorkerOrder
<1>4. CASE ~up
  <2>1. /\ feed' = Append(history, buffer) /\ history \in Seq(Seq(Event))
        /\ inbox' = << >> /\ handled' = << >>
    BY <1>4 DEF StartTask, Load, Restart, TypeOK
  <2>2. /\ Len(history) \in Nat /\ DOMAIN history = 1 .. Len(history)
        /\ DOMAIN feed' = 1 .. Len(history) + 1 /\ feed'[Len(history) + 1] = buffer
        /\ \A i \in 1 .. Len(history) : feed'[i] = history[i]
    BY <2>1, AppendFacts
  <2>3. \A i \in DOMAIN history : Before(sent, Signalled(history[i]), Signalled(buffer))
    BY DEF ServiceOrder, Before, Recorded
  <2>4. \A i \in DOMAIN feed' : InOrder(sent, feed'[i])
    BY <2>2 DEF ServiceOrder
  <2>5. ASSUME NEW i \in DOMAIN feed', NEW j \in DOMAIN feed', i < j
        PROVE  Before(sent, Signalled(feed'[i]), Signalled(feed'[j]))
    <3>1. i \in DOMAIN history /\ (j \in DOMAIN history \/ j = Len(history) + 1)
      BY <2>2, <2>5
    <3> QED BY <2>2, <2>3, <2>5, <3>1 DEF ServiceOrder
  <2>6. InOrder(sent, << >>) /\ KindOrder(sent, << >>)
    BY DEF InOrder, KindOrder
  <2>7. \A D : Before(sent, {} \cup {}, D)
    BY DEF Before
  <2> QED BY <1>0, <1>1, <1>2, <2>1, <2>4, <2>5, <2>6, <2>7 DEF WorkerOrder
<1> QED BY <1>3, <1>4

\* A worker that replays for a query is fed the history in its order.
LEMMA QueryOrder ==
  ASSUME TypeOK, ServiceOrder, LoadForQuery
  PROVE  ServiceOrder' /\ WorkerOrder'
<1> USE DEF service, ghosts
<1>1. /\ feed' = history /\ inbox' = << >> /\ handled' = << >>
      /\ UNCHANGED <<sent, base, history, batch, buffer, saved>>
  BY DEF LoadForQuery, Load, Restart
<1>2. Signalled(<< >>) = {} /\ Elems(<< >>) = {}
  BY SignalledEmpty DEF Elems
<1>3. ServiceOrder'
  BY <1>1, ServiceFrame
<1>4. InOrder(sent, << >>) /\ KindOrder(sent, << >>)
  BY DEF InOrder, KindOrder
<1>5. \A D : Before(sent, {} \cup {}, D)
  BY DEF Before
<1> QED BY <1>1, <1>2, <1>3, <1>4, <1>5 DEF ServiceOrder, WorkerOrder

\* A batch that was taken goes back in front of what came since.
LEMMA GiveUpOrder ==
  ASSUME TypeOK, ServiceOrder, GiveUpTask, UNCHANGED <<sent, base, saved>>
  PROVE  ServiceOrder' /\ WorkerOrder'
<1>1. /\ batch' = << >> /\ buffer' = batch \o buffer /\ history' = history /\ up' = FALSE
      /\ batch \in Seq(Event) /\ buffer \in Seq(Event)
  BY DEF GiveUpTask, Evict, TypeOK
<1>2. Signalled(<< >>) = {} /\ Recorded' = Recorded
  BY <1>1, SignalledEmpty DEF Recorded
<1>3. Signalled(buffer') = Signalled(batch) \cup Signalled(buffer)
  BY <1>1, SignalledConcat
<1>4. InOrder(sent, buffer')
  BY <1>1, InOrderConcat DEF ServiceOrder
<1>5. InOrder(sent, << >>) /\ \A D : Before(sent, {}, D)
  BY DEF InOrder, Before
<1>6. /\ Signalled(batch') \cup Signalled(buffer') = Signalled(batch) \cup Signalled(buffer)
      /\ \A R : R \cup Signalled(batch') \cup Signalled(buffer')
               = R \cup Signalled(batch) \cup Signalled(buffer)
  BY <1>1, <1>2, <1>3
<1>7. ServiceOrder'
  BY <1>1, <1>2, <1>4, <1>5, <1>6 DEF ServiceOrder
<1> QED BY <1>1, <1>7 DEF WorkerOrder

-----------------------------------------------------------------------------
(* Steps of the worker and its tasks.                                      *)

\* Feeding a batch puts it where nothing earlier is left.
LEMMA FeedOrder ==
  ASSUME TypeOK, Worker, ServiceOrder, WorkerOrder, Feed
  PROVE  ServiceOrder' /\ WorkerOrder'
<1> USE DEF service, ghosts
<1>1. /\ up /\ up' /\ feed \in Seq(Seq(Event)) /\ feed # << >>
      /\ feed' = Tail(feed) /\ inbox' = Head(feed)
      /\ UNCHANGED <<sent, base, history, batch, buffer, saved, handled>>
  BY DEF Feed, TypeOK
<1>2. /\ Len(feed) \in Nat \ {0} /\ DOMAIN feed = 1 .. Len(feed) /\ Head(feed) = feed[1]
      /\ DOMAIN Tail(feed) = 1 .. Len(feed) - 1
      /\ \A i \in 1 .. Len(feed) - 1 : Tail(feed)[i] = feed[i + 1]
  BY <1>1, TailFacts
<1>3. /\ 1 \in DOMAIN feed /\ inbox' = feed[1]
      /\ \A i \in DOMAIN feed' : i + 1 \in DOMAIN feed /\ 1 < i + 1 /\ feed'[i] = feed[i + 1]
      /\ \A i, j \in DOMAIN feed' : i < j => i + 1 < j + 1
  BY <1>1, <1>2
<1>4. /\ InOrder(sent, inbox')
      /\ \A c \in Elems(handled), d \in Signalled(inbox') : Sooner(sent, c, d)
  BY <1>1, <1>3 DEF WorkerOrder, Before
<1>5. /\ \A i \in DOMAIN feed' : InOrder(sent, feed'[i])
      /\ \A i, j \in DOMAIN feed' :
           i < j => Before(sent, Signalled(feed'[i]), Signalled(feed'[j]))
  BY <1>1, <1>3 DEF WorkerOrder
<1>6. ASSUME NEW i \in DOMAIN feed'
      PROVE  Before(sent, Elems(handled) \cup Signalled(inbox'), Signalled(feed'[i]))
  <2>1. /\ Before(sent, Signalled(feed[1]), Signalled(feed[i + 1]))
        /\ Before(sent, Elems(handled) \cup Signalled(inbox), Signalled(feed[i + 1]))
    BY <1>1, <1>3 DEF WorkerOrder
  <2> QED BY <1>3, <2>1 DEF Before
<1>7. ServiceOrder'
  BY <1>1, ServiceFrame
<1> QED BY <1>1, <1>4, <1>5, <1>6, <1>7 DEF WorkerOrder

\* What Select takes is executed after all of its kind that came before.
LEMMA HandleOrder ==
  ASSUME TypeOK, ServiceOrder, WorkerOrder, up, NEW i \in DOMAIN inbox, Selects(i), Take(i),
         (\/ handled' = Append(handled, inbox[i].call) /\ IsSignal(inbox[i])
          \/ handled' = handled /\ ~IsSignal(inbox[i])),
         UNCHANGED <<sent, base, history, batch, buffer, saved, up, feed>>
  PROVE  ServiceOrder' /\ WorkerOrder'
<1>1. /\ inbox' = Without(inbox, i) /\ handled \in Seq(Calls) /\ inbox \in Seq(Event)
      /\ inbox[i] \in Event /\ (IsSignal(inbox[i]) => inbox[i].call \in Calls)
  BY EventKinds DEF TypeOK, Take
<1>2. /\ InOrder(sent, inbox')
      /\ IsSignal(inbox[i]) =>
           \A d \in Signalled(inbox') :
             SameKind(inbox[i].call, d) => Sooner(sent, inbox[i].call, d)
  BY <1>1, TakenIsFirst DEF WorkerOrder
<1>3. /\ Signalled(inbox)
           = Signalled(inbox') \cup (IF IsSignal(inbox[i]) THEN {inbox[i].call} ELSE {})
      /\ Elems(handled')
           = Elems(handled) \cup (IF IsSignal(inbox[i]) THEN {inbox[i].call} ELSE {})
  BY <1>1, SignalledWithout, ElemsAppend
<1>4. KindOrder(sent, handled')
  <2>1. CASE IsSignal(inbox[i])
    <3>1. \A c \in Elems(handled) :
            SameKind(c, inbox[i].call) => Sooner(sent, c, inbox[i].call)
      BY <1>3, <2>1 DEF WorkerOrder
    <3> QED BY <1>1, <2>1, <3>1, KindOrderAppend DEF WorkerOrder
  <2> QED BY <2>1 DEF WorkerOrder
<1>5. \A c \in Elems(handled'), d \in Signalled(inbox') : SameKind(c, d) => Sooner(sent, c, d)
  BY <1>2, <1>3 DEF WorkerOrder
<1>6. Elems(handled') \cup Signalled(inbox') = Elems(handled) \cup Signalled(inbox)
  BY <1>3
<1>7. ServiceOrder'
  BY ServiceFrame
<1> QED BY <1>2, <1>4, <1>5, <1>6, <1>7 DEF WorkerOrder

\* A completed task adds its batch to the history, behind all of it, and saves calls
\* in the order in which they were executed.
LEMMA RecordOrder ==
  ASSUME TypeOK, Worker, ServiceOrder, WorkerOrder, up,
         batch' = << >>, history' = Append(history, batch), saved' = Now,
         UNCHANGED <<sent, base, buffer, up, feed, inbox, handled>>
  PROVE  ServiceOrder' /\ WorkerOrder'
<1>1. /\ history \in Seq(Seq(Event)) /\ saved'.handled = handled
      /\ Recorded' = Recorded \cup Signalled(batch)
  BY RecordedAppend DEF TypeOK, Now
<1>2. /\ Len(history) \in Nat /\ DOMAIN history = 1 .. Len(history)
      /\ DOMAIN history' = 1 .. Len(history) + 1 /\ history'[Len(history) + 1] = batch
      /\ \A i \in 1 .. Len(history) : history'[i] = history[i]
  BY <1>1, AppendFacts
<1>3. \A i \in DOMAIN history' : InOrder(sent, history'[i])
  BY <1>2 DEF ServiceOrder
<1>4. ASSUME NEW i \in DOMAIN history', NEW j \in DOMAIN history', i < j
      PROVE  Before(sent, Signalled(history'[i]), Signalled(history'[j]))
  <2>1. i \in DOMAIN history /\ (j \in DOMAIN history \/ j = Len(history) + 1)
    BY <1>2, <1>4
  <2>2. Before(sent, Signalled(history[i]), Signalled(batch))
    BY <2>1 DEF ServiceOrder, Before, Recorded
  <2> QED BY <1>2, <1>4, <2>1, <2>2 DEF ServiceOrder
<1>5. /\ Signalled(batch') = {}
      /\ Recorded' \cup Signalled(batch') \cup Signalled(buffer)
           = Recorded \cup Signalled(batch) \cup Signalled(buffer)
  BY <1>1, SignalledEmpty
<1>6. InOrder(sent, << >>) /\ \A D : Before(sent, {}, D)
  BY DEF InOrder, Before
<1>7. Before(sent, Recorded', Signalled(buffer))
  BY <1>1 DEF ServiceOrder, Before
<1>8. /\ Before(sent, Elems(base), Recorded' \cup Signalled(batch') \cup Signalled(buffer))
      /\ Elems(base) \cup Recorded' \cup Signalled(batch') \cup Signalled(buffer)
           \subseteq Elems(sent)
      /\ Before(sent, Recorded', Signalled(batch') \cup Signalled(buffer))
  BY <1>5, <1>7 DEF ServiceOrder
<1>9. ServiceOrder'
  BY <1>1, <1>3, <1>4, <1>5, <1>6, <1>8 DEF ServiceOrder, WorkerOrder
<1>10. WorkerOrder'
  BY WorkerOrderFrame
<1> QED BY <1>9, <1>10

\* A run that continues as new has executed its calls after those of earlier runs.
LEMMA ContinueOrder ==
  ASSUME TypeOK, Worker, ServiceOrder, WorkerOrder, ContinueAsNew
  PROVE  ServiceOrder' /\ WorkerOrder'
<1>1. /\ up /\ up' = FALSE /\ base' = base \o handled /\ saved'.handled = << >>
      /\ history' = << >> /\ batch' = << >> /\ buffer = << >> /\ UNCHANGED <<sent, buffer>>
  BY DEF ContinueAsNew, Closes, CaughtUp, Evict
<1>2. base \in Seq(Calls) /\ handled \in Seq(Calls)
  BY DEF TypeOK
<1>3. /\ Recorded' = {} /\ Signalled(<< >>) = {}
      /\ Elems(base') = Elems(base) \cup Elems(handled)
  BY <1>1, <1>2, SignalledEmpty, ElemsConcat DEF Recorded
<1>4. Elems(handled) \subseteq Recorded \cup Signalled(batch)
  BY <1>1 DEF Worker, NothingInvented
<1>5. Before(sent, Elems(base), Elems(handled)) /\ Elems(handled) \subseteq Elems(sent)
  BY <1>4 DEF ServiceOrder, Before
<1>6. KindOrder(sent, base')
  BY <1>1, <1>2, <1>5, KindOrderConcat DEF ServiceOrder, WorkerOrder
<1>7. InOrder(sent, << >>) /\ KindOrder(sent, << >>) /\ \A C : Before(sent, C, {})
  BY DEF InOrder, KindOrder, Before
<1>8. /\ Signalled(batch') = {} /\ Signalled(buffer') = {}
      /\ Recorded' \cup Signalled(batch') \cup Signalled(buffer') = {}
      /\ Signalled(batch') \cup Signalled(buffer') = {}
      /\ Elems(base') \cup Recorded' \cup Signalled(batch') \cup Signalled(buffer')
           \subseteq Elems(sent)
      /\ DOMAIN history' = {}
  BY <1>1, <1>3, <1>5 DEF ServiceOrder
<1>9. ServiceOrder'
  BY <1>1, <1>3, <1>6, <1>7, <1>8 DEF ServiceOrder
<1> QED BY <1>1, <1>9 DEF WorkerOrder

-----------------------------------------------------------------------------
\* At the start nothing has been accepted.
LEMMA OrderInit == Init => ServiceOrder /\ WorkerOrder
<1> SUFFICES ASSUME Init PROVE ServiceOrder /\ WorkerOrder
  OBVIOUS
<1>1. /\ Elems(<< >>) = {} /\ Signalled(<< >>) = {} /\ Recorded = {} /\ ~up
      /\ sent = << >> /\ base = << >> /\ history = << >> /\ batch = << >> /\ buffer = << >>
      /\ saved.handled = << >>
  BY SignalledEmpty, RecordedEmpty DEF Init, Elems
<1>2. Distinct(<< >>) /\ InOrder(<< >>, << >>) /\ KindOrder(<< >>, << >>)
  BY DEF Distinct, InOrder, KindOrder
<1>3. \A D : Before(<< >>, {}, D)
  BY DEF Before
<1>4. /\ Recorded \cup Signalled(batch) \cup Signalled(buffer) = {}
      /\ Signalled(batch) \cup Signalled(buffer) = {}
      /\ Elems(base) \cup Recorded \cup Signalled(batch) \cup Signalled(buffer)
           \subseteq Elems(sent)
      /\ DOMAIN history = {}
  BY <1>1
<1>5. ServiceOrder
  BY <1>1, <1>2, <1>3, <1>4 DEF ServiceOrder
<1> QED BY <1>1, <1>5 DEF WorkerOrder

\* Every step keeps the order.
LEMMA OrderNext ==
  TypeOK /\ IInv /\ ServiceOrder /\ WorkerOrder /\ [Next]_vars => ServiceOrder' /\ WorkerOrder'
<1> SUFFICES ASSUME TypeOK, Worker, ServiceOrder, WorkerOrder, [Next]_vars
             PROVE  ServiceOrder' /\ WorkerOrder'
  BY IInvIs
<1> USE DEF service, channels, local, ghosts
<1>1. ASSUME NEW c \in Calls, Send(c) PROVE ServiceOrder' /\ WorkerOrder'
  BY <1>1, EventTypes, PostOrder DEF Send
<1>2. CASE StopDB
  BY <1>2, EventTypes, PostOrder DEF StopDB
<1>3. ASSUME NEW c \in Execs, DeliverResponse(c) \/ TimeOutResponse(c)
      PROVE  ServiceOrder' /\ WorkerOrder'
  BY <1>3, EventTypes, PostOrder DEF DeliverResponse, TimeOutResponse, EndResponse
<1>4. CASE SendQuery \/ RefuseQuery \/ AnswerQuery \/ Block \/ UNCHANGED vars
  <2>1. UNCHANGED <<service, up, feed, inbox, handled, sent, ghosts>>
    BY <1>4 DEF SendQuery, RefuseQuery, AnswerQuery, Block, vars
  <2> QED BY <2>1, ServiceFrame, WorkerOrderFrame
<1>5. CASE StartTask \/ LoadForQuery
  BY <1>5, TaskOrder, QueryOrder
<1>6. CASE Feed \/ ContinueAsNew
  BY <1>6, FeedOrder, ContinueOrder
<1>7. CASE Crash \/ RefuseClose
  BY <1>7, GiveUpOrder DEF Crash, RefuseClose
<1>8. ASSUME NEW i \in DOMAIN inbox, HandleExec(i) \/ HandleUpdate(i) \/ HandleOther(i)
      PROVE  ServiceOrder' /\ WorkerOrder'
  <2>1. /\ up /\ Selects(i) /\ Take(i)
        /\ UNCHANGED <<sent, base, history, batch, buffer, saved, up, feed>>
        /\ \/ handled' = Append(handled, inbox[i].call) /\ IsSignal(inbox[i])
           \/ handled' = handled /\ ~IsSignal(inbox[i])
    BY <1>8 DEF HandleExec, HandleUpdate, HandleOther, InSelect, Execute, IsSignal
  <2> QED BY <2>1, HandleOrder
<1>9. ASSUME CompleteTask \/ \E s \in {"failed", "canceled"} : Close(s)
      PROVE  ServiceOrder' /\ WorkerOrder'
  BY <1>9, RecordOrder DEF CompleteTask, Close, Closes, CaughtUp
<1> QED
  BY <1>1, <1>2, <1>3, <1>4, <1>5, <1>6, <1>7, <1>8, <1>9
     DEF Next, Client, Service, Workflow, Outcome, ReturnError, ReturnSerializeError,
         ReturnCanceled

\* The calls that a run's log or worker adds are behind those of the earlier runs.
LEMMA LogOrder ==
  ASSUME TypeOK, Worker, ServiceOrder, WorkerOrder
  PROVE  /\ Distinct(sent) /\ KindOrder(sent, Log)
         /\ up => KindOrder(sent, base \o handled)
<1>1. base \in Seq(Calls) /\ handled \in Seq(Calls) /\ saved.handled \in Seq(Calls)
  BY DEF TypeOK, Saved
<1>2. Before(sent, Elems(base), Elems(saved.handled))
  BY DEF Worker, SavedIsRecorded, ServiceOrder, Before
<1>3. up => Before(sent, Elems(base), Elems(handled))
  BY DEF Worker, NothingInvented, ServiceOrder, Before
<1> QED BY <1>1, <1>2, <1>3, KindOrderConcat DEF ServiceOrder, WorkerOrder, Log

\* A sequence of calls in order has none twice.
LEMMA OrderedOnce ==
  ASSUME NEW q \in Seq(Calls), Distinct(q), NEW s \in Seq(Calls), KindOrder(q, s),
         NEW i \in DOMAIN s, NEW j \in DOMAIN s, i # j
  PROVE  s[i] # s[j]
<1>1. i \in Int /\ j \in Int
  OBVIOUS
<1>2. s[i] = s[j] => SameKind(s[i], s[j]) /\ SameKind(s[j], s[i])
  BY DEF SameKind
<1> QED BY <1>1, <1>2, SoonerOnce DEF KindOrder

\* Types and both invariants together.
LEMMA Ordered == Spec => [](TypeOK /\ IInv /\ ServiceOrder /\ WorkerOrder)
BY TypeCorrect, InitIInv, NextIInv, OrderInit, OrderNext, PTL DEF Spec

\* No crash, retried task or continue-as-new makes a call count twice, neither in
\* what the service recorded nor in the state that a worker has rebuilt (worker.go).
THEOREM SignalsExecuteOnce == Spec => []ExecutedOnce
<1>1. TypeOK /\ IInv /\ ServiceOrder /\ WorkerOrder => ExecutedOnce
  <2> SUFFICES ASSUME TypeOK, Worker, ServiceOrder, WorkerOrder PROVE ExecutedOnce
    BY IInvIs
  <2>1. sent \in Seq(Calls) /\ Log \in Seq(Calls) /\ base \o handled \in Seq(Calls)
    BY DEF TypeOK, Saved, Log
  <2>2. \A i, j \in DOMAIN Log : i # j => Log[i] # Log[j]
    BY <2>1, LogOrder, OrderedOnce
  <2>3. up => \A i, j \in DOMAIN (base \o handled) :
                i # j => (base \o handled)[i] # (base \o handled)[j]
    BY <2>1, LogOrder, OrderedOnce
  <2> QED BY <2>2, <2>3 DEF ExecutedOnce
<1> QED BY Ordered, <1>1, PTL

\* Signals of one kind are executed in the order of their acceptance, whatever
\* crashes, replays and runs lie between them (worker.go).
THEOREM ChannelOrder == Spec => []ChannelsAreFifo
<1>1. TypeOK /\ IInv /\ ServiceOrder /\ WorkerOrder => ChannelsAreFifo
  <2> SUFFICES ASSUME TypeOK, Worker, ServiceOrder, WorkerOrder,
                      NEW i \in DOMAIN Log, NEW j \in DOMAIN Log, i < j,
                      Log[i] \in Execs <=> Log[j] \in Execs
               PROVE  Position(Log[i]) < Position(Log[j])
    BY IInvIs DEF ChannelsAreFifo
  <2>1. PICK m, n \in DOMAIN sent : m < n /\ sent[m] = Log[i] /\ sent[n] = Log[j]
    BY LogOrder DEF KindOrder, SameKind, Sooner
  <2>2. ASSUME NEW k \in DOMAIN sent PROVE Position(sent[k]) = k
    BY LogOrder DEF Position, Distinct
  <2> QED BY <2>1, <2>2
<1> QED BY Ordered, <1>1, PTL
=============================================================================
