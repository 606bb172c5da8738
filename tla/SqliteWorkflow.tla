--------------------------- MODULE SqliteWorkflow ---------------------------
(***************************************************************************)
(* temporalsqlite/worker.go: the workflow that owns a SQLite database,     *)
(* together with the part of the Temporal service and SDK it runs on       *)
(* (external: batches of events per workflow task, replay after a worker   *)
(* is lost, rejected closing commands, activities).                        *)
(*                                                                         *)
(* A chain of runs is connected by continue-as-new.  The service keeps the *)
(* chain's truth: the input of the current run, the batches of events its  *)
(* completed workflow tasks consumed, and what has arrived since.  The     *)
(* worker's state (database, counter, channels) is a cache that a crash    *)
(* empties and that replaying the batches from the input must rebuild.     *)
(*                                                                         *)
(* The database is a parameter here: Apply is execAll on the statements of *)
(* a call, Fails tells whether any result has an error, Image is what      *)
(* serialising, deserialising and the InitializeSqlite hook make of a      *)
(* connection's state; the two ends of that can fail.                      *)
(***************************************************************************)
EXTENDS Integers, Sequences

CONSTANTS
  DB, EmptyDB,
  Execs, Updates,       (* Exec and Update signals, each sent once         *)
  NoCall,
  Apply(_, _), Fails(_, _), Image(_),
  Opens(_),             (* a run can open (and initialise) this database   *)
  Serializes(_),        (* it can be serialised and compressed             *)
  IgnoreUpdateErrors,   (* SqliteWorkerOptions                             *)
  ReqLimit,             (* SqliteOptions.requests_until_continue_as_new    *)
  DefaultLimit,         (* DefaultRequestsUntilContinueAsNew, an int       *)
  UintRange,            (* 2^32: the range of the request counter and limit *)
  MaxCrashes            (* bound: losses of the worker's cached state      *)

Calls == Execs \cup Updates

ASSUME WorkflowAssumption ==
  /\ EmptyDB \in DB
  /\ Execs \cap Updates = {} /\ NoCall \notin Calls
  /\ \A d \in DB : Image(d) \in DB /\ Opens(d) \in BOOLEAN /\ Serializes(d) \in BOOLEAN
  /\ \A d \in DB, c \in Calls : Apply(d, c) \in DB /\ Fails(d, c) \in BOOLEAN
  /\ IgnoreUpdateErrors \in BOOLEAN
  /\ UintRange \in Nat \ {0} /\ ReqLimit \in 0 .. UintRange - 1
  /\ DefaultLimit \in Nat \ {0} /\ MaxCrashes \in Nat

\* newSqliteImpl: a missing limit is replaced by the default, truncated.
Limit == IF ReqLimit = 0 THEN DefaultLimit % UintRange ELSE ReqLimit

\* What the history of a run tells the workflow.
Signal(c) == [kind |-> IF c \in Execs THEN "exec" ELSE "update", call |-> c]
CancelRequest == [kind |-> "cancel", call |-> NoCall]
Responded(c) == [kind |-> "responded", call |-> c]
Event == {Signal(c) : c \in Calls} \cup {CancelRequest} \cup {Responded(c) : c \in Execs}

VARIABLES
  (* The service *)
  status,     (* of the last run of the chain                              *)
  input,      (* database the current run was started with                 *)
  history,    (* batches consumed by the run's completed workflow tasks    *)
  buffer,     (* events no workflow task has taken yet                     *)
  task,       (* a workflow task is in progress                            *)
  batch,      (* and took these events                                     *)
  response,   (* Exec response activities                                  *)
  (* The worker's cached workflow *)
  up,         (* there is one                                              *)
  feed,       (* batches it has not been given yet                         *)
  pc,         (* where its coroutine stands: see Pc                        *)
  inbox,      (* signals in channels and ready futures, in arrival order   *)
  woken,      (* the first of inbox has ended a blocked Select             *)
  ctxDone,    (* the workflow context is cancelled                         *)
  db, count,  (* s.db, s.requestCount                                      *)
  handled,    (* calls executed since the run began                        *)
  responding, (* Exec.Respond commands issued since the last batch         *)
  (* The environment, and history kept for the properties *)
  sent,       (* calls in the order the service accepted them              *)
  canceling,  (* StopDB was called                                         *)
  crashes,
  base,       (* calls executed by the earlier runs of the chain           *)
  saved,      (* worker state when the last workflow task completed        *)
  query       (* one Query: the Execs answered when it was sent, and the   *)
              (* calls reflected in the state it was answered from         *)

service == <<status, input, history, buffer, task, batch, response>>
channels == <<inbox, woken, ctxDone>>
local == <<db, count, handled, responding>>
ghosts == <<crashes, base, saved>>
vars == <<service, up, feed, pc, channels, local, sent, canceling, ghosts, query>>

Pc == {"start", "blocked", "running", "failing"}
Status == {"running", "failed", "canceled"}
Response == {"none", "scheduled", "delivered", "timedOut", "dropped"}
Saved == [db: DB, count: Nat, handled: Seq(Calls)]

\* The elements of a sequence of calls, and the calls signalled by events.
Elems(s) == {s[i] : i \in DOMAIN s}
IsSignal(e) == e.kind \in {"exec", "update"}
Signalled(es) == {e.call : e \in {x \in Elems(es) : IsSignal(x)}}

\* Every call whose effect the service has recorded, in execution order.
Log == base \o saved.handled

TypeOK ==
  /\ status \in Status /\ input \in DB
  /\ history \in Seq(Seq(Event)) /\ buffer \in Seq(Event)
  /\ task \in BOOLEAN /\ batch \in Seq(Event)
  /\ response \in [Execs -> Response]
  /\ up \in BOOLEAN /\ feed \in Seq(Seq(Event)) /\ pc \in Pc
  /\ inbox \in Seq(Event) /\ woken \in BOOLEAN /\ ctxDone \in BOOLEAN
  /\ db \in DB /\ count \in Nat /\ handled \in Seq(Calls)
  /\ responding \subseteq Execs
  /\ sent \in Seq(Calls) /\ canceling \in BOOLEAN /\ crashes \in 0 .. MaxCrashes
  /\ base \in Seq(Calls) /\ saved \in Saved
  /\ query \in [state: {"none", "sent", "answered", "refused"},
                must: SUBSET Execs, saw: SUBSET Calls]

Init ==
  /\ status = "running" /\ input = EmptyDB
  /\ history = << >> /\ buffer = << >> /\ task = FALSE /\ batch = << >>
  /\ response = [c \in Execs |-> "none"]
  /\ up = FALSE /\ feed = << >> /\ pc = "start"
  /\ inbox = << >> /\ woken = FALSE /\ ctxDone = FALSE
  /\ db = EmptyDB /\ count = 0 /\ handled = << >> /\ responding = {}
  /\ sent = << >> /\ canceling = FALSE /\ crashes = 0
  /\ base = << >> /\ saved = [db |-> EmptyDB, count |-> 0, handled |-> << >>]
  /\ query = [state |-> "none", must |-> {}, saw |-> {}]

-----------------------------------------------------------------------------
(* Clients (client.go): signals, cancellation, queries.  The service       *)
(* accepts signals and cancellation while the chain has a running run.     *)

Send(c) ==
  /\ status = "running" /\ c \notin Elems(sent)
  /\ sent' = Append(sent, c)
  /\ buffer' = Append(buffer, Signal(c))
  /\ UNCHANGED <<status, input, history, task, batch, response,
                 up, feed, pc, channels, local, canceling, ghosts, query>>

StopDB ==
  /\ status = "running" /\ ~canceling
  /\ canceling' = TRUE
  /\ buffer' = Append(buffer, CancelRequest)
  /\ UNCHANGED <<status, input, history, task, batch, response,
                 up, feed, pc, channels, local, sent, ghosts, query>>

SendQuery ==
  /\ query.state = "none"
  /\ query' = [state |-> "sent", saw |-> {},
               must |-> {c \in Execs : response[c] = "delivered"}]
  /\ UNCHANGED <<service, up, feed, pc, channels, local, sent, canceling, ghosts>>

-----------------------------------------------------------------------------
(* The service and the SDK (external).                                     *)

\* Mutants of Restart: the serialised database is not restored; the request
\* counter outlives the run.
RestartEmpty(bs, d) ==
  /\ feed' = bs /\ pc' = "start"
  /\ inbox' = << >> /\ woken' = FALSE /\ ctxDone' = FALSE
  /\ db' = EmptyDB /\ count' = 0 /\ handled' = << >> /\ responding' = {}
RestartCounting(bs, d) ==
  /\ feed' = bs /\ pc' = "start"
  /\ inbox' = << >> /\ woken' = FALSE /\ ctxDone' = FALSE
  /\ db' = d /\ UNCHANGED count /\ handled' = << >> /\ responding' = {}

\* newSqliteImpl, and Run up to its loop, on the database d, with the batches
\* bs still to come.
Restart(bs, d) ==
  /\ feed' = bs /\ pc' = "start"
  /\ inbox' = << >> /\ woken' = FALSE /\ ctxDone' = FALSE
  /\ db' = d /\ count' = 0 /\ handled' = << >> /\ responding' = {}

\* A worker without the cached workflow runs its function from the start.
Load(bs) == up' = TRUE /\ Restart(bs, input)
Evict == up' = FALSE /\ Restart(<< >>, input')

\* A workflow task takes all that arrived.  The first one of a run needs no
\* event but the run's start.
StartTask ==
  /\ status = "running" /\ ~task
  /\ buffer # << >> \/ history = << >>
  /\ task' = TRUE /\ batch' = buffer /\ buffer' = << >>
  /\ IF up THEN feed' = Append(feed, buffer) /\ UNCHANGED <<up, pc, channels, local>>
           ELSE Load(Append(history, buffer))
  /\ UNCHANGED <<status, input, history, response, sent, canceling, ghosts, query>>

\* Mutant of LoadForQuery: a closed chain is not replayed.
LoadForQueryRunning ==
  /\ query.state = "sent" /\ ~up /\ ~task /\ history # << >> /\ status = "running"
  /\ Load(history)
  /\ UNCHANGED <<service, sent, canceling, ghosts, query>>

\* A query that finds no cached workflow makes a worker replay it, also when
\* the chain is closed.
LoadForQuery ==
  /\ query.state = "sent" /\ ~up /\ ~task /\ history # << >>
  /\ Load(history)
  /\ UNCHANGED <<service, sent, canceling, ghosts, query>>

\* client.go's note on Query: it may fail while the chain is restarting.  It may
\* also find a run that failed to open its database.
RefuseQuery ==
  /\ query.state = "sent" /\ (history = << >> \/ ~Opens(input))
  /\ query' = [query EXCEPT !.state = "refused"]
  /\ UNCHANGED <<service, up, feed, pc, channels, local, sent, canceling, ghosts>>

\* The batch's events reach channels and futures before the coroutine runs;
\* the first of them ends a Select that is blocked.  A run's first batch opens
\* the database.
Feed ==
  /\ up /\ feed # << >> /\ pc \in {"start", "blocked"}
  /\ feed' = Tail(feed)
  /\ inbox' = Head(feed)
  /\ woken' = (pc = "blocked" /\ Head(feed) # << >>)
  /\ ctxDone' = (ctxDone \/ CancelRequest \in Elems(Head(feed)))
  /\ pc' = IF pc = "start" /\ ~Opens(db) THEN "failing" ELSE "running"
  /\ responding' = {}
  /\ UNCHANGED <<service, up, db, count, handled, sent, canceling, ghosts, query>>

\* Mutant of GiveUpTask: the worker keeps the state it had reached.
GiveUpTaskCached ==
  /\ task' = FALSE /\ batch' = << >>
  /\ buffer' = batch \o buffer
  /\ feed' = << >> /\ pc' = "blocked" /\ inbox' = << >> /\ woken' = FALSE
  /\ UNCHANGED <<status, input, history, response, up, ctxDone, local>>

\* A task that a worker loses, or whose closing command the service refuses
\* because more has arrived, is scheduled again with the later events added.
GiveUpTask ==
  /\ task' = FALSE /\ batch' = << >>
  /\ buffer' = batch \o buffer
  /\ UNCHANGED <<status, input, history, response>>
  /\ Evict

Crash ==
  /\ up /\ crashes < MaxCrashes
  /\ crashes' = crashes + 1
  /\ GiveUpTask
  /\ UNCHANGED <<sent, canceling, base, saved, query>>

\* The response activity runs on the client's worker, or its 10 seconds pass:
\* it is never retried.  Either way the run is told.
EndResponse(c, outcome) ==
  /\ response[c] = "scheduled"
  /\ response' = [response EXCEPT ![c] = outcome]
  /\ buffer' = Append(buffer, Responded(c))
  /\ UNCHANGED <<status, input, history, task, batch, up, feed, pc, channels,
                 local, sent, canceling, ghosts, query>>

DeliverResponse(c) == EndResponse(c, "delivered")
TimeOutResponse(c) == EndResponse(c, "timedOut")

-----------------------------------------------------------------------------
(* The workflow function: Run's loop, one action per selected case.        *)

\* Exec, Update, ctx.Done() and then the response futures were registered
\* with the selector in this order.
Rank(e) == CASE e.kind = "exec" -> 1 [] e.kind = "update" -> 2
             [] e.kind = "cancel" -> 3 [] OTHER -> 4

\* Mutant of Selects: channels are stacks.
SelectsLast(i) ==
  /\ i \in DOMAIN inbox
  /\ IF woken THEN i = 1
     ELSE \A j \in DOMAIN inbox :
            \/ Rank(inbox[i]) < Rank(inbox[j])
            \/ Rank(inbox[i]) = Rank(inbox[j]) /\ i >= j

\* The case Select runs: the one that woke it, or else the first ready one.
Selects(i) ==
  /\ i \in DOMAIN inbox
  /\ IF woken THEN i = 1
     ELSE \A j \in DOMAIN inbox :
            \/ Rank(inbox[i]) < Rank(inbox[j])
            \/ Rank(inbox[i]) = Rank(inbox[j]) /\ i <= j

HasPending == inbox # << >>

\* Mutants of LoopContinues: the limit cuts off what is pending; one request
\* too many is awaited; a cancelled context is not looked at.
LoopContinuesNoDrain == ~ctxDone /\ count < Limit
LoopContinuesOneMore == ~ctxDone /\ (count <= Limit \/ HasPending)
LoopContinuesCanceled == count < Limit \/ HasPending

LoopContinues == ~ctxDone /\ (count < Limit \/ HasPending)

\* Inside Select with a ready case: when it had blocked, the loop condition
\* was tested before that.
InSelect == up /\ pc = "running" /\ (woken \/ LoopContinues)

Without(s, i) == SubSeq(s, 1, i - 1) \o SubSeq(s, i + 1, Len(s))

\* Mutant of Increment: the requests left are counted, past zero.
IncrementDown(n) == n - 1

Increment(n) == (n + 1) % UintRange

Take(i) ==
  /\ inbox' = Without(inbox, i) /\ woken' = FALSE /\ UNCHANGED ctxDone

Execute(c) ==
  /\ count' = Increment(count)
  /\ db' = Apply(db, c)
  /\ handled' = Append(handled, c)

\* Mutant of HandleExec: the response leaves before the task is recorded.
HandleExecEager(i) ==
  /\ InSelect /\ Selects(i) /\ inbox[i].kind = "exec"
  /\ Take(i) /\ Execute(inbox[i].call)
  /\ response' = [response EXCEPT ![inbox[i].call] = "scheduled"]
  /\ UNCHANGED <<status, input, history, buffer, task, batch, up, feed, pc, responding,
                 sent, canceling, ghosts, query>>

HandleExec(i) ==
  /\ InSelect /\ Selects(i) /\ inbox[i].kind = "exec"
  /\ Take(i) /\ Execute(inbox[i].call)
  /\ responding' = responding \cup {inbox[i].call}
  /\ UNCHANGED <<service, up, feed, pc, sent, canceling, ghosts, query>>

\* Mutant of HandleUpdate: the error is never fatal.
HandleUpdateLenient(i) ==
  /\ InSelect /\ Selects(i) /\ inbox[i].kind = "update"
  /\ Take(i) /\ Execute(inbox[i].call)
  /\ UNCHANGED <<service, up, feed, pc, responding, sent, canceling, ghosts, query>>

HandleUpdate(i) ==
  /\ InSelect /\ Selects(i) /\ inbox[i].kind = "update"
  /\ Take(i) /\ Execute(inbox[i].call)
  /\ pc' = IF Fails(db, inbox[i].call) /\ ~IgnoreUpdateErrors
             THEN "failing" ELSE "running"
  /\ UNCHANGED <<service, up, feed, responding, sent, canceling, ghosts, query>>

\* The handlers of ctx.Done() and of the response futures do nothing.
HandleOther(i) ==
  /\ InSelect /\ Selects(i) /\ inbox[i].kind \in {"cancel", "responded"}
  /\ Take(i)
  /\ UNCHANGED <<service, up, feed, pc, local, sent, canceling, ghosts, query>>

\* Mutant of Block: Select waits although cases are ready.
BlockAnyway ==
  /\ up /\ pc = "running" /\ LoopContinues
  /\ pc' = "blocked"
  /\ UNCHANGED <<service, up, feed, channels, local, sent, canceling, ghosts, query>>

Block ==
  /\ up /\ pc = "running" /\ LoopContinues /\ ~HasPending
  /\ pc' = "blocked"
  /\ UNCHANGED <<service, up, feed, channels, local, sent, canceling, ghosts, query>>

\* The function has ended its loop, or fails.
Returns == pc = "failing" \/ (pc = "running" /\ ~woken /\ ~LoopContinues)
CaughtUp == up /\ feed = << >> /\ (pc = "blocked" \/ Returns)

-----------------------------------------------------------------------------
(* Completing a workflow task.                                             *)

Issued == [c \in Execs |-> IF c \in responding THEN "scheduled" ELSE response[c]]

\* Activities that no worker has picked up end with their run, also those
\* whose command travels with the one that closes it.
Dropped == [c \in Execs |-> IF Issued[c] = "scheduled" THEN "dropped" ELSE Issued[c]]

Now == [db |-> db, count |-> count, handled |-> handled]

CompleteTask ==
  /\ task /\ CaughtUp /\ pc = "blocked"
  /\ task' = FALSE /\ batch' = << >> /\ history' = Append(history, batch)
  /\ response' = Issued /\ saved' = Now
  /\ UNCHANGED <<status, input, buffer, up, feed, pc, channels, local,
                 sent, canceling, crashes, base, query>>

Closes == task /\ CaughtUp /\ Returns

\* UnhandledCommand: the run cannot close while events are waiting.
RefuseClose ==
  /\ Closes /\ buffer # << >>
  /\ GiveUpTask
  /\ UNCHANGED <<sent, canceling, ghosts, query>>

Close(newStatus) ==
  /\ Closes /\ buffer = << >>
  /\ status' = newStatus
  /\ task' = FALSE /\ batch' = << >> /\ history' = Append(history, batch)
  /\ response' = Dropped /\ saved' = Now
  /\ UNCHANGED <<input, buffer, up, feed, pc, channels, local,
                 sent, canceling, crashes, base, query>>

\* An update failed, or the database could not be opened.
ReturnError == pc = "failing" /\ Close("failed")
ReturnSerializeError == pc = "running" /\ ~ctxDone /\ ~Serializes(db) /\ Close("failed")
ReturnCanceled == pc = "running" /\ ctxDone /\ Close("canceled")

\* The next run starts from the serialised database, with nothing else.
ContinueAsNew ==
  /\ Closes /\ buffer = << >> /\ pc = "running" /\ ~ctxDone /\ Serializes(db)
  /\ input' = Image(db)
  /\ base' = base \o handled
  /\ saved' = [db |-> Image(db), count |-> 0, handled |-> << >>]
  /\ history' = << >> /\ batch' = << >> /\ task' = FALSE
  /\ response' = Dropped
  /\ Evict
  /\ UNCHANGED <<status, buffer, sent, canceling, crashes, query>>

\* Mutant of AnswerQuery: answered by a worker that is still replaying.
AnswerQueryEarly ==
  /\ query.state = "sent" /\ ~task /\ up
  /\ query' = [query EXCEPT !.state = "answered", !.saw = Elems(base \o handled)]
  /\ UNCHANGED <<service, up, feed, pc, channels, local, sent, canceling, ghosts>>

\* Query: answered from the cached workflow between its tasks.
AnswerQuery ==
  /\ query.state = "sent" /\ ~task /\ CaughtUp
  /\ query' = [query EXCEPT !.state = "answered", !.saw = Elems(base \o handled)]
  /\ UNCHANGED <<service, up, feed, pc, channels, local, sent, canceling, ghosts>>

-----------------------------------------------------------------------------
Client == (\E c \in Calls : Send(c)) \/ StopDB \/ SendQuery
Service ==
  \/ StartTask \/ LoadForQuery \/ RefuseQuery \/ Feed \/ Crash
  \/ \E c \in Execs : DeliverResponse(c) \/ TimeOutResponse(c)
Workflow ==
  \/ \E i \in DOMAIN inbox : HandleExec(i) \/ HandleUpdate(i) \/ HandleOther(i)
  \/ Block
Outcome ==
  \/ CompleteTask \/ RefuseClose \/ ReturnError \/ ReturnSerializeError
  \/ ReturnCanceled \/ ContinueAsNew \/ AnswerQuery

Next == Client \/ Service \/ Workflow \/ Outcome

Spec == Init /\ [][Next]_vars

-----------------------------------------------------------------------------
(* Properties.                                                             *)

\* The state reached from d by executing the calls of s.
After(d, s) ==
  LET run[i \in 0 .. Len(s)] == IF i = 0 THEN d ELSE Apply(run[i-1], s[i])
  IN  run[Len(s)]

\* What a run may rely on if it is to find the database as the last one left it: a
\* set of databases which calls lead from one to another of, and which come back the
\* same from serialising and initialising.  A temporary table, for one, does not.
IsPlain(P) ==
  /\ P \subseteq DB /\ EmptyDB \in P
  /\ \A d \in P : Image(d) = d /\ \A c \in Calls : Apply(d, c) \in P
KeepsState == \E P : IsPlain(P)

Position(c) == CHOOSE i \in DOMAIN sent : sent[i] = c

\* No crash, retried task or continue-as-new executes a signal twice: the
\* database may be rebuilt any number of times, but in the state it is rebuilt
\* to every call counts once.
ExecutedOnce ==
  /\ \A i, j \in DOMAIN Log : i # j => Log[i] # Log[j]
  /\ LET l == base \o handled
     IN  up => \A i, j \in DOMAIN l : i # j => l[i] # l[j]

\* The database is the effect of the recorded calls in their order, from an
\* empty database through every continue-as-new.
DatabaseIsLog == saved.db = After(EmptyDB, Log)

\* A response that the service was told to deliver is for a call whose effect
\* survives any later crash, replay or continue-as-new: the client never learns
\* of an execution that is then forgotten.
AnsweredIsDurable ==
  \A c \in Execs : response[c] # "none" => c \in Elems(Log)

\* As long as the chain runs, a signal the service accepted is waiting, in a
\* task, in the run's consumed events or executed by an earlier run: the loop
\* drains what it was given before it continues as new, so no signal vanishes
\* between two runs.
NothingLost ==
  status = "running" =>
    \A c \in Elems(sent) :
      \/ c \in Signalled(buffer) \/ c \in Signalled(batch)
      \/ \E i \in DOMAIN history : c \in Signalled(history[i])
      \/ c \in Elems(base)

\* Between tasks nothing that the run consumed is left unexecuted.
IdleMeansExecuted ==
  status = "running" /\ ~task =>
    \A i \in DOMAIN history : Signalled(history[i]) \subseteq Elems(saved.handled)

\* A worker that has replayed the consumed batches is in the state another one
\* was in when it consumed them, and never closes the run on the way.
ReplayIsFaithful ==
  /\ up /\ pc = "blocked" /\ feed = (IF task THEN <<batch>> ELSE << >>)
       => Now = saved
  /\ up /\ status = "running" /\ Returns => feed = << >> /\ task

\* A run that has executed as many calls as its limit never waits for another
\* event: its history does not grow past what it was given by then.
IdleBelowLimit == CaughtUp /\ pc = "blocked" => Len(handled) < Limit

\* Signals of one kind are executed in the order the service accepted them
\* (an Exec may overtake an Update: it is registered first).
ChannelsAreFifo ==
  \A i, j \in DOMAIN Log :
    i < j /\ (Log[i] \in Execs <=> Log[j] \in Execs)
      => Position(Log[i]) < Position(Log[j])

\* The i-th call of the log is an update that failed and counts.
FailedUpdate(i) ==
  /\ Log[i] \in Updates /\ ~IgnoreUpdateErrors
  /\ Fails(After(EmptyDB, SubSeq(Log, 1, i - 1)), Log[i])

\* The chain never goes on after a failed update, through replays and runs, and
\* fails for nothing else but a database it cannot open or serialise.
FailsOnFailedUpdate ==
  /\ \A i \in DOMAIN Log : FailedUpdate(i) => status = "failed" /\ i = Len(Log)
  /\ status = "failed" =>
       \/ ~Opens(input) \/ ~Serializes(saved.db)
       \/ Log # << >> /\ FailedUpdate(Len(Log))

\* A query reflects every Exec whose response had been delivered when it was
\* sent, whichever worker answers it and also after the chain closed.
QueryReadsAnswered == query.state = "answered" => query.must \subseteq query.saw

\* An accepted signal is executed, or the chain closes first: neither blocked
\* Selects, retried tasks nor continue-as-new leave one behind.
SignalsAreExecuted ==
  \A c \in Calls : c \in Elems(sent) ~> c \in Elems(Log) \/ status # "running"

\* StopDB stops the chain, also when the run is just continuing as new.
CancelCloses == canceling ~> status # "running"

\* What README.md says of executions (the client "receives a completed statement
\* response via an activity execution on a worker the client is listening on"):
\* while the chain runs no
\* response is abandoned before its client's worker was asked to take it.
ResponseNotDropped ==
  status = "running" => \A c \in Execs : response[c] # "dropped"

\* What README.md says of stopping (a database "can be created w/ a few simple
\* mutations via executions or updates and then immediately cancelled, and
\* queries will continue to work"): what was sent before the cancellation is
\* part of the database that later queries see.
StopKeepsMutations ==
  status = "canceled" =>
    \A i \in DOMAIN history : \A j, k \in DOMAIN history[i] :
      j < k /\ IsSignal(history[i][j]) /\ history[i][k] = CancelRequest
        => history[i][j].call \in Elems(Log)
=============================================================================
