# A verification project for temporal-sdk-go-advanced

TLA+ models of the parts of this repository that have concurrency, replay or
failure in them, model-checked with TLC, with proofs checked by TLAPS. The
repository is a collection of proof-of-concept extensions to Temporal's Go SDK.
The piece that is both finished and hard is `temporalsqlite`, a SQLite database
that lives in a workflow. It comes first here.

## Inventory

| Part | State it keeps | Operations | Talks to |
|---|---|---|---|
| Statement execution, `temporalsqlite/db.go` | the connection; two flags the authorizer sets | `openDB`, `execAll`, `exec`, `execSingle`, `serialize` | SQLite |
| Workflow, `temporalsqlite/worker.go` | database, request counter, selector; all of it rebuilt by replay | `Run` (loop over Exec, Update, cancellation), `Query`, `Serialize`, continue-as-new | statement execution; clients by signals, queries and response activities |
| Client, `temporalsqlite/client.go` and generated code | a response worker with its own task queue | `ConnectDB`, `Exec`, `Update`, `Query` and their `Simple` and `Multi` forms, `Serialize`, `StopDB`, `Close` | the workflow, through the service |
| Calls from workflows, generated code | a signal channel per call | `ExecExternal`, `SqliteChildRun.Exec`, `ExecResponseExternal` | the workflow, by signals both ways |
| Call responses, `temporalutil/clientutil` | map of pending requests under a lock, a goroutine and three channels per call | `Call`, `PrepareCall`, `onResponse` | callers, the response worker |
| Values, `temporalsqlite/stmt.go` | none | conversion to and from protobuf | client |
| Protobuf generator, `temporalproto/cmd` | the service being generated | validation, code generation | protoc |
| Test sequencer, `temporalutil/testutil` | two channels per sleep | `AddSequence`, `Sleep`, `Tick` | the SDK's test environment |
| Event listeners, `tracecompile/tracert` | a list that is replaced, never changed, two locks | add, remove, `onEvent` | a patched Go runtime |
| Sandbox worker, trace compiler, `temporalmodern` | - | unfinished: their entry points panic with TODO | - |
| CLI, `temporalsqlite/cmd` | none: each command is a process | get-or-create, stop, save, query, update, exec, worker | client, workflow |

Some directories (`temporalcrdt`, `temporaljs`, `temporallua`, ...) hold a README only.

What is hard:

* **Replay.** The workflow's memory is a cache. A worker may be lost at any
  moment, and another one executes the same function on the recorded events.
  What clients have been told must survive that; nothing may count twice.
* **Batches.** A workflow task brings a batch of events. The service refuses a
  closing command (failure, cancellation, continue-as-new) when more events
  have come meanwhile, and the task is executed again with a larger batch.
* **Continue-as-new.** A run hands only its serialised database to the next one.
  Signals it has consumed and not executed, activities it has scheduled, and
  connection state that is not in the file go with it.
* **One connection for all.** Queries, which are not part of the replayed
  history, run on the same connection as signals.
* **Commands without deadlines.** A command connects, which may create the
  database anew, asks and waits, while others stop or fail the same database.
* **Width of data.** Go integers, pointers and maps become protobuf values with
  32-bit indexes, SQLite parameters, and Go values again.
* **Two races per call.** A caller, its goroutine, response activities that may
  be executed more than once, and the end of contexts meet in channels of
  capacity one.

Correctness, per part: statement execution is a deterministic function of
database and request, and read-only requests do not write; the workflow's
database is always the effect of its signals in order, each once, through
crashes and restarts; no accepted signal is lost while the chain of runs lives;
values come back as they were given and to the parameter they were given for;
calls end once, with the response to their own request, and leave nothing behind;
an answer survives whatever others do to the database, short of having it
created again once it has stopped.

## Modules

| Module | Models |
|---|---|
| `SqliteStmt` | `db.go` as a function: `ExecAll` on a database and a list of statements. The SQL engine is a parameter (`EngineAssumption`) |
| `SqliteDb` | `db.go` step by step, with the flags on the connection |
| `SqliteWorkflow` | `worker.go`, with the service and SDK it depends on |
| `SqliteValues` | `stmt.go`, `bindParams`, `stmtRow` and the command line's parameters: conversion of values and statements |
| `StatementPath` | a call from the client or the command line through `SqliteDb` and back: what the caller is told |
| `SqliteCommands` | `ConnectDB` and the commands of the CLI as processes, on `SqliteWorkflow` |
| `CallOutcome` | abstract specification of a client call |
| `CallResponse` | `response_handler.go` and the generated `Exec`; implements `CallOutcome` |
| `ExecCalls` | `CallResponse` with the workflow that answers, the response worker and its end, and workflows that call |
| `ListenerList` | abstract specification of the listener list: each change is one step |
| `EventListeners` | `event.go`, lock by lock; implements `ListenerList` |
| `Sequencer` | `sequence.go`, with the main loop of the SDK's test environment |
| `ServiceDescriptor` | `service.go` of the generator: services of a protobuf file and their validation |
| `ServiceGenerator` | `gen.go`, `gen_client.go`, `gen_worker.go`: what each function declares and refers to |
| `StatementPathProofs` | theorems of `SqliteDb` and `StatementPath` |
| `SqliteWorkflowProofs`, `SqliteReplayProofs` | theorems of `SqliteWorkflow`: what the service and the worker keep; replay, and the database as the effect of the calls. The second has those of `SqliteCommands` too |
| `ExecCallsProofs`, `EventListenersProofs`, `SequencerProofs`, `ServiceGeneratorProofs` | theorems of the modules they are named after; `ExecCallsProofs` has those of `CallResponse` too |
| `Induction` | lemmas: induction over numbers, recursive functions |
| `MCEngine` | a small SQL engine for the model checker |
| `MCSqliteDb`, `MCStatementPath`, `MCSqliteWorkflow`, `MCSqliteCommands`, `MCExecCalls`, `MCEventListeners`, `MCSequencer`, `MCServiceGenerator` | instances |

`StatementPath` extends `SqliteDb` and `SqliteValues`, `SqliteCommands` extends
`SqliteWorkflow`, `ExecCalls` extends `CallResponse`: the compositions keep the
actions of their components and add who calls them.

The operators called *Mutant of ...* are plausible mistakes in the definition
they precede. They are not used by the specifications; substituting one shows
that a property notices.

### SqliteStmt and SqliteDb

A statement has its list of queries, its multi flag and parameters that are
absent, bindable or not. A query is a value. What compiling it reports to the
authorizer is `Mutates` and `NonDet`; what executing it does is `Effect`,
`StepOk` and `Rows`. The only thing assumed of the engine is that a query that
reports nothing but READ, FUNCTION and SELECT actions does not change the state.
`SqliteDb` has an action for each stage of the loops: `NextStmt` (form check),
`Prepare` (clear the flags, compile, callback sets them), `Refuse` or
`StepRows`, `AppendResult` with its break, `Return`. The connection persists
from call to call and the flags with it. `Refusal` keeps the order of the
checks in `execSingle`.

### SqliteValues and StatementPath

A Go value is its kind and a number that stands for its data; pointers are what
they lead to. `ToProtoValue` refuses what has no SQLite value, among it unsigned
integers above `MaxInt64`. `ToProtos` is a set: two indexes that are the same in
32 bits overwrite one another in the order of Go's map. `BoundArgs` are the values
that a query's parameters get, names over indexes, NULL for the rest, and
`toStmt` is what a command line means. In `StatementPath` a call goes through
`Send` (or `CommandLine`), the steps of `SqliteDb` on the queries with their bound
values, and `Receive`, where `Answer` is what `Exec`, `ExecSimple`, `ExecMulti`,
their `Query` forms, `Update` or a command returns; "panic" is the index
expression of `ExecSimple`. Calls follow one another; concurrency is in the other
modules. `ReadsBack` compares what a caller lists with the history of what
callers meant (`given`). Floats, strings and bytes are carried as they are: NaN,
which SQLite stores as NULL, is left out.

### SqliteWorkflow

Service: `status`, the current run's `input`, `history` (batches that completed
tasks consumed), `buffer` (events since), `task` and `batch`, and per Exec its
response activity. Worker: the cached workflow. `feed` holds the batches it has
yet to be given, `inbox` the signals and futures it can select, `pc` its
coroutine, then `db`, `count` and `handled` (the calls executed in this run).
The main actions:

* `StartTask`, `LoadForQuery`: a worker takes a task, or is loaded for a query;
  without a cached workflow it starts over from `input` and all of `history`.
* `Feed`: the SDK applies a batch: all signals go to their channels and the
  context is cancelled *before* the coroutine runs. A coroutine blocked in
  `Select` is woken by the first event and is then inside `Select`, past the
  loop condition (`woken`).
* `HandleExec`, `HandleUpdate`, `HandleOther`, `Block`: one selected case each,
  in the order of registration when several are ready (`Rank`).
* `CompleteTask`, `RefuseClose`, `ReturnError`, `ReturnSerializeError`,
  `ReturnCanceled`, `ContinueAsNew`: how a task ends.
* `Crash` loses the worker, at any point of a task or between tasks.

The database is a parameter (`Apply`, `Fails`, `Image`, `Opens`, `Serializes`);
the MC module takes `Apply` and `Fails` from `SqliteStmt!ExecAll` on the small
engine. Each call is sent once, so calls identify themselves in the logs.

### SqliteCommands

Each command is run once: it connects (`Connect`: with REJECT_DUPLICATE or, if told
to create stopped databases, ALLOW_DUPLICATE_FAILED_ONLY; `Recreate` is the new
chain), sends, asks or stops, waits and exits. Query, update and exec connect
before they parse their statement, so `Connect` may end in an error that leaves a
new database behind. Stop and save do not connect. Get-or-create shows the status
and, if that was a failure, waits for the result of the run that is then current.
A query that is in flight at a re-creation is answered as if it had come before
it, or by the new run. `Respond` joins the delivery of an Exec's response with the
end of its command. The worker command is the worker of `SqliteWorkflow`.

### CallResponse

Per call a caller (`idle`, `prepared`, `waiting`, then how it ended), the
goroutine of `PrepareCall`, and the three channels as sets of calls whose
channel is full. `Direct` calls go through `CallResponseHandler.Call`, which
also selects on its context; the others are the generated `Exec`. `LookUp` and
`Deliver` are `onResponse`'s two halves. A failing `SignalWorkflow` may or may
not have reached the workflow. `EndsOnce` is the refinement of `CallOutcome`.
`ResponseKept` is what the room in the channels is for: `onResponse` does not wait
for the goroutine, and drops what it cannot send.

### ExecCalls

The target answers what it has accepted in any order (`Handle`, `Respond`). To a
client it schedules the activity (`reply`), which the client's worker starts
(`LookUp`) and finishes (`Deliver`), which can time out before or during that
and be retried, and which is dropped when the target closes first. To a workflow
it sends a signal named by the id that the caller has chosen (`SignalName`); the
caller takes what comes by that name (`Receive`), so the model keeps apart whose
response it was (`received`). `ExecExternal` refuses requests without an id or
with a task queue. `CloseClient`, `CloseTarget` and `CloseParent` may happen at any
time after the first call. That a workflow chooses different ids for its calls
is an assumption (`ExecAssumption`): the code checks only that there is one.

### EventListeners

`list` is the slice `eventListeners` points to, `mutex` who holds the writers' mutex,
`once` whether the runtime reports events. Slices are values here: that an old one is
never written in place is read off the code, which fills a new one before it
publishes it, and not checked. A goroutine goes through `BeginAdd`
or `BeginRemove`, `EnterOnce` and `SetHook` (the `sync.Once`), `Lock`, `Read`,
`Write`, `EndCall` and `Return`; `Report` takes the list as it is and
`CallListener` goes on from that copy while others change the list. A listener
may be removed twice, and removal of one that is not found returns early.
`ListenerList` has one step for each change, between call and return:
`Linearizes` is the refinement.

### Sequencer

A function given to `AddSequence` is the list of durations it sleeps for
(`Plan`); what it does in between is to signal the workflow or to add another
function. `pc` follows its goroutine through `Sleep`, statement by statement,
`last` is `lastCallbackEndCh`, and `begun` and `ended` are the closed channels.
The test environment is external: `loop` executes one posted callback at a time
(`Start`, `Delay`, `Fire`, `Signalled`), is held in a callback until its channel
is closed (`Resume`), and moves the clock to the next timer when it has nothing
else to do (`SkipTime`). `wake` is a history variable.

### ServiceGenerator

The generator writes one Go file from several functions, each of which relies on
names that others declare, under conditions written out in both places. The
model keeps these and drops the text: a generating function is the set of names
it declares and the set of names, and fields of messages, that its code refers
to. A Go name is a pair of a form (`%ResponseExternal`) and the protobuf method
in it; methods have their receiver type in front. `NewService` validates a
service and, if it has no errors, lists the functions to call (`steps`, in the
order of `genService`); `Generate` calls the next; `Panic` is a nil pointer in
it; `Finish` returns the errors of all services. `Compiles` relates what is used
to what is declared for files that are `WellFormed`: the generator itself does
not check that a method has one option, that a workflow lists an item once, that
methods of different services have different names (what it generates has no
prefix), or that a response has an id. What every service declares (`Client`,
`NewClient`) clashes as soon as there are two. Names of different forms are taken
to be different, fields to be singular, and options have no defaults.

## Runs

| Run | Expectation | Shows |
|---|---|---|
| `sqlite_db` | pass | steps agree with `ExecAll`; read-only calls do not write; refusals are about the right query; callers read back what callers gave, and are told of success only for what was executed |
| `sqlite_db_doc` | violation | `db.go:115` breaks on success: lists of statements stop after the first success, against `sqlite.proto:57` |
| `workflow` | pass | the safety of the workflow with a crash, a query, a cancellation and a failing update |
| `workflow_live` | pass | commands of all kinds in any order: answers survive, accepted signals are executed, stopping stops, commands exit but where their answer is lost |
| `workflow_response` | violation | the response of the Exec that reaches the limit is dropped |
| `workflow_stop` | violation | an update sent before `StopDB` is not executed when both arrive in one workflow task |
| `call_response` | pass | clients and workflows that call one target: calls end once and with their own response, responses arrive and are not lost on their way through the channels, nothing leaks, no goroutine is held up |
| `event_listeners` | pass | changes of the list are linearizable and return, also if listeners never do; registered listeners hear, in order |
| `sequencer` | pass | functions and workflow take turns, sleep exactly, and return |
| `generator` | pass | what is generated from a well-formed file that passes validation compiles |
| `generator_calls` | violation | a call without `response_task_queue` is accepted, and the generator panics |
| `generator_response` | violation | a call whose response lacks the field `id` is accepted: validation looks at the request |

Bounds. `sqlite_db`: a table with room for two values, a temporary table, ten
queries with none to two parameters, and calls and command lines that reach every
exit of `execSingle`, every form of parameter and every return of the client, on
every state of that engine. The engine's state is finite, so calls follow one
another without a bound. `MaxInt64` is 1 and `Uint32Range` 4: the values on either
side of both limits are among the calls, and no other place looks at their size.
The engine can store a negative integer too, which no caller gives: what an
unchecked conversion of a large unsigned integer would have made of it.
`sqlite_db_doc` has its own, smaller engine.
`workflow`: two Execs and one Update with a limit of 2 give a continue-as-new
with a third call before, during and after it; one crash (`MaxCrashes`) suffices
to interrupt every stage of a task, and refused commands already re-execute
tasks any number of times. `workflow_live`: any three of six commands
(`MaxCommands`), of which one is a query or a save, with a limit of 2 and one crash.
Two calls reach the limit, so that a response can arrive or be dropped; the
update fails by itself and succeeds after the exec; three commands are an exec, a
stop and a query, or a failure, a get-or-create that waits, and a command that
creates the database again. Each exception that `CommandsEnd` makes is needed:
without it TLC finds a command that waits. One of the small engine's states cannot be opened and
one cannot be serialised, to reach the error returns of `Run`. `IgnoreUpdateErrors` is FALSE, the default,
in every run. `UintRange` is 8
in place of 2^32: above every count and limit of the runs. (A default limit of
2^32 would be truncated to zero, `Limit`, and every run would continue as new at
once; no run shows it.) `call_response`: any two
(`MaxCalls`) of a generated client's call, a direct one and three calls of two
workflows; two activity goroutines; a client's activity has two attempts
(`MaxAttempts`) unless the second call is a client's as well
(`MaxClientCalls`). Calls share the map, the target and, in one workflow, the
signals, so two suffice to mix them up.
`event_listeners`: two goroutines, which can be in each other's critical section
if there is a way, and two listeners, a list in which order matters; what it
shows of the list is proved for any number of both.
`sequencer`: two functions, with sleeps of zero, equal and different durations,
that end at different and at the same times; more functions only add timers.
`generator`: files with one method of each kind, of which one at a time takes all
its forms (references there, absent or unresolved; fields absent, a string or
not), since no generating function looks at two methods that a workflow does not
relate; and files with no service, an empty one, and two.
Deadlock checking is off where the system may stop: the workflow closes, all
calls end.

Fairness. In `SqliteWorkflow`: the service hands out tasks, the SDK runs the
coroutine until it blocks or returns and reports the outcome, activities are
executed or time out, queries are delivered. Neither clients nor crashes are
fair, and losses of the worker are bounded, as no workflow progresses if its
workers keep dying. `TimeOutResponse` is an alternative to delivery: no property
relies on a response being delivered. The fairness is stated in
`SqliteCommands` (`LifeFairness`), which adds that a command that can go on does;
nobody has to run one. `CommandsEnd` excepts an exec whose response timed out or was
dropped, or whose database stopped or was replaced (the tool sets no deadline),
and a get-or-create whose failed database has been created again. In `ExecCalls`:
runnable goroutines and workflows run, the service delivers to those who are
there; nobody has to call or to close, no context has to end, nothing has to time
out. `CallsEnd` therefore speaks only of calls whose response has reached their
channel or whose context is done, and `ResponsesArrive` excepts calls whose
target's run, client or own workflow has closed, or whose activity timed out (a run
that continues as new has closed: the response it drops, `workflow_response`, is not
`ResponsesArrive`'s business). In `EventListeners`: goroutines that hold or can take a lock go on, and
the mutex does not starve (Go's mutexes hand over after a millisecond);
listeners are not fair. In `Sequencer`: the main loop and goroutines run when
they can, and the code of functions and workflow sleeps, blocks or returns.

## Proofs

The theorems hold for every value of the constants that the named assumptions
allow. TLC evaluates these on every run, and checks each of the properties on a
small instance. What follows says which invariant makes a property inductive,
and why it is needed.

**Statement execution** (`StatementPathProofs`, from `EngineAssumption` and
`ValueAssumption`, and for calls along the path `PathAssumption`: any engine, any
statements). Types; a read-only call changes nothing (`ReadOnlyIsSafe`); no query
with a disallowed function is stepped (`DeterministicOnly`); refusals are about the
query they stop (`RefusalsAreJustified`): while a query is vetted the flags of the
connection are its own (`FlagsFresh`), and a read-only query that passes has
nothing to do but read.

`StepsAreExecAll`: the steps add up to `ExecAll`. `ExecAll` and `RunStmt` are folds,
so the states in between have no name. `StmtRun` and `CallRun` are the same folds
as functions of how far they have come (`RunStmtIs`, `ExecAllIs`), and `RunInv` says
that the connection is at some point of these functions: the results so far are
those of the statements so far (`ResultsAreRun`), the current one is that of its
queries so far (`QueriesAreRun`), what is left to do is the rest (`TodoIsRest`).

`CallersAreToldTheTruth` adds `Underway`, which holds while a call is in progress:
its statements are what its caller sent, converted, and the caller has been told
nothing. That a result is of all queries or has an error is an induction over
`StmtRun` (`ResultIsJustified`).

`CallersReadBack` needs an engine of which a table can be read at all. `HasTable`
says what that is: a query adds at the end what it adds, in terms of what is
bound to it, and listing returns the table. It says nothing of conversion,
binding, or the order in which statements and queries are executed. The
invariant, `TableInv`, says that at every step the values that callers gave are
those of the table in Go's terms, and that what was listed last is the table.
The conversions there and back are lemmas: `ValueReadsBack` for a value,
`WireIs` for a statement on the wire, which has every index if none is beyond 32
bits, `BoundIsMeant` for what is bound.

**Workflow** (`SqliteWorkflowProofs`, `SqliteReplayProofs`, from
`WorkflowAssumption`: any number of calls, any limit, any number of crashes).
Types; `NoSignalLost`; `AnswersAreDurable`; `ConsumedIsExecuted`. `NothingLost` is
not inductive: at a continue-as-new the consumed signals must all be in `handled`,
which is the worker's state, and the worker may have been rebuilt half-way. The
invariant `IInv` therefore says where each consumed signal is at any moment of a
replay - executed, in the inbox, or in a batch still to be fed
(`ConsumedIsTracked`) - that the batch of the task comes last (`BatchIsTracked`),
and that the worker knows nothing else (`NothingInvented`).

`SignalsExecuteOnce` and `ChannelOrder` are about order. `ServiceOrder` and
`WorkerOrder` say that a signal is ahead of all that were accepted after it on
every way it can take, from the buffer through batches, history and the worker's
feed to the inbox; in the inbox only signals of different kinds overtake each
other. As a signal is never ahead of itself, it is never executed twice.

`ReplaysAreFaithful`: what a worker does next depends on its state and on its
next batch. The invariant `Replay` says that there is a set of states which every
replay of the recorded history goes through, with the recorded state as its only
end, and that the worker is in one of them or, during a task, on its way on from
that end. A task that completes adds its states to the set. Nothing in it is
specific to what the calls do. `QueriesReadAnswered` follows from this and from
`MustIsRecorded`.

`RunsStopAtLimit` has a hypothesis about the behaviour: no run executes as many
calls as the 32-bit counter can tell apart. It is not in the code. Without it the
counter passes zero and the limit is not noticed.

`LogIsDatabase` and `FailedUpdateIsLast` are proved under `KeepsState`: the calls
keep to databases which come back from serialising as they were. The code does
not see to it, and a temporary table shows that it is needed: what a run left on
the connection and not in the file is gone in the next one (see the hazards).
The instance of the runs satisfies it, which TLC checks (`PlainAssumption`).
`StateIsLog` says of the service's and of the worker's database that it is the
effect of the calls before it, and `FailuresEnd` that only the last of these
calls may have failed.

**Commands** (at the end of `SqliteReplayProofs`, from the same and
`CommandAssumption`).
`AnswersLast`: what an exec command was told it did is in every later answer.
Until a stopped database is created again each step is one of `SqliteWorkflow`
or leaves it alone (`LifeIsWorkflow`), so all the invariants above hold (`Sound`).
What they lack is that an answer is final: a task that is executed again must
not issue a response that was delivered. `RespondsToBatch` says that a task
responds to calls of its own batch only, and `NothingLost` that these are new.

**Calls** (`ExecCallsProofs`, from `CallAssumption` and `ExecAssumption`: any
calls, handlers, attempts and workflows). `CallsImplementOutcome` is the
refinement of `CallOutcome` by `CallResponse`: initial states map to initial
states, every step to a step or a stutter, given that channels and handlers hold
only responses that an activity ran for (`Offered`) and that a call's context ends
before it returns only with its caller's (`Expired`). `ExecImplementsCalls`: each
step of `ExecCalls` is one of `CallResponse` or none of its, and
`ExecImplementsOutcome` follows, as does `KeepsResponse`: for it one has to know
that while a goroutine listens its call's entry is in the map and `okCh` is empty,
that once it has listened the response is in `okCh` unless the context has ended,
and that no activity runs for a call that is only prepared (`Listening`).
`GetsOwnResponse`: a response is in the channel
named after its own request (`InOwnChannel`).

**Event listeners** (`EventListenersProofs`, any number of goroutines and
listeners): types; `RegisteredAreListed`; `CallsAreOrdered`; and
`ListIsLinearizable`, that the implementation refines `ListenerList`.

**Sequencer** (`SequencerProofs`, from `PlanAssumption`: any functions, any
durations): types; `TurnsAreTaken`; `SleepsAreExact`; `ChannelsCloseOnce`. None is
inductive: that a function which wakes up finds the main loop held for it, at
the right time, depends on the callback it registered long before, which may
since have been a queued request, a timer, or a callback that is being executed.
`IInv` follows the callback through these (`Timed`), says which channels exist at
each point of `Sleep` (`Numbered`), and who may close the one the main loop waits
for (`Turn`, `Asleep`). For the channels of callbacks, `Once` says that each sleep
has at most one callback, and none once it has begun.

**Generator** (`ServiceGeneratorProofs`, from `FileAssumption`: any files, with any
number of services and methods). `GeneratedCompiles` has three parts. `genService`
is concatenation and recursion over the methods, so first its list of calls is
shown to have every pair of a set, `StepSet`, exactly once (`ServiceLists`, from
lemmas on what `Among`, `EachOf` and `FlattenSeq` list). Then two things are shown
of that set. A name has one owner: its form, the method in it and the one option of
that method tell which function declares it (`OneOwner`), and so two calls never
declare the same name but for the names without a method, in two services. And
every reference is resolved (`StepResolved`): validation (`WorkflowValid`,
`CallValid`) has found the methods and fields, and another function declares the
form of the name for methods of that kind, under the same condition. This is where
each condition that is written out twice in the generator is used, once for what
is declared and once for what is referred to. The invariant, `GeneratesInOrder`,
says that what is declared is what the calls made so far declare, that those to be
made are listed once, and that all references are to names which some call for a
service that was begun declares; when the list is empty they have all been made.
It is of well-formed files only: nothing in the generator sees to that.

`Induction` has what some of these need: induction over numbers and the existence
and uniqueness of recursive functions. They are stated with sets and functions,
since a lemma with an operator parameter cannot be instantiated by the provers.

Only model-checked:

* liveness, as the prover has neither fairness nor ENABLED: `SignalsAreExecuted`,
  `CancelCloses` and `CommandsEnd` of the database, `CallsEnd`, `ResponsesArrive`,
  `NoLeak` and `HandlersReturn` of calls, `ChangesReturn` of listeners,
  `FunctionsReturn` of the sequencer;
* the five runs that show a violation.

## Not modelled

* SQL itself, logging, and compression, which is taken to be lossless;
  `InitializeSqlite` is part of `Image` and `Opens`.
* Floats that SQLite changes (NaN); the text of SQL.
* Starting the database as a child workflow and the futures of `SqliteChildRun`
  other than `Exec`; two workflow calls with the same id.
* Calls that run at the same time on the level of statements: a workflow executes
  one after the other (`SqliteWorkflow`), and `StatementPath` starts there.
* The deadlock detector and payload limits of the SDK.
* Functions of a sequence that leave their goroutine without returning, as a
  failing `require` does: the test then hangs.
* Flags, tables that are printed and files that are written by the command-line
  tool.
* Generated message types (`*.pb.go` of protoc): no code of this repository.
* Comments, signatures and formatting of generated code.
* `BuildFuncName` and the options of the trace compiler, the API sketches of
  `temporalmodern`: they panic with TODO. The sandbox worker:
  `sandboxworker/worker.go` does not compile (a function without a body, undefined
  names) and the entry points of `sandboxrt` panic with TODO.

## Plan

What is left to model is unfinished in the code or generated. Every invariant,
action property and refinement that a passing run checks is a theorem; what is
left to TLC is liveness. What would come next follows the code: the trace compiler
and the sandbox worker, once their functions do something.
