--------------------------- MODULE SqliteCommands ---------------------------
(***************************************************************************)
(* The life of a database as its clients see it: ConnectDB, which creates  *)
(* it or not (client.go), and the commands of the command line tool, each  *)
(* a process of its own (cmd/temporalsqlite), on the workflow and service  *)
(* of SqliteWorkflow.                                                      *)
(*                                                                         *)
(* Exec and update commands are named by the call they send.  The tool     *)
(* sets no deadline on any of its requests.                                *)
(***************************************************************************)
EXTENDS SqliteWorkflow, FiniteSets

CONSTANTS
  Queries,      (* query commands                                          *)
  Saves,        (* save commands                                           *)
  Gets,         (* get-or-create commands                                  *)
  StopCmds,     (* stop commands                                           *)
  MaxCommands   (* bound: commands that are run                            *)

Commands == Calls \cup Queries \cup Saves \cup Gets \cup StopCmds

ASSUME CommandAssumption ==
  /\ MaxCommands \in Nat
  /\ Calls \cap (Queries \cup Saves \cup Gets \cup StopCmds) = {}
  /\ Queries \cap (Saves \cup Gets \cup StopCmds) = {}
  /\ Saves \cap (Gets \cup StopCmds) = {} /\ Gets \cap StopCmds = {}

VARIABLES
  cmd,        (* per command: "idle", "connected", "waiting", and then     *)
              (* "error", or "ok" if its request was answered (the answer  *)
              (* may still be an error of SQL)                             *)
  exists,     (* a database with the name has ever been created            *)
  recreated,  (* a command was told to create it again if it stopped       *)
  asked       (* Execs that had exited with a response when the query was  *)
              (* sent                                                      *)

commandVars == <<cmd, exists, recreated, asked>>
lifeVars == <<vars, commandVars>>

LifeInit ==
  /\ Init
  /\ cmd = [k \in Commands |-> "idle"]
  /\ exists = FALSE /\ recreated = FALSE /\ asked = {}

Goes(k, stage) == cmd' = [cmd EXCEPT ![k] = stage]
Exits(k, ok) == Goes(k, IF ok THEN "ok" ELSE "error")

\* Bounds: MaxCommands, and one query or save (SqliteWorkflow has one query).
Started == {k \in Commands : cmd[k] # "idle"}
MayStart(k) ==
  /\ k \notin Started /\ Cardinality(Started) < MaxCommands
  /\ k \in Queries \cup Saves => Started \cap (Queries \cup Saves) = {}

Running == exists /\ status = "running"

-----------------------------------------------------------------------------
(* ConnectDB.                                                              *)

\* Mutant of ReplacedStates: the service's own default policy.
ReplacedStatesDefault(createIfStopped) == Status \ {"running"}

\* The workflow id reuse policy: REJECT_DUPLICATE unless the caller set another,
\* which the tool does (ALLOW_DUPLICATE_FAILED_ONLY) when told so.
ReplacedStates(createIfStopped) == IF createIfStopped THEN {"failed", "canceled"} ELSE {}

\* A new chain under the same workflow id.
Recreate ==
  /\ status' = "running" /\ input' = EmptyDB
  /\ history' = << >> /\ buffer' = << >> /\ task' = FALSE /\ batch' = << >>
  /\ response' = [c \in Execs |-> "none"]
  /\ up' = FALSE /\ Restart(<< >>, EmptyDB)
  /\ sent' = << >> /\ canceling' = FALSE
  /\ base' = << >> /\ saved' = [db |-> EmptyDB, count |-> 0, handled |-> << >>]
  /\ UNCHANGED <<crashes, query>>

\* A run there is already, running or closed, is no error.  Get-or-create, query,
\* update and exec begin so; a statement is parsed only after that.
Connect(k) ==
  /\ MayStart(k) /\ k \in Calls \cup Queries \cup Gets
  /\ \E createIfStopped \in BOOLEAN :
       /\ recreated' = (recreated \/ createIfStopped)
       /\ IF exists /\ status \in ReplacedStates(createIfStopped)
            THEN Recreate ELSE UNCHANGED vars
  /\ exists' = TRUE
  /\ Goes(k, "connected") \/ (k \notin Gets /\ Exits(k, FALSE))
  /\ UNCHANGED asked

\* The database must have a name, and other arguments are errors.
Misuse(k) ==
  /\ MayStart(k) /\ Exits(k, FALSE)
  /\ UNCHANGED <<vars, exists, recreated, asked>>

-----------------------------------------------------------------------------
(* Commands that are connected, or only name the workflow (stop, save).    *)

\* An update is on its way, an exec waits for its response; a chain that is
\* closed takes no signal.
SendCommand(k) ==
  /\ cmd[k] = "connected" /\ k \in Calls
  /\ IF Running THEN Send(k) /\ Goes(k, IF k \in Execs THEN "waiting" ELSE "ok")
                ELSE UNCHANGED vars /\ Exits(k, FALSE)
  /\ UNCHANGED <<exists, recreated, asked>>

Stop(k) ==
  /\ MayStart(k) /\ k \in StopCmds
  /\ IF Running THEN (StopDB \/ (canceling /\ UNCHANGED vars)) /\ Exits(k, TRUE)
                ELSE UNCHANGED vars /\ Exits(k, FALSE)
  /\ UNCHANGED <<exists, recreated, asked>>

Ask(k) ==
  /\ SendQuery /\ Goes(k, "waiting")
  /\ asked' = {e \in Execs : cmd[e] = "ok"}
  /\ UNCHANGED <<exists, recreated>>

AskQuery(k) == k \in Queries /\ cmd[k] = "connected" /\ Ask(k)

\* Save does not connect: it may find no workflow of that name.
AskSave(k) ==
  /\ k \in Saves /\ MayStart(k)
  /\ IF exists THEN Ask(k)
               ELSE Exits(k, FALSE) /\ UNCHANGED <<vars, exists, recreated, asked>>

\* Get-or-create shows the status, and the failure of what has failed: it asks for
\* the result of whatever run is then the current one.
Describe(k) ==
  /\ k \in Gets /\ cmd[k] = "connected"
  /\ Goes(k, IF status = "failed" THEN "waiting" ELSE "ok")
  /\ UNCHANGED <<vars, exists, recreated, asked>>

GetResult(k) ==
  /\ k \in Gets /\ cmd[k] = "waiting" /\ status # "running"
  /\ Exits(k, TRUE)
  /\ UNCHANGED <<vars, exists, recreated, asked>>

-----------------------------------------------------------------------------
(* What the service brings.                                                *)

Respond(c) ==
  /\ DeliverResponse(c)
  /\ cmd[c] = "waiting" /\ Exits(c, TRUE)
  /\ UNCHANGED <<exists, recreated, asked>>

\* A query's result, or a serialized database, which can be an error as well.
Result(k) ==
  /\ k \in Queries \cup Saves /\ cmd[k] = "waiting"
  /\ \/ AnswerQuery /\ Exits(k, k \in Queries \/ Serializes(db))
     \/ RefuseQuery /\ Exits(k, FALSE)
  /\ UNCHANGED <<exists, recreated, asked>>

Closing ==
  CompleteTask \/ RefuseClose \/ ReturnError \/ ReturnSerializeError
    \/ ReturnCanceled \/ ContinueAsNew

\* What service and worker (a process of its own) do, once there is a database.
Alone(A) == exists /\ A /\ UNCHANGED commandVars

Background ==
  \/ Alone(StartTask) \/ Alone(LoadForQuery) \/ Alone(Feed) \/ Alone(Crash)
  \/ Alone(Workflow) \/ Alone(Closing)
  \/ \E c \in Execs : Alone(TimeOutResponse(c))

Command(k) ==
  \/ Connect(k) \/ Misuse(k) \/ SendCommand(k) \/ Stop(k) \/ AskQuery(k) \/ AskSave(k)
  \/ Describe(k) \/ GetResult(k) \/ Result(k)

LifeNext ==
  \/ \E k \in Commands : Command(k)
  \/ \E c \in Execs : Respond(c)
  \/ Background

LifeSpec == LifeInit /\ [][LifeNext]_lifeVars

\* As in SqliteWorkflow; and a command that can go on does.
LifeFairness ==
  /\ WF_lifeVars(Alone(StartTask)) /\ WF_lifeVars(Alone(Feed)) /\ WF_lifeVars(Alone(Workflow))
  /\ WF_lifeVars(Alone(Closing)) /\ WF_lifeVars(Alone(LoadForQuery))
  /\ \A c \in Execs : WF_lifeVars(Respond(c) \/ Alone(TimeOutResponse(c)))
  /\ \A k \in Commands :
       WF_lifeVars(SendCommand(k) \/ AskQuery(k) \/ Describe(k) \/ GetResult(k) \/ Result(k))

FairLifeSpec == LifeSpec /\ LifeFairness
-----------------------------------------------------------------------------
(* Properties.                                                             *)

\* Every command exits, although none of them sets a deadline, except that an
\* exec whose response is lost, or whose database stops before it is executed,
\* waits forever, and that a get-or-create which saw a failure waits for the end of
\* a database that another command has since created again.
MayWait(k) ==
  /\ cmd[k] = "waiting"
  /\ \/ k \in Execs /\ (response[k] \in {"timedOut", "dropped"} \/ ~Running)
     \/ k \in Execs /\ k \notin Elems(sent)
     \/ k \in Gets /\ Running
CommandsEnd ==
  \A k \in Commands :
    cmd[k] \in {"connected", "waiting"} ~> cmd[k] \in {"ok", "error"} \/ MayWait(k)

\* What an exec was told it did is in what later queries and saves read, through
\* failures and cancellation and whoever connects, unless somebody asked for a
\* stopped database to be created again.
AnswersSurvive ==
  query.state = "answered" /\ ~recreated => asked \subseteq query.saw
=============================================================================
