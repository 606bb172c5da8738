----------------------------- MODULE ExecCalls ------------------------------
(***************************************************************************)
(* Exec from request to response (generated sqlite_temporal.pb.go), for    *)
(* the two kinds of callers it has: clients, which are answered by an      *)
(* activity on their own worker (CallResponse), and workflows, which are   *)
(* answered by a signal (ExecExternal, SqliteChildRun.Exec).  The target   *)
(* executes requests in any order and answers each with Respond; what it   *)
(* does in between is the subject of SqliteWorkflow.                       *)
(*                                                                         *)
(* Either side may go away: the target closes, the client stops its        *)
(* response worker (Client.Close), a calling workflow ends.                *)
(***************************************************************************)
EXTENDS CallResponse

CONSTANTS
  WCalls,        (* calls made by workflows                                *)
  Parents,
  Parent(_),     (* the workflow that makes a call                         *)
  Id(_),         (* the id it chooses for the request                      *)
  MaxCalls,      (* bound: calls made, of both kinds                       *)
  MaxClientCalls (* bound: those made by clients, and activities retried    *)

\* A workflow has to choose different ids for its calls.
ASSUME ExecAssumption ==
  /\ WCalls \cap Calls = {} /\ NoCall \notin WCalls
  /\ MaxCalls \in Nat /\ MaxClientCalls \in Nat
  /\ \A w \in WCalls : Parent(w) \in Parents
  /\ \A v, w \in WCalls : Parent(v) = Parent(w) /\ Id(v) = Id(w) => v = w

VARIABLES
  client,    (* the client and its response worker                         *)
  target,    (* the workflow that is called                                *)
  parents,   (* calling workflows that are running                         *)
  wcall,     (* where each workflow's call stands                          *)
  arrived,   (* calls of workflows whose signal reached the target         *)
  reply,     (* what became of the target's response to a call             *)
  channels,  (* responses that calling workflows have not received, by the *)
             (* name of the signal                                         *)
  received   (* the call whose response a workflow's call got              *)

workflows == <<target, parents, wcall, arrived, channels, received>>
callVars == <<vars, client, reply, workflows>>

Replies == {"none", "scheduled", "started", "done", "timedOut",
            "signalling", "signalled", "dropped"}

ExecInit ==
  /\ Init
  /\ client = "none" /\ target = "running" /\ parents = Parents
  /\ wcall = [w \in WCalls |-> "idle"] /\ arrived = {}
  /\ reply = [r \in Calls \cup WCalls |-> "none"]
  /\ channels = {} /\ received = [w \in WCalls |-> NoCall]

Made == {c \in Calls : caller[c] # "idle"} \cup {w \in WCalls : wcall[w] # "idle"}
MayCall == Cardinality(Made) < MaxCalls
Retried == {c \in Calls : attempts[c] > 1 \/ (attempts[c] = 1 /\ reply[c] = "scheduled")}
MoreWork == Cardinality(Made \cap Calls) + Cardinality(Retried) < MaxClientCalls
ClientMayCall == MayCall /\ MoreWork

-----------------------------------------------------------------------------
(* The client (client.go).                                                 *)

\* The worker starts, then the handler is made and its activity registered (a client
\* that will not call does not matter here).
NewClient ==
  /\ client = "none" /\ ClientMayCall /\ client' = "open"
  /\ UNCHANGED <<vars, reply, workflows>>

\* Stop does not wait for calls, nor for activities that are being executed (before
\* a call is made it does not matter here).
CloseClient ==
  /\ client = "open" /\ Made \cap Calls # {} /\ client' = "closed"
  /\ UNCHANGED <<vars, reply, workflows>>

\* CallResponse's callers: a closed target takes no signal.
ClientCaller(c) ==
  /\ client # "none"
  /\ \/ ClientMayCall /\ PrepareCall(c)
     \/ target = "running" /\ (SignalWorkflow(c) \/ SignalFails(c))
     \/ target = "closed" /\ SignalFails(c) /\ accepted' = accepted
     \/ ReturnResponse(c) \/ ReturnError(c) \/ ReturnDone(c) \/ Expire(c) \/ Listener(c)
  /\ UNCHANGED <<client, reply, workflows>>

-----------------------------------------------------------------------------
(* Workflows that call.                                                    *)

\* Mutant of SignalName: the id is not part of it.
SignalNameShared(w) == <<Parent(w), NoCall>>

\* The response comes as a signal whose name ends in the request's id.
SignalName(w) == <<Parent(w), Id(w)>>

Wait(w, stage) == wcall' = [wcall EXCEPT ![w] = stage]

\* The request gets the caller's workflow id, and is refused when it has no id of
\* its own or a task queue.
ExecExternal(w) ==
  /\ wcall[w] = "idle" /\ Parent(w) \in parents /\ MayCall
  /\ \E hasId, hasQueue \in BOOLEAN :
       Wait(w, IF hasId /\ ~hasQueue THEN "sending" ELSE "refused")
  /\ UNCHANGED <<vars, client, target, parents, arrived, reply, channels, received>>

\* The future of the request: it arrives, or there is no such workflow any more.
Sent(w) ==
  /\ wcall[w] = "sending"
  /\ IF target = "running"
       THEN Wait(w, "waiting") /\ arrived' = arrived \cup {w}
       ELSE Wait(w, "notSent") /\ UNCHANGED arrived
  /\ UNCHANGED <<vars, client, target, parents, reply, channels, received>>

\* Receive, ReceiveAsync and Select take what has come by the call's name.
Receive(w) ==
  /\ wcall[w] = "waiting" /\ Parent(w) \in parents
  /\ \E r \in WCalls :
       /\ <<SignalName(w), r>> \in channels
       /\ channels' = channels \ {<<SignalName(w), r>>}
       /\ received' = [received EXCEPT ![w] = r]
  /\ Wait(w, "received")
  /\ UNCHANGED <<vars, client, target, parents, arrived, reply>>

\* A workflow ends (one that has not called does not matter here).
CloseParent(p) ==
  /\ p \in parents /\ \E w \in Made \cap WCalls : Parent(w) = p
  /\ parents' = parents \ {p}
  /\ UNCHANGED <<vars, client, target, wcall, arrived, reply, channels, received>>

-----------------------------------------------------------------------------
(* The target.                                                             *)

Replied(r, state) == reply' = [reply EXCEPT ![r] = state]

\* Mutant of Respond: the activity stays on the target's own task queue, where
\* no worker knows it.
RespondOwnQueue(r) == Replied(r, IF r \in WCalls THEN "signalling" ELSE "dropped")

\* Respond: to a workflow by signal, to a client by an activity on the task
\* queue of the request.
Respond(r) == Replied(r, IF r \in WCalls THEN "signalling" ELSE "scheduled")

Handle(r) ==
  /\ target = "running" /\ r \in accepted \cup arrived /\ reply[r] = "none"
  /\ Respond(r)
  /\ UNCHANGED <<vars, client, workflows>>

\* What the target has not handled it never will; what the service has not
\* begun to deliver for it goes with it.  (Before the first call it does not matter.)
CloseTarget ==
  /\ target = "running" /\ Made # {} /\ target' = "closed"
  /\ reply' = [r \in DOMAIN reply |-> IF reply[r] \in {"scheduled", "signalling"}
                                      THEN "dropped" ELSE reply[r]]
  /\ UNCHANGED <<vars, client, parents, wcall, arrived, channels, received>>

\* The signal to a calling workflow, which may have ended.
Signal(w) ==
  /\ reply[w] = "signalling"
  /\ Replied(w, "signalled")
  /\ channels' = IF Parent(w) \in parents THEN channels \cup {<<SignalName(w), w>>}
                                          ELSE channels
  /\ UNCHANGED <<vars, client, target, parents, wcall, arrived, received>>

\* The response activity: the client's worker takes it and executes onResponse, in
\* a goroutine that is free (they are all alike).
Start(h, c) ==
  /\ client = "open" /\ reply[c] = "scheduled"
  /\ handling[h] = NoCall /\ h = CHOOSE g \in Handlers : handling[g] = NoCall
  /\ LookUp(h, c)
  /\ Replied(c, IF handling'[h] = c THEN "started" ELSE "done")
  /\ UNCHANGED <<client, workflows>>

Finish(h) ==
  /\ Deliver(h)
  /\ reply' = [r \in DOMAIN reply |-> IF r = handling[h] /\ reply[r] = "started"
                                      THEN "done" ELSE reply[r]]
  /\ UNCHANGED <<client, workflows>>

\* Its time is up, before or while it is executed, for the attempt or for all.
TimeOut(c) ==
  /\ reply[c] \in {"scheduled", "started"}
  /\ \/ Replied(c, "timedOut")
     \/ reply[c] = "started" /\ attempts[c] < MaxAttempts /\ MoreWork
          /\ target = "running" /\ Replied(c, "scheduled")
  /\ UNCHANGED <<vars, client, workflows>>

-----------------------------------------------------------------------------
ExecNext ==
  \/ NewClient \/ CloseClient \/ CloseTarget
  \/ \E c \in Calls : ClientCaller(c) \/ TimeOut(c)
  \/ \E w \in WCalls : ExecExternal(w) \/ Sent(w) \/ Receive(w) \/ Signal(w)
  \/ \E p \in Parents : CloseParent(p)
  \/ \E r \in Calls \cup WCalls : Handle(r)
  \/ \E h \in Handlers : Finish(h) \/ \E c \in Calls : Start(h, c)

ExecSpec == ExecInit /\ [][ExecNext]_callVars

\* Goroutines and workflows that can go on do, the service delivers what it has
\* accepted to whoever is there.  Nobody has to call, to close or to time out.
ExecFairness ==
  /\ \A c \in Calls :
       /\ WF_callVars(Listener(c) /\ UNCHANGED <<client, reply, workflows>>)
       /\ WF_callVars((ReturnResponse(c) \/ ReturnError(c) \/ ReturnDone(c))
                        /\ UNCHANGED <<client, reply, workflows>>)
       /\ WF_callVars(\E h \in Handlers : Start(h, c))
  /\ \A h \in Handlers : WF_callVars(Finish(h))
  /\ \A w \in WCalls : WF_callVars(Sent(w)) /\ WF_callVars(Receive(w)) /\ WF_callVars(Signal(w))
  /\ \A r \in Calls \cup WCalls : WF_callVars(Handle(r))

FairExecSpec == ExecSpec /\ ExecFairness
-----------------------------------------------------------------------------
(* Properties.                                                             *)

\* A workflow with several calls, or one of several workflows that call, gets the
\* response to its own call, in whatever order they are executed and answered.
OwnResponse ==
  \A w \in WCalls : wcall[w] = "received" => received[w] = w

\* A request that reached the target is answered and its caller gets the answer:
\* a client unless the activity times out, a workflow unless it ends, and both
\* unless the target closes or the client is closed.  Requests of workflows and
\* of clients share the target and are not in each other's way.
ResponsesArrive ==
  /\ \A c \in Calls :
       caller[c] = "waiting" ~>
         Returned(c) \/ reply[c] = "timedOut" \/ target = "closed" \/ client = "closed"
  /\ \A w \in WCalls :
       w \in arrived ~> wcall[w] = "received" \/ target = "closed" \/ Parent(w) \notin parents
=============================================================================
