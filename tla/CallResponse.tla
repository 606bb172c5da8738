---------------------------- MODULE CallResponse ----------------------------
(***************************************************************************)
(* temporalutil/clientutil/response_handler.go and the generated client's  *)
(* Exec: a client signals a workflow and waits until an activity on its    *)
(* own task queue brings the response.                                     *)
(*                                                                         *)
(* Four kinds of threads meet here: callers, one listener goroutine per    *)
(* call, the worker's activity goroutines (handlers), and whoever ends a   *)
(* caller's context.  They share the map of pending requests, under a      *)
(* lock, and per call three channels with room for one value: respCh,      *)
(* okCh and errCh, here the sets of calls whose channel is full (a value   *)
(* is always the response to, or the error of, the call it belongs to:     *)
(* identifiers are fresh UUIDs).                                           *)
(***************************************************************************)
EXTENDS Naturals, FiniteSets

CONSTANTS
  Calls,
  Direct,      (* those made through Call; the others by generated clients *)
  Handlers,    (* activity goroutines of the client's worker               *)
  NoCall,
  MaxAttempts  (* bound: runs of the response activity per call            *)

ASSUME CallAssumption ==
  /\ Direct \subseteq Calls /\ NoCall \notin Calls /\ MaxAttempts \in Nat

VARIABLES
  caller,    (* where each caller stands, or how it ended                  *)
  ctxDone,   (* calls whose own context is done                            *)
  expired,   (* ... because the context it derives from is                 *)
  listener,  (* where the goroutine that PrepareCall starts stands         *)
  pending,   (* keys of pendingRequests                                    *)
  respCh, okCh, errCh,
  handling,  (* the call whose channel a handler has looked up             *)
  accepted,  (* calls whose signal reached the workflow                    *)
  attempts   (* runs of the response activity so far                       *)

vars == <<caller, ctxDone, expired, listener, pending, respCh, okCh, errCh,
          handling, accepted, attempts>>

Ended == {"response", "ctxErr", "signalErr"}

TypeOK ==
  /\ caller \in [Calls -> {"idle", "prepared", "waiting"} \cup Ended]
  /\ listener \in [Calls -> {"none", "waiting", "deleting", "gone"}]
  /\ ctxDone \subseteq Calls /\ expired \subseteq Calls /\ pending \subseteq Calls
  /\ respCh \subseteq Calls /\ okCh \subseteq Calls /\ errCh \subseteq Calls
  /\ handling \in [Handlers -> Calls \cup {NoCall}]
  /\ accepted \subseteq Calls
  /\ attempts \in [Calls -> 0 .. MaxAttempts]

Init ==
  /\ caller = [c \in Calls |-> "idle"] /\ listener = [c \in Calls |-> "none"]
  /\ ctxDone = {} /\ expired = {} /\ pending = {}
  /\ respCh = {} /\ okCh = {} /\ errCh = {}
  /\ handling = [h \in Handlers |-> NoCall]
  /\ accepted = {} /\ attempts = [c \in Calls |-> 0]

-----------------------------------------------------------------------------
(* Callers.                                                                *)

PrepareCall(c) ==
  /\ caller[c] = "idle"
  /\ caller' = [caller EXCEPT ![c] = "prepared"]
  /\ pending' = pending \cup {c}
  /\ listener' = [listener EXCEPT ![c] = "waiting"]
  /\ UNCHANGED <<ctxDone, expired, respCh, okCh, errCh, handling, accepted, attempts>>

\* Mutant of SignalWorkflow: the context is cancelled once the signal is sent.
SignalCanceling(c) ==
  /\ caller[c] = "prepared"
  /\ caller' = [caller EXCEPT ![c] = "waiting"]
  /\ accepted' = accepted \cup {c} /\ ctxDone' = ctxDone \cup {c}
  /\ UNCHANGED <<expired, listener, pending, respCh, okCh, errCh, handling, attempts>>

SignalWorkflow(c) ==
  /\ caller[c] = "prepared"
  /\ caller' = [caller EXCEPT ![c] = "waiting"]
  /\ accepted' = accepted \cup {c}
  /\ UNCHANGED <<ctxDone, expired, listener, pending, respCh, okCh, errCh, handling, attempts>>

\* Mutant of ReturnFrom: the derived context is not cancelled on return.
ReturnUncanceled(c, result) ==
  /\ caller' = [caller EXCEPT ![c] = result]
  /\ UNCHANGED <<ctxDone, expired, listener, pending, respCh, handling, attempts>>

\* The deferred cancel ends the call's own context however it returns.
ReturnFrom(c, result) ==
  /\ caller' = [caller EXCEPT ![c] = result]
  /\ ctxDone' = ctxDone \cup {c}
  /\ UNCHANGED <<expired, listener, pending, respCh, handling, attempts>>

\* The signal may have arrived although the client got an error.
SignalFails(c) ==
  /\ caller[c] = "prepared"
  /\ ReturnFrom(c, "signalErr")
  /\ accepted' \in {accepted, accepted \cup {c}}
  /\ UNCHANGED <<okCh, errCh>>

ReturnResponse(c) ==
  /\ caller[c] = "waiting" /\ c \in okCh
  /\ okCh' = okCh \ {c}
  /\ ReturnFrom(c, "response")
  /\ UNCHANGED <<errCh, accepted>>

ReturnError(c) ==
  /\ caller[c] = "waiting" /\ c \in errCh
  /\ errCh' = errCh \ {c}
  /\ ReturnFrom(c, "ctxErr")
  /\ UNCHANGED <<okCh, accepted>>

\* Call selects on the context as well.
ReturnDone(c) ==
  /\ c \in Direct /\ caller[c] = "waiting" /\ c \in ctxDone
  /\ ReturnFrom(c, "ctxErr")
  /\ UNCHANGED <<okCh, errCh, accepted>>

\* The context given by the caller's caller is cancelled or times out.
Expire(c) ==
  /\ caller[c] \in {"prepared", "waiting"} /\ c \notin expired
  /\ expired' = expired \cup {c} /\ ctxDone' = ctxDone \cup {c}
  /\ UNCHANGED <<caller, listener, pending, respCh, okCh, errCh, handling, accepted, attempts>>

-----------------------------------------------------------------------------
(* The goroutine PrepareCall starts: select, send, then the deferred       *)
(* delete.  Its sends need room in a channel of capacity one.              *)

ListenContext(c) ==
  /\ listener[c] = "waiting" /\ c \in ctxDone /\ c \notin errCh
  /\ errCh' = errCh \cup {c}
  /\ listener' = [listener EXCEPT ![c] = "deleting"]
  /\ UNCHANGED <<caller, ctxDone, expired, pending, respCh, okCh, handling, accepted, attempts>>

\* Mutant of ListenResponse: okCh has no room and the send does not wait.
ListenResponseDrops(c) ==
  /\ listener[c] = "waiting" /\ c \in respCh
  /\ respCh' = respCh \ {c}
  /\ listener' = [listener EXCEPT ![c] = "deleting"]
  /\ UNCHANGED <<caller, ctxDone, expired, pending, okCh, errCh, handling, accepted, attempts>>

ListenResponse(c) ==
  /\ listener[c] = "waiting" /\ c \in respCh /\ c \notin okCh
  /\ respCh' = respCh \ {c} /\ okCh' = okCh \cup {c}
  /\ listener' = [listener EXCEPT ![c] = "deleting"]
  /\ UNCHANGED <<caller, ctxDone, expired, pending, errCh, handling, accepted, attempts>>

Delete(c) ==
  /\ listener[c] = "deleting"
  /\ pending' = pending \ {c}
  /\ listener' = [listener EXCEPT ![c] = "gone"]
  /\ UNCHANGED <<caller, ctxDone, expired, respCh, okCh, errCh, handling, accepted, attempts>>

-----------------------------------------------------------------------------
(* onResponse: look the channel up under the lock, then send without       *)
(* blocking.  The activity may run again for the same response.            *)

LookUp(h, c) ==
  /\ handling[h] = NoCall /\ c \in accepted /\ attempts[c] < MaxAttempts
  /\ attempts' = [attempts EXCEPT ![c] = @ + 1]
  /\ handling' = [handling EXCEPT ![h] = IF c \in pending THEN c ELSE NoCall]
  /\ UNCHANGED <<caller, ctxDone, expired, listener, pending, respCh, okCh, errCh,
                 accepted>>

\* Mutant of Deliver: the send blocks while the channel is full.
DeliverBlocking(h) ==
  /\ handling[h] # NoCall /\ handling[h] \notin respCh
  /\ respCh' = respCh \cup {handling[h]}
  /\ handling' = [handling EXCEPT ![h] = NoCall]
  /\ UNCHANGED <<caller, ctxDone, expired, listener, pending, okCh, errCh, accepted, attempts>>

\* Mutant of Deliver: respCh has no room of its own, and its goroutine may not be
\* at its select yet.
DeliverUnbuffered(h) ==
  /\ handling[h] # NoCall
  /\ respCh' \in {respCh, respCh \cup {handling[h]}}
  /\ handling' = [handling EXCEPT ![h] = NoCall]
  /\ UNCHANGED <<caller, ctxDone, expired, listener, pending, okCh, errCh, accepted, attempts>>

Deliver(h) ==
  /\ handling[h] # NoCall
  /\ respCh' = respCh \cup {handling[h]}
  /\ handling' = [handling EXCEPT ![h] = NoCall]
  /\ UNCHANGED <<caller, ctxDone, expired, listener, pending, okCh, errCh, accepted, attempts>>

-----------------------------------------------------------------------------
Caller(c) ==
  \/ PrepareCall(c) \/ SignalWorkflow(c) \/ SignalFails(c)
  \/ ReturnResponse(c) \/ ReturnError(c) \/ ReturnDone(c)
Listener(c) == ListenContext(c) \/ ListenResponse(c) \/ Delete(c)
Handler(h) == (\E c \in Calls : LookUp(h, c)) \/ Deliver(h)

Next ==
  \/ \E c \in Calls : Caller(c) \/ Expire(c) \/ Listener(c)
  \/ \E h \in Handlers : Handler(h)

Spec == Init /\ [][Next]_vars

-----------------------------------------------------------------------------
(* Properties.                                                             *)

Returned(c) == caller[c] \in Ended

\* A response is not lost: once an activity has run for a call that still waits,
\* with its context alive, the response is in a handler's hands or in one of the
\* call's channels - whether or not the goroutine listens already, has passed it
\* on or has removed the map entry, and however often the activity runs.
ResponseKept ==
  \A c \in Calls :
    attempts[c] > 0 /\ caller[c] = "waiting" /\ c \notin ctxDone =>
      c \in respCh \cup okCh \/ \E h \in Handlers : handling[h] = c

\* Whatever happens to a call, its entry in the map goes away after it returned.
NoLeak == \A c \in Calls : Returned(c) ~> c \notin pending

\* A response that reached a waiting call's channel, or the end of its context,
\* ends the call.
CallsEnd ==
  \A c \in Calls : caller[c] = "waiting" /\ c \in respCh \cup ctxDone ~> Returned(c)

\* No activity goroutine is held up by a call, also not by one that is gone or
\* that was answered before.
HandlersReturn == \A h \in Handlers : handling[h] # NoCall ~> handling[h] = NoCall

\* Every behaviour is one that CallOutcome allows: a call ends once, with a
\* response only if one was sent, and with a context error only if the caller's
\* context ended, although every call cancels a context of its own.
Abstract == INSTANCE CallOutcome WITH
  outcome <- [c \in Calls |-> IF caller[c] \in {"prepared", "waiting"} THEN "open"
                              ELSE caller[c]],
  offered <- {c \in Calls : attempts[c] > 0},
  expired <- expired
EndsOnce == Abstract!OSpec
=============================================================================
