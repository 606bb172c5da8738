---------------------------- MODULE CallOutcome -----------------------------
(***************************************************************************)
(* What a client call through a CallResponseHandler promises, without      *)
(* goroutines and channels: a call is made once and ends once, with a      *)
(* response only if one was offered, and with a context error only if its  *)
(* context was done.  CallResponse implements this.                        *)
(***************************************************************************)
CONSTANT Calls

VARIABLES
  outcome,  (* how each call ended, or how far it is                        *)
  offered,  (* calls a response activity has run for                        *)
  expired   (* calls whose caller gave up its context                       *)

ovars == <<outcome, offered, expired>>

Ended == {"response", "ctxErr", "signalErr"}

OTypeOK ==
  /\ outcome \in [Calls -> {"idle", "open"} \cup Ended]
  /\ offered \subseteq Calls /\ expired \subseteq Calls

OInit == outcome = [c \in Calls |-> "idle"] /\ offered = {} /\ expired = {}

Open(c) ==
  /\ outcome[c] = "idle" /\ outcome' = [outcome EXCEPT ![c] = "open"]
  /\ UNCHANGED <<offered, expired>>

\* A response may come for any call that was made, also late or twice.
Offer(c) ==
  /\ outcome[c] # "idle" /\ offered' = offered \cup {c}
  /\ UNCHANGED <<outcome, expired>>

Expire(c) ==
  /\ outcome[c] = "open" /\ expired' = expired \cup {c}
  /\ UNCHANGED <<outcome, offered>>

End(c, result) ==
  /\ outcome[c] = "open"
  /\ result = "response" => c \in offered
  /\ result = "ctxErr" => c \in expired
  /\ outcome' = [outcome EXCEPT ![c] = result]
  /\ UNCHANGED <<offered, expired>>

ONext ==
  \E c \in Calls : Open(c) \/ Offer(c) \/ Expire(c) \/ \E r \in Ended : End(c, r)

OSpec == OInit /\ [][ONext]_ovars
=============================================================================
