---------------------------- MODULE ListenerList ----------------------------
(***************************************************************************)
(* What a list of event listeners promises, without locks and copies:      *)
(* registering appends at one instant between the call and its return,     *)
(* removing takes out at one instant.  EventListeners implements this.     *)
(***************************************************************************)
EXTENDS Naturals, SequencesExt

CONSTANT Listeners

VARIABLES
  listeners,  (* those an event is reported to, in order                    *)
  status      (* how far the calls for each listener are                    *)

lvars == <<listeners, status>>

Listed(l) == l \in Range(listeners)
Becomes(l, from, to) == status[l] = from /\ status' = [status EXCEPT ![l] = to]

LInit == listeners = << >> /\ status = [l \in Listeners |-> "new"]

StartAdding(l) == Becomes(l, "new", "adding") /\ UNCHANGED listeners
Append1(l) ==
  /\ status[l] = "adding" /\ ~Listed(l)
  /\ listeners' = Append(listeners, l) /\ UNCHANGED status
ReturnAdded(l) == Listed(l) /\ Becomes(l, "adding", "added") /\ UNCHANGED listeners

StartRemoving(l) == Becomes(l, "added", "removing") /\ UNCHANGED listeners
TakeOut(l) ==
  /\ status[l] = "removing"
  /\ \E i \in DOMAIN listeners : listeners[i] = l /\ listeners' = RemoveAt(listeners, i)
  /\ UNCHANGED status
ReturnRemoved(l) == ~Listed(l) /\ Becomes(l, "removing", "removed") /\ UNCHANGED listeners

LNext ==
  \E l \in Listeners :
    \/ StartAdding(l) \/ Append1(l) \/ ReturnAdded(l)
    \/ StartRemoving(l) \/ TakeOut(l) \/ ReturnRemoved(l)

LSpec == LInit /\ [][LNext]_lvars
=============================================================================
