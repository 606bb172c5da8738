--------------------------- MODULE EventListeners ---------------------------
(***************************************************************************)
(* temporaldeterminism/tracecompile/tracert/event.go: listeners for events *)
(* that a patched Go runtime reports from any goroutine.                   *)
(*                                                                         *)
(* The slice of listeners is never altered, only replaced: whoever changes *)
(* it holds mutateEventListenersLock from reading the old slice to writing *)
(* the new one, and whoever reports an event reads it once.  The read and  *)
(* the write are each one assignment under eventListenersLock, here one    *)
(* step.  No lock is held while listeners are called, so they may add and  *)
(* remove listeners themselves.                                            *)
(***************************************************************************)
EXTENDS Naturals, SequencesExt

CONSTANTS
  Procs,      (* goroutines                                                *)
  Listeners,  (* pointers, one per AddEventListener                        *)
  None

ASSUME NoneAssumption == None \notin Procs /\ None \notin Listeners

VARIABLES
  list,     (* eventListeners                                              *)
  mutex,    (* holder of mutateEventListenersLock                          *)
  once,     (* initEventListenersOnce; "done" when the runtime reports     *)
  pc,       (* where each goroutine stands in add or remove                *)
  arg,      (* the listener it adds or removes                             *)
  adding,   (* it is in AddEventListener                                   *)
  snap,     (* its existingListeners there                                 *)
  calls,    (* listeners it has yet to call for the event it reports       *)
  status,   (* how far the calls for each listener are (history)           *)
  earlier   (* listeners added before each one's addition began (history)  *)

vars == <<list, mutex, once, pc, arg, adding, snap, calls, status, earlier>>

Status == {"new", "adding", "added", "removing", "removed"}
Locked == {"read", "write", "unlock"}
Pc == {"idle", "init", "hook", "lock"} \cup Locked

TypeOK ==
  /\ list \in Seq(Listeners) /\ mutex \in Procs \cup {None}
  /\ once \in {"new", "running", "done"}
  /\ pc \in [Procs -> Pc] /\ arg \in [Procs -> Listeners \cup {None}]
  /\ adding \in [Procs -> BOOLEAN]
  /\ snap \in [Procs -> Seq(Listeners)] /\ calls \in [Procs -> Seq(Listeners)]
  /\ status \in [Listeners -> Status] /\ earlier \in [Listeners -> SUBSET Listeners]

Init ==
  /\ list = << >> /\ mutex = None /\ once = "new"
  /\ pc = [p \in Procs |-> "idle"] /\ arg = [p \in Procs |-> None]
  /\ adding = [p \in Procs |-> FALSE]
  /\ snap = [p \in Procs |-> << >>] /\ calls = [p \in Procs |-> << >>]
  /\ status = [l \in Listeners |-> "new"] /\ earlier = [l \in Listeners |-> {}]

Goto(p, from, to) == pc[p] = from /\ pc' = [pc EXCEPT ![p] = to]

-----------------------------------------------------------------------------
(* AddEventListener and RemoveEventListener.                               *)

BeginAdd(p, l) ==
  /\ Goto(p, "idle", "init") /\ status[l] = "new"
  /\ arg' = [arg EXCEPT ![p] = l] /\ adding' = [adding EXCEPT ![p] = TRUE]
  /\ status' = [status EXCEPT ![l] = "adding"]
  /\ earlier' = [earlier EXCEPT ![l] = {k \in Listeners : status[k] = "added"}]
  /\ UNCHANGED <<list, mutex, once, snap, calls>>

\* A remover may be used again, by any goroutine.
BeginRemove(p, l) ==
  /\ Goto(p, "idle", "lock") /\ status[l] \in {"added", "removing", "removed"}
  /\ arg' = [arg EXCEPT ![p] = l] /\ adding' = [adding EXCEPT ![p] = FALSE]
  /\ status' = [status EXCEPT ![l] = IF @ = "added" THEN "removing" ELSE @]
  /\ UNCHANGED <<list, mutex, once, snap, calls, earlier>>

\* Mutant of EnterOnce: a second caller does not wait for the first.
EnterOnceEarly(p) ==
  /\ \/ once = "new" /\ Goto(p, "init", "hook") /\ once' = "running"
     \/ once # "new" /\ Goto(p, "init", "lock") /\ UNCHANGED once
  /\ UNCHANGED <<list, mutex, arg, adding, snap, calls, status, earlier>>

\* Once.Do: the first caller sets the hook, others wait until it has.
EnterOnce(p) ==
  /\ \/ once = "new" /\ Goto(p, "init", "hook") /\ once' = "running"
     \/ once = "done" /\ Goto(p, "init", "lock") /\ UNCHANGED once
  /\ UNCHANGED <<list, mutex, arg, adding, snap, calls, status, earlier>>

SetHook(p) ==
  /\ Goto(p, "hook", "lock") /\ once' = "done"
  /\ UNCHANGED <<list, mutex, arg, adding, snap, calls, status, earlier>>

\* Mutant of Lock: changes are not kept apart.
LockShared(p) ==
  /\ Goto(p, "lock", "read") /\ mutex' = p
  /\ UNCHANGED <<list, once, arg, adding, snap, calls, status, earlier>>

Lock(p) ==
  /\ Goto(p, "lock", "read") /\ mutex = None /\ mutex' = p
  /\ UNCHANGED <<list, once, arg, adding, snap, calls, status, earlier>>

Read(p) ==
  /\ Goto(p, "read", "write") /\ snap' = [snap EXCEPT ![p] = list]
  /\ UNCHANGED <<list, mutex, once, arg, adding, calls, status, earlier>>

Found(p) == arg[p] \in Range(snap[p])

\* Mutant of Write: the new slice gets longer, its last element is not set.
WriteUnfilled(p) ==
  /\ Goto(p, "write", "unlock")
  /\ \/ adding[p] /\ list' = Append(snap[p], None)
     \/ ~adding[p]
          /\ \E i \in DOMAIN snap[p] : snap[p][i] = arg[p] /\ list' = RemoveAt(snap[p], i)
     \/ ~adding[p] /\ ~Found(p) /\ UNCHANGED list
  /\ UNCHANGED <<mutex, once, arg, adding, snap, calls, status, earlier>>

\* Mutant of Write: the new listener comes first.
WriteFirst(p) ==
  /\ Goto(p, "write", "unlock")
  /\ \/ adding[p] /\ list' = <<arg[p]>> \o snap[p]
     \/ ~adding[p]
          /\ \E i \in DOMAIN snap[p] : snap[p][i] = arg[p] /\ list' = RemoveAt(snap[p], i)
     \/ ~adding[p] /\ ~Found(p) /\ UNCHANGED list
  /\ UNCHANGED <<mutex, once, arg, adding, snap, calls, status, earlier>>

\* The new slice is the old one with the listener appended or taken out.
Write(p) ==
  /\ Goto(p, "write", "unlock")
  /\ \/ adding[p] /\ list' = Append(snap[p], arg[p])
     \/ ~adding[p]
          /\ \E i \in DOMAIN snap[p] : snap[p][i] = arg[p] /\ list' = RemoveAt(snap[p], i)
     \/ ~adding[p] /\ ~Found(p) /\ UNCHANGED list
  /\ UNCHANGED <<mutex, once, arg, adding, snap, calls, status, earlier>>

\* The locals of a call end with it.
EndCall(p) ==
  /\ arg' = [arg EXCEPT ![p] = None] /\ adding' = [adding EXCEPT ![p] = FALSE]
  /\ snap' = [snap EXCEPT ![p] = << >>]

\* Mutant of Return: removing a listener that is not there keeps the lock.
ReturnLocked(p) ==
  /\ Goto(p, "unlock", "idle")
  /\ mutex' = IF adding[p] \/ Found(p) THEN None ELSE mutex
  /\ status' = [status EXCEPT ![arg[p]] = IF adding[p] THEN "added" ELSE "removed"]
  /\ EndCall(p) /\ UNCHANGED <<list, once, calls, earlier>>

Return(p) ==
  /\ Goto(p, "unlock", "idle") /\ mutex' = None
  /\ status' = [status EXCEPT ![arg[p]] = IF adding[p] THEN "added" ELSE "removed"]
  /\ EndCall(p) /\ UNCHANGED <<list, once, calls, earlier>>

-----------------------------------------------------------------------------
(* onEvent.  A goroutine calls listeners one after the other; between two  *)
(* calls, and in one, others go on.                                        *)

Report(p) ==
  /\ once = "done" /\ pc[p] = "idle" /\ calls[p] = << >> /\ list # << >>
  /\ calls' = [calls EXCEPT ![p] = list]
  /\ UNCHANGED <<list, mutex, once, pc, arg, adding, snap, status, earlier>>

CallListener(p) ==
  /\ pc[p] = "idle" /\ calls[p] # << >>
  /\ calls' = [calls EXCEPT ![p] = Tail(@)]
  /\ UNCHANGED <<list, mutex, once, pc, arg, adding, snap, status, earlier>>

-----------------------------------------------------------------------------
Change(p) ==
  EnterOnce(p) \/ SetHook(p) \/ Lock(p) \/ Read(p) \/ Write(p) \/ Return(p)

Next ==
  \E p \in Procs :
    \/ \E l \in Listeners : BeginAdd(p, l) \/ BeginRemove(p, l)
    \/ Change(p) \/ Report(p) \/ CallListener(p)

Spec == Init /\ [][Next]_vars

\* A goroutine that can run does; sync.Mutex does not starve one that waits.
\* Nobody has to add, remove or report, and a listener need not return.
Fairness == \A p \in Procs : WF_vars(Change(p)) /\ SF_vars(Lock(p))

FairSpec == Spec /\ Fairness

-----------------------------------------------------------------------------
(* Properties.                                                             *)

\* A listener's registration has returned and nobody has begun to remove it:
\* it is in the list, and the runtime does report events.
RegisteredHear ==
  \A l \in Listeners : status[l] = "added" =>
    once = "done" /\ l \in Range(list)

\* Listeners are called in the order in which they were registered.
CalledInOrder ==
  \A p \in Procs : \A i, j \in DOMAIN calls[p] :
    i < j => calls[p][j] \notin earlier[calls[p][i]]

\* Adding and removing return, whatever others do, also inside a listener.
ChangesReturn == \A p \in Procs : pc[p] # "idle" ~> pc[p] = "idle"

\* Concurrent changes take effect one after the other, each during its call.
Abstract == INSTANCE ListenerList WITH listeners <- list
Linearizes == Abstract!LSpec
=============================================================================
