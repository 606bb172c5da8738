------------------------------ MODULE Sequencer -----------------------------
(***************************************************************************)
(* temporalutil/testutil/sequence.go: functions that test a workflow by    *)
(* sleeping and acting in turn with it.                                    *)
(*                                                                         *)
(* Each function has a goroutine.  The test environment, which is not part *)
(* of the repository, has a main loop that executes callbacks and the      *)
(* workflow; when it has nothing to execute, it moves its clock to the     *)
(* next timer.  A function's code runs while the main loop is held in one  *)
(* of the function's callbacks, waiting for that callback's channel endCh. *)
(***************************************************************************)
EXTENDS Naturals, Sequences

CONSTANTS
  Funcs,  (* the functions given to AddSequence                             *)
  Plan    (* the durations each one sleeps for                              *)

ASSUME PlanAssumption == Plan \in [Funcs -> Seq(Nat)]

VARIABLES
  loop,     (* what the environment's main loop does                        *)
  on,       (* the channel endCh it waits for, in a callback                *)
  queue,    (* callbacks to execute, in order                               *)
  timers,   (* delayed callbacks                                            *)
  now,      (* the environment's clock                                      *)
  pc,       (* where the goroutine of each function is                      *)
  slept,    (* calls of Sleep it has begun                                  *)
  last,     (* its lastCallbackEndCh                                        *)
  begun,    (* channels beginCh that are closed                             *)
  ended,    (* channels endCh that are closed                               *)
  sent,     (* parts of the functions that have signalled the workflow      *)
  wake      (* when each function's code should go on (history)             *)

vars == <<loop, on, queue, timers, now, pc, slept, last, begun, ended, sent, wake>>

\* The channels of a function: one pair per sleep, endCh of AddSequence is 0.
Chan == UNION {{f} \X (0 .. Len(Plan[f])) : f \in Funcs}
Callback == {"start", "delay", "fire", "signal"} \X Chan
Waits(ch) == loop = "waits" /\ on = ch

TypeOK ==
  /\ loop \in {"new", "idle", "workflow", "stopped", "waits"} /\ on \in Chan \cup {<< >>}
  /\ queue \in Seq(Callback) /\ now \in Nat
  /\ timers \subseteq [at : Nat, ch : Chan]
  /\ pc \in [Funcs -> {"new", "added", "code", "sleep", "close", "assign", "wait", "done"}]
  /\ slept \in [Funcs -> Nat] /\ last \in [Funcs -> Nat] /\ wake \in [Funcs -> Nat]
  /\ \A f \in Funcs : slept[f] <= Len(Plan[f]) /\ last[f] <= slept[f]
  /\ begun \subseteq Chan /\ ended \subseteq Chan /\ sent \subseteq Chan

Init ==
  /\ loop = "new" /\ on = << >> /\ queue = << >> /\ timers = {} /\ now = 0
  /\ pc = [f \in Funcs |-> "new"] /\ slept = [f \in Funcs |-> 0]
  /\ last = [f \in Funcs |-> 0] /\ wake = [f \in Funcs |-> 0]
  /\ begun = {} /\ ended = {} /\ sent = {}

Goto(f, from, to) == pc[f] = from /\ pc' = [pc EXCEPT ![f] = to]

-----------------------------------------------------------------------------
(* The test: functions are added before it runs, or by functions.          *)

AddSequence(f) ==
  /\ loop = "new" \/ \E g \in Funcs : pc[g] = "code"
  /\ Goto(f, "new", "added")
  /\ queue' = Append(queue, <<"start", <<f, 0>>>>) /\ wake' = [wake EXCEPT ![f] = now]
  /\ UNCHANGED <<loop, on, timers, now, slept, last, begun, ended, sent>>

ExecuteWorkflow ==
  /\ loop = "new" /\ loop' = "idle"
  /\ UNCHANGED <<on, queue, timers, now, pc, slept, last, begun, ended, sent, wake>>

-----------------------------------------------------------------------------
(* The environment's main loop.                                            *)

Takes(kind, ch) ==
  /\ loop = "idle" /\ queue # << >>
  /\ Head(queue) = <<kind, ch>> /\ queue' = Tail(queue)

\* Mutant of Start: the callback does not wait for the function.
StartAlone(f) ==
  /\ Takes("start", <<f, 0>>) /\ Goto(f, "added", "code")
  /\ UNCHANGED <<loop, on, timers, now, slept, last, begun, ended, sent, wake>>

\* The callback of AddSequence starts the goroutine and waits.
Start(f) ==
  /\ Takes("start", <<f, 0>>) /\ Goto(f, "added", "code")
  /\ loop' = "waits" /\ on' = <<f, 0>>
  /\ UNCHANGED <<timers, now, slept, last, begun, ended, sent, wake>>

\* A positive delay becomes a timer when the main loop gets to it.
Delay(ch) ==
  /\ Takes("delay", ch)
  /\ timers' = timers \cup {[at |-> now + Plan[ch[1]][ch[2]], ch |-> ch]}
  /\ UNCHANGED <<loop, on, now, pc, slept, last, begun, ended, sent, wake>>

\* The callback of Sleep: close(beginCh), <-endCh.
Fire(ch) ==
  /\ Takes("fire", ch) /\ begun' = begun \cup {ch} /\ loop' = "waits" /\ on' = ch
  /\ UNCHANGED <<timers, now, pc, slept, last, ended, sent, wake>>

\* A signal reaches the workflow, which runs.
Signalled(ch) ==
  /\ Takes("signal", ch) /\ loop' = "workflow"
  /\ UNCHANGED <<on, timers, now, pc, slept, last, begun, ended, sent, wake>>

\* The callback ends; what the function did may be news for the workflow.
Resume(ch) ==
  /\ Waits(ch) /\ ch \in ended /\ loop' \in {"idle", "workflow"} /\ on' = << >>
  /\ UNCHANGED <<queue, timers, now, pc, slept, last, begun, ended, sent, wake>>

\* The workflow blocks, or completes and the main loop ends.
RunWorkflow ==
  /\ loop = "workflow" /\ loop' \in {"idle", "stopped"}
  /\ UNCHANGED <<on, queue, timers, now, pc, slept, last, begun, ended, sent, wake>>

SkipTime ==
  /\ loop = "idle" /\ queue = << >>
  /\ \E t \in timers :
       /\ \A u \in timers : t.at <= u.at
       /\ now' = t.at /\ timers' = timers \ {t} /\ queue' = << <<"fire", t.ch>> >>
  /\ UNCHANGED <<loop, on, pc, slept, last, begun, ended, sent, wake>>

-----------------------------------------------------------------------------
(* The goroutines.                                                         *)

Current(f) == <<f, slept[f]>>

\* The function's code signals the workflow, at most once between two sleeps.
SignalWorkflow(f) ==
  /\ pc[f] = "code" /\ Current(f) \notin sent /\ sent' = sent \cup {Current(f)}
  /\ queue' = Append(queue, <<"signal", Current(f)>>)
  /\ UNCHANGED <<loop, on, timers, now, pc, slept, last, begun, ended, wake>>

\* Mutant of CallSleep: lets the main loop go before the callback is registered.
CallSleepClosing(f) ==
  /\ slept[f] < Len(Plan[f]) /\ Goto(f, "code", "sleep")
  /\ slept' = [slept EXCEPT ![f] = @ + 1] /\ ended' = ended \cup {<<f, last[f]>>}
  /\ wake' = [wake EXCEPT ![f] = now + Plan[f][slept[f] + 1]]
  /\ UNCHANGED <<loop, on, queue, timers, now, last, begun, sent>>

CallSleep(f) ==
  /\ slept[f] < Len(Plan[f]) /\ Goto(f, "code", "sleep")
  /\ slept' = [slept EXCEPT ![f] = @ + 1]
  /\ wake' = [wake EXCEPT ![f] = now + Plan[f][slept[f] + 1]]
  /\ UNCHANGED <<loop, on, queue, timers, now, last, begun, ended, sent>>

\* RegisterDelayedCallback posts to the main loop.
Register(f) ==
  /\ Goto(f, "sleep", "close")
  /\ queue' = Append(queue, <<IF Plan[f][slept[f]] = 0 THEN "fire" ELSE "delay", Current(f)>>)
  /\ UNCHANGED <<loop, on, timers, now, slept, last, begun, ended, sent, wake>>

CloseLast(f) ==
  /\ Goto(f, "close", "assign") /\ ended' = ended \cup {<<f, last[f]>>}
  /\ UNCHANGED <<loop, on, queue, timers, now, slept, last, begun, sent, wake>>

\* Mutant of Assign: keeps a channel of a sleep that has not begun.
AssignAhead(f) ==
  /\ Goto(f, "assign", "wait") /\ last' = [last EXCEPT ![f] = slept[f] + 1]
  /\ UNCHANGED <<loop, on, queue, timers, now, slept, begun, ended, sent, wake>>

\* Mutant of Assign: the next Sleep closes the same channel again.
AssignNothing(f) ==
  /\ Goto(f, "assign", "wait")
  /\ UNCHANGED <<loop, on, queue, timers, now, slept, last, begun, ended, sent, wake>>

Assign(f) ==
  /\ Goto(f, "assign", "wait") /\ last' = [last EXCEPT ![f] = slept[f]]
  /\ UNCHANGED <<loop, on, queue, timers, now, slept, begun, ended, sent, wake>>

\* <-beginCh
Wake(f) ==
  /\ Current(f) \in begun /\ Goto(f, "wait", "code")
  /\ UNCHANGED <<loop, on, queue, timers, now, slept, last, begun, ended, sent, wake>>

\* Mutant of Finish: the last channel is not closed.
FinishOpen(f) ==
  /\ slept[f] = Len(Plan[f]) /\ Goto(f, "code", "done")
  /\ UNCHANGED <<loop, on, queue, timers, now, slept, last, begun, ended, sent, wake>>

\* The function returns and its goroutine closes the last channel.
Finish(f) ==
  /\ slept[f] = Len(Plan[f]) /\ Goto(f, "code", "done")
  /\ ended' = ended \cup {<<f, last[f]>>}
  /\ UNCHANGED <<loop, on, queue, timers, now, slept, last, begun, sent, wake>>

-----------------------------------------------------------------------------
MainLoop ==
  \/ \E f \in Funcs : Start(f)
  \/ \E ch \in Chan : Delay(ch) \/ Fire(ch) \/ Signalled(ch) \/ Resume(ch)
  \/ RunWorkflow \/ SkipTime

Goroutine(f) ==
  CallSleep(f) \/ Register(f) \/ CloseLast(f) \/ Assign(f) \/ Wake(f) \/ Finish(f)

Next ==
  \/ ExecuteWorkflow \/ MainLoop
  \/ \E f \in Funcs : AddSequence(f) \/ SignalWorkflow(f) \/ Goroutine(f)

Spec == Init /\ [][Next]_vars

\* The test executes the workflow; main loop and goroutines run when they can,
\* and the code of functions and workflow sleeps, blocks or returns.
Fairness ==
  /\ WF_vars(ExecuteWorkflow) /\ WF_vars(MainLoop)
  /\ \A f \in Funcs : WF_vars(Goroutine(f))

FairSpec == Spec /\ Fairness

-----------------------------------------------------------------------------
(* Properties.                                                             *)

\* While a function's code runs the main loop is held for that function: it
\* never runs together with the workflow or with another function.
TakeTurns == \A f \in Funcs : pc[f] = "code" => Waits(<<f, last[f]>>)

\* A channel that is about to be closed has not been: closing twice panics.
ClosesOnce ==
  /\ \A f \in Funcs :
       pc[f] = "close" \/ pc[f] = "code" => <<f, last[f]>> \notin ended
  /\ loop = "idle" /\ queue # << >> =>
       ~(Head(queue)[1] = "fire" /\ Head(queue)[2] \in begun)

\* The code after a sleep runs exactly the slept duration later.
SleepsExactly == \A f \in Funcs : pc[f] = "code" => now = wake[f]

\* A function gets to its end, unless the workflow completes before.
FunctionsReturn == \A f \in Funcs : pc[f] = "code" ~> pc[f] = "done" \/ loop = "stopped"
=============================================================================
