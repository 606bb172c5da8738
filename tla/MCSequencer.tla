----------------------------- MODULE MCSequencer ----------------------------
(* Sequencer with sleeps of zero, equal and different durations. *)
EXTENDS Sequencer, TLC

MCFuncs == {"f", "g"}
MCPlan == "f" :> <<1, 2>> @@ "g" :> <<2, 0, 1>>
=============================================================================
