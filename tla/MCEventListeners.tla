-------------------------- MODULE MCEventListeners --------------------------
(* EventListeners with two goroutines and two listeners. *)
EXTENDS EventListeners

CONSTANTS p1, p2, l1, l2

Two == {p1, p2}
TwoListeners == {l1, l2}
=============================================================================
