---------------------------- MODULE MCExecCalls -----------------------------
(***************************************************************************)
(* A call by a generated client and one through Call, and two workflows    *)
(* with three calls: ids differ only within a workflow.  Any two calls are *)
(* made; the activity that answers a client is retried if the other call   *)
(* is not a client's.                                                      *)
(***************************************************************************)
EXTENDS ExecCalls

MCCalls == {"exec", "call"}
MCDirect == {"call"}
MCHandlers == {"h1", "h2"}
MCWCalls == {"p1", "p2", "q1"}
MCParents == {"p", "q"}
MCParent(w) == IF w = "q1" THEN "q" ELSE "p"
MCId(w) == IF w = "p2" THEN "2" ELSE "1"
=============================================================================
