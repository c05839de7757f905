----------------------------- MODULE MCWaitLoop -----------------------------
(* The state space of a poll is finite as it is.                           *)
EXTENDS WaitLoop
=============================================================================
