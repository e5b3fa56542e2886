------------------------------- MODULE MCCalls -------------------------------
(* Model-checking instance of Calls. *)
EXTENDS Calls
=============================================================================
