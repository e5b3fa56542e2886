----------------------------- MODULE MCRequests -----------------------------
(* Model-checking instance of Requests: t2 and t3 ask for the same pair. *)
EXTENDS Requests, TLC

CONSTANTS t1, t2, t3

MCPairOf == (t1 :> "p1") @@ (t2 :> "p2") @@ (t3 :> "p2")
=============================================================================
