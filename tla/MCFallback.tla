----------------------------- MODULE MCFallback -----------------------------
(* Model-checking instance of Fallback; its runs check liveness, so they use no symmetry. *)
EXTENDS Fallback
=============================================================================
