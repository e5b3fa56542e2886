-------------------------- MODULE MCStreamManager --------------------------
(* Model-checking instance of StreamManager; its runs check liveness, so they use no symmetry. *)
EXTENDS StreamManager
=============================================================================
