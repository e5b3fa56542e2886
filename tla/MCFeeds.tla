------------------------------- MODULE MCFeeds -------------------------------
(* Model-checking instance of Feeds; its runs check liveness, so they use no symmetry. *)
EXTENDS Feeds
=============================================================================
