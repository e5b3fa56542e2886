---------------------------- MODULE MCStreamHub ----------------------------
(* Model-checking instance of StreamHub. *)
EXTENDS StreamHub, TLC

Symmetry == Permutations(Sub) \union Permutations(Topic)
=============================================================================
