------------------------------- MODULE MCWSHub -------------------------------
(* WSHub for TLC: interchangeable topics. *)
EXTENDS WSHub, TLC

Symmetry == Permutations(Topics)
=============================================================================
