-------------------------- MODULE MCE2Registration --------------------------
(* Model checking of E2Registration: the constants come from the cfg files. *)
EXTENDS E2Registration, TLC

Symmetry == Permutations(Nodes)
=============================================================================
