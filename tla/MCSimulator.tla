---------------------------- MODULE MCSimulator ----------------------------
(* Model checking of Simulator: the constants come from the cfg files. *)
EXTENDS Simulator
=============================================================================
