-------------------------- MODULE MCRicQueryCycle --------------------------
(* Model checking of RicQueryCycle: the constants come from the cfg files. *)
EXTENDS RicQueryCycle
=============================================================================
