--------------------------- MODULE MCE2Reporting ---------------------------
(* Model checking of E2Reporting: the constants come from the cfg files. *)
EXTENDS E2Reporting
=============================================================================
