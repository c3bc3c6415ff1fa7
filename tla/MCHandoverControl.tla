------------------------- MODULE MCHandoverControl --------------------------
(* Model checking of HandoverControl: the constants come from the cfg file. *)
EXTENDS HandoverControl

\* One UE in each of the first two cells.
Apart == <<1, 2>>
=============================================================================
