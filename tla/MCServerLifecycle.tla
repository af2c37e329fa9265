------------------------- MODULE MCServerLifecycle -------------------------
(* The constants of the runs of ServerLifecycle. *)
EXTENDS ServerLifecycle

CONSTANTS p1, p2
=============================================================================
