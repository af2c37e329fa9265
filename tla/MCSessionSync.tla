--------------------------- MODULE MCSessionSync ---------------------------
(* The constants of the runs of SessionSync. *)
EXTENDS SessionSync

CONSTANTS c1, c2, t1, t2
=============================================================================
