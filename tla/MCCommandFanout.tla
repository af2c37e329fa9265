-------------------------- MODULE MCCommandFanout --------------------------
(* The constants of the run of CommandFanout. *)
EXTENDS CommandFanout

CONSTANTS p1, p2, arm
=============================================================================
