-------------------------- MODULE MCClientRuntime --------------------------
(* The runs of ClientRuntime: their constants are numbers, in the .cfg files. *)
EXTENDS ClientRuntime
=============================================================================
