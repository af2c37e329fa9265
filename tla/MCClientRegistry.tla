-------------------------- MODULE MCClientRegistry --------------------------
(* The constants of the run of ClientRegistry. *)
EXTENDS ClientRegistry

CONSTANTS c1, c2, stim, resp
=============================================================================
