--------------------------- MODULE MCTrialRounds ---------------------------
(* The constants of the run of TrialRounds. *)
EXTENDS TrialRounds, TLC

CONSTANTS p1, p2

Symmetry == Permutations(Peers)
=============================================================================
