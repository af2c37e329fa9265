---------------------------- MODULE MCClockSync ----------------------------
(* The constants of the run of ClockSync. *)
EXTENDS ClockSync, TLC

CONSTANTS c1, c2

(* One clock is behind the server's, the other ahead of it. *)
MCOffset == (c1 :> 2) @@ (c2 :> -1)
=============================================================================
