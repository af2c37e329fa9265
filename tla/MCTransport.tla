---------------------------- MODULE MCTransport ----------------------------
(* The constants of the run of Transport. *)
EXTENDS Transport

CONSTANT c1

Wire(backend, mandatory, handover) ==
    [backend |-> backend, mandatory |-> mandatory, handover |-> handover]

(* In memory, as configured by default, and with both options off. *)
MCWires == {Wire("memory", TRUE, TRUE), Wire("zmq", TRUE, TRUE), Wire("zmq", FALSE, FALSE)}
=============================================================================
