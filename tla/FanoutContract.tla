--------------------------- MODULE FanoutContract ---------------------------
(***************************************************************************)
(* What the calls of ExperimentServer that send a control command promise  *)
(* to the experimenter: the clients a command is meant for are fixed when  *)
(* it is issued, each of them carries it out at most once and nobody else  *)
(* does, and the call succeeds only when all of them have.                 *)
(***************************************************************************)
CONSTANTS Peers, Commands, AckCommands

VARIABLES
    known,      \* the clients the server knows
    outcome,    \* what the caller of a command sees
    addressed,  \* the clients a command is meant for
    carriedOut  \* which client has carried out which command

vars == <<known, outcome, addressed, carriedOut>>

Init ==
    /\ known = {}
    /\ outcome = [k \in Commands |-> "idle"]
    /\ addressed = [k \in Commands |-> {}]
    /\ carriedOut = {}

Join(p) ==
    /\ p \notin known
    /\ known' = known \union {p}
    /\ UNCHANGED <<outcome, addressed, carriedOut>>

Issue(k) ==
    /\ outcome[k] = "idle"
    /\ addressed' = [addressed EXCEPT ![k] = known]
    /\ outcome' = [outcome EXCEPT ![k] = IF known = {} THEN "ok" ELSE "running"]
    /\ UNCHANGED <<known, carriedOut>>

CarryOut(k, p) ==
    /\ outcome[k] # "idle"
    /\ p \in addressed[k]
    /\ <<k, p>> \notin carriedOut
    /\ carriedOut' = carriedOut \union {<<k, p>>}
    /\ UNCHANGED <<known, outcome, addressed>>

Succeed(k) ==
    /\ outcome[k] = "running"
    /\ k \in AckCommands => \A p \in addressed[k] : <<k, p>> \in carriedOut
    /\ outcome' = [outcome EXCEPT ![k] = "ok"]
    /\ UNCHANGED <<known, addressed, carriedOut>>

Fail(k) ==
    /\ outcome[k] = "running"
    /\ outcome' = [outcome EXCEPT ![k] = "failed"]
    /\ UNCHANGED <<known, addressed, carriedOut>>

Next ==
    \/ \E p \in Peers : Join(p)
    \/ \E k \in Commands : Issue(k) \/ Succeed(k) \/ Fail(k)
    \/ \E k \in Commands, p \in Peers : CarryOut(k, p)

Spec == Init /\ [][Next]_vars
=============================================================================
