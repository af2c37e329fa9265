--------------------------- MODULE ClientRegistry ---------------------------
(***************************************************************************)
(* What the server believes of its clients: the ClientRegistry, the turns  *)
(* of the serve loop that write it (registrations, status reports, signs   *)
(* of life, and the health scan that ends every turn), and the barrier     *)
(* that reads it.                                                          *)
(*                                                                         *)
(* A turn of the serve loop is one step: nothing else runs between the     *)
(* handler and the scan, as sending to the in-memory transport does not    *)
(* suspend.  Time is counted in ticks and saturates at Horizon, beyond     *)
(* every threshold of the code.                                            *)
(***************************************************************************)
EXTENDS Integers

CONSTANTS
    Clients,         \* the client ids
    Roles,           \* the roles a client may register with
    Required,        \* config.experiment.required_roles
    Reported,        \* the statuses a client may send in CLIENT_STATUS
    HalfTimeout,     \* heartbeat_timeout_ms / 2, in ticks: degraded_s
    ScanEvery,       \* the serve loop turns at least once in so many ticks
    BarrierTimeout   \* the timeout of wait_until_clients_ready, in ticks

Healthy == {"CONNECTED", "REGISTERED", "SYNCED", "READY", "RUNNING"}
Statuses == Healthy \union {"DEGRADED", "RECONNECTING", "REJECTED", "DISCONNECTED"}

ASSUME RegistryAssumption ==
    /\ Required \subseteq Roles
    /\ Reported \subseteq Statuses \ {"DISCONNECTED"}
    /\ HalfTimeout \in Nat \ {0}
    /\ ScanEvery \in Nat \ {0}
    /\ BarrierTimeout \in Nat

HeartbeatTimeout == 2 * HalfTimeout
Horizon == 3 * HalfTimeout + 2 * ScanEvery

VARIABLES
    status,     \* current_status of a client, "ABSENT" when it never registered
    role,       \* the role it is registered with, "NONE" when ABSENT
    age,        \* time.monotonic() - last_seen
    silence,    \* history: the time since the server last heard of the client
    sinceScan,  \* the time since the last turn of the serve loop
    waiter,     \* the state of wait_until_clients_ready
    patience,   \* the time it has left
    session     \* the state of the session as far as the barrier writes it

clientVars == <<status, role, age, silence>>
barrierVars == <<waiter, patience, session>>
vars == <<clientVars, sinceScan, barrierVars>>

-----------------------------------------------------------------------------
Init ==
    /\ status = [c \in Clients |-> "ABSENT"]
    /\ role = [c \in Clients |-> "NONE"]
    /\ age = [c \in Clients |-> 0]
    /\ silence = [c \in Clients |-> 0]
    /\ sinceScan = 0
    /\ waiter = "none"
    /\ patience = 0
    /\ session = "IDLE"

(* Mutant of Verdict: only a healthy client is ever disconnected. *)
VerdictSparesDegraded(s, a) ==
    IF s \in Healthy /\ a >= HeartbeatTimeout THEN "DISCONNECTED"
    ELSE IF s \in Healthy /\ a >= HalfTimeout THEN "DEGRADED"
    ELSE s

(* _refresh_client_health for one client of the registry. *)
Verdict(s, a) ==
    IF s \notin {"ABSENT", "DISCONNECTED"} /\ a >= HeartbeatTimeout THEN "DISCONNECTED"
    ELSE IF s \in Healthy /\ a >= HalfTimeout THEN "DEGRADED"
    ELSE s

(* Mutant of Scan: every client's status is written back, and touched. *)
ScanTouchesAll(stat, ages) ==
    /\ status' = [c \in Clients |-> Verdict(stat[c], ages[c])]
    /\ age' = [c \in Clients |-> 0]
    /\ sinceScan' = 0

(* The scan over the statuses and ages that the handler left.  It writes a  *)
(* new status with update_status, which touches the client.                 *)
Scan(stat, ages) ==
    /\ status' = [c \in Clients |-> Verdict(stat[c], ages[c])]
    /\ age' = [c \in Clients |-> IF Verdict(stat[c], ages[c]) = stat[c]
                                   THEN ages[c] ELSE 0]
    /\ sinceScan' = 0

(* Mutant of Heard: a message does not touch its sender. *)
HeardUntouched(c, s) ==
    /\ silence' = [silence EXCEPT ![c] = 0]
    /\ Scan([status EXCEPT ![c] = s], age)
    /\ UNCHANGED barrierVars

(* A turn that received a message of c, which leaves it with status s.  The *)
(* touch is lost on a client that is not in the registry.                   *)
Heard(c, s) ==
    /\ silence' = [silence EXCEPT ![c] = 0]
    /\ Scan([status EXCEPT ![c] = s], [age EXCEPT ![c] = 0])
    /\ UNCHANGED barrierVars

(* REGISTER, accepted: a client that is absent or disconnected gets a new   *)
(* entry, any other one must keep its role.                                 *)
RegisterOk(c, r) ==
    /\ status[c] \in {"ABSENT", "DISCONNECTED"} \/ role[c] = r
    /\ role' = [role EXCEPT ![c] = r]
    /\ Heard(c, "REGISTERED")

(* REGISTER, rejected for its version, its secret or its role: a sign of    *)
(* life all the same.                                                       *)
RegisterReject(c) ==
    /\ Heard(c, status[c])
    /\ UNCHANGED role

(* CLIENT_STATUS: sync_clock, ready and the degraded notice of a client. *)
Report(c, s) ==
    /\ Heard(c, IF status[c] = "ABSENT" THEN "ABSENT" ELSE s)
    /\ UNCHANGED role

(* HEARTBEAT writes back the status it finds; PING, RESULT_REPORT,          *)
(* EVENT_REPORT and ACK only touch the client.                              *)
SignOfLife(c) ==
    /\ Heard(c, status[c])
    /\ UNCHANGED role

(* A turn that received nothing within 50 ms. *)
IdleTurn ==
    /\ Scan(status, age)
    /\ UNCHANGED <<role, silence, barrierVars>>

(* wait_until_clients_ready starts to poll ... *)
StartWait ==
    /\ waiter # "polling"
    /\ waiter' = "polling"
    /\ patience' = BarrierTimeout
    /\ UNCHANGED <<clientVars, sinceScan, session>>

(* Mutant of ReadyFor: any client that is not disconnected will do. *)
PresentFor(r) == \E c \in Clients : role[c] = r /\ status[c] # "DISCONNECTED"

ReadyFor(r) == \E c \in Clients : role[c] = r /\ status[c] \in {"READY", "RUNNING"}
MissingRoles == {r \in Required : ~ReadyFor(r)}

(* Mutant of Poll: the deadline is never looked at. *)
PollForever ==
    /\ waiter = "polling"
    /\ IF MissingRoles = {}
         THEN waiter' = "passed" /\ session' = "READY"
         ELSE UNCHANGED <<waiter, session>>
    /\ UNCHANGED <<clientVars, sinceScan, patience>>

(* ... and reads the registry every 20 ms, its deadline only after that.    *)
Poll ==
    /\ waiter = "polling"
    /\ IF MissingRoles = {}
         THEN waiter' = "passed" /\ session' = "READY"
         ELSE /\ waiter' = IF patience = 0 THEN "timedout" ELSE "polling"
              /\ UNCHANGED session
    /\ UNCHANGED <<clientVars, sinceScan, patience>>

Later(t) == IF t < Horizon THEN t + 1 ELSE t

Tick ==
    /\ sinceScan < ScanEvery
    /\ sinceScan' = sinceScan + 1
    /\ age' = [c \in Clients |-> IF status[c] = "ABSENT" THEN age[c] ELSE Later(age[c])]
    /\ silence' = [c \in Clients |-> IF status[c] = "ABSENT" THEN silence[c]
                                                             ELSE Later(silence[c])]
    /\ patience' = IF patience > 0 THEN patience - 1 ELSE 0
    /\ UNCHANGED <<status, role, waiter, session>>

Message(c) ==
    \/ \E r \in Roles : RegisterOk(c, r)
    \/ RegisterReject(c)
    \/ \E s \in Reported : Report(c, s)
    \/ SignOfLife(c)

Next ==
    \/ \E c \in Clients : Message(c)
    \/ IdleTurn
    \/ StartWait
    \/ Poll
    \/ Tick

Spec == Init /\ [][Next]_vars

(* The serve loop turns (recv returns after 50 ms at the latest), the       *)
(* barrier polls and time passes; no client has to send anything.           *)
Fairness == WF_vars(IdleTurn) /\ WF_vars(Poll) /\ WF_vars(Tick)
FairSpec == Spec /\ Fairness

-----------------------------------------------------------------------------
TypeOK ==
    /\ status \in [Clients -> Statuses \union {"ABSENT"}]
    /\ role \in [Clients -> Roles \union {"NONE"}]
    /\ age \in [Clients -> 0..Horizon]
    /\ silence \in [Clients -> 0..Horizon]
    /\ sinceScan \in 0..ScanEvery
    /\ waiter \in {"none", "polling", "passed", "timedout"}
    /\ patience \in 0..BarrierTimeout
    /\ session \in {"IDLE", "READY"}

(* A client the registry shows as connected, registered, synced, ready or   *)
(* running was heard of within half the heartbeat timeout and a scan,       *)
(* whatever it or the scan wrote since.                                     *)
HealthyIsFresh ==
    \A c \in Clients : status[c] \in Healthy => silence[c] < HalfTimeout + ScanEvery

(* The registry gives up a client that went silent, though only after one   *)
(* and a half timeouts and two scans: DEGRADED starts its age again.        *)
SilentIsDropped ==
    \A c \in Clients :
        status[c] \notin {"ABSENT", "DISCONNECTED"} =>
            silence[c] < 3 * HalfTimeout + 2 * ScanEvery - 1

(* No client is disconnected that was heard of within the heartbeat timeout. *)
NoFalseDisconnect ==
    [][\A c \in Clients :
         status[c] # "DISCONNECTED" /\ status'[c] = "DISCONNECTED"
           => silence[c] >= HeartbeatTimeout]_vars

(* When wait_until_clients_ready lets an experiment begin, each required    *)
(* role has a client that is ready and has not gone silent.                 *)
BarrierPassesLive ==
    [][waiter = "polling" /\ waiter' = "passed" =>
         \A r \in Required : \E c \in Clients :
            /\ role[c] = r
            /\ status[c] \in {"READY", "RUNNING"}
            /\ silence[c] < HalfTimeout + ScanEvery]_vars

(* wait_until_clients_ready returns or raises, whatever the clients do. *)
BarrierReturns == waiter = "polling" ~> waiter # "polling"
=============================================================================
