------------------------ MODULE ClientRegistryProofs ------------------------
(***************************************************************************)
(* The bounds on what the registry believes, proved for any clients, any   *)
(* heartbeat timeout and any time between two turns of the serve loop.     *)
(***************************************************************************)
EXTENDS ClientRegistry, TLAPS

Present(c) == status[c] \notin {"ABSENT", "DISCONNECTED"}

(* How far the age of a client, which the scan resets, may lag behind its   *)
(* silence: not at all while it is healthy, else by the one reset.          *)
Lag ==
    \A c \in Clients :
        /\ age[c] <= silence[c]
        /\ status[c] \in Healthy =>
              silence[c] = age[c] /\ age[c] < HalfTimeout + sinceScan
        /\ Present(c) =>
              /\ age[c] < HeartbeatTimeout + sinceScan
              /\ silence[c] < age[c] + HalfTimeout + ScanEvery

IInv == TypeOK /\ Lag

LEMMA InitIInv == Init => IInv
BY RegistryAssumption
DEF Init, IInv, TypeOK, Lag, Present, Statuses, Healthy, HeartbeatTimeout, Horizon

(* What a scan of the statuses "stat" and the ages "ages" leaves, given what *)
(* the handler of the turn keeps of the invariant.                           *)
LEMMA ScanKeeps ==
    ASSUME TypeOK,
           NEW stat \in [Clients -> Statuses \union {"ABSENT"}],
           NEW ages \in [Clients -> 0..Horizon],
           Scan(stat, ages),
           silence' \in [Clients -> 0..Horizon],
           \A c \in Clients :
              /\ ages[c] <= silence'[c]
              /\ stat[c] \in Healthy =>
                    silence'[c] = ages[c] /\ ages[c] < HalfTimeout + ScanEvery
              /\ stat[c] \notin {"ABSENT", "DISCONNECTED"} =>
                    silence'[c] < ages[c] + HalfTimeout + ScanEvery
    PROVE  /\ status' \in [Clients -> Statuses \union {"ABSENT"}]
           /\ age' \in [Clients -> 0..Horizon]
           /\ sinceScan' = 0
           /\ Lag'
<1> USE RegistryAssumption DEF HeartbeatTimeout, Horizon
<1>1. sinceScan' = 0
    BY DEF Scan
<1>2. \A c \in Clients : status'[c] = Verdict(stat[c], ages[c])
                       /\ age'[c] = IF status'[c] = stat[c] THEN ages[c] ELSE 0
    BY DEF Scan
<1>3. status' \in [Clients -> Statuses \union {"ABSENT"}]
    BY DEF Scan, Verdict, Statuses
<1>4. age' \in [Clients -> 0..Horizon]
    BY DEF Scan
<1>5. ASSUME NEW c \in Clients
      PROVE  /\ age'[c] <= silence'[c]
             /\ status'[c] \in Healthy =>
                   silence'[c] = age'[c] /\ age'[c] < HalfTimeout
             /\ status'[c] \notin {"ABSENT", "DISCONNECTED"} =>
                   /\ age'[c] < HeartbeatTimeout
                   /\ silence'[c] < age'[c] + HalfTimeout + ScanEvery
  <2>1. /\ ages[c] \in Nat /\ silence'[c] \in Nat
        /\ stat[c] \in Statuses \union {"ABSENT"}
    OBVIOUS
  <2>2. "DEGRADED" \notin Healthy /\ "DISCONNECTED" \notin Healthy /\ "ABSENT" \notin Healthy
    BY DEF Healthy
  <2>3. CASE stat[c] \notin {"ABSENT", "DISCONNECTED"} /\ ages[c] >= HeartbeatTimeout
    BY <1>2, <2>1, <2>2, <2>3 DEF Verdict
  <2>4. CASE stat[c] \in Healthy /\ ages[c] >= HalfTimeout /\ ages[c] < HeartbeatTimeout
    BY <1>2, <2>1, <2>2, <2>4 DEF Verdict
  <2>5. CASE /\ stat[c] \in {"ABSENT", "DISCONNECTED"} \/ ages[c] < HeartbeatTimeout
             /\ stat[c] \notin Healthy \/ ages[c] < HalfTimeout
    BY <1>2, <2>1, <2>2, <2>5 DEF Verdict
  <2>. QED BY <2>1, <2>2, <2>3, <2>4, <2>5
<1>. QED BY <1>1, <1>3, <1>4, <1>5 DEF Lag, Present

(* A turn that heard of a client. *)
LEMMA HeardKeeps ==
    ASSUME IInv, NEW c \in Clients, NEW s \in Statuses \union {"ABSENT"}, Heard(c, s),
           role' \in [Clients -> Roles \union {"NONE"}]
    PROVE  IInv'
<1> DEFINE stat == [status EXCEPT ![c] = s]
           ages == [age EXCEPT ![c] = 0]
<1>1. /\ stat \in [Clients -> Statuses \union {"ABSENT"}]
      /\ ages \in [Clients -> 0..Horizon]
      /\ silence' \in [Clients -> 0..Horizon]
    BY RegistryAssumption DEF IInv, TypeOK, Heard, Horizon
<1>2. \A d \in Clients :
         /\ ages[d] <= silence'[d]
         /\ stat[d] \in Healthy =>
               silence'[d] = ages[d] /\ ages[d] < HalfTimeout + ScanEvery
         /\ stat[d] \notin {"ABSENT", "DISCONNECTED"} =>
               silence'[d] < ages[d] + HalfTimeout + ScanEvery
    BY RegistryAssumption DEF IInv, TypeOK, Lag, Present, Heard
<1>3. Scan(stat, ages) /\ UNCHANGED barrierVars
    BY DEF Heard
<1> HIDE DEF stat, ages
<1>4. /\ status' \in [Clients -> Statuses \union {"ABSENT"}]
      /\ age' \in [Clients -> 0..Horizon]
      /\ sinceScan' = 0 /\ Lag'
    BY <1>1, <1>2, <1>3, ScanKeeps DEF IInv
<1>. QED
    BY <1>1, <1>3, <1>4, RegistryAssumption DEF IInv, TypeOK, barrierVars

LEMMA InvStep == IInv /\ [Next]_vars => IInv'
<1> SUFFICES ASSUME IInv, [Next]_vars PROVE IInv'
    OBVIOUS
<1> USE RegistryAssumption DEF IInv
<1>1. ASSUME NEW c \in Clients, NEW r \in Roles, RegisterOk(c, r) PROVE IInv'
  <2>1. role' \in [Clients -> Roles \union {"NONE"}]
    BY <1>1 DEF RegisterOk, TypeOK
  <2>. QED BY <1>1, <2>1, HeardKeeps DEF RegisterOk, Statuses, Healthy
<1>2. ASSUME NEW c \in Clients, RegisterReject(c) \/ SignOfLife(c) PROVE IInv'
    BY <1>2, HeardKeeps DEF RegisterReject, SignOfLife, TypeOK
<1>3. ASSUME NEW c \in Clients, NEW s \in Reported, Report(c, s) PROVE IInv'
    BY <1>3, HeardKeeps DEF Report, TypeOK
<1>4. CASE IdleTurn
  <2>1. /\ status' \in [Clients -> Statuses \union {"ABSENT"}]
        /\ age' \in [Clients -> 0..Horizon]
        /\ sinceScan' = 0 /\ Lag'
    BY <1>4, ScanKeeps DEF IdleTurn, TypeOK, Lag, Present
  <2>. QED BY <1>4, <2>1 DEF IdleTurn, TypeOK, barrierVars
<1>5. CASE StartWait
    BY <1>5 DEF StartWait, TypeOK, Lag, Present, clientVars
<1>6. CASE Poll
    BY <1>6 DEF Poll, TypeOK, Lag, Present, clientVars
<1>7. CASE Tick
  <2>1. TypeOK'
    BY <1>7 DEF Tick, TypeOK, Later, Horizon
  <2>2. Lag'
    BY <1>7 DEF Tick, TypeOK, Lag, Present, Later, Horizon, HeartbeatTimeout, Healthy
  <2>. QED BY <2>1, <2>2
<1>8. CASE UNCHANGED vars
    BY <1>8 DEF vars, clientVars, barrierVars, TypeOK, Lag, Present
<1>. QED
    BY <1>1, <1>2, <1>3, <1>4, <1>5, <1>6, <1>7, <1>8 DEF Next, Message

LEMMA SpecIInv == Spec => []IInv
BY InitIInv, InvStep, PTL DEF Spec

(* Every variable of the registry holds a value of its kind. *)
THEOREM TypeCorrect == Spec => []TypeOK
BY SpecIInv, PTL DEF IInv

(* A client the registry shows as healthy was heard of less than half the   *)
(* heartbeat timeout and one turn of the serve loop ago.                    *)
THEOREM HealthyClientsAreFresh == Spec => []HealthyIsFresh
<1>1. IInv => HealthyIsFresh
    BY RegistryAssumption DEF IInv, TypeOK, Lag, HealthyIsFresh
<1>. QED BY SpecIInv, <1>1, PTL

(* A client silent for one and a half timeouts and two turns is dropped.    *)
THEOREM SilentClientsAreDropped == Spec => []SilentIsDropped
<1>1. IInv => SilentIsDropped
    BY RegistryAssumption
    DEF IInv, TypeOK, Lag, Present, SilentIsDropped, HeartbeatTimeout
<1>. QED BY SpecIInv, <1>1, PTL

(* A client is disconnected only when the server has not heard of it for    *)
(* the heartbeat timeout: its age is never ahead of its silence.            *)
THEOREM DisconnectsAreTrue == Spec => NoFalseDisconnect
<1> DEFINE Step(c) == status[c] # "DISCONNECTED" /\ status'[c] = "DISCONNECTED"
                        => silence[c] >= HeartbeatTimeout
<1>1. ASSUME IInv, NEW c \in Clients, NEW d \in Clients,
             NEW s \in Statuses \union {"ABSENT"}, Heard(d, s),
             s = "DISCONNECTED" => status[d] = "DISCONNECTED"
      PROVE  Step(c)
  <2>1. [status EXCEPT ![d] = s][c] = "DISCONNECTED" => status[c] = "DISCONNECTED"
    BY <1>1 DEF IInv, TypeOK
  <2>2. [age EXCEPT ![d] = 0][c] >= HeartbeatTimeout => age[c] >= HeartbeatTimeout
    BY <1>1, RegistryAssumption DEF IInv, TypeOK, HeartbeatTimeout
  <2>3. age[c] <= silence[c] /\ age[c] \in Int /\ silence[c] \in Int
    BY <1>1 DEF IInv, TypeOK, Lag
  <2>4. status'[c] = Verdict([status EXCEPT ![d] = s][c], [age EXCEPT ![d] = 0][c])
    BY <1>1 DEF Heard, Scan
  <2>. QED
    BY <2>1, <2>2, <2>3, <2>4, RegistryAssumption DEF Verdict, HeartbeatTimeout
<1>2. ASSUME IInv, [Next]_vars, NEW c \in Clients PROVE Step(c)
  <2>1. ASSUME NEW d \in Clients, NEW r \in Roles, RegisterOk(d, r) PROVE Step(c)
    BY <1>1, <1>2, <2>1 DEF RegisterOk, Statuses, Healthy
  <2>2. ASSUME NEW d \in Clients, RegisterReject(d) \/ SignOfLife(d) PROVE Step(c)
    BY <1>1, <1>2, <2>2 DEF RegisterReject, SignOfLife, IInv, TypeOK
  <2>3. ASSUME NEW d \in Clients, NEW s \in Reported, Report(d, s) PROVE Step(c)
    BY <1>1, <1>2, <2>3, RegistryAssumption DEF Report, IInv, TypeOK
  <2>4. CASE IdleTurn
    BY <1>2, <2>4, RegistryAssumption
    DEF IdleTurn, Scan, Verdict, IInv, TypeOK, Lag, HeartbeatTimeout
  <2>5. CASE StartWait \/ Poll \/ Tick \/ UNCHANGED vars
    BY <2>5 DEF StartWait, Poll, Tick, vars, clientVars
  <2>. QED BY <1>2, <2>1, <2>2, <2>3, <2>4, <2>5 DEF Next, Message
<1>3. IInv /\ [Next]_vars => [\A c \in Clients : Step(c)]_vars
    BY <1>2
<1>. QED
    BY SpecIInv, <1>3, PTL DEF Spec, NoFalseDisconnect

(* The barrier lets an experiment begin only with live clients.             *)
THEOREM BarrierIsLive == Spec => BarrierPassesLive
<1> DEFINE Passed ==
      waiter = "polling" /\ waiter' = "passed" =>
         \A r \in Required : \E c \in Clients :
            /\ role[c] = r
            /\ status[c] \in {"READY", "RUNNING"}
            /\ silence[c] < HalfTimeout + ScanEvery
<1>1. IInv => HealthyIsFresh
    BY RegistryAssumption DEF IInv, TypeOK, Lag, HealthyIsFresh
<1>2. ASSUME HealthyIsFresh, [Next]_vars PROVE Passed
  <2>1. CASE Poll
    BY <1>2, <2>1 DEF Poll, MissingRoles, ReadyFor, HealthyIsFresh, Healthy
  <2>2. CASE ~Poll
    BY <1>2, <2>2
    DEF Next, Message, RegisterOk, RegisterReject, Report, SignOfLife, Heard,
        IdleTurn, StartWait, Tick, vars, barrierVars
  <2>. QED BY <2>1, <2>2
<1>3. HealthyIsFresh /\ [Next]_vars => [Passed]_vars
    BY <1>2
<1>. QED
    BY SpecIInv, <1>1, <1>3, PTL DEF Spec, BarrierPassesLive
=============================================================================
