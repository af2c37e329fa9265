------------------------ MODULE CommandFanoutProofs ------------------------
(***************************************************************************)
(* The safety of the fan-out, proved for any finite set of clients, any    *)
(* set of commands and any timeout.                                        *)
(***************************************************************************)
EXTENDS CommandFanout, FiniteSetTheorems, TLAPS

Delivered == {"sent", "waiting", "done", "timedout"}

(* A call exists exactly for the clients its command was fanned out to. *)
CallsOfFanout ==
    /\ \A c \in Calls : call[c] # "none" <=> c[2] \in expected[c[1]]
    /\ \A k \in Commands : fan[k] = "idle" => expected[k] = {}

(* A command travels to its client, is applied there, and its ACK travels  *)
(* back, once each.                                                        *)
OneWay ==
    /\ \A c \in wire : call[c] \in Delivered /\ c \notin applied
    /\ \A c \in applied : call[c] \in Delivered
    /\ acks \subseteq applied
    /\ resolved \subseteq applied \ acks

(* What the tables of the server say of a call. *)
Tables ==
    /\ \A c \in tracked : c[1] \in AckCommands /\ call[c] \notin {"none", "created"}
    /\ pending \subseteq tracked
    /\ resolved \intersect tracked = {}
    /\ \A c \in Calls : call[c] = "created" =>
          c \notin resolved /\ c[2] \notin applyTimes[c[1]]
    /\ \A c \in Calls : c[1] \in AckCommands /\ call[c] = "done" => c \in resolved
    /\ \A k \in Commands : applyTimes[k] \subseteq expected[k]
    /\ \A c \in tracked : c[2] \notin applyTimes[c[1]]
    /\ \A c \in resolved : c[2] \in applyTimes[c[1]]

(* A group is open exactly while an apply time is missing. *)
Groups ==
    \A k \in AckCommands :
        /\ fan[k] = "idle" => k \notin groups
        /\ fan[k] # "idle" /\ k \notin groups => applyTimes[k] = expected[k]
        /\ k \in groups /\ expected[k] # {} => applyTimes[k] # expected[k]

OkMeansDone ==
    \A k \in Commands : fan[k] = "ok" =>
        \A p \in expected[k] : call[<<k, p>>] = "done"

IInv == TypeOK /\ CallsOfFanout /\ OneWay /\ Tables /\ Groups /\ OkMeansDone

-----------------------------------------------------------------------------
LEMMA InitIInv == Init => IInv
BY FanoutAssumption DEF Init, IInv, TypeOK, CallsOfFanout, OneWay, Tables, Groups,
   OkMeansDone, Calls, FanStates, CallStates

LEMMA TypeStep == TypeOK /\ [Next]_vars => TypeOK'
<1> SUFFICES ASSUME TypeOK, [Next]_vars PROVE TypeOK'
    OBVIOUS
<1> USE FanoutAssumption DEF TypeOK, Calls
<1>1. ASSUME NEW p \in Peers, Register(p) PROVE TypeOK'
    BY <1>1 DEF Register, groupVars, callVars, pendingVars, netVars
<1>2. ASSUME NEW k \in Commands, Issue(k) PROVE TypeOK'
    BY <1>2 DEF Issue, pendingVars, netVars, FanStates, CallStates
<1>3. ASSUME NEW k \in Commands, ReturnOk(k) PROVE TypeOK'
    BY <1>3 DEF ReturnOk, groupVars, callVars, pendingVars, netVars, FanStates
<1>4. ASSUME NEW k \in Commands, ReturnFailed(k) PROVE TypeOK'
    BY <1>4 DEF ReturnFailed, groupVars, callVars, pendingVars, netVars, FanStates
<1>5. ASSUME NEW c \in Calls, CallStart(c) PROVE TypeOK'
    BY <1>5 DEF CallStart, serverVars, pendingVars, netVars, CallStates
<1>6. ASSUME NEW c \in Calls, Transmit(c) PROVE TypeOK'
    BY <1>6 DEF Transmit, serverVars, groupVars, pendingVars, CallStates
<1>7. ASSUME NEW c \in Calls, SendError(c) PROVE TypeOK'
    BY <1>7 DEF SendError, serverVars, groupVars, pendingVars, netVars, CallStates
<1>8. ASSUME NEW c \in Calls, CallSent(c) PROVE TypeOK'
    BY <1>8 DEF CallSent, serverVars, groupVars, pendingVars, netVars, CallStates
<1>9. ASSUME NEW c \in Calls, CallResume(c) PROVE TypeOK'
    BY <1>9 DEF CallResume, serverVars, groupVars, pendingVars, netVars, CallStates
<1>10. ASSUME NEW c \in Calls, CallTimeout(c) PROVE TypeOK'
    BY <1>10 DEF CallTimeout, serverVars, groupVars, pendingVars, netVars, CallStates
<1>11. ASSUME NEW c \in Calls, PeerApply(c) PROVE TypeOK'
    BY <1>11 DEF PeerApply, serverVars, groupVars, callVars, pendingVars
<1>12. ASSUME NEW c \in Calls, Lose(c) PROVE TypeOK'
    BY <1>12 DEF Lose, serverVars, groupVars, callVars, pendingVars
<1>13. CASE Scan
    BY <1>13 DEF Scan, ExpireFrom, serverVars, groupVars, callVars, netVars
<1>14. ASSUME NEW c \in Calls, HandleAck(c) PROVE TypeOK'
    BY <1>14 DEF HandleAck, ExpireFrom, ObserveApply, serverVars, groupVars
<1>15. CASE Tick
    BY <1>15 DEF Tick, serverVars, groupVars, netVars
<1>16. CASE UNCHANGED vars
    BY <1>16 DEF vars, serverVars, groupVars, callVars, pendingVars, netVars
<1>. QED
    BY <1>1, <1>2, <1>3, <1>4, <1>5, <1>6, <1>7, <1>8, <1>9, <1>10, <1>11,
       <1>12, <1>13, <1>14, <1>15, <1>16
    DEF Next, CallStep, ServeLoop

(* Every variable of the fan-out holds a value of its kind. *)
THEOREM TypeCorrect == Spec => []TypeOK
<1>1. Init => TypeOK
    BY InitIInv DEF IInv
<1>. QED
    BY <1>1, TypeStep, PTL DEF Spec

(* The test by which _observe_ack_timing finds a group complete. *)
LEMMA FullSubset ==
    ASSUME NEW S, IsFiniteSet(S), NEW T \in SUBSET S
    PROVE  Cardinality(T) >= Cardinality(S) <=> T = S
<1>1. /\ IsFiniteSet(T) /\ Cardinality(T) <= Cardinality(S)
      /\ Cardinality(S) = Cardinality(T) => S = T
    BY FS_Subset
<1>2. Cardinality(T) \in Nat /\ Cardinality(S) \in Nat
    BY <1>1, FS_CardinalityType
<1>. QED BY <1>1, <1>2

(* Every action keeps the five parts of the inductive invariant beside the  *)
(* typing.  Only the ACK takes more than the definitions: it must find the  *)
(* group open, and close it exactly when the last apply time is in.         *)
Parts == CallsOfFanout /\ OneWay /\ Tables /\ Groups /\ OkMeansDone

LEMMA InvStep == IInv /\ [Next]_vars => IInv'
<1> SUFFICES ASSUME IInv, [Next]_vars PROVE IInv'
    OBVIOUS
<1>0. TypeOK'
    BY TypeStep DEF IInv
<1> USE DEF Parts, IInv, TypeOK, Calls, CallsOfFanout, OneWay, Tables, Groups,
            OkMeansDone, Delivered
<1>1. ASSUME NEW p \in Peers, Register(p) PROVE Parts'
    BY <1>1 DEF Register, groupVars, callVars, pendingVars, netVars
<1>2. ASSUME NEW k \in Commands, Issue(k) PROVE Parts'
    BY <1>2 DEF Issue, pendingVars, netVars
<1>3. ASSUME NEW k \in Commands, ReturnOk(k) PROVE Parts'
    BY <1>3 DEF ReturnOk, groupVars, callVars, pendingVars, netVars
<1>4. ASSUME NEW k \in Commands, ReturnFailed(k) PROVE Parts'
    BY <1>4 DEF ReturnFailed, groupVars, callVars, pendingVars, netVars
<1>5. ASSUME NEW c \in Calls, CallStart(c) PROVE Parts'
    BY <1>5 DEF CallStart, serverVars, pendingVars, netVars
<1>6. ASSUME NEW c \in Calls, Transmit(c) PROVE Parts'
    BY <1>6 DEF Transmit, serverVars, groupVars, pendingVars
<1>7. ASSUME NEW c \in Calls, SendError(c) PROVE Parts'
    BY <1>7 DEF SendError, serverVars, groupVars, pendingVars, netVars
<1>8. ASSUME NEW c \in Calls, CallSent(c) PROVE Parts'
    BY <1>8 DEF CallSent, serverVars, groupVars, pendingVars, netVars
<1>9. ASSUME NEW c \in Calls, CallResume(c) PROVE Parts'
    BY <1>9 DEF CallResume, serverVars, groupVars, pendingVars, netVars
<1>10. ASSUME NEW c \in Calls, CallTimeout(c) PROVE Parts'
    BY <1>10 DEF CallTimeout, serverVars, groupVars, pendingVars, netVars
<1>11. ASSUME NEW c \in Calls, PeerApply(c) PROVE Parts'
    BY <1>11 DEF PeerApply, serverVars, groupVars, callVars, pendingVars
<1>12. ASSUME NEW c \in Calls, Lose(c) PROVE Parts'
    BY <1>12 DEF Lose, serverVars, groupVars, callVars, pendingVars
<1>13. ASSUME Scan PROVE Parts'
    BY <1>13 DEF Scan, ExpireFrom, serverVars, groupVars, callVars, netVars
<1>14. ASSUME NEW c \in Calls, HandleAck(c) PROVE Parts'
  <2>0. /\ UNCHANGED <<registered, fan, expected, call, deadline, expiry, wire, applied>>
        /\ acks' = acks \ {c} /\ c \in acks
        /\ pending' \subseteq pending \ {c}
    BY <1>14 DEF HandleAck, ExpireFrom, serverVars
  <2>1. CASE c \notin pending
    (* The call gave up or its entry expired: the ACK is ignored. *)
    BY <1>14, <2>0, <2>1 DEF HandleAck, groupVars
  <2>2. CASE c \in pending
    <3> DEFINE k == c[1]
               p == c[2]
               times == applyTimes[k] \union {p}
    <3>1. /\ k \in AckCommands /\ k \in Commands /\ p \in Peers /\ c = <<k, p>>
          /\ c \in tracked
          /\ p \in expected[k] \ applyTimes[k]
          /\ call[c] \notin {"none", "created"}
      BY <2>2, FanoutAssumption
    <3>2. fan[k] # "idle" /\ k \in groups
      BY <3>1
    <3>3. /\ tracked' = tracked \ {c}
          /\ applyTimes' = [applyTimes EXCEPT ![k] = times]
          /\ groups' = IF Cardinality(times) >= Cardinality(expected[k])
                         THEN groups \ {k} ELSE groups
          /\ resolved' = IF call[c] \in Unanswered THEN resolved \union {c} ELSE resolved
      BY <1>14, <2>2, <3>1, <3>2 DEF HandleAck, ObserveApply
    <3>4. times \subseteq expected[k] /\ IsFiniteSet(expected[k])
      BY <3>1, FS_Subset, FanoutAssumption
    <3>5. Cardinality(times) >= Cardinality(expected[k]) <=> times = expected[k]
      <4>1. \A S, T : IsFiniteSet(S) /\ T \in SUBSET S =>
                 (Cardinality(T) >= Cardinality(S) <=> T = S)
        BY FullSubset
      <4>2. times \in SUBSET expected[k]
        BY <3>4
      <4> HIDE DEF times, k
      <4>. QED BY <3>4, <4>1, <4>2
    <3>6. groups' = IF times = expected[k] THEN groups \ {k} ELSE groups
      BY <3>3, <3>5
    <3> HIDE DEF times
    <3>7. Groups'
      <4>1. applyTimes'[k] = times /\ groups' \subseteq groups
        BY <3>1, <3>3, <3>6
      <4>2. \A j \in AckCommands \ {k} :
                 applyTimes'[j] = applyTimes[j] /\ (j \in groups' <=> j \in groups)
        BY <3>1, <3>3, <3>6, FanoutAssumption
      <4>3. times = expected[k] <=> k \notin groups'
        BY <3>2, <3>6
      <4>. QED BY <2>0, <3>2, <4>1, <4>2, <4>3
    <3>8. Tables'
      <4>1. applyTimes'[k] = times /\ \A j \in Commands \ {k} : applyTimes'[j] = applyTimes[j]
        BY <3>1, <3>3
      <4>2. \A j \in Commands : applyTimes'[j] \subseteq expected'[j]
        BY <2>0, <3>4, <4>1
      <4>3. \A d \in tracked' : d[2] \notin applyTimes'[d[1]]
        BY <3>1, <3>3, <4>1 DEF times
      <4>4. \A d \in resolved' : d[2] \in applyTimes'[d[1]]
        BY <3>1, <3>3, <4>1 DEF times
      <4>5. \A d \in Calls : call'[d] = "created" =>
                 d \notin resolved' /\ d[2] \notin applyTimes'[d[1]]
        BY <2>0, <3>1, <3>3, <4>1 DEF times
      <4>. QED BY <2>0, <3>1, <3>3, <4>2, <4>3, <4>4, <4>5
    <3>9. CallsOfFanout' /\ OneWay' /\ OkMeansDone'
      BY <2>0, <3>1, <3>3
    <3>. QED BY <3>7, <3>8, <3>9
  <2>. QED BY <2>1, <2>2
<1>15. ASSUME Tick PROVE Parts'
    BY <1>15 DEF Tick, serverVars, groupVars, netVars
<1>16. ASSUME UNCHANGED vars PROVE Parts'
    BY <1>16 DEF vars, serverVars, groupVars, callVars, pendingVars, netVars
<1>. QED
    BY <1>0, <1>1, <1>2, <1>3, <1>4, <1>5, <1>6, <1>7, <1>8, <1>9, <1>10, <1>11, <1>12, <1>13, <1>14, <1>15, <1>16 DEF IInv, Next, CallStep, ServeLoop

-----------------------------------------------------------------------------
LEMMA SpecIInv == Spec => []IInv
BY InitIInv, InvStep, PTL DEF Spec

(* start_session and its kin return success only when every client known at *)
(* the time has run the command, for any clients, commands and timeout.     *)
THEOREM SuccessIsReal == Spec => []OkMeansApplied
<1>1. IInv => OkMeansApplied
    BY FanoutAssumption DEF IInv, TypeOK, OneWay, Tables, OkMeansDone, OkMeansApplied, Calls
<1>. QED
    BY SpecIInv, <1>1, PTL

(* The group of a command holds exactly the apply times of its clients when *)
(* it closes, and it is open as long as an ACK is pending.                  *)
THEOREM GroupsAreComplete == Spec => []GroupComplete
<1>1. IInv => GroupComplete
    BY FanoutAssumption DEF IInv, TypeOK, CallsOfFanout, Tables, Groups, GroupComplete, Calls
<1>. QED
    BY SpecIInv, <1>1, PTL

(* A command that succeeded leaves no group, tracking or pending entry.     *)
THEOREM SuccessLeavesNothing == Spec => []CleanAfterSuccess
<1>1. ASSUME IInv PROVE CleanAfterSuccess
  <2> SUFFICES ASSUME NEW k \in AckCommands, fan[k] = "ok", expected[k] # {}
               PROVE  /\ k \notin groups
                      /\ \A p \in Peers : <<k, p>> \notin pending \union tracked
      BY DEF CleanAfterSuccess
  <2>1. \A p \in expected[k] : <<k, p>> \in Calls /\ <<k, p>> \in resolved
    BY <1>1, FanoutAssumption DEF IInv, TypeOK, OkMeansDone, Tables, Calls
  <2>2. \A p \in expected[k] : <<k, p>> \notin tracked /\ p \in applyTimes[k]
    BY <1>1, <2>1 DEF IInv, Tables
  <2>3. applyTimes[k] = expected[k]
    BY <1>1, <2>2, FanoutAssumption DEF IInv, Tables
  <2>4. k \notin groups
    BY <1>1, <2>3 DEF IInv, Groups
  <2>5. \A p \in Peers : <<k, p>> \in tracked => p \in expected[k]
    BY <1>1, FanoutAssumption DEF IInv, Tables, CallsOfFanout, Calls
  <2>. QED BY <1>1, <2>2, <2>4, <2>5 DEF IInv, Tables
<1>. QED
    BY SpecIInv, <1>1, PTL

-----------------------------------------------------------------------------
(* A step of the fan-out is a step of the contract or leaves it alone.      *)
LEMMA ContractStep == IInv /\ [Next]_vars => [Contract!Next]_(Contract!vars)
<1> SUFFICES ASSUME IInv, Next PROVE Contract!Next \/ UNCHANGED Contract!vars
    BY DEF vars, serverVars, netVars, Contract!vars
<1>1. ASSUME NEW p \in Peers, Register(p) PROVE Contract!Join(p)
    BY <1>1 DEF Register, netVars, Contract!Join
<1>2. ASSUME NEW k \in Commands, Issue(k) PROVE Contract!Issue(k)
    BY <1>2 DEF Issue, netVars, Contract!Issue
<1>3. ASSUME NEW k \in Commands, ReturnOk(k) PROVE Contract!Succeed(k)
  <2>1. k \in AckCommands => \A p \in expected[k] : <<k, p>> \in applied
    BY <1>3 DEF ReturnOk, IInv, TypeOK, Tables, OneWay, Calls
  <2>. QED BY <1>3, <2>1 DEF ReturnOk, netVars, Contract!Succeed
<1>4. ASSUME NEW k \in Commands, ReturnFailed(k) PROVE Contract!Fail(k)
    BY <1>4 DEF ReturnFailed, netVars, Contract!Fail
<1>5. ASSUME NEW c \in Calls, PeerApply(c) PROVE Contract!CarryOut(c[1], c[2])
  <2>1. c[1] \in Commands /\ c[2] \in expected[c[1]] /\ c = <<c[1], c[2]>>
    BY <1>5 DEF PeerApply, IInv, CallsOfFanout, OneWay, Delivered, Calls
  <2>. QED
    BY <1>5, <2>1
    DEF PeerApply, IInv, CallsOfFanout, OneWay, serverVars, Contract!CarryOut
<1>6. ASSUME NEW c \in Calls, CallStep(c) \/ Lose(c) PROVE UNCHANGED Contract!vars
    BY <1>6 DEF CallStep, CallStart, Transmit, SendError, CallSent, CallResume,
                CallTimeout, Lose, serverVars, netVars, Contract!vars
<1>7. ASSUME ServeLoop \/ Tick PROVE UNCHANGED Contract!vars
    BY <1>7 DEF ServeLoop, Scan, HandleAck, Tick, serverVars, netVars, Contract!vars
<1>8. \A c \in Calls : c[1] \in Commands /\ c[2] \in Peers
    BY DEF Calls
<1>. QED
    BY <1>1, <1>2, <1>3, <1>4, <1>5, <1>6, <1>7, <1>8 DEF Next, Contract!Next

(* The fan-out keeps the contract of the commands: a command is carried out *)
(* only by the clients it was issued for, once each, and succeeds only when *)
(* they all have.                                                           *)
THEOREM FanoutImplementsContract == Spec => ImplementsContract
<1>1. Init => Contract!Init
    BY DEF Init, Contract!Init
<1>. QED
    BY SpecIInv, <1>1, ContractStep, PTL DEF Spec, ImplementsContract, Contract!Spec
=============================================================================
