--------------------------- MODULE CommandFanout ---------------------------
(***************************************************************************)
(* How ExperimentServer sends a control command to every registered client *)
(* and learns whether it was carried out: _send_to_all starts one          *)
(* _send_control call per client, every call waits for its own ACK, and    *)
(* the serve loop handles the ACKs and expires the ones that are late.     *)
(*                                                                         *)
(* Two clocks run per call, and they do not start together: the pending    *)
(* entry expires AckTimeout after PendingAckManager.add, the caller gives  *)
(* up AckTimeout after transport.send returned.  Both are kept as the      *)
(* ticks that remain, so that no bound on the time is needed.              *)
(***************************************************************************)
EXTENDS Naturals, FiniteSets

CONSTANTS
    Peers,        \* the client ids
    Commands,     \* the calls of start_session, stop_session, arm_trial, ...
    AckCommands,  \* those sent with requires_ack=True (all but TRIAL_END)
    AckTimeout    \* config.protocol.ack_timeout_ms, in ticks

ASSUME FanoutAssumption ==
    /\ IsFiniteSet(Peers)
    /\ AckCommands \subseteq Commands
    /\ AckTimeout \in Nat \ {0}

VARIABLES
    registered,  \* the client ids the registry holds: they are never removed
    fan,         \* the state of _send_to_all, per command
    expected,    \* the clients a command was fanned out to
    groups,      \* the commands with an entry in _command_groups
    applyTimes,  \* the keys of that entry's "apply_times"
    call,        \* the state of _send_control, per command and client
    resolved,    \* the calls whose future holds an ACK
    pending,     \* the keys of PendingAckManager.pending
    expiry,      \* the ticks before a pending entry may be expired
    deadline,    \* the ticks before a waiting call gives up
    tracked,     \* the keys of _message_tracking
    wire,        \* the commands on their way to a client
    acks,        \* the ACKs on their way to the server
    applied      \* history: the clients that ran a command's handlers

serverVars == <<registered, fan, expected>>
groupVars == <<groups, applyTimes, tracked>>
callVars == <<call, resolved, deadline>>
pendingVars == <<pending, expiry>>
netVars == <<wire, acks, applied>>
vars == <<serverVars, groupVars, callVars, pendingVars, netVars>>

Calls == Commands \X Peers
FanStates == {"idle", "running", "ok", "failed"}
CallStates == {"none", "created", "sending", "sent", "waiting",
               "done", "timedout", "senderror"}
Unanswered == {"sending", "sent", "waiting"}  \* may still take an ACK
Failed == {"timedout", "senderror"}

-----------------------------------------------------------------------------
Init ==
    /\ registered = {}
    /\ fan = [k \in Commands |-> "idle"]
    /\ expected = [k \in Commands |-> {}]
    /\ groups = {}
    /\ applyTimes = [k \in Commands |-> {}]
    /\ call = [c \in Calls |-> "none"]
    /\ resolved = {}
    /\ pending = {}
    /\ expiry = [c \in Calls |-> 0]
    /\ deadline = [c \in Calls |-> 0]
    /\ tracked = {}
    /\ wire = {}
    /\ acks = {}
    /\ applied = {}

(* _handle_register: a client enters the registry, at any moment. *)
Register(p) ==
    /\ p \notin registered
    /\ registered' = registered \union {p}
    /\ UNCHANGED <<fan, expected, groupVars, callVars, pendingVars, netVars>>

(* _send_to_all up to gather.  The registry is read, and the tasks are made, *)
(* without an await in between; with no client there is nothing to wait for. *)
Issue(k) ==
    /\ fan[k] = "idle"
    /\ expected' = [expected EXCEPT ![k] = registered]
    /\ groups' = IF k \in AckCommands THEN groups \union {k} ELSE groups
    /\ fan' = [fan EXCEPT ![k] = IF registered = {} THEN "ok" ELSE "running"]
    /\ call' = [c \in Calls |-> IF c[1] = k /\ c[2] \in registered
                                  THEN "created" ELSE call[c]]
    /\ UNCHANGED <<registered, applyTimes, tracked, resolved, deadline,
                   pendingVars, netVars>>

(* Mutant of CallStart: the entry expires only after a second timeout. *)
CallStartExpiresLate(c) ==
    /\ call[c] = "created"
    /\ call' = [call EXCEPT ![c] = "sending"]
    /\ IF c[1] \in AckCommands
         THEN /\ pending' = pending \union {c}
              /\ expiry' = [expiry EXCEPT ![c] = 2 * AckTimeout]
              /\ tracked' = tracked \union {c}
         ELSE UNCHANGED <<pendingVars, tracked>>
    /\ UNCHANGED <<serverVars, groups, applyTimes, resolved, deadline, netVars>>

(* _send_control up to its transport.send. *)
CallStart(c) ==
    /\ call[c] = "created"
    /\ call' = [call EXCEPT ![c] = "sending"]
    /\ IF c[1] \in AckCommands
         THEN /\ pending' = pending \union {c}
              /\ expiry' = [expiry EXCEPT ![c] = AckTimeout]
              /\ tracked' = tracked \union {c}
         ELSE UNCHANGED <<pendingVars, tracked>>
    /\ UNCHANGED <<serverVars, groups, applyTimes, resolved, deadline, netVars>>

(* Mutant of Transmit: the command goes out on the broadcast channel. *)
TransmitToAll(c) ==
    /\ call[c] = "sending"
    /\ call' = [call EXCEPT ![c] = "sent"]
    /\ wire' = wire \union {<<c[1], p>> : p \in registered}
    /\ UNCHANGED <<serverVars, groupVars, resolved, deadline, pendingVars,
                   acks, applied>>

(* transport.send hands the message over, or raises (an unroutable peer). *)
Transmit(c) ==
    /\ call[c] = "sending"
    /\ call' = [call EXCEPT ![c] = "sent"]
    /\ wire' = wire \union {c}
    /\ UNCHANGED <<serverVars, groupVars, resolved, deadline, pendingVars,
                   acks, applied>>

SendError(c) ==
    /\ call[c] = "sending"
    /\ call' = [call EXCEPT ![c] = "senderror"]
    /\ UNCHANGED <<serverVars, groupVars, resolved, deadline, pendingVars, netVars>>

(* The call resumes after transport.send: a future that is resolved already *)
(* is returned at once, another one is waited for.                          *)
CallSent(c) ==
    /\ call[c] = "sent"
    /\ IF c[1] \notin AckCommands \/ c \in resolved
         THEN /\ call' = [call EXCEPT ![c] = "done"]
              /\ UNCHANGED deadline
         ELSE /\ call' = [call EXCEPT ![c] = "waiting"]
              /\ deadline' = [deadline EXCEPT ![c] = AckTimeout]
    /\ UNCHANGED <<serverVars, groupVars, resolved, pendingVars, netVars>>

(* The client runs the handlers of the command, then sends its ACK. *)
PeerApply(c) ==
    /\ c \in wire
    /\ wire' = wire \ {c}
    /\ applied' = applied \union {c}
    /\ acks' = IF c[1] \in AckCommands THEN acks \union {c} ELSE acks
    /\ UNCHANGED <<serverVars, groupVars, callVars, pendingVars>>

(* A client that is gone, or whose transport is, loses the command or the ACK. *)
Lose(c) ==
    /\ c \in wire \union acks
    /\ wire' = wire \ {c}
    /\ acks' = acks \ {c}
    /\ UNCHANGED <<serverVars, groupVars, callVars, pendingVars, applied>>

(* Mutant of ExpireFrom: no entry ever expires. *)
ExpireNone(open) == pending' = open

(* PendingAckManager.expire, which ends every turn of the serve loop. *)
ExpireFrom(open) ==
    pending' = {c \in open : expiry[c] > 0}

(* Mutants of ObserveApply: the tracking entry is read but not popped, and  *)
(* the group closes one apply time early.                                   *)
ObserveKeepsTracking(c) ==
    LET k == c[1]
        times == applyTimes[k] \union {c[2]}
    IN  /\ UNCHANGED tracked
        /\ IF c \in tracked /\ k \in groups
             THEN /\ applyTimes' = [applyTimes EXCEPT ![k] = times]
                  /\ groups' = IF Cardinality(times) >= Cardinality(expected[k])
                                 THEN groups \ {k} ELSE groups
             ELSE UNCHANGED <<applyTimes, groups>>

ObserveClosesEarly(c) ==
    LET k == c[1]
        times == applyTimes[k] \union {c[2]}
    IN  /\ tracked' = tracked \ {c}
        /\ IF c \in tracked /\ k \in groups
             THEN /\ applyTimes' = [applyTimes EXCEPT ![k] = times]
                  /\ groups' = IF Cardinality(times) + 1 >= Cardinality(expected[k])
                                 THEN groups \ {k} ELSE groups
             ELSE UNCHANGED <<applyTimes, groups>>

(* _observe_ack_timing: the last apply time closes the command's group. *)
ObserveApply(c) ==
    LET k == c[1]
        times == applyTimes[k] \union {c[2]}
    IN  /\ tracked' = tracked \ {c}
        /\ IF c \in tracked /\ k \in groups
             THEN /\ applyTimes' = [applyTimes EXCEPT ![k] = times]
                  /\ groups' = IF Cardinality(times) >= Cardinality(expected[k])
                                 THEN groups \ {k} ELSE groups
             ELSE UNCHANGED <<applyTimes, groups>>

(* A turn of the serve loop that received an ACK.  Only a pending entry is  *)
(* resolved, and its future takes the ACK unless the call gave up.          *)
HandleAck(c) ==
    /\ c \in acks
    /\ acks' = acks \ {c}
    /\ IF c \in pending
         THEN /\ resolved' = IF call[c] \in Unanswered
                               THEN resolved \union {c} ELSE resolved
              /\ ObserveApply(c)
         ELSE UNCHANGED <<resolved, groupVars>>
    /\ ExpireFrom(pending \ {c})
    /\ UNCHANGED <<serverVars, call, deadline, expiry, wire, applied>>

(* A turn of the serve loop that received nothing, or another message. *)
Scan ==
    /\ ExpireFrom(pending)
    /\ UNCHANGED <<serverVars, groupVars, callVars, expiry, netVars>>

(* wait_for returns the ACK ... *)
CallResume(c) ==
    /\ call[c] = "waiting"
    /\ c \in resolved
    /\ call' = [call EXCEPT ![c] = "done"]
    /\ UNCHANGED <<serverVars, groupVars, resolved, deadline, pendingVars, netVars>>

(* Mutants of CallTimeout: the timeout is swallowed, and there is none. *)
CallTimeoutSwallowed(c) ==
    /\ call[c] = "waiting"
    /\ deadline[c] = 0
    /\ call' = [call EXCEPT ![c] = "done"]
    /\ UNCHANGED <<serverVars, groupVars, resolved, deadline, pendingVars, netVars>>

CallWaitsForever(c) == CallResume(c)

(* ... or raises TimeoutError, even when the ACK came in the same turn of   *)
(* the event loop and the call has not run since.                           *)
CallTimeout(c) ==
    /\ call[c] = "waiting"
    /\ deadline[c] = 0
    /\ call' = [call EXCEPT ![c] = "timedout"]
    /\ UNCHANGED <<serverVars, groupVars, resolved, deadline, pendingVars, netVars>>

(* gather returns when every call is done, or with the first exception: the *)
(* other calls then go on by themselves.                                    *)
ReturnOk(k) ==
    /\ fan[k] = "running"
    /\ \A p \in expected[k] : call[<<k, p>>] = "done"
    /\ fan' = [fan EXCEPT ![k] = "ok"]
    /\ UNCHANGED <<registered, expected, groupVars, callVars, pendingVars, netVars>>

ReturnFailed(k) ==
    /\ fan[k] = "running"
    /\ \E p \in expected[k] : call[<<k, p>>] \in Failed
    /\ fan' = [fan EXCEPT ![k] = "failed"]
    /\ UNCHANGED <<registered, expected, groupVars, callVars, pendingVars, netVars>>

(* time.monotonic: a tick passes for every running clock. *)
Tick ==
    /\ \E c \in Calls : expiry[c] > 0 \/ deadline[c] > 0
    /\ expiry' = [c \in Calls |-> IF expiry[c] > 0 THEN expiry[c] - 1 ELSE 0]
    /\ deadline' = [c \in Calls |-> IF deadline[c] > 0 THEN deadline[c] - 1 ELSE 0]
    /\ UNCHANGED <<serverVars, groupVars, call, resolved, pending, netVars>>

CallStep(c) ==
    \/ CallStart(c)
    \/ Transmit(c)
    \/ SendError(c)
    \/ CallSent(c)
    \/ CallResume(c)
    \/ CallTimeout(c)

ServeLoop == Scan \/ \E c \in Calls : HandleAck(c)

Next ==
    \/ \E p \in Peers : Register(p)
    \/ \E k \in Commands : Issue(k) \/ ReturnOk(k) \/ ReturnFailed(k)
    \/ \E c \in Calls : CallStep(c) \/ PeerApply(c) \/ Lose(c)
    \/ ServeLoop
    \/ Tick

Spec == Init /\ [][Next]_vars

(***************************************************************************)
(* Fairness: the event loop runs every ready task, the transport's send    *)
(* returns or raises, the serve loop turns at least every 50 ms, and time  *)
(* passes.  Nothing is assumed of the clients: they may never answer.      *)
(***************************************************************************)
Fairness ==
    /\ \A c \in Calls : WF_vars(CallStep(c))
    /\ \A k \in Commands : WF_vars(ReturnOk(k) \/ ReturnFailed(k))
    /\ WF_vars(Scan)
    /\ WF_vars(Tick)

FairSpec == Spec /\ Fairness

-----------------------------------------------------------------------------
TypeOK ==
    /\ registered \subseteq Peers
    /\ fan \in [Commands -> FanStates]
    /\ expected \in [Commands -> SUBSET Peers]
    /\ groups \subseteq AckCommands
    /\ applyTimes \in [Commands -> SUBSET Peers]
    /\ call \in [Calls -> CallStates]
    /\ resolved \subseteq Calls
    /\ pending \subseteq Calls
    /\ expiry \in [Calls -> 0..AckTimeout]
    /\ deadline \in [Calls -> 0..AckTimeout]
    /\ tracked \subseteq Calls
    /\ wire \subseteq Calls
    /\ acks \subseteq Calls
    /\ applied \subseteq Calls

(* start_session, stop_session, arm_trial and start_trial that return tell  *)
(* the experimenter that every client known when the command was issued has *)
(* run its handlers, however ACKs, timeouts and the expiry scan interleave.  *)
OkMeansApplied ==
    \A k \in AckCommands :
        fan[k] = "ok" => \A p \in expected[k] : <<k, p>> \in applied

(* A command that succeeded left nothing behind in the three tables the     *)
(* server keeps of it (with no client at all its empty group stays).        *)
CleanAfterSuccess ==
    \A k \in AckCommands :
        fan[k] = "ok" /\ expected[k] # {} =>
            /\ k \notin groups
            /\ \A p \in Peers : <<k, p>> \notin pending \union tracked

(* The skew of a command is taken over exactly its clients: the group stays *)
(* open while an ACK may still come in, and it closes only when the apply   *)
(* time of every client of the fan-out is in it.                            *)
GroupComplete ==
    \A k \in AckCommands : fan[k] # "idle" =>
        /\ k \notin groups => applyTimes[k] = expected[k]
        /\ \A p \in Peers : <<k, p>> \in pending =>
                               k \in groups /\ p \in expected[k] \ applyTimes[k]

(* start_session and its kin always come back, with an error if they must:  *)
(* a client that never answers does not hang the experiment.                *)
EveryCommandReturns ==
    \A k \in Commands : fan[k] = "running" ~> fan[k] \in {"ok", "failed"}

(* The pending table drains whatever the clients do. *)
PendingDrains == \A c \in Calls : c \in pending ~> c \notin pending

(* Every behaviour of the fan-out is one of the contract: a late, lost or   *)
(* unexpected ACK never makes a command look carried out, and no client     *)
(* that joined after a command was issued ever receives it.                 *)
Contract == INSTANCE FanoutContract
              WITH known <- registered, outcome <- fan,
                   addressed <- expected, carriedOut <- applied
ImplementsContract == Contract!Spec
=============================================================================
