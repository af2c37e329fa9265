---------------------------- MODULE TrialRounds ----------------------------
(***************************************************************************)
(* Rounds of trials as run_benchmark drives them: start_trial sends        *)
(* TRIAL_START_AT to every peer and waits for the ACKs, collect takes one  *)
(* result per peer, broadcast_state ends the round, and the first          *)
(* exception ends it all.  Results carry no trial as far as the server is  *)
(* concerned: it queues them by role, and every peer has a role of its     *)
(* own.                                                                    *)
(*                                                                         *)
(* Messages between the server and a peer keep their order; the transport  *)
(* may deliver a message again, and the client's deduplicator, which knows *)
(* the latest messages only, has to notice.  How a command is fanned out   *)
(* and how its ACKs expire in time is in CommandFanout; here an entry may  *)
(* expire at any moment.                                                   *)
(***************************************************************************)
EXTENDS Naturals, Sequences, FiniteSets, SequencesExt

CONSTANTS
    Peers,       \* the peers, which are also their roles
    MaxRounds,   \* bound: the trials
    MaxRepeats,  \* bound: the messages delivered a second time
    MaxSilent,   \* bound: the handlers that return without a report
    DedupSize    \* config.protocol.dedup_cache_size

ASSUME RoundsAssumption ==
    /\ IsFiniteSet(Peers)
    /\ MaxRounds \in Nat /\ MaxRepeats \in Nat /\ MaxSilent \in Nat
    /\ DedupSize \in Nat \ {0}

VARIABLES
    driver,   \* where run_benchmark is
    round,    \* its iteration, which names the trial
    pending,  \* the peers whose ACK of this trial has an entry in the table
    acked,    \* the peers whose ACK of this trial came in
    due,      \* the peers whose result is still to be collected
    results,  \* _results: a queue of trials per role
    timed,    \* the peers whose apply time is in the group of the command
    toPeer,   \* the messages on their way to each peer
    toServer, \* the messages on their way from each peer
    peer,     \* the receive loop of each peer
    seen,     \* its MessageDeduplicator, the oldest id first
    received, \* history: the messages each peer received
    ran,      \* history: the trials whose handler a peer ran
    reported, \* history: the trials a peer reported a result of
    repeats,  \* how often a message was delivered again
    silent    \* how often a handler returned without a report

driverVars == <<driver, round, due>>
serverVars == <<pending, acked, timed, results>>
peerVars == <<toPeer, peer, seen, received, ran, reported, repeats, silent>>
vars == <<driverVars, serverVars, toServer, peerVars>>

Trials == 1..MaxRounds
Start(t) == [kind |-> "TRIAL_START_AT", trial |-> t]
State(t) == [kind |-> "STATE_UPDATE", trial |-> t]
Result(t) == [kind |-> "RESULT_REPORT", trial |-> t]
Ack(t, applied) == [kind |-> "ACK", trial |-> t, applied |-> applied]

Receiving == [at |-> "receiving", trial |-> 0]
Handling(t) == [at |-> "handling", trial |-> t]
Handled(t) == [at |-> "handled", trial |-> t]

Init ==
    /\ driver = "idle"
    /\ round = 0
    /\ due = {}
    /\ pending = {}
    /\ acked = {}
    /\ results = [p \in Peers |-> <<>>]
    /\ timed = {}
    /\ toPeer = [p \in Peers |-> <<>>]
    /\ toServer = [p \in Peers |-> <<>>]
    /\ peer = [p \in Peers |-> Receiving]
    /\ seen = [p \in Peers |-> <<>>]
    /\ received = [p \in Peers |-> <<>>]
    /\ ran = [p \in Peers |-> {}]
    /\ reported = [p \in Peers |-> {}]
    /\ repeats = 0
    /\ silent = 0

Open == driver \notin {"done", "raised"}

(* The server hands a message to the transport for every peer. *)
SendAll(m) == toPeer' = [p \in Peers |-> Append(toPeer[p], m)]

-----------------------------------------------------------------------------
(* start_trial of the next iteration, up to the wait for the ACKs. *)
StartTrial ==
    /\ driver = "idle"
    /\ round < MaxRounds
    /\ round' = round + 1
    /\ driver' = "starting"
    /\ pending' = Peers
    /\ acked' = {}
    /\ timed' = {}
    /\ SendAll(Start(round'))
    /\ UNCHANGED <<due, results, toServer, peer, seen, received, ran,
                   reported, repeats, silent>>

StartReturns ==
    /\ driver = "starting"
    /\ acked = Peers
    /\ driver' = "collecting"
    /\ due' = Peers
    /\ UNCHANGED <<round, serverVars, toServer, peerVars>>

(* An ACK did not come in time: start_trial raises, and run_benchmark        *)
(* closes everything.                                                        *)
StartTimesOut ==
    /\ driver = "starting"
    /\ acked # Peers
    /\ driver' = "raised"
    /\ UNCHANGED <<round, due, serverVars, toServer, peerVars>>

(* collect for the role of a peer, whichever of them is next. *)
Collect(p) ==
    /\ driver = "collecting"
    /\ p \in due
    /\ results[p] # <<>>
    /\ results' = [results EXCEPT ![p] = Tail(@)]
    /\ due' = due \ {p}
    /\ UNCHANGED <<driver, round, pending, acked, timed, toServer, peerVars>>

CollectTimesOut(p) ==
    /\ driver = "collecting"
    /\ p \in due
    /\ results[p] = <<>>
    /\ driver' = "raised"
    /\ UNCHANGED <<round, due, serverVars, toServer, peerVars>>

(* broadcast_state, after which the next iteration begins ... *)
EndRound ==
    /\ driver = "collecting"
    /\ due = {}
    /\ driver' = "idle"
    /\ SendAll(State(round))
    /\ UNCHANGED <<round, due, serverVars, toServer, peer, seen, received, ran,
                   reported, repeats, silent>>

(* ... unless the time is up. *)
Finish ==
    /\ driver = "idle"
    /\ driver' = "done"
    /\ UNCHANGED <<round, due, serverVars, toServer, peerVars>>

-----------------------------------------------------------------------------
(* Mutants of Remember: a known id is added again, and the newest id is the  *)
(* one that is pushed out.                                                   *)
RememberTwice(ids, m) ==
    LET all == Append(ids, m) IN IF Len(all) > DedupSize THEN Tail(all) ELSE all

RememberOldest(ids, m) ==
    IF Contains(ids, m) \/ Len(ids) = DedupSize THEN ids ELSE Append(ids, m)

(* MessageDeduplicator.seen: an id that is known is the newest now, a new    *)
(* one may push out the oldest.                                              *)
Remember(ids, m) ==
    LET all == Append(ids, m)
    IN  IF Contains(ids, m) THEN RemoveAt(all, CHOOSE k \in DOMAIN ids : ids[k] = m)
        ELSE IF Len(all) > DedupSize THEN Tail(all) ELSE all

(* Mutant of Receive: the next message does not wait for the handler of the  *)
(* one before it.                                                            *)
ReceiveInParallel(p) ==
    /\ Open
    /\ toPeer[p] # <<>>
    /\ toPeer' = [toPeer EXCEPT ![p] = Tail(@)]
    /\ LET m == Head(toPeer[p])
       IN  /\ seen' = [seen EXCEPT ![p] = Remember(@, m)]
           /\ received' = [received EXCEPT ![p] = Append(@, m)]
           /\ CASE m.kind = "STATE_UPDATE" -> UNCHANGED <<peer, toServer>>
                [] m.kind = "TRIAL_START_AT" /\ Contains(seen[p], m) ->
                     /\ toServer' = [toServer EXCEPT ![p] = Append(@, Ack(m.trial, FALSE))]
                     /\ UNCHANGED peer
                [] OTHER ->
                     /\ peer' = [peer EXCEPT ![p] = Handling(m.trial)]
                     /\ UNCHANGED toServer
    /\ UNCHANGED <<driverVars, serverVars, ran, reported, repeats, silent>>

(* _recv_loop takes the next message: a command it has seen is acknowledged  *)
(* again, without an apply time, and not run; a new one is waited for.       *)
Receive(p) ==
    /\ Open /\ peer[p] = Receiving
    /\ toPeer[p] # <<>>
    /\ toPeer' = [toPeer EXCEPT ![p] = Tail(@)]
    /\ LET m == Head(toPeer[p])
       IN  /\ seen' = [seen EXCEPT ![p] = Remember(@, m)]
           /\ received' = [received EXCEPT ![p] = Append(@, m)]
           /\ CASE m.kind = "STATE_UPDATE" -> UNCHANGED <<peer, toServer>>
                [] m.kind = "TRIAL_START_AT" /\ Contains(seen[p], m) ->
                     /\ toServer' = [toServer EXCEPT ![p] = Append(@, Ack(m.trial, FALSE))]
                     /\ UNCHANGED peer
                [] OTHER ->
                     /\ peer' = [peer EXCEPT ![p] = Handling(m.trial)]
                     /\ UNCHANGED toServer
    /\ UNCHANGED <<driverVars, serverVars, ran, reported, repeats, silent>>

(* Mutant of RunHandler: the ACK is sent before the report. *)
RunHandlerAcksFirst(p) ==
    /\ Open /\ peer[p].at = "handling"
    /\ LET t == peer[p].trial
       IN  /\ peer' = [peer EXCEPT ![p] = Receiving]
           /\ ran' = [ran EXCEPT ![p] = @ \union {t}]
           /\ toServer' = [toServer EXCEPT ![p] = @ \o <<Ack(t, TRUE), Result(t)>>]
           /\ reported' = [reported EXCEPT ![p] = @ \union {t}]
    /\ UNCHANGED <<driverVars, serverVars, toPeer, seen, received, repeats, silent>>

(* The handler of TRIAL_START_AT reports a result, or (it is the             *)
(* application's) returns without one ...                                    *)
RunHandler(p) ==
    /\ Open /\ peer[p].at = "handling"
    /\ LET t == peer[p].trial
       IN  /\ peer' = [peer EXCEPT ![p] = Handled(t)]
           /\ ran' = [ran EXCEPT ![p] = @ \union {t}]
           /\ \/ /\ toServer' = [toServer EXCEPT ![p] = Append(@, Result(t))]
                 /\ reported' = [reported EXCEPT ![p] = @ \union {t}]
                 /\ UNCHANGED silent
              \/ /\ silent < MaxSilent
                 /\ silent' = silent + 1
                 /\ UNCHANGED <<toServer, reported>>
    /\ UNCHANGED <<driverVars, serverVars, toPeer, seen, received, repeats>>

(* ... and then the ACK is sent, with its apply time. *)
SendAck(p) ==
    /\ Open /\ peer[p].at = "handled"
    /\ peer' = [peer EXCEPT ![p] = Receiving]
    /\ toServer' = [toServer EXCEPT ![p] = Append(@, Ack(peer[p].trial, TRUE))]
    /\ UNCHANGED <<driverVars, serverVars, toPeer, seen, received, ran, reported,
                   repeats, silent>>

(* The transport delivers a message once more, as long as fewer other        *)
(* messages came after it than the deduplicator remembers.                   *)
Recent(messages, m) ==
    Cardinality({messages[i] : i \in {i \in DOMAIN messages :
                    \A j \in i..Len(messages) : messages[j] # m}}) < DedupSize

Repeat(p) ==
    /\ Open /\ repeats < MaxRepeats
    /\ repeats' = repeats + 1
    /\ LET all == received[p] \o toPeer[p]
       IN  \E m \in ToSet(all) :
              /\ Recent(all, m)
              /\ toPeer' = [toPeer EXCEPT ![p] = Append(@, m)]
    /\ UNCHANGED <<driverVars, serverVars, toServer, peer, seen, received, ran,
                   reported, silent>>

-----------------------------------------------------------------------------
(* RESULT_REPORT: the payload joins the queue of the sender's role. *)
HandleResult(p) ==
    /\ Open
    /\ toServer[p] # <<>> /\ Head(toServer[p]).kind = "RESULT_REPORT"
    /\ results' = [results EXCEPT ![p] = Append(@, Head(toServer[p]).trial)]
    /\ toServer' = [toServer EXCEPT ![p] = Tail(@)]
    /\ UNCHANGED <<driverVars, pending, acked, timed, peerVars>>

(* _observe_ack_timing: an apply time joins the group of the command, and    *)
(* None does not; either way the tracking of the message is over.            *)
ObserveTiming(m, p) == timed' = IF m.applied THEN timed \union {p} ELSE timed

(* ACK: it resolves the entry of its message, if there is one. *)
HandleAck(p) ==
    /\ Open
    /\ toServer[p] # <<>> /\ Head(toServer[p]).kind = "ACK"
    /\ toServer' = [toServer EXCEPT ![p] = Tail(@)]
    /\ LET m == Head(toServer[p])
       IN  IF m.trial = round /\ p \in pending
             THEN /\ pending' = pending \ {p}
                  /\ acked' = acked \union {p}
                  /\ ObserveTiming(m, p)
             ELSE UNCHANGED <<pending, acked, timed>>
    /\ UNCHANGED <<driverVars, results, peerVars>>

(* The scan of the serve loop finds that an entry's time is up. *)
Expire(p) ==
    /\ Open
    /\ p \in pending
    /\ pending' = pending \ {p}
    /\ UNCHANGED <<driverVars, acked, timed, results, toServer, peerVars>>

Driver ==
    \/ StartTrial \/ StartReturns \/ StartTimesOut
    \/ \E p \in Peers : Collect(p) \/ CollectTimesOut(p)
    \/ EndRound \/ Finish
Client(p) == Receive(p) \/ RunHandler(p) \/ SendAck(p)
ServeLoop(p) == HandleResult(p) \/ HandleAck(p) \/ Expire(p)

Next == Driver \/ \E p \in Peers : Client(p) \/ ServeLoop(p) \/ Repeat(p)

Spec == Init /\ [][Next]_vars

-----------------------------------------------------------------------------
Commands == {Start(t) : t \in Trials} \union {State(t) : t \in Trials}
Reports == {Result(t) : t \in Trials} \union {Ack(t, b) : t \in Trials, b \in BOOLEAN}

TypeOK ==
    /\ driver \in {"idle", "starting", "collecting", "done", "raised"}
    /\ round \in 0..MaxRounds
    /\ due \subseteq Peers /\ pending \subseteq Peers /\ acked \subseteq Peers
    /\ results \in [Peers -> Seq(Trials)]
    /\ timed \subseteq Peers
    /\ toPeer \in [Peers -> Seq(Commands)]
    /\ toServer \in [Peers -> Seq(Reports)]
    /\ \A p \in Peers : peer[p] \in {Receiving} \union {Handling(t) : t \in Trials}
                                       \union {Handled(t) : t \in Trials}
    /\ \A p \in Peers : seen[p] \in Seq(Commands) /\ IsInjective(seen[p])
                            /\ Len(seen[p]) <= DedupSize
    /\ \A p \in Peers : ran[p] \subseteq Trials /\ reported[p] \subseteq ran[p]
                            /\ received[p] \in Seq(Commands)
    /\ repeats \in 0..MaxRepeats /\ silent \in 0..MaxSilent

(* collect(role) gives the result of the trial that was just started,       *)
(* although nothing in the queue says so: when start_trial returned, the    *)
(* queue of a peer holds the result of this trial and no other, if the peer *)
(* reported one, and between the rounds nothing is left in any queue.       *)
ResultsAreOfRound ==
    /\ driver = "collecting" =>
         \A p \in due : results[p] = IF round \in reported[p] THEN <<round>> ELSE <<>>
    /\ driver = "idle" => \A p \in Peers : results[p] = <<>>

(* A command that is delivered again, in the middle of its handler or many  *)
(* messages later, is not run again.                                        *)
RunsOnce ==
    [][\A p \in Peers :
         peer[p].at = "receiving" /\ peer'[p].at = "handling"
           => peer'[p].trial \notin ran[p]]_vars

(* The ACK of a repeated command, which has no apply time, never takes the  *)
(* place of the first one: when all peers acknowledged, the apply time of   *)
(* each is known, so that the command's group is closed and its skew is     *)
(* that of all peers.                                                       *)
AcksAreTimed == driver \in {"starting", "collecting"} => acked \subseteq timed
=============================================================================
