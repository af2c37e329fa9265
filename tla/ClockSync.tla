----------------------------- MODULE ClockSync -----------------------------
(***************************************************************************)
(* The clock of a client against the server's: sync_clock estimates the    *)
(* offset from four time stamps, TRIAL_START_AT names a time of the server *)
(* and every client waits for it on its own clock.                         *)
(*                                                                         *)
(* Times are integers.  Offsets are half a sum of time stamps, so a name   *)
(* that ends in 2 holds twice the time it is about.  The clocks do not     *)
(* drift while the model runs.                                             *)
(***************************************************************************)
EXTENDS Integers

CONSTANTS
    Peers,    \* the client ids
    Offset,   \* what the server's clock is ahead of each client's
    Leads,    \* the lead times an experimenter may ask for
    MaxTime,  \* bound: the last time of the server's clock
    MaxSyncs, \* bound: the calls of sync_clock of a client
    NoTime    \* not a time

ASSUME ClockAssumption ==
    /\ Offset \in [Peers -> Int]
    /\ Leads \subseteq Nat
    /\ MaxTime \in Nat /\ MaxSyncs \in Nat
    /\ NoTime \notin Int

VARIABLES
    now,        \* time.monotonic() of the server
    syncs,      \* the calls of sync_clock so far
    ping,       \* the sync_clock of each client: where it is
    t0, t1, t2, \* its time stamps so far, 0 outside sync_clock
    offset2,    \* twice the client's offset_ms
    rtt,        \* the client's rtt_ms, NoTime before the first sync_clock
    executeAt,  \* execute_at of TRIAL_START_AT, NoTime before it is sent
    trial,      \* where each client is with that command
    target2,    \* twice the local time the client waits for
    margin,     \* history: the rtt of the estimate that the target is based on
    inTime,     \* history: the clients that got the command before their target
    startedAt   \* history: the server's time when the handlers ran

syncVars == <<syncs, ping, t0, t1, t2, offset2, rtt>>
trialVars == <<executeAt, trial, target2, margin, inTime, startedAt>>
clockVars == <<now, syncVars, trialVars>>

Times == Int \union {NoTime}
Local(c) == now - Offset[c]

ClockInit ==
    /\ now = 0
    /\ syncs = [c \in Peers |-> 0]
    /\ ping = [c \in Peers |-> "idle"]
    /\ t0 = [c \in Peers |-> 0]
    /\ t1 = [c \in Peers |-> 0]
    /\ t2 = [c \in Peers |-> 0]
    /\ offset2 = [c \in Peers |-> 0]
    /\ rtt = [c \in Peers |-> NoTime]
    /\ executeAt = NoTime
    /\ trial = [c \in Peers |-> "none"]
    /\ target2 = [c \in Peers |-> 0]
    /\ margin = [c \in Peers |-> NoTime]
    /\ inTime = {}
    /\ startedAt = [c \in Peers |-> NoTime]

(* sync_clock reads t0 and sends PING ... *)
SendPing(c) ==
    /\ ping[c] = "idle"
    /\ syncs[c] < MaxSyncs
    /\ syncs' = [syncs EXCEPT ![c] = @ + 1]
    /\ ping' = [ping EXCEPT ![c] = "sent"]
    /\ t0' = [t0 EXCEPT ![c] = Local(c)]
    /\ UNCHANGED <<now, t1, t2, offset2, rtt, trialVars>>

(* ... _handle_ping reads t1, then t2 and replies ... *)
HandlePing(c) ==
    /\ ping[c] = "sent"
    /\ ping' = [ping EXCEPT ![c] = "handled"]
    /\ t1' = [t1 EXCEPT ![c] = now]
    /\ UNCHANGED <<now, syncs, t0, t2, offset2, rtt, trialVars>>

SendPong(c) ==
    /\ ping[c] = "handled"
    /\ ping' = [ping EXCEPT ![c] = "answered"]
    /\ t2' = [t2 EXCEPT ![c] = now]
    /\ UNCHANGED <<now, syncs, t0, t1, offset2, rtt, trialVars>>

(* Mutant of Offset2: the second difference has the wrong sign. *)
Offset2Sign(c) == (t1[c] - t0[c]) - (t2[c] - Local(c))

(* SyncEstimator.add_sample, with t3 the present local time. *)
Rtt(c) == (Local(c) - t0[c]) - (t2[c] - t1[c])
Offset2(c) == (t1[c] - t0[c]) + (t2[c] - Local(c))

(* ... and the client reads t3 and takes the estimate over.  The receive    *)
(* loop delivers no PONG while it waits for the start of a trial.           *)
TakePong(c) ==
    /\ ping[c] = "answered"
    /\ trial[c] # "waiting"
    /\ ping' = [ping EXCEPT ![c] = "idle"]
    /\ offset2' = [offset2 EXCEPT ![c] = Offset2(c)]
    /\ rtt' = [rtt EXCEPT ![c] = Rtt(c)]
    /\ t0' = [t0 EXCEPT ![c] = 0]
    /\ t1' = [t1 EXCEPT ![c] = 0]
    /\ t2' = [t2 EXCEPT ![c] = 0]
    /\ UNCHANGED <<now, syncs, trialVars>>

(* start_trial: resolve_execute_at, then TRIAL_START_AT to every client. *)
StartTrial(lead) ==
    /\ executeAt = NoTime
    /\ executeAt' = now + lead
    /\ trial' = [c \in Peers |-> "sent"]
    /\ UNCHANGED <<now, syncVars, target2, margin, inTime, startedAt>>

(* Mutants of ReceiveStart: the offset is added, or forgotten. *)
ReceiveStartAdds(c) ==
    /\ trial[c] = "sent"
    /\ trial' = [trial EXCEPT ![c] = "waiting"]
    /\ target2' = [target2 EXCEPT ![c] = 2 * executeAt + offset2[c]]
    /\ margin' = [margin EXCEPT ![c] = rtt[c]]
    /\ inTime' = IF 2 * Local(c) <= target2'[c] THEN inTime \union {c} ELSE inTime
    /\ UNCHANGED <<now, syncVars, executeAt, startedAt>>

ReceiveStartUnmapped(c) ==
    /\ trial[c] = "sent"
    /\ trial' = [trial EXCEPT ![c] = "waiting"]
    /\ target2' = [target2 EXCEPT ![c] = 2 * executeAt]
    /\ margin' = [margin EXCEPT ![c] = rtt[c]]
    /\ inTime' = IF 2 * Local(c) <= target2'[c] THEN inTime \union {c} ELSE inTime
    /\ UNCHANGED <<now, syncVars, executeAt, startedAt>>

(* _dispatch maps execute_at to the local clock and sleeps until then ... *)
ReceiveStart(c) ==
    /\ trial[c] = "sent"
    /\ trial' = [trial EXCEPT ![c] = "waiting"]
    /\ target2' = [target2 EXCEPT ![c] = 2 * executeAt - offset2[c]]
    /\ margin' = [margin EXCEPT ![c] = rtt[c]]
    /\ inTime' = IF 2 * Local(c) <= target2'[c] THEN inTime \union {c} ELSE inTime
    /\ UNCHANGED <<now, syncVars, executeAt, startedAt>>

(* ... or not at all when that time is over; then the handlers run. *)
RunTrial(c) ==
    /\ trial[c] = "waiting"
    /\ 2 * Local(c) >= target2[c]
    /\ trial' = [trial EXCEPT ![c] = "started"]
    /\ startedAt' = [startedAt EXCEPT ![c] = now]
    /\ UNCHANGED <<now, syncVars, executeAt, target2, margin, inTime>>

(* A client that sleeps wakes up in the tick its time comes. *)
Overdue(c) == trial[c] = "waiting" /\ 2 * Local(c) >= target2[c]

Tick ==
    /\ now < MaxTime
    /\ \A c \in Peers : ~Overdue(c)
    /\ now' = now + 1
    /\ UNCHANGED <<syncVars, trialVars>>

ClockNext ==
    \/ \E c \in Peers : SendPing(c) \/ HandlePing(c) \/ SendPong(c) \/ TakePong(c)
    \/ \E lead \in Leads : StartTrial(lead)
    \/ \E c \in Peers : ReceiveStart(c) \/ RunTrial(c)
    \/ Tick

ClockSpec == ClockInit /\ [][ClockNext]_clockVars

-----------------------------------------------------------------------------
ClockTypeOK ==
    /\ now \in Nat
    /\ syncs \in [Peers -> 0..MaxSyncs]
    /\ ping \in [Peers -> {"idle", "sent", "handled", "answered"}]
    /\ t0 \in [Peers -> Int] /\ t1 \in [Peers -> Int] /\ t2 \in [Peers -> Int]
    /\ offset2 \in [Peers -> Int]
    /\ rtt \in [Peers -> Times]
    /\ executeAt \in Times
    /\ trial \in [Peers -> {"none", "sent", "waiting", "started"}]
    /\ target2 \in [Peers -> Int]
    /\ margin \in [Peers -> Times]
    /\ inTime \subseteq Peers
    /\ startedAt \in [Peers -> Times]

(* The offset a client believes is wrong by at most half the round trip it  *)
(* measured, however the two ways differ and however long a message waited. *)
OffsetWithinHalfRtt ==
    \A c \in Peers : rtt[c] # NoTime =>
        /\ offset2[c] - 2 * Offset[c] <= rtt[c]
        /\ 2 * Offset[c] - offset2[c] <= rtt[c]

Started(c) == startedAt[c] # NoTime /\ margin[c] # NoTime

(* No client that has synchronised begins a trial earlier than execute_at   *)
(* by more than half the round trip of the estimate it used.                *)
NeverEarly ==
    \A c \in Peers : Started(c) => 2 * startedAt[c] >= 2 * executeAt - margin[c]

(* Two clients that got the command in time begin together: within the mean *)
(* of their round trips, and the tick in which the later one wakes.         *)
SkewBounded ==
    \A c, d \in inTime : Started(c) /\ Started(d) =>
        2 * (startedAt[c] - startedAt[d]) <= margin[c] + margin[d] + 1
=============================================================================
