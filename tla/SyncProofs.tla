----------------------------- MODULE SyncProofs -----------------------------
(***************************************************************************)
(* What the clients know of the server: its time and its session.  The     *)
(* error of the offset estimate and what it means for the start of a trial *)
(* is proved for any clients, offsets, lead times and delays; that a       *)
(* client which received all it was sent missed nothing of the session for *)
(* any clients, trials, changes and reconnects.                            *)
(***************************************************************************)
EXTENDS ClockSync, SessionSync, SequenceTheorems, TLAPS

-----------------------------------------------------------------------------
(* The time: ClockSync. *)
(* The time stamps of a running sync_clock, all on the server's clock. *)
Stamps ==
    \A c \in Peers :
        /\ ping[c] # "idle" => t0[c] + Offset[c] <= now
        /\ ping[c] \in {"handled", "answered"} => t0[c] + Offset[c] <= t1[c] /\ t1[c] <= now
        /\ ping[c] = "answered" => t1[c] <= t2[c] /\ t2[c] <= now

(* The local time a client waits for is off by at most its margin. *)
Targets ==
    \A c \in Peers : trial[c] \in {"waiting", "started"} =>
        /\ executeAt # NoTime
        /\ margin[c] # NoTime =>
              /\ target2[c] - 2 * (executeAt - Offset[c]) <= margin[c]
              /\ 2 * (executeAt - Offset[c]) - target2[c] <= margin[c]

(* A client begins no earlier than its target and, when it got the command  *)
(* in time, no later than the tick after it.                                *)
Starts ==
    \A c \in Peers :
        /\ executeAt = NoTime => trial[c] = "none"
        /\ c \in inTime => trial[c] \in {"waiting", "started"}
        /\ trial[c] = "waiting" /\ c \in inTime => 2 * Local(c) <= target2[c] + 1
        /\ startedAt[c] # NoTime <=> trial[c] = "started"
        /\ trial[c] = "started" =>
              /\ 2 * (startedAt[c] - Offset[c]) >= target2[c]
              /\ c \in inTime => 2 * (startedAt[c] - Offset[c]) <= target2[c] + 1

ClockInv == ClockTypeOK /\ OffsetWithinHalfRtt /\ Stamps /\ Targets /\ Starts

LEMMA InitClock == ClockInit => ClockInv
BY ClockAssumption
DEF ClockInit, ClockInv, ClockTypeOK, OffsetWithinHalfRtt, Stamps, Targets, Starts, Times

LEMMA ClockStep == ClockInv /\ [ClockNext]_clockVars => ClockInv'
<1> SUFFICES ASSUME ClockInv, [ClockNext]_clockVars PROVE ClockInv'
    OBVIOUS
<1> USE ClockAssumption
    DEF ClockInv, ClockTypeOK, OffsetWithinHalfRtt, Stamps, Targets, Starts, Times, Local
<1>1. ASSUME NEW c \in Peers, SendPing(c) PROVE ClockInv'
    BY <1>1 DEF SendPing, trialVars
<1>2. ASSUME NEW c \in Peers, HandlePing(c) PROVE ClockInv'
    BY <1>2 DEF HandlePing, trialVars
<1>3. ASSUME NEW c \in Peers, SendPong(c) PROVE ClockInv'
    BY <1>3 DEF SendPong, trialVars
<1>4. ASSUME NEW c \in Peers, TakePong(c) PROVE ClockInv'
  <2>1. /\ Offset2(c) - 2 * Offset[c] <= Rtt(c)
        /\ 2 * Offset[c] - Offset2(c) <= Rtt(c)
        /\ Offset2(c) \in Int /\ Rtt(c) \in Int
    BY <1>4 DEF TakePong, Offset2, Rtt
  <2> DEFINE o == Offset2(c)
             r == Rtt(c)
  <2>2. /\ o \in Int /\ r \in Int
        /\ o - 2 * Offset[c] <= r /\ 2 * Offset[c] - o <= r
        /\ offset2' = [offset2 EXCEPT ![c] = o] /\ rtt' = [rtt EXCEPT ![c] = r]
    BY <1>4, <2>1 DEF TakePong
  <2> HIDE DEF o, r
  <2>3. OffsetWithinHalfRtt'
    BY <2>2
  <2>. QED BY <1>4, <2>2, <2>3 DEF TakePong, trialVars
<1>5. ASSUME NEW lead \in Leads, StartTrial(lead) PROVE ClockInv'
    BY <1>5 DEF StartTrial, syncVars
<1>6. ASSUME NEW c \in Peers, ReceiveStart(c) PROVE ClockInv'
  <2> DEFINE g == 2 * executeAt - offset2[c]
  <2>1. executeAt \in Int /\ g \in Int
    BY <1>6 DEF ReceiveStart
  <2>2. rtt[c] # NoTime =>
           /\ g - 2 * (executeAt - Offset[c]) <= rtt[c]
           /\ 2 * (executeAt - Offset[c]) - g <= rtt[c]
    BY <2>1
  <2>3. /\ trial' = [trial EXCEPT ![c] = "waiting"]
        /\ target2' = [target2 EXCEPT ![c] = g]
        /\ margin' = [margin EXCEPT ![c] = rtt[c]]
        /\ inTime' = IF 2 * Local(c) <= g THEN inTime \union {c} ELSE inTime
        /\ UNCHANGED <<now, syncVars, executeAt, startedAt>>
        /\ trial[c] = "sent"
    BY <1>6 DEF ReceiveStart
  <2> HIDE DEF g
  <2>4. ClockTypeOK' /\ OffsetWithinHalfRtt' /\ Stamps'
    BY <2>1, <2>3 DEF syncVars
  <2>5. Targets'
    BY <2>1, <2>2, <2>3 DEF syncVars
  <2>6. Starts'
    BY <2>1, <2>3 DEF syncVars
  <2>. QED BY <2>4, <2>5, <2>6
<1>7. ASSUME NEW c \in Peers, RunTrial(c) PROVE ClockInv'
    BY <1>7 DEF RunTrial, syncVars
<1>8. CASE Tick
    BY <1>8 DEF Tick, Overdue, syncVars, trialVars
<1>9. CASE UNCHANGED clockVars
    BY <1>9 DEF clockVars, syncVars, trialVars
<1>. QED
    BY <1>1, <1>2, <1>3, <1>4, <1>5, <1>6, <1>7, <1>8, <1>9 DEF ClockNext

LEMMA SpecClockInv == ClockSpec => []ClockInv
BY InitClock, ClockStep, PTL DEF ClockSpec

(* Every variable of the clocks holds a value of its kind. *)
THEOREM ClockTypesCorrect == ClockSpec => []ClockTypeOK
BY SpecClockInv, PTL DEF ClockInv

(* sync_clock is wrong by at most half the round trip it measured.          *)
THEOREM EstimateIsBounded == ClockSpec => []OffsetWithinHalfRtt
BY SpecClockInv, PTL DEF ClockInv

(* No synchronised client begins a trial early by more than half the round  *)
(* trip of its estimate.                                                    *)
THEOREM NobodyIsEarly == ClockSpec => []NeverEarly
<1>1. ClockInv => NeverEarly
    BY ClockAssumption DEF ClockInv, ClockTypeOK, Targets, Starts, Times, NeverEarly, Started
<1>. QED BY SpecClockInv, <1>1, PTL

(* Two synchronised clients that got the command in time begin together,    *)
(* within the mean of their round trips and a tick.                         *)
THEOREM TogetherWithinRtt == ClockSpec => []SkewBounded
<1>1. ASSUME ClockInv, NEW c \in inTime, NEW d \in inTime, Started(c), Started(d)
      PROVE  2 * (startedAt[c] - startedAt[d]) <= margin[c] + margin[d] + 1
  <2>1. c \in Peers /\ d \in Peers
    BY <1>1 DEF ClockInv, ClockTypeOK
  <2>2. 2 * startedAt[c] <= 2 * executeAt + margin[c] + 1
    BY <1>1, <2>1, ClockAssumption DEF ClockInv, ClockTypeOK, Targets, Starts, Times, Started
  <2>3. 2 * startedAt[d] >= 2 * executeAt - margin[d]
    BY <1>1, <2>1, ClockAssumption DEF ClockInv, ClockTypeOK, Targets, Starts, Times, Started
  <2>4. /\ startedAt[c] \in Int /\ startedAt[d] \in Int /\ executeAt \in Int
        /\ margin[c] \in Int /\ margin[d] \in Int
    BY <1>1, <2>1 DEF ClockInv, ClockTypeOK, Targets, Starts, Times, Started
  <2>. QED BY <2>2, <2>3, <2>4
<1>2. ClockInv => SkewBounded
    BY <1>1 DEF SkewBounded
<1>. QED BY SpecClockInv, <1>2, PTL

-----------------------------------------------------------------------------
(* The session: SessionSync. *)
(* What a client has yet to receive, the commands that were not sent yet    *)
(* included.  A command to another client is noise to this one.             *)
Noise == Command("none", NoTrial)
Received == Messages \union {Noise}
Only(c, tasks) ==
    [i \in DOMAIN tasks |-> IF tasks[i].to = c THEN tasks[i].msg ELSE Noise]
Late(c) == Only(c, outbox)
Stream(c) == toClient[c] \o Late(c)

Updated(view, m) ==
    IF m.kind = "REGISTER_OK" THEN m.view
    ELSE IF m = Noise THEN view ELSE After(view, m.kind, m.trial)

(* The message after which nothing else decides the trial, and the one after *)
(* which nothing else decides the state of the session.                     *)
SetsTrial(m) == m.kind \in {"REGISTER_OK", "SESSION_START", "TRIAL_ARM", "TRIAL_START_AT"}
SetsState(m) == m.kind \in {"REGISTER_OK", "SESSION_START", "SESSION_STOP"}
EndOf(t) == Command("TRIAL_END", t)

TrialFrom(q, i, u, w) ==
    /\ \A j \in DOMAIN q : j > i => ~SetsTrial(q[j])
    /\ w.trial = u.trial
    /\ \/ w.phase = "ended" /\ \E j \in DOMAIN q : j > i /\ q[j] = EndOf(u.trial)
       \/ w.phase = u.phase /\ \A j \in DOMAIN q : j > i => q[j] # EndOf(u.trial)
StateFrom(q, i, u, w) ==
    /\ \A j \in DOMAIN q : j > i => ~SetsState(q[j])
    /\ w.state \in {"RUNNING", "STOPPED"} => u.state = w.state

(* The messages q make of the view v the view w.  (Of its state only what   *)
(* commands tell: mark_ready has none.)                                     *)
TrialBrought(v, q, w) ==
    \/ TrialFrom(q, 0, v, w)
    \/ \E i \in DOMAIN q : SetsTrial(q[i]) /\ TrialFrom(q, i, Updated(v, q[i]), w)
StateBrought(v, q, w) ==
    \/ StateFrom(q, 0, v, w)
    \/ \E i \in DOMAIN q : SetsState(q[i]) /\ StateFrom(q, i, Updated(v, q[i]), w)
Brings(v, q, w) == TrialBrought(v, q, w) /\ StateBrought(v, q, w)

(* A client that has received its snapshot or will. *)
Informed(c) ==
    link[c] \in {"answered", "on"} \/ \E i \in DOMAIN toClient[c] : toClient[c][i].kind = "REGISTER_OK"

(* What is still to be sent would leave the server's own view as it is, so  *)
(* that it does no harm after a snapshot.                                   *)
Synced(c) ==
    /\ Brings(session, Late(c), session)
    /\ Informed(c) => Contains(registry, c) /\ Brings(heard[c], Stream(c), session)

(* A client whose handlers were given nothing since has what it was answered *)
(* with, or has copied it.                                                   *)
Copied ==
    \A c \in Clients : c \notin commanded =>
        /\ link[c] = "answered" => answer[c] = heard[c]
        /\ link[c] = "on" => copy[c] = heard[c]

SessionInv ==
    /\ TypeOK
    /\ \A i \in DOMAIN outbox :
          Contains(registry, outbox[i].to) /\ outbox[i].msg.kind # "REGISTER_OK"
    /\ \A c \in Clients : Synced(c)

-----------------------------------------------------------------------------
LEMMA MessageKinds ==
    ASSUME NEW m \in Received
    PROVE  \/ \E v \in Views : m = Snapshot(v)
           \/ m = Noise
           \/ \E k \in {"SESSION_START", "SESSION_STOP"} : m = Command(k, NoTrial)
           \/ \E k \in TrialKinds, t \in Trials : m = Command(k, t)
  BY DEF Received, Messages

LEMMA UpdatedFacts ==
    ASSUME NEW m \in Received, NEW v \in Views
    PROVE  /\ Updated(v, m) \in Views
           /\ ~SetsTrial(m) =>
                 /\ Updated(v, m).trial = v.trial
                 /\ Updated(v, m).phase = IF m = EndOf(v.trial) THEN "ended" ELSE v.phase
           /\ ~SetsState(m) => Updated(v, m).state = v.state
<1> USE DEF Updated, SetsTrial, SetsState, EndOf, Noise, Command, Snapshot
<1>1. CASE \E u \in Views : m = Snapshot(u)
  BY <1>1
<1>2. CASE m = Noise
  BY <1>2
<1>3. CASE m = Command("SESSION_START", NoTrial)
  BY <1>3 DEF After, Views, SessionStates, Phases
<1>4. CASE m = Command("SESSION_STOP", NoTrial)
  BY <1>4 DEF After, Views, SessionStates, Phases
<1>5. ASSUME NEW t \in Trials, m = Command("TRIAL_ARM", t)
      PROVE  Updated(v, m) \in Views /\ SetsTrial(m) /\ Updated(v, m).state = v.state
  BY <1>5 DEF After, Views, SessionStates, Phases
<1>6. ASSUME NEW t \in Trials, m = Command("TRIAL_START_AT", t)
      PROVE  Updated(v, m) \in Views /\ SetsTrial(m) /\ Updated(v, m).state = v.state
  BY <1>6 DEF After, Views, SessionStates, Phases
<1>7. ASSUME NEW t \in Trials, m = Command("TRIAL_END", t)
      PROVE  /\ Updated(v, m) \in Views
             /\ Updated(v, m).state = v.state /\ Updated(v, m).trial = v.trial
             /\ Updated(v, m).phase = IF m = EndOf(v.trial) THEN "ended" ELSE v.phase
  BY <1>7 DEF After, Views, SessionStates, Phases
<1>8. QED
  BY <1>1, <1>2, <1>3, <1>4, <1>5, <1>6, <1>7, MessageKinds DEF TrialKinds

(* What decides the trial, or the state, does so whatever was there before. *)
LEMMA UpdatedSets ==
    ASSUME NEW m \in Received, NEW v \in Views, NEW w \in Views
    PROVE  /\ SetsTrial(m) => /\ Updated(v, m).trial = Updated(w, m).trial
                              /\ Updated(v, m).phase = Updated(w, m).phase
           /\ SetsState(m) => Updated(v, m).state = Updated(w, m).state
<1> USE DEF Updated, SetsTrial, SetsState, Noise, Command, Snapshot
<1>1. CASE \E u \in Views : m = Snapshot(u)
  BY <1>1
<1>2. CASE m = Noise
  BY <1>2
<1>3. CASE m = Command("SESSION_START", NoTrial)
  BY <1>3 DEF After, Views
<1>4. CASE m = Command("SESSION_STOP", NoTrial)
  BY <1>4 DEF After, Views
<1>5. ASSUME NEW t \in Trials, NEW k \in TrialKinds, m = Command(k, t)
      PROVE  /\ SetsTrial(m) => /\ Updated(v, m).trial = Updated(w, m).trial
                                /\ Updated(v, m).phase = Updated(w, m).phase
             /\ ~SetsState(m)
  BY <1>5 DEF After, Views, TrialKinds
<1>6. QED
  BY <1>1, <1>2, <1>3, <1>4, <1>5, MessageKinds

-----------------------------------------------------------------------------
(* r is the queue a with the queue b after it, of messages. *)
IsJoined(r, a, b) ==
    /\ r \in Seq(Received)
    /\ Len(a) \in Nat /\ DOMAIN a = 1..Len(a)
    /\ Len(b) \in Nat /\ DOMAIN b = 1..Len(b)
    /\ DOMAIN r = 1..(Len(a) + Len(b))
    /\ \A j \in DOMAIN a : j \in DOMAIN r /\ r[j] = a[j] /\ a[j] \in Received
    /\ \A j \in DOMAIN b :
          Len(a) + j \in DOMAIN r /\ r[Len(a) + j] = b[j] /\ b[j] \in Received
    /\ \A j \in DOMAIN r :
          \/ j \in DOMAIN a
          \/ j > Len(a) /\ j - Len(a) \in DOMAIN b /\ r[j] = b[j - Len(a)]

LEMMA Joined ==
    ASSUME NEW a \in Seq(Received), NEW b \in Seq(Received)
    PROVE  IsJoined(a \o b, a, b)
<1>1. /\ a \o b \in Seq(Received) /\ Len(a \o b) = Len(a) + Len(b)
      /\ \A i \in 1 .. Len(a) + Len(b) :
            (a \o b)[i] = IF i <= Len(a) THEN a[i] ELSE b[i - Len(a)]
  BY ConcatProperties
<1>2. /\ Len(a) \in Nat /\ DOMAIN a = 1..Len(a)
      /\ Len(b) \in Nat /\ DOMAIN b = 1..Len(b)
      /\ DOMAIN (a \o b) = 1..(Len(a) + Len(b))
  BY <1>1, LenProperties
<1>3. (\A j \in DOMAIN a : a[j] \in Received) /\ (\A j \in DOMAIN b : b[j] \in Received)
  BY <1>2, ElementOfSeq
<1>4. QED
  BY <1>1, <1>2, <1>3 DEF IsJoined

LEMMA HeadTail ==
    ASSUME NEW q \in Seq(Received), q # <<>>
    PROVE  <<Head(q)>> \o Tail(q) = q
<1>1. /\ Head(q) \in Received /\ Head(q) = q[1] /\ Tail(q) \in Seq(Received)
      /\ Len(Tail(q)) = Len(q) - 1 /\ Len(q) \in Nat \ {0}
      /\ \A i \in 1..Len(Tail(q)) : Tail(q)[i] = q[i + 1]
  BY HeadTailProperties, EmptySeq
<1>2. <<Head(q)>> \in Seq(Received) /\ Len(<<Head(q)>>) = 1 /\ <<Head(q)>>[1] = Head(q)
  BY <1>1
<1> DEFINE a == <<Head(q)>>
           t == Tail(q)
           r == a \o t
<1> HIDE DEF a, t
<1>3. /\ r \in Seq(Received) /\ Len(r) = Len(a) + Len(t)
      /\ \A i \in 1..(Len(a) + Len(t)) : r[i] = IF i <= Len(a) THEN a[i] ELSE t[i - Len(a)]
  <2>1. a \in Seq(Received) /\ t \in Seq(Received)
    BY <1>1, <1>2 DEF a, t
  <2>2. QED
    BY <2>1, ConcatProperties
<1> HIDE DEF r
<1>4. /\ Len(a) = 1 /\ a[1] = q[1] /\ Len(t) = Len(q) - 1
      /\ \A i \in 1..Len(t) : t[i] = q[i + 1]
  BY <1>1, <1>2 DEF a, t
<1>5. Len(r) = Len(q) /\ \A i \in 1..Len(r) : r[i] = q[i]
  BY <1>1, <1>3, <1>4
<1>6. r = q
  BY <1>3, <1>5, SeqEqual
<1>7. QED
  BY <1>6 DEF r, a, t

LEMMA HeadOfPair ==
    ASSUME NEW m \in Received, NEW t \in Seq(Received)
    PROVE  Head(<<m>> \o t) = m /\ Tail(<<m>> \o t) = t
<1> DEFINE a == <<m>>
           r == a \o t
<1>1. a \in Seq(Received) /\ Len(a) = 1 /\ a[1] = m
  OBVIOUS
<1> HIDE DEF a
<1>2. /\ r \in Seq(Received) /\ Len(r) = Len(a) + Len(t)
      /\ \A i \in 1..(Len(a) + Len(t)) : r[i] = IF i <= Len(a) THEN a[i] ELSE t[i - Len(a)]
  BY <1>1, ConcatProperties
<1>3. Len(t) \in Nat
  BY LenProperties
<1> HIDE DEF r
<1>4. r # <<>>
  BY <1>1, <1>2, <1>3, EmptySeq
<1>5. /\ Head(r) = r[1] /\ Tail(r) \in Seq(Received) /\ Len(Tail(r)) = Len(r) - 1
      /\ \A i \in 1..Len(Tail(r)) : Tail(r)[i] = r[i + 1]
  BY <1>2, <1>4, HeadTailProperties
<1>6. Head(r) = m
  BY <1>1, <1>2, <1>3, <1>5
<1>7. Len(Tail(r)) = Len(t) /\ \A i \in 1..Len(t) : Tail(r)[i] = t[i]
  BY <1>1, <1>2, <1>3, <1>5
<1>8. Tail(r) = t
  BY <1>5, <1>7, SeqEqual
<1>9. QED
  BY <1>6, <1>8 DEF r, a

(* A call that changes the session makes one task for the client, or none.  *)
Silent(k) == \A j \in DOMAIN k : k[j] = Noise
Once(k, m) == \E n \in DOMAIN k : k[n] = m /\ \A j \in DOMAIN k : j # n => k[j] = Noise

LEMMA NoiseIsNothing ==
    /\ ~SetsTrial(Noise) /\ ~SetsState(Noise)
    /\ \A t : Noise # EndOf(t)
    /\ \A v : Updated(v, Noise) = v
    /\ Noise \in Received
  BY DEF Noise, SetsTrial, SetsState, EndOf, Command, Updated, Received

LEMMA BringsMore ==
    ASSUME NEW v \in Views, NEW w \in Views, NEW q \in Seq(Received), NEW k \in Seq(Received),
           NEW m \in Received, Once(k, m), Brings(v, q, w)
    PROVE  Brings(v, q \o k, Updated(w, m))
<1> DEFINE r == q \o k
           x == Updated(w, m)
<1>1. PICK n \in DOMAIN k : k[n] = m /\ \A j \in DOMAIN k : j # n => k[j] = Noise
  BY DEF Once
<1>2. /\ Len(q) \in Nat /\ DOMAIN q = 1..Len(q)
      /\ Len(k) \in Nat /\ DOMAIN k = 1..Len(k)
      /\ DOMAIN r = 1..(Len(q) + Len(k))
      /\ \A j \in DOMAIN q : j \in DOMAIN r /\ r[j] = q[j] /\ q[j] \in Received
      /\ Len(q) + n \in DOMAIN r /\ r[Len(q) + n] = m
      /\ \A j \in DOMAIN r : j \in DOMAIN q \/ j = Len(q) + n \/ (j > Len(q) /\ r[j] = Noise)
  <2>1. IsJoined(r, q, k)
    BY Joined
  <2> HIDE DEF r
  <2>2. QED
    BY <1>1, <2>1 DEF IsJoined
<1> HIDE DEF r
<1>3. TrialBrought(v, r, x)
  <2>1. CASE SetsTrial(m)
    <3>0. x.trial = Updated(v, m).trial /\ x.phase = Updated(v, m).phase
      BY <2>1, UpdatedSets
    <3> HIDE DEF x
    <3>1. TrialFrom(r, Len(q) + n, Updated(v, m), x)
      <4>1. \A j \in DOMAIN r : j > Len(q) + n => r[j] = Noise
        BY <1>1, <1>2
      <4>2. \A j \in DOMAIN r : j > Len(q) + n => ~SetsTrial(r[j]) /\ \A t : r[j] # EndOf(t)
        BY <4>1, NoiseIsNothing
      <4>3. QED
        BY <3>0, <4>2 DEF TrialFrom
    <3>2. QED
      BY <1>2, <2>1, <3>1 DEF TrialBrought
  <2>2. CASE ~SetsTrial(m)
    <3>1. x.trial = w.trial /\ x.phase = IF m = EndOf(w.trial) THEN "ended" ELSE w.phase
      BY <2>2, UpdatedFacts
    <3> HIDE DEF x
    <3>2. ASSUME NEW i \in 0..Len(q), NEW u, TrialFrom(q, i, u, w)
          PROVE  TrialFrom(r, i, u, x)
      <4>1. \A j \in DOMAIN r : j > i => ~SetsTrial(r[j])
        BY <1>2, <2>2, <3>2, NoiseIsNothing DEF TrialFrom
      <4>2. CASE w.phase = "ended" /\ \E j \in DOMAIN q : j > i /\ q[j] = EndOf(u.trial)
        BY <1>2, <3>1, <3>2, <4>1, <4>2 DEF TrialFrom
      <4>3. CASE w.phase = u.phase /\ \A j \in DOMAIN q : j > i => q[j] # EndOf(u.trial)
        BY <1>1, <1>2, <3>1, <3>2, <4>1, <4>3, NoiseIsNothing DEF TrialFrom
      <4>4. QED
        BY <3>2, <4>2, <4>3 DEF TrialFrom
    <3>3. CASE TrialFrom(q, 0, v, w)
      BY <1>2, <3>2, <3>3 DEF TrialBrought
    <3>4. CASE \E i \in DOMAIN q : SetsTrial(q[i]) /\ TrialFrom(q, i, Updated(v, q[i]), w)
      <4>1. PICK i \in DOMAIN q : SetsTrial(q[i]) /\ TrialFrom(q, i, Updated(v, q[i]), w)
        BY <3>4
      <4>2. TrialFrom(r, i, Updated(v, r[i]), x) /\ i \in DOMAIN r /\ SetsTrial(r[i])
        BY <1>2, <3>2, <4>1
      <4>3. QED
        BY <4>2 DEF TrialBrought
    <3>5. QED
      BY <3>3, <3>4 DEF Brings, TrialBrought
  <2>3. QED
    BY <2>1, <2>2
<1>4. StateBrought(v, r, x)
  <2>1. CASE SetsState(m)
    <3>1. StateFrom(r, Len(q) + n, Updated(v, m), x)
      BY <1>1, <1>2, <2>1, UpdatedSets, NoiseIsNothing DEF StateFrom
    <3>2. QED
      BY <1>2, <2>1, <3>1 DEF StateBrought
  <2>2. CASE ~SetsState(m)
    <3>1. x.state = w.state
      BY <2>2, UpdatedFacts
    <3> HIDE DEF x
    <3>2. ASSUME NEW i \in 0..Len(q), NEW u, StateFrom(q, i, u, w)
          PROVE  StateFrom(r, i, u, x)
      BY <1>2, <2>2, <3>1, <3>2, NoiseIsNothing DEF StateFrom
    <3>3. CASE StateFrom(q, 0, v, w)
      BY <1>2, <3>2, <3>3 DEF StateBrought
    <3>4. CASE \E i \in DOMAIN q : SetsState(q[i]) /\ StateFrom(q, i, Updated(v, q[i]), w)
      <4>1. PICK i \in DOMAIN q : SetsState(q[i]) /\ StateFrom(q, i, Updated(v, q[i]), w)
        BY <3>4
      <4>2. StateFrom(r, i, Updated(v, r[i]), x) /\ i \in DOMAIN r /\ SetsState(r[i])
        BY <1>2, <3>2, <4>1
      <4>3. QED
        BY <4>2 DEF StateBrought
    <3>5. QED
      BY <3>3, <3>4 DEF Brings, StateBrought
  <2>3. QED
    BY <2>1, <2>2
<1>5. QED
  BY <1>3, <1>4 DEF Brings, r

(* What brings a view brings it again to one that has it already. *)
LEMMA BringsAgain ==
    ASSUME NEW v \in Views, NEW w \in Views, NEW q \in Seq(Received), Brings(v, q, w)
    PROVE  Brings(w, q, w)
<1>1. DOMAIN q = 1..Len(q) /\ Len(q) \in Nat /\ \A j \in DOMAIN q : q[j] \in Received
  BY LenProperties, ElementOfSeq
<1>2. TrialBrought(w, q, w)
  <2>1. CASE TrialFrom(q, 0, v, w)
    BY <2>1 DEF TrialFrom, TrialBrought
  <2>2. CASE \E i \in DOMAIN q : SetsTrial(q[i]) /\ TrialFrom(q, i, Updated(v, q[i]), w)
    <3>1. PICK i \in DOMAIN q : SetsTrial(q[i]) /\ TrialFrom(q, i, Updated(v, q[i]), w)
      BY <2>2
    <3>2. /\ Updated(v, q[i]).trial = Updated(w, q[i]).trial
          /\ Updated(v, q[i]).phase = Updated(w, q[i]).phase
      BY <1>1, <3>1, UpdatedSets
    <3>3. TrialFrom(q, i, Updated(w, q[i]), w)
      BY <3>1, <3>2 DEF TrialFrom
    <3>4. QED
      BY <3>1, <3>3 DEF TrialBrought
  <2>3. QED
    BY <2>1, <2>2 DEF Brings, TrialBrought
<1>3. StateBrought(w, q, w)
  <2>1. CASE StateFrom(q, 0, v, w)
    BY <2>1 DEF StateFrom, StateBrought
  <2>2. CASE \E i \in DOMAIN q : SetsState(q[i]) /\ StateFrom(q, i, Updated(v, q[i]), w)
    <3>1. PICK i \in DOMAIN q : SetsState(q[i]) /\ StateFrom(q, i, Updated(v, q[i]), w)
      BY <2>2
    <3>2. Updated(v, q[i]).state = Updated(w, q[i]).state
      BY <1>1, <3>1, UpdatedSets
    <3>3. StateFrom(q, i, Updated(w, q[i]), w)
      BY <3>1, <3>2 DEF StateFrom
    <3>4. QED
      BY <3>1, <3>3 DEF StateBrought
  <2>3. QED
    BY <2>1, <2>2 DEF Brings, StateBrought
<1>4. QED
  BY <1>2, <1>3 DEF Brings

(* mark_ready changes a state that nobody has to be heard. *)
LEMMA BringsReady ==
    ASSUME NEW v \in Views, NEW w \in Views, NEW q \in Seq(Received), Brings(v, q, w)
    PROVE  Brings(v, q, [w EXCEPT !.state = "READY"])
<1> DEFINE x == [w EXCEPT !.state = "READY"]
<1>1. x.trial = w.trial /\ x.phase = w.phase /\ x.state = "READY"
  BY DEF Views
<1> HIDE DEF x
<1>2. TrialBrought(v, q, x)
  BY <1>1 DEF Brings, TrialBrought, TrialFrom
<1>3. StateBrought(v, q, x)
  BY <1>1 DEF Brings, StateBrought, StateFrom
<1>4. QED
  BY <1>2, <1>3 DEF Brings, x

LEMMA SilentBringsNothing ==
    ASSUME NEW v \in Views, NEW q \in Seq(Received), Silent(q)
    PROVE  Brings(v, q, v)
<1>1. TrialFrom(q, 0, v, v)
  BY NoiseIsNothing DEF Silent, TrialFrom
<1>2. StateFrom(q, 0, v, v)
  BY NoiseIsNothing DEF Silent, StateFrom
<1>3. QED
  BY <1>1, <1>2 DEF Brings, TrialBrought, StateBrought

LEMMA SilentBrought ==
    ASSUME NEW v \in Views, NEW w \in Views, NEW q \in Seq(Received), Silent(q), Brings(v, q, w)
    PROVE  /\ v.trial = w.trial /\ v.phase = w.phase
           /\ w.state \in {"RUNNING", "STOPPED"} => v.state = w.state
<1>1. TrialFrom(q, 0, v, w)
  BY NoiseIsNothing DEF Silent, Brings, TrialBrought
<1>2. StateFrom(q, 0, v, w)
  BY NoiseIsNothing DEF Silent, Brings, StateBrought
<1>3. QED
  BY <1>1, <1>2, NoiseIsNothing DEF Silent, TrialFrom, StateFrom

(* The first message is received. *)
LEMMA BringsTail ==
    ASSUME NEW v \in Views, NEW w \in Views, NEW q \in Seq(Received), q # <<>>, Brings(v, q, w)
    PROVE  Brings(Updated(v, Head(q)), Tail(q), w)
<1> DEFINE r == Tail(q)
           m == Head(q)
           x == Updated(v, m)
<1>1. /\ r \in Seq(Received) /\ m \in Received /\ m = q[1]
      /\ Len(q) \in Nat \ {0} /\ DOMAIN q = 1..Len(q)
      /\ DOMAIN r = 1..(Len(q) - 1)
      /\ \A j \in DOMAIN r : r[j] = q[j + 1]
      /\ \A j \in DOMAIN q : q[j] \in Received
  <2>1. /\ r \in Seq(Received) /\ m \in Received /\ m = q[1] /\ Len(r) = Len(q) - 1
        /\ \A j \in 1..Len(r) : r[j] = q[j + 1]
    BY HeadTailProperties
  <2>2. QED
    BY <2>1, LenProperties, EmptySeq, ElementOfSeq
<1>2. x \in Views
  BY <1>1, UpdatedFacts
<1> HIDE DEF r, m
<1>3. /\ \A j \in DOMAIN r : j + 1 \in DOMAIN q /\ r[j] = q[j + 1]
      /\ \A j \in DOMAIN q : j # 1 => j - 1 \in DOMAIN r /\ r[j - 1] = q[j]
  BY <1>1
<1>4. ASSUME NEW i \in DOMAIN q, NEW u, TrialFrom(q, i, u, w)
      PROVE  TrialFrom(r, i - 1, u, w)
  <2>1. \A j \in DOMAIN r : j > i - 1 => ~SetsTrial(r[j])
    BY <1>1, <1>3, <1>4 DEF TrialFrom
  <2>2. CASE w.phase = "ended" /\ \E j \in DOMAIN q : j > i /\ q[j] = EndOf(u.trial)
    <3>1. PICK j \in DOMAIN q : j > i /\ q[j] = EndOf(u.trial)
      BY <2>2
    <3>2. j - 1 \in DOMAIN r /\ j - 1 > i - 1 /\ r[j - 1] = EndOf(u.trial)
      BY <1>1, <1>3, <3>1
    <3>3. QED
      BY <1>4, <2>1, <2>2, <3>2 DEF TrialFrom
  <2>3. CASE w.phase = u.phase /\ \A j \in DOMAIN q : j > i => q[j] # EndOf(u.trial)
    BY <1>1, <1>3, <1>4, <2>1, <2>3 DEF TrialFrom
  <2>4. QED
    BY <1>4, <2>2, <2>3 DEF TrialFrom
<1>5. ASSUME NEW i \in DOMAIN q, NEW u, StateFrom(q, i, u, w)
      PROVE  StateFrom(r, i - 1, u, w)
  BY <1>1, <1>3, <1>5 DEF StateFrom
<1>6. TrialBrought(x, r, w)
  <2>1. CASE TrialFrom(q, 0, v, w)
    <3>1. /\ ~SetsTrial(m) /\ x.trial = v.trial
          /\ x.phase = IF m = EndOf(v.trial) THEN "ended" ELSE v.phase
      BY <1>1, <2>1, UpdatedFacts DEF TrialFrom
    <3> HIDE DEF x
    <3>2. \A j \in DOMAIN r : j > 0 => ~SetsTrial(r[j])
      BY <1>1, <1>3, <2>1 DEF TrialFrom
    <3>3. CASE \E j \in DOMAIN r : r[j] = EndOf(v.trial)
      BY <1>1, <1>3, <2>1, <3>1, <3>2, <3>3 DEF TrialFrom, TrialBrought
    <3>4. CASE \A j \in DOMAIN r : r[j] # EndOf(v.trial)
      <4>1. w.phase = x.phase
        <5>1. CASE m = EndOf(v.trial)
          <6>1. 1 \in DOMAIN q /\ q[1] = EndOf(v.trial) /\ 1 > 0
            BY <1>1, <5>1
          <6>2. w.phase = "ended"
            BY <2>1, <6>1 DEF TrialFrom
          <6>3. QED
            BY <3>1, <5>1, <6>2
        <5>2. CASE m # EndOf(v.trial)
          <6>1. \A j \in DOMAIN q : q[j] # EndOf(v.trial)
            BY <1>1, <1>3, <3>4, <5>2
          <6>2. QED
            BY <2>1, <3>1, <5>2, <6>1 DEF TrialFrom
        <5>3. QED
          BY <5>1, <5>2
      <4>2. QED
        BY <2>1, <3>1, <3>2, <3>4, <4>1 DEF TrialFrom, TrialBrought
    <3>5. QED
      BY <3>3, <3>4
  <2>2. CASE \E i \in DOMAIN q : SetsTrial(q[i]) /\ TrialFrom(q, i, Updated(v, q[i]), w)
    <3>1. PICK i \in DOMAIN q : SetsTrial(q[i]) /\ TrialFrom(q, i, Updated(v, q[i]), w)
      BY <2>2
    <3>2. CASE i = 1
      <4>1. TrialFrom(r, 0, x, w)
        BY <1>1, <1>4, <3>1, <3>2
      <4>2. QED
        BY <4>1 DEF TrialBrought
    <3>3. CASE i # 1
      <4>1. /\ Updated(v, q[i]).trial = Updated(x, q[i]).trial
            /\ Updated(v, q[i]).phase = Updated(x, q[i]).phase
        BY <1>1, <1>2, <3>1, UpdatedSets
      <4>2. i - 1 \in DOMAIN r /\ r[i - 1] = q[i] /\ TrialFrom(q, i, Updated(x, q[i]), w)
        BY <1>3, <3>1, <3>3, <4>1 DEF TrialFrom
      <4>3. TrialFrom(r, i - 1, Updated(x, r[i - 1]), w) /\ SetsTrial(r[i - 1])
        BY <1>4, <3>1, <4>2
      <4>4. QED
        BY <4>2, <4>3 DEF TrialBrought
    <3>4. QED
      BY <3>2, <3>3
  <2>3. QED
    BY <2>1, <2>2 DEF Brings, TrialBrought
<1>7. StateBrought(x, r, w)
  <2>1. CASE StateFrom(q, 0, v, w)
    <3>1. ~SetsState(m) /\ x.state = v.state
      BY <1>1, <2>1, UpdatedFacts DEF StateFrom
    <3> HIDE DEF x
    <3>2. QED
      BY <1>1, <1>3, <2>1, <3>1 DEF StateFrom, StateBrought
  <2>2. CASE \E i \in DOMAIN q : SetsState(q[i]) /\ StateFrom(q, i, Updated(v, q[i]), w)
    <3>1. PICK i \in DOMAIN q : SetsState(q[i]) /\ StateFrom(q, i, Updated(v, q[i]), w)
      BY <2>2
    <3>2. CASE i = 1
      <4>1. StateFrom(r, 0, x, w)
        BY <1>1, <1>5, <3>1, <3>2
      <4>2. QED
        BY <4>1 DEF StateBrought
    <3>3. CASE i # 1
      <4>1. Updated(v, q[i]).state = Updated(x, q[i]).state
        BY <1>1, <1>2, <3>1, UpdatedSets
      <4>2. i - 1 \in DOMAIN r /\ r[i - 1] = q[i] /\ StateFrom(q, i, Updated(x, q[i]), w)
        BY <1>3, <3>1, <3>3, <4>1 DEF StateFrom
      <4>3. StateFrom(r, i - 1, Updated(x, r[i - 1]), w) /\ SetsState(r[i - 1])
        BY <1>5, <3>1, <4>2
      <4>4. QED
        BY <4>2, <4>3 DEF StateBrought
    <3>4. QED
      BY <3>2, <3>3
  <2>3. QED
    BY <2>1, <2>2 DEF Brings, StateBrought
<1>8. QED
  BY <1>6, <1>7 DEF Brings, r, m

(* A snapshot brings its view, whatever is before it in the queue. *)
LEMMA SnapshotBrings ==
    ASSUME NEW v \in Views, NEW w \in Views, NEW view \in Views,
           NEW a \in Seq(Received), NEW q \in Seq(Received), Brings(view, q, w)
    PROVE  Brings(v, Append(a, Snapshot(view)) \o q, w)
<1> DEFINE m == Snapshot(view)
           b == Append(a, m)
           r == b \o q
<1>1. m \in Received /\ SetsTrial(m) /\ SetsState(m) /\ \A u : Updated(u, m) = view
  BY DEF Received, Messages, Snapshot, SetsTrial, SetsState, Updated
<1> HIDE DEF m
<1>2. b \in Seq(Received) /\ Len(b) = Len(a) + 1 /\ b[Len(a) + 1] = m /\ Len(a) \in Nat
  BY <1>1, AppendProperties, LenProperties
<1> HIDE DEF b
<1> DEFINE n == Len(b)
<1>3. /\ n \in Nat /\ n \in DOMAIN r /\ r[n] = m
      /\ DOMAIN q = 1..Len(q) /\ Len(q) \in Nat
      /\ \A j \in DOMAIN r : j \in Nat
      /\ \A j \in DOMAIN q : n + j \in DOMAIN r /\ r[n + j] = q[j] /\ q[j] \in Received
      /\ \A j \in DOMAIN r : j > n => j - n \in DOMAIN q /\ r[j] = q[j - n]
  <2>1. n \in DOMAIN b /\ b[n] = m
    BY <1>2, LenProperties
  <2>2. /\ Len(b) \in Nat /\ DOMAIN b = 1..n /\ DOMAIN q = 1..Len(q) /\ Len(q) \in Nat
        /\ DOMAIN r = 1..(n + Len(q))
        /\ \A j \in DOMAIN b : j \in DOMAIN r /\ r[j] = b[j]
        /\ \A j \in DOMAIN q : n + j \in DOMAIN r /\ r[n + j] = q[j] /\ q[j] \in Received
    <3>1. IsJoined(r, b, q)
      BY <1>2, Joined
    <3> HIDE DEF r
    <3>2. QED
      BY <3>1 DEF IsJoined
  <2> HIDE DEF r
  <2>3. ASSUME NEW j \in DOMAIN r, j > n
        PROVE  j - n \in DOMAIN q /\ r[j] = q[j - n]
    <3>1. j - n \in DOMAIN q /\ n + (j - n) = j
      BY <2>2, <2>3
    <3>2. QED
      BY <2>2, <3>1
  <2>4. QED
    BY <2>1, <2>2, <2>3
<1> HIDE DEF r, n
<1>4. ASSUME NEW i \in 0..Len(q), NEW u, TrialFrom(q, i, u, w)
      PROVE  TrialFrom(r, n + i, u, w)
  <2>1. \A j \in DOMAIN r : j > n + i => ~SetsTrial(r[j])
    BY <1>3, <1>4 DEF TrialFrom
  <2>2. CASE w.phase = "ended" /\ \E j \in DOMAIN q : j > i /\ q[j] = EndOf(u.trial)
    <3>1. PICK j \in DOMAIN q : j > i /\ q[j] = EndOf(u.trial)
      BY <2>2
    <3>2. n + j \in DOMAIN r /\ n + j > n + i /\ r[n + j] = EndOf(u.trial)
      BY <1>3, <3>1
    <3>3. QED
      BY <1>4, <2>1, <2>2, <3>2 DEF TrialFrom
  <2>3. CASE w.phase = u.phase /\ \A j \in DOMAIN q : j > i => q[j] # EndOf(u.trial)
    BY <1>3, <1>4, <2>1, <2>3 DEF TrialFrom
  <2>4. QED
    BY <1>4, <2>2, <2>3 DEF TrialFrom
<1>5. ASSUME NEW i \in 0..Len(q), NEW u, StateFrom(q, i, u, w)
      PROVE  StateFrom(r, n + i, u, w)
  BY <1>3, <1>5 DEF StateFrom
<1>6. TrialBrought(v, r, w)
  <2>1. CASE TrialFrom(q, 0, view, w)
    <3>1. TrialFrom(r, n, Updated(v, r[n]), w)
      BY <1>1, <1>3, <1>4, <2>1
    <3>2. QED
      BY <1>1, <1>3, <3>1 DEF TrialBrought
  <2>2. CASE \E i \in DOMAIN q : SetsTrial(q[i]) /\ TrialFrom(q, i, Updated(view, q[i]), w)
    <3>1. PICK i \in DOMAIN q : SetsTrial(q[i]) /\ TrialFrom(q, i, Updated(view, q[i]), w)
      BY <2>2
    <3>2. /\ Updated(v, q[i]).trial = Updated(view, q[i]).trial
          /\ Updated(v, q[i]).phase = Updated(view, q[i]).phase
      BY <1>3, <3>1, UpdatedSets
    <3>3. TrialFrom(q, i, Updated(v, q[i]), w)
      BY <3>1, <3>2 DEF TrialFrom
    <3>4. n + i \in DOMAIN r /\ r[n + i] = q[i]
      BY <1>3, <3>1
    <3>5. TrialFrom(r, n + i, Updated(v, r[n + i]), w) /\ SetsTrial(r[n + i])
      BY <1>3, <1>4, <3>1, <3>3, <3>4
    <3>6. QED
      BY <3>4, <3>5 DEF TrialBrought
  <2>3. QED
    BY <2>1, <2>2 DEF Brings, TrialBrought
<1>7. StateBrought(v, r, w)
  <2>1. CASE StateFrom(q, 0, view, w)
    <3>1. StateFrom(r, n, Updated(v, r[n]), w)
      BY <1>1, <1>3, <1>5, <2>1
    <3>2. QED
      BY <1>1, <1>3, <3>1 DEF StateBrought
  <2>2. CASE \E i \in DOMAIN q : SetsState(q[i]) /\ StateFrom(q, i, Updated(view, q[i]), w)
    <3>1. PICK i \in DOMAIN q : SetsState(q[i]) /\ StateFrom(q, i, Updated(view, q[i]), w)
      BY <2>2
    <3>2. Updated(v, q[i]).state = Updated(view, q[i]).state
      BY <1>3, <3>1, UpdatedSets
    <3>3. StateFrom(q, i, Updated(v, q[i]), w)
      BY <3>1, <3>2 DEF StateFrom
    <3>4. n + i \in DOMAIN r /\ r[n + i] = q[i]
      BY <1>3, <3>1
    <3>5. StateFrom(r, n + i, Updated(v, r[n + i]), w) /\ SetsState(r[n + i])
      BY <1>3, <1>5, <3>1, <3>3, <3>4
    <3>6. QED
      BY <3>4, <3>5 DEF StateBrought
  <2>3. QED
    BY <2>1, <2>2 DEF Brings, StateBrought
<1>8. QED
  BY <1>6, <1>7 DEF Brings, r, b, m

(* Noise can be left out. *)
LEMMA NoiseLeftOut ==
    ASSUME NEW v \in Views, NEW w \in Views, NEW a \in Seq(Received), NEW b \in Seq(Received),
           b # <<>>, Head(b) = Noise, Brings(v, a \o b, w)
    PROVE  Brings(v, a \o Tail(b), w)
<1> DEFINE q == a \o b
           t == Tail(b)
           r == a \o t
           n == Len(a) + 1
           Down(j) == IF j < n THEN j ELSE j - 1
           Up(j) == IF j < n THEN j ELSE j + 1
<1>1. /\ t \in Seq(Received) /\ b[1] = Noise
      /\ Len(b) \in Nat \ {0} /\ DOMAIN b = 1..Len(b) /\ DOMAIN t = 1..(Len(b) - 1)
      /\ Len(t) = Len(b) - 1
      /\ \A j \in DOMAIN t : t[j] = b[j + 1]
  BY HeadTailProperties, LenProperties, EmptySeq
<1> HIDE DEF t
<1>2. /\ Len(a) \in Nat /\ DOMAIN q = 1..(Len(a) + Len(b)) /\ DOMAIN r = 1..(Len(a) + Len(b) - 1)
      /\ \A j \in DOMAIN a : q[j] = a[j] /\ r[j] = a[j]
      /\ \A j \in DOMAIN b : q[Len(a) + j] = b[j] /\ b[j] \in Received
      /\ \A j \in DOMAIN t : r[Len(a) + j] = t[j]
      /\ DOMAIN a = 1..Len(a)
      /\ \A j \in DOMAIN a : a[j] \in Received
  <2>1. Len(t) = Len(b) - 1
    BY <1>1
  <2>2. /\ Len(a) \in Nat /\ DOMAIN a = 1..Len(a) /\ DOMAIN q = 1..(Len(a) + Len(b))
        /\ \A j \in DOMAIN a : q[j] = a[j] /\ a[j] \in Received
        /\ \A j \in DOMAIN b : q[Len(a) + j] = b[j] /\ b[j] \in Received
    <3>1. IsJoined(q, a, b)
      BY Joined
    <3> HIDE DEF q
    <3>2. QED
      BY <3>1 DEF IsJoined
  <2>3. /\ DOMAIN r = 1..(Len(a) + Len(t))
        /\ \A j \in DOMAIN a : r[j] = a[j]
        /\ \A j \in DOMAIN t : r[Len(a) + j] = t[j]
    <3>1. IsJoined(r, a, t)
      BY <1>1, Joined
    <3> HIDE DEF r
    <3>2. QED
      BY <3>1 DEF IsJoined
  <2> HIDE DEF q, r
  <2>4. DOMAIN r = 1..(Len(a) + Len(b) - 1)
    BY <1>1, <2>1, <2>2, <2>3
  <2>5. QED
    BY <2>2, <2>3, <2>4
<1> HIDE DEF q, r
<1>3. /\ n \in Nat /\ q[n] = Noise /\ \A j \in DOMAIN q : j \in Nat
      /\ \A j \in DOMAIN q : j # n => Down(j) \in DOMAIN r /\ r[Down(j)] = q[j]
      /\ \A j \in DOMAIN r : j \in Nat /\ Up(j) \in DOMAIN q /\ r[j] = q[Up(j)]
      /\ \A j \in DOMAIN q : q[j] \in Received
  <2>1. q[n] = Noise
    BY <1>1, <1>2
  <2>2. ASSUME NEW j \in DOMAIN q, j > n
        PROVE  j - 1 \in DOMAIN r /\ r[j - 1] = q[j]
    <3>1. j - n \in DOMAIN t /\ j - n + 1 \in DOMAIN b
      BY <1>1, <1>2, <2>2
    <3>2. r[Len(a) + (j - n)] = b[j - n + 1] /\ q[Len(a) + (j - n + 1)] = b[j - n + 1]
      BY <1>1, <1>2, <3>1
    <3>3. Len(a) + (j - n) = j - 1 /\ Len(a) + (j - n + 1) = j
      BY <1>2
    <3>4. j - 1 \in DOMAIN r
      BY <1>1, <1>2, <2>2
    <3>5. QED
      BY <3>2, <3>3, <3>4
  <2>3. ASSUME NEW j \in DOMAIN q, j < n
        PROVE  j \in DOMAIN r /\ r[j] = q[j] /\ q[j] \in Received
    BY <1>1, <1>2, <2>3
  <2>4. ASSUME NEW j \in DOMAIN r, ~(j < n)
        PROVE  j + 1 \in DOMAIN q /\ r[j] = q[j + 1]
    BY <1>2, <2>2, <2>4
  <2>5. ASSUME NEW j \in DOMAIN r, j < n
        PROVE  j \in DOMAIN q /\ r[j] = q[j]
    BY <1>1, <1>2, <2>5
  <2>6. ASSUME NEW j \in DOMAIN q
        PROVE  q[j] \in Received
    <3>1. CASE j \in DOMAIN a
      BY <1>2, <3>1
    <3>2. CASE j \notin DOMAIN a
      <4>1. j - Len(a) \in DOMAIN b /\ Len(a) + (j - Len(a)) = j
        BY <1>1, <1>2, <3>2
      <4>2. QED
        BY <1>2, <4>1
    <3>3. QED
      BY <3>1, <3>2
  <2>7. QED
    BY <1>2, <2>1, <2>2, <2>3, <2>4, <2>5, <2>6
<1> HIDE DEF n
<1>4. /\ \A i, j \in Nat : j > i /\ j # n /\ i # n => Down(j) > Down(i)
      /\ \A i, j \in Nat : i # n /\ j > Down(i) => Up(j) > i
      /\ \A i \in Nat : Down(i) \in Int
  BY <1>3
<1> HIDE DEF Down, Up
<1>5. ASSUME NEW i \in Nat, i # n, NEW u, TrialFrom(q, i, u, w)
      PROVE  TrialFrom(r, Down(i), u, w)
  <2>1. \A j \in DOMAIN r : j > Down(i) => ~SetsTrial(r[j])
    BY <1>3, <1>4, <1>5 DEF TrialFrom
  <2>2. CASE w.phase = "ended" /\ \E j \in DOMAIN q : j > i /\ q[j] = EndOf(u.trial)
    <3>1. PICK j \in DOMAIN q : j > i /\ q[j] = EndOf(u.trial)
      BY <2>2
    <3>2. j # n
      BY <1>3, <3>1, NoiseIsNothing
    <3>3. Down(j) \in DOMAIN r /\ Down(j) > Down(i) /\ r[Down(j)] = EndOf(u.trial)
      BY <1>3, <1>4, <1>5, <3>1, <3>2
    <3>4. QED
      BY <1>5, <2>1, <2>2, <3>3 DEF TrialFrom
  <2>3. CASE w.phase = u.phase /\ \A j \in DOMAIN q : j > i => q[j] # EndOf(u.trial)
    BY <1>3, <1>4, <1>5, <2>1, <2>3 DEF TrialFrom
  <2>4. QED
    BY <1>5, <2>2, <2>3 DEF TrialFrom
<1>6. ASSUME NEW i \in Nat, i # n, NEW u, StateFrom(q, i, u, w)
      PROVE  StateFrom(r, Down(i), u, w)
  BY <1>3, <1>4, <1>6 DEF StateFrom
<1>7. 0 # n /\ Down(0) = 0
  BY <1>2 DEF n, Down
<1>8. TrialBrought(v, r, w)
  <2>1. CASE TrialFrom(q, 0, v, w)
    BY <1>5, <1>7, <2>1 DEF TrialBrought
  <2>2. CASE \E i \in DOMAIN q : SetsTrial(q[i]) /\ TrialFrom(q, i, Updated(v, q[i]), w)
    <3>1. PICK i \in DOMAIN q : SetsTrial(q[i]) /\ TrialFrom(q, i, Updated(v, q[i]), w)
      BY <2>2
    <3>2. i # n /\ i \in Nat
      BY <1>3, <3>1, NoiseIsNothing
    <3>3. /\ Down(i) \in DOMAIN r /\ SetsTrial(r[Down(i)])
          /\ TrialFrom(r, Down(i), Updated(v, r[Down(i)]), w)
      BY <1>3, <1>5, <3>1, <3>2
    <3>4. QED
      BY <3>3 DEF TrialBrought
  <2>3. QED
    BY <2>1, <2>2 DEF Brings, TrialBrought, q
<1>9. StateBrought(v, r, w)
  <2>1. CASE StateFrom(q, 0, v, w)
    BY <1>6, <1>7, <2>1 DEF StateBrought
  <2>2. CASE \E i \in DOMAIN q : SetsState(q[i]) /\ StateFrom(q, i, Updated(v, q[i]), w)
    <3>1. PICK i \in DOMAIN q : SetsState(q[i]) /\ StateFrom(q, i, Updated(v, q[i]), w)
      BY <2>2
    <3>2. i # n /\ i \in Nat
      BY <1>3, <3>1, NoiseIsNothing
    <3>3. /\ Down(i) \in DOMAIN r /\ SetsState(r[Down(i)])
          /\ StateFrom(r, Down(i), Updated(v, r[Down(i)]), w)
      BY <1>3, <1>6, <3>1, <3>2
    <3>4. QED
      BY <3>3 DEF StateBrought
  <2>3. QED
    BY <2>1, <2>2 DEF Brings, StateBrought, q
<1>10. QED
  BY <1>8, <1>9 DEF Brings, r, t

-----------------------------------------------------------------------------
(* The sending tasks, as one client sees them. *)
Tasks == [to : Clients, msg : Messages]

LEMMA OnlyFacts ==
    ASSUME NEW c, NEW o \in Seq(Tasks)
    PROVE  /\ Only(c, o) \in Seq(Received) /\ Len(Only(c, o)) = Len(o)
           /\ Len(o) \in Nat /\ DOMAIN o = 1..Len(o) /\ DOMAIN Only(c, o) = 1..Len(o)
           /\ \A i \in DOMAIN o : /\ o[i] \in Tasks
                                 /\ Only(c, o)[i] = IF o[i].to = c THEN o[i].msg ELSE Noise
<1> DEFINE f == Only(c, o)
<1>1. Len(o) \in Nat /\ DOMAIN o = 1..Len(o) /\ \A i \in DOMAIN o : o[i] \in Tasks
  BY LenProperties, ElementOfSeq
<1>2. \A i \in DOMAIN o : (IF o[i].to = c THEN o[i].msg ELSE Noise) \in Received
  BY <1>1 DEF Tasks, Received
<1>3. f \in [1..Len(o) -> Received]
  BY <1>1, <1>2 DEF Only
<1>4. f \in Seq(Received)
  BY <1>1, <1>3, SeqDef, Zenon
<1>5. DOMAIN f = 1..Len(o)
  BY <1>3
<1>6. \A i \in DOMAIN o : f[i] = IF o[i].to = c THEN o[i].msg ELSE Noise
  BY DEF Only
<1> HIDE DEF f
<1>7. Len(f) = Len(o)
  BY <1>1, <1>4, <1>5, LenProperties
<1>8. QED
  BY <1>1, <1>4, <1>5, <1>6, <1>7 DEF f

LEMMA OnlyTail ==
    ASSUME NEW c, NEW o \in Seq(Tasks), o # <<>>
    PROVE  /\ Tail(o) \in Seq(Tasks) /\ Head(o) \in Tasks /\ Only(c, o) # <<>>
           /\ Only(c, Tail(o)) = Tail(Only(c, o))
           /\ Head(Only(c, o)) = IF Head(o).to = c THEN Head(o).msg ELSE Noise
<1> DEFINE t == Tail(o)
           f == Only(c, o)
           g == Only(c, t)
<1>1. /\ t \in Seq(Tasks) /\ Head(o) \in Tasks /\ Head(o) = o[1] /\ Len(t) = Len(o) - 1
      /\ \A i \in 1..Len(t) : t[i] = o[i + 1]
  BY HeadTailProperties
<1>2. Len(o) \in Nat \ {0}
  BY EmptySeq
<1>3. /\ f \in Seq(Received) /\ Len(f) = Len(o)
      /\ \A i \in 1..Len(o) : f[i] = IF o[i].to = c THEN o[i].msg ELSE Noise
  BY OnlyFacts
<1>4. /\ g \in Seq(Received) /\ Len(g) = Len(t)
      /\ \A i \in 1..Len(t) : g[i] = IF t[i].to = c THEN t[i].msg ELSE Noise
  <2>1. t \in Seq(Tasks)
    BY <1>1
  <2> HIDE DEF t
  <2>2. QED
    BY <2>1, OnlyFacts
<1> HIDE DEF t, f, g
<1>5. f # <<>>
  BY <1>2, <1>3, EmptySeq
<1>6. /\ Tail(f) \in Seq(Received) /\ Len(Tail(f)) = Len(f) - 1 /\ Head(f) = f[1]
      /\ \A i \in 1..Len(Tail(f)) : Tail(f)[i] = f[i + 1]
  BY <1>3, <1>5, HeadTailProperties
<1>7. \A i \in 1..Len(g) : g[i] = Tail(f)[i]
  <2>1. SUFFICES ASSUME NEW i \in 1..Len(g) PROVE g[i] = Tail(f)[i]
    OBVIOUS
  <2>2. Len(g) = Len(t) /\ Len(t) = Len(o) - 1 /\ Len(Tail(f)) = Len(o) - 1
    BY <1>1, <1>3, <1>4, <1>6
  <2>3. i \in 1..Len(t) /\ i \in 1..Len(Tail(f)) /\ i + 1 \in 1..Len(o)
    BY <1>2, <2>1, <2>2
  <2>4. Tail(f)[i] = f[i + 1] /\ t[i] = o[i + 1]
    BY <1>1, <1>6, <2>3
  <2>5. QED
    BY <1>3, <1>4, <2>3, <2>4
<1>8. Len(g) = Len(Tail(f))
  BY <1>1, <1>3, <1>4, <1>6
<1>9. g = Tail(f)
  BY <1>4, <1>6, <1>7, <1>8, SeqEqual
<1>10. Head(f) = IF Head(o).to = c THEN Head(o).msg ELSE Noise
  BY <1>1, <1>2, <1>3, <1>6
<1>11. QED
  BY <1>1, <1>5, <1>9, <1>10 DEF t, f, g

LEMMA OnlyMore ==
    ASSUME NEW c, NEW a \in Seq(Tasks), NEW b \in Seq(Tasks)
    PROVE  Only(c, a \o b) = Only(c, a) \o Only(c, b)
<1> DEFINE r == a \o b
           f == Only(c, a)
           g == Only(c, b)
           h == Only(c, r)
<1>1. /\ r \in Seq(Tasks) /\ Len(r) = Len(a) + Len(b)
      /\ \A i \in 1..(Len(a) + Len(b)) : r[i] = IF i <= Len(a) THEN a[i] ELSE b[i - Len(a)]
  BY ConcatProperties
<1> HIDE DEF r
<1>2. /\ f \in Seq(Received) /\ Len(f) = Len(a) /\ Len(a) \in Nat
      /\ \A i \in 1..Len(a) : f[i] = IF a[i].to = c THEN a[i].msg ELSE Noise
  BY OnlyFacts
<1>3. /\ g \in Seq(Received) /\ Len(g) = Len(b) /\ Len(b) \in Nat
      /\ \A i \in 1..Len(b) : g[i] = IF b[i].to = c THEN b[i].msg ELSE Noise
  BY OnlyFacts
<1>4. /\ h \in Seq(Received) /\ Len(h) = Len(r)
      /\ \A i \in 1..Len(r) : h[i] = IF r[i].to = c THEN r[i].msg ELSE Noise
  BY <1>1, OnlyFacts
<1> HIDE DEF f, g, h
<1>5. /\ f \o g \in Seq(Received) /\ Len(f \o g) = Len(f) + Len(g)
      /\ \A i \in 1..(Len(f) + Len(g)) :
            (f \o g)[i] = IF i <= Len(f) THEN f[i] ELSE g[i - Len(f)]
  <2>1. f \in Seq(Received) /\ g \in Seq(Received)
    BY <1>2, <1>3
  <2>2. QED
    BY <2>1, ConcatProperties
<1> DEFINE e == f \o g
<1>6. \A i \in 1..Len(h) : h[i] = e[i]
  <2>1. /\ Len(h) = Len(a) + Len(b)
        /\ \A i \in 1..(Len(a) + Len(b)) : e[i] = IF i <= Len(a) THEN f[i] ELSE g[i - Len(a)]
    BY <1>1, <1>2, <1>3, <1>4, <1>5
  <2> HIDE DEF e
  <2>2. ASSUME NEW i \in 1..Len(h), i <= Len(a)
        PROVE  h[i] = e[i]
    <3>1. i \in 1..Len(a) /\ i \in 1..Len(r)
      BY <1>1, <1>2, <1>3, <1>4, <2>2
    <3>2. r[i] = a[i] /\ h[i] = IF r[i].to = c THEN r[i].msg ELSE Noise
      BY <1>1, <1>4, <2>1, <2>2, <3>1
    <3>3. e[i] = f[i]
      BY <2>1, <2>2
    <3>4. QED
      BY <1>2, <3>1, <3>2, <3>3
  <2>3. ASSUME NEW i \in 1..Len(h), ~(i <= Len(a))
        PROVE  h[i] = e[i]
    <3>1. i - Len(a) \in 1..Len(b)
      BY <1>2, <1>3, <2>1, <2>3
    <3>2. r[i] = b[i - Len(a)] /\ h[i] = IF r[i].to = c THEN r[i].msg ELSE Noise
      BY <1>1, <1>4, <2>1, <2>3
    <3>3. e[i] = g[i - Len(a)]
      BY <2>1, <2>3
    <3>4. QED
      BY <1>3, <3>1, <3>2, <3>3
  <2>4. QED
    BY <2>2, <2>3
<1>7. Len(h) = Len(f \o g)
  BY <1>1, <1>2, <1>3, <1>4, <1>5
<1>8. h = f \o g
  BY <1>4, <1>5, <1>6, <1>7, SeqEqual
<1>9. QED
  BY <1>8 DEF r, f, g, h

(* One task for each client of the registry. *)
Fanned(m) == [i \in DOMAIN registry |-> [to |-> registry[i], msg |-> m]]

LEMMA FannedFacts ==
    ASSUME registry \in Seq(Clients), IsInjective(registry), NEW m \in Messages
    PROVE  /\ Fanned(m) \in Seq(Tasks)
           /\ \A c \in Clients : IF Contains(registry, c) THEN Once(Only(c, Fanned(m)), m)
                                ELSE Silent(Only(c, Fanned(m)))
<1>1. /\ Len(registry) \in Nat /\ DOMAIN registry = 1..Len(registry)
      /\ \A i \in DOMAIN registry : registry[i] \in Clients
  BY LenProperties, ElementOfSeq
<1> DEFINE k == Fanned(m)
<1>2. k \in [1..Len(registry) -> Tasks]
  BY <1>1 DEF Fanned, Tasks
<1>3. k \in Seq(Tasks)
  BY <1>1, <1>2, SeqDef, Zenon
<1>4. DOMAIN k = DOMAIN registry /\ \A i \in DOMAIN k : k[i].to = registry[i] /\ k[i].msg = m
  BY DEF Fanned
<1> HIDE DEF k
<1>5. ASSUME NEW c \in Clients
      PROVE  IF Contains(registry, c) THEN Once(Only(c, k), m) ELSE Silent(Only(c, k))
  <2> DEFINE f == Only(c, k)
  <2>1. /\ DOMAIN f = DOMAIN registry
        /\ \A i \in DOMAIN registry : f[i] = IF registry[i] = c THEN m ELSE Noise
    BY <1>4 DEF Only
  <2> HIDE DEF f
  <2>2. CASE Contains(registry, c)
    <3>1. PICK n \in DOMAIN registry : registry[n] = c
      BY <1>1, <2>2 DEF Contains
    <3>2. \A j \in DOMAIN registry : j # n => registry[j] # c
      BY <3>1 DEF IsInjective
    <3>3. Once(f, m)
      BY <2>1, <3>1, <3>2 DEF Once
    <3>4. QED
      BY <2>2, <3>3 DEF f
  <2>3. CASE ~Contains(registry, c)
    <3>1. Silent(f)
      BY <1>1, <2>1, <2>3 DEF Contains, Silent
    <3>2. QED
      BY <2>3, <3>1 DEF f
  <2>4. QED
    BY <2>2, <2>3
<1>6. QED
  BY <1>3, <1>5 DEF k

-----------------------------------------------------------------------------
(* The steps. *)
LEMMA InitSession ==
    ASSUME Init
    PROVE  (\A i \in DOMAIN outbox : FALSE) /\ \A c \in Clients : Synced(c)
<1>1. outbox = <<>> /\ outbox \in Seq(Tasks) /\ DOMAIN outbox = {}
  BY DEF Init
<1>2. session \in Views
  BY DEF Init, NoSession, Views, SessionStates, Phases
<1>3. ASSUME NEW c \in Clients PROVE Synced(c)
  <2>1. Late(c) \in Seq(Received) /\ Silent(Late(c))
    BY <1>1, OnlyFacts DEF Late, Silent
  <2>2. Brings(session, Late(c), session)
    BY <1>2, <2>1, SilentBringsNothing
  <2>3. ~Informed(c)
    BY DEF Init, Informed
  <2>4. QED
    BY <2>2, <2>3 DEF Synced
<1>4. QED
  BY <1>1, <1>3

(* The server's view is changed by what its clients are sent. *)
LEMMA ChangeUpdates ==
    ASSUME TypeOK, NEW kind, NEW t, Command(kind, t) \in Messages,
           kind \notin {"REGISTER_OK", "none"}, Change(kind, t)
    PROVE  /\ session' = Updated(session, Command(kind, t)) /\ session' \in Views
           /\ outbox' = outbox \o Fanned(Command(kind, t))
           /\ UNCHANGED <<registry, clientVars, toClient>> /\ changes' \in 0..MaxChanges
<1>1. Command(kind, t) \in Received
  BY DEF Received
<1>2. Updated(session, Command(kind, t)) = After(session, kind, t)
  BY DEF Updated, Command, Noise
<1>3. Updated(session, Command(kind, t)) \in Views
  BY <1>1, UpdatedFacts DEF TypeOK
<1>4. QED
  BY <1>2, <1>3, SessionAssumption DEF Change, Fanned, TypeOK

LEMMA ChangeKeeps ==
    ASSUME SessionInv, NEW m \in Messages, m.kind # "REGISTER_OK",
           session' = Updated(session, m), session' \in Views,
           outbox' = outbox \o Fanned(m), UNCHANGED <<registry, clientVars, toClient>>
    PROVE  /\ \A i \in DOMAIN outbox' :
                 Contains(registry', outbox'[i].to) /\ outbox'[i].msg.kind # "REGISTER_OK"
           /\ outbox' \in Seq([to : Clients, msg : Messages])
           /\ \A c \in Clients : Synced(c)'
<1> DEFINE k == Fanned(m)
<1>1. /\ registry \in Seq(Clients) /\ IsInjective(registry) /\ outbox \in Seq(Tasks)
      /\ session \in Views /\ \A c \in Clients : heard[c] \in Views /\ toClient[c] \in Seq(Received)
  <2>1. ASSUME NEW c \in Clients PROVE heard[c] \in Views /\ toClient[c] \in Seq(Received)
    <3>1. heard[c] \in Views /\ toClient[c] \in Seq(Messages)
      BY DEF SessionInv, TypeOK
    <3>2. QED
      BY <3>1, SeqMonotonic DEF Received
  <2>2. QED
    BY <2>1 DEF SessionInv, TypeOK, Tasks
<1>2. /\ k \in Seq(Tasks)
      /\ \A c \in Clients : IF Contains(registry, c) THEN Once(Only(c, k), m)
                           ELSE Silent(Only(c, k))
  BY <1>1, FannedFacts
<1>3. m \in Received
  BY DEF Received
<1>4. \A i \in DOMAIN k : Contains(registry, k[i].to) /\ k[i].msg = m
  BY <1>1, LenProperties DEF Fanned, Contains
<1> HIDE DEF k
<1>5. /\ outbox' \in Seq(Tasks) /\ Len(outbox') = Len(outbox) + Len(k)
      /\ \A i \in 1..(Len(outbox) + Len(k)) :
            outbox'[i] = IF i <= Len(outbox) THEN outbox[i] ELSE k[i - Len(outbox)]
  <2>1. outbox' = outbox \o k
    BY DEF k
  <2>2. QED
    BY <1>1, <1>2, <2>1, ConcatProperties
<1>6. ASSUME NEW i \in DOMAIN outbox'
      PROVE  Contains(registry, outbox'[i].to) /\ outbox'[i].msg.kind # "REGISTER_OK"
  <2>1. /\ DOMAIN outbox' = 1..(Len(outbox) + Len(k)) /\ Len(outbox) \in Nat /\ Len(k) \in Nat
        /\ DOMAIN outbox = 1..Len(outbox) /\ DOMAIN k = 1..Len(k)
    BY <1>1, <1>2, <1>5, LenProperties
  <2>2. CASE i <= Len(outbox)
    <3>1. i \in DOMAIN outbox /\ outbox'[i] = outbox[i]
      BY <1>5, <2>1, <2>2
    <3>2. QED
      BY <3>1 DEF SessionInv
  <2>3. CASE ~(i <= Len(outbox))
    <3>1. i - Len(outbox) \in DOMAIN k /\ outbox'[i] = k[i - Len(outbox)]
      BY <1>5, <2>1, <2>3
    <3>2. QED
      BY <1>4, <3>1
  <2>4. QED
    BY <2>2, <2>3
<1>7. ASSUME NEW c \in Clients PROVE Synced(c)'
  <2> DEFINE l == Late(c)
             o == Only(c, k)
             l2 == Only(c, outbox')
  <2>1. /\ l \in Seq(Received) /\ o \in Seq(Received) /\ l2 \in Seq(Received)
    BY <1>1, <1>2, <1>5, OnlyFacts DEF Late
  <2>2. l2 = l \o o
    <3>1. outbox' = outbox \o k
      BY DEF k
    <3>2. QED
      BY <1>1, <1>2, <3>1, OnlyMore DEF Late
  <2>3. Late(c)' = l2
    BY DEF Late
  <2>4. Brings(session, l, session) /\ (Informed(c) => Brings(heard[c], Stream(c), session))
    BY DEF SessionInv, Synced
  <2>5. Informed(c)' <=> Informed(c)
    BY DEF Informed, clientVars, historyVars
  <2>6. CASE Contains(registry, c)
    <3>1. Once(o, m)
      BY <1>2, <2>6
    <3> HIDE DEF l, o, l2
    <3>2. Brings(session, l2, session')
      BY <1>1, <1>3, <2>1, <2>2, <2>4, <3>1, BringsMore
    <3>3. Brings(session', l2, session')
      BY <1>1, <2>1, <3>2, BringsAgain
    <3>4. Informed(c) => Brings(heard[c], Stream(c)', session')
      <4>1. SUFFICES ASSUME Informed(c) PROVE Brings(heard[c], Stream(c)', session')
        OBVIOUS
      <4> DEFINE q == Stream(c)
      <4>2. q = toClient[c] \o l
        BY DEF Stream, l
      <4>3. Stream(c)' = toClient[c] \o l2
        BY <2>3 DEF Stream
      <4>4. toClient[c] \o l2 = (toClient[c] \o l) \o o
        <5>1. toClient[c] \in Seq(Received) /\ l \in Seq(Received) /\ o \in Seq(Received)
          BY <1>1, <2>1
        <5>2. (toClient[c] \o l) \o o = toClient[c] \o (l \o o)
          <6>1. \A x, y, z \in Seq(Received) : (x \o y) \o z = x \o (y \o z)
            BY ConcatAssociative
          <6>2. QED
            BY <5>1, <6>1, Zenon
        <5>3. QED
          BY <2>2, <5>2
      <4>5. q \in Seq(Received)
        BY <1>1, <2>1, <4>2, ConcatProperties
      <4> HIDE DEF q
      <4>6. Brings(heard[c], q, session)
        BY <2>4, <4>1 DEF q
      <4>7. Brings(heard[c], q \o o, session')
        BY <1>1, <1>3, <2>1, <3>1, <4>5, <4>6, BringsMore
      <4>8. QED
        BY <4>2, <4>3, <4>4, <4>7
    <3>5. QED
      BY <2>3, <2>5, <2>6, <3>3, <3>4 DEF Synced, clientVars, historyVars
  <2>7. CASE ~Contains(registry, c)
    <3>1. Silent(l2)
      <4>1. \A i \in DOMAIN outbox' : outbox'[i].to # c
        BY <1>6, <2>7
      <4>2. QED
        BY <4>1 DEF Silent, Only
    <3>2. Brings(session', l2, session')
      BY <2>1, <3>1, SilentBringsNothing
    <3>3. ~Informed(c)
      BY <2>7 DEF SessionInv, Synced
    <3>4. QED
      BY <2>3, <2>5, <3>2, <3>3 DEF Synced
  <2>8. QED
    BY <2>6, <2>7
<1>8. QED
  BY <1>5, <1>6, <1>7 DEF Tasks

LEMMA ReadyKeeps ==
    ASSUME SessionInv, MarkReady, NEW c \in Clients
    PROVE  Synced(c)'
<1> DEFINE s2 == [session EXCEPT !.state = "READY"]
           l == Late(c)
           q == Stream(c)
<1>1. session \in Views /\ heard[c] \in Views /\ outbox \in Seq(Tasks) /\ toClient[c] \in Seq(Received)
  <2>1. toClient[c] \in Seq(Messages)
    BY DEF SessionInv, TypeOK
  <2>2. QED
    BY <2>1, SeqMonotonic DEF SessionInv, TypeOK, Tasks, Received
<1>2. s2 \in Views
  BY <1>1 DEF Views, SessionStates
<1>3. l \in Seq(Received)
  BY <1>1, OnlyFacts DEF Late
<1>4. q \in Seq(Received)
  BY <1>1, <1>3, ConcatProperties DEF Stream
<1>5. Brings(session, l, session) /\ (Informed(c) => Contains(registry, c) /\ Brings(heard[c], q, session))
  BY DEF SessionInv, Synced
<1>6. /\ session' = s2 /\ Late(c)' = l /\ Stream(c)' = q /\ (Informed(c)' <=> Informed(c))
      /\ heard' = heard /\ registry' = registry
  BY DEF MarkReady, Late, Stream, Informed, clientVars, historyVars
<1> HIDE DEF l, q, s2
<1>7. Brings(session, l, s2) /\ (Informed(c) => Brings(heard[c], q, s2))
  BY <1>1, <1>3, <1>4, <1>5, BringsReady DEF s2
<1>8. Brings(s2, l, s2)
  BY <1>1, <1>2, <1>3, <1>7, BringsAgain
<1>9. QED
  BY <1>5, <1>6, <1>7, <1>8 DEF Synced

(* A sending task puts its command where a client receives it after all that *)
(* it was sent before.                                                      *)
LEMMA SendKeeps ==
    ASSUME SessionInv, RunSend, NEW c \in Clients
    PROVE  Synced(c)'
<1> DEFINE a == toClient[c]
           l == Late(c)
           m == Head(outbox).msg
<1>1. /\ session \in Views /\ heard[c] \in Views /\ outbox \in Seq(Tasks) /\ outbox # <<>>
      /\ a \in Seq(Messages) /\ toClient \in [Clients -> Seq(Messages)]
  BY DEF SessionInv, TypeOK, Tasks, RunSend
<1>2. a \in Seq(Received)
  BY <1>1, SeqMonotonic DEF Received
<1>3. /\ l \in Seq(Received) /\ l # <<>> /\ Head(outbox) \in Tasks
      /\ Only(c, Tail(outbox)) = Tail(l)
      /\ Head(l) = IF Head(outbox).to = c THEN m ELSE Noise
  BY <1>1, OnlyFacts, OnlyTail DEF Late
<1>4. m \in Received /\ m \in Messages /\ Head(outbox).to \in Clients
  BY <1>3 DEF Received, Tasks
<1>5. /\ Late(c)' = Tail(l) /\ session' = session /\ heard' = heard /\ registry' = registry /\ link' = link
      /\ toClient'[c] = IF Head(outbox).to = c THEN Append(a, m) ELSE a
  BY <1>1, <1>3, <1>4 DEF RunSend, Late, clientVars, historyVars
<1>6. /\ Brings(session, l, session)
      /\ Informed(c) => Contains(registry, c) /\ Brings(heard[c], a \o l, session)
  BY DEF SessionInv, Synced, Stream
<1>7. m.kind # "REGISTER_OK"
  <2>1. 1 \in DOMAIN outbox /\ Head(outbox) = outbox[1]
    BY <1>1, LenProperties, EmptySeq
  <2>2. QED
    BY <2>1 DEF SessionInv
<1> HIDE DEF a, l, m
<1>8. Tail(l) \in Seq(Received) /\ Head(l) \in Received
  BY <1>3, HeadTailProperties
<1>9. Brings(session, Tail(l), session)
  <2>1. Brings(Updated(session, Head(l)), Tail(l), session)
    BY <1>1, <1>3, <1>6, BringsTail
  <2>2. Updated(session, Head(l)) \in Views
    BY <1>1, <1>8, UpdatedFacts
  <2>3. QED
    BY <1>1, <1>8, <2>1, <2>2, BringsAgain
<1>10. CASE Head(outbox).to = c
  <2>1. Informed(c)' => Informed(c)
    <3>1. ASSUME NEW i \in DOMAIN Append(a, m), Append(a, m)[i].kind = "REGISTER_OK"
          PROVE  i \in DOMAIN a /\ a[i].kind = "REGISTER_OK"
      <4>1. /\ DOMAIN Append(a, m) = 1..(Len(a) + 1) /\ DOMAIN a = 1..Len(a) /\ Len(a) \in Nat
            /\ \A j \in 1..Len(a) : Append(a, m)[j] = a[j]
            /\ Append(a, m)[Len(a) + 1] = m
        BY <1>2, <1>4, AppendProperties, LenProperties
      <4>2. QED
        BY <1>7, <3>1, <4>1
    <3>2. toClient'[c] = Append(a, m) /\ toClient[c] = a
      BY <1>5, <1>10 DEF a
    <3>3. QED
      BY <1>5, <3>1, <3>2 DEF Informed
  <2>2. Stream(c)' = Append(a, m) \o Tail(l)
    BY <1>5, <1>10 DEF Stream
  <2>3. Append(a, m) \o Tail(l) = a \o l
    <3>1. Append(a, m) = a \o <<m>> /\ <<m>> \in Seq(Received)
      BY <1>2, <1>4, AppendIsConcat
    <3>2. (a \o <<m>>) \o Tail(l) = a \o (<<m>> \o Tail(l))
      BY <1>2, <1>8, <3>1, ConcatAssociative
    <3>3. <<m>> \o Tail(l) = l
      BY <1>3, <1>4, <1>8, <1>10, HeadTail
    <3>4. QED
      BY <3>1, <3>2, <3>3
  <2>4. QED
    BY <1>5, <1>6, <1>9, <2>1, <2>2, <2>3 DEF Synced
<1>11. CASE Head(outbox).to # c
  <2>1. Informed(c)' <=> Informed(c)
    BY <1>5, <1>11 DEF Informed, a
  <2>2. Stream(c)' = a \o Tail(l)
    BY <1>5, <1>11 DEF Stream
  <2>3. Informed(c) => Brings(heard[c], a \o Tail(l), session)
    <3>1. Head(l) = Noise
      BY <1>3, <1>11
    <3>2. QED
      BY <1>1, <1>2, <1>3, <1>6, <3>1, NoiseLeftOut
  <2>4. QED
    BY <1>5, <1>6, <1>9, <2>1, <2>2, <2>3 DEF Synced
<1>12. QED
  BY <1>10, <1>11

(* A registration: the snapshot has all that was changed, and the commands  *)
(* still to be sent come after it.                                          *)
LEMMA RegisterKeeps ==
    ASSUME SessionInv, NEW d \in Clients, HandleRegister(d), NEW c \in Clients
    PROVE  Synced(c)'
<1>1. /\ session \in Views /\ heard[c] \in Views /\ outbox \in Seq(Tasks)
      /\ toClient[c] \in Seq(Messages) /\ toClient \in [Clients -> Seq(Messages)]
      /\ registry \in Seq(Clients)
  BY DEF SessionInv, TypeOK, Tasks
<1>2. toClient[c] \in Seq(Received)
  BY <1>1, SeqMonotonic DEF Received
<1>3. /\ session' = session /\ outbox' = outbox /\ heard' = heard /\ link' = link
      /\ Late(c)' = Late(c) /\ Late(c) \in Seq(Received)
  BY <1>1, OnlyFacts DEF HandleRegister, historyVars, Late
<1>4. /\ Brings(session, Late(c), session)
      /\ Informed(c) => Contains(registry, c) /\ Brings(heard[c], Stream(c), session)
  BY DEF SessionInv, Synced
<1>5. \A e : Contains(registry, e) => Contains(registry', e)
  <2>1. CASE registry' = registry
    BY <2>1
  <2>2. CASE registry' = Append(registry, d)
    BY <1>1, <2>2, AppendProperties, LenProperties DEF Contains
  <2>3. QED
    BY <2>1, <2>2 DEF HandleRegister
<1>6. CASE c = d
  <2>1. toClient'[c] = Append(toClient[c], Snapshot(session))
    BY <1>1, <1>6 DEF HandleRegister
  <2>2. Contains(registry', c)
    <3>1. CASE Contains(registry, c)
      BY <1>5, <3>1
    <3>2. CASE ~Contains(registry, c)
      <4>1. registry' = Append(registry, c)
        BY <1>6, <3>2 DEF HandleRegister
      <4>2. /\ Len(registry) \in Nat /\ Len(registry') = Len(registry) + 1
            /\ registry'[Len(registry) + 1] = c
        BY <1>1, <4>1, AppendProperties, LenProperties
      <4>3. QED
        BY <4>2 DEF Contains
    <3>3. QED
      BY <3>1, <3>2
  <2>3. Brings(heard[c], Append(toClient[c], Snapshot(session)) \o Late(c), session)
    BY <1>1, <1>2, <1>3, <1>4, SnapshotBrings
  <2>4. Brings(heard'[c], Stream(c)', session')
    BY <1>3, <2>1, <2>3 DEF Stream
  <2>5. QED
    BY <1>3, <1>4, <2>2, <2>4 DEF Synced
<1>7. CASE c # d
  <2>1. toClient'[c] = toClient[c]
    BY <1>1, <1>7 DEF HandleRegister
  <2>2. Stream(c)' = Stream(c) /\ (Informed(c)' <=> Informed(c))
    BY <1>3, <2>1 DEF Stream, Informed
  <2>3. QED
    BY <1>3, <1>4, <1>5, <2>2 DEF Synced
<1>8. QED
  BY <1>6, <1>7

LEMMA ReceiveKeeps ==
    ASSUME SessionInv, NEW d \in Clients, Receive(d), NEW c \in Clients
    PROVE  Synced(c)' /\ heard'[c] \in Views
<1>1. /\ session \in Views /\ heard[c] \in Views /\ outbox \in Seq(Tasks)
      /\ toClient[c] \in Seq(Messages) /\ toClient \in [Clients -> Seq(Messages)]
      /\ heard \in [Clients -> Views] /\ link \in [Clients -> Links]
  BY DEF SessionInv, TypeOK, Tasks
<1>2. toClient[c] \in Seq(Received)
  BY <1>1, SeqMonotonic DEF Received
<1>3. /\ session' = session /\ outbox' = outbox /\ registry' = registry
      /\ Late(c)' = Late(c) /\ Late(c) \in Seq(Received)
  BY <1>1, OnlyFacts DEF Receive, serverVars, Late
<1>4. /\ Brings(session, Late(c), session)
      /\ Informed(c) => Contains(registry, c) /\ Brings(heard[c], Stream(c), session)
  BY DEF SessionInv, Synced
<1>5. CASE c = d
  <2> DEFINE a == toClient[c]
             m == Head(a)
             l == Late(c)
  <2>1. /\ a # <<>> /\ toClient'[c] = Tail(a)
        /\ m.kind = "REGISTER_OK" => heard'[c] = m.view /\ link'[c] = "answered"
        /\ m.kind # "REGISTER_OK" => heard'[c] = After(heard[c], m.kind, m.trial) /\ link' = link
    BY <1>1, <1>5 DEF Receive
  <2>2. /\ m \in Messages /\ m \in Received /\ m = a[1] /\ Tail(a) \in Seq(Received)
        /\ Len(a) \in Nat \ {0} /\ DOMAIN a = 1..Len(a) /\ DOMAIN Tail(a) = 1..(Len(a) - 1)
        /\ \A i \in DOMAIN Tail(a) : Tail(a)[i] = a[i + 1]
    <3>1. /\ m \in Messages /\ m = a[1] /\ Len(Tail(a)) = Len(a) - 1
          /\ \A i \in 1..Len(Tail(a)) : Tail(a)[i] = a[i + 1]
      BY <1>1, <2>1, HeadTailProperties
    <3>2. Tail(a) \in Seq(Received)
      BY <1>2, <2>1, HeadTailProperties
    <3>3. DOMAIN Tail(a) = 1..Len(Tail(a)) /\ DOMAIN a = 1..Len(a) /\ Len(a) \in Nat \ {0}
      BY <1>2, <2>1, <3>2, LenProperties, EmptySeq
    <3>4. QED
      BY <3>1, <3>2, <3>3 DEF Received
  <2>3. m # Noise
    BY <2>2 DEF Messages, Noise, Command, Snapshot, TrialKinds
  <2>4. heard'[c] = Updated(heard[c], m)
    BY <2>1, <2>3 DEF Updated
  <2>5. heard'[c] \in Views
    BY <1>1, <2>2, <2>4, UpdatedFacts
  <2> HIDE DEF a, m, l
  <2>6. Informed(c)' => Informed(c)
    <3>1. CASE m.kind = "REGISTER_OK"
      <4>1. 1 \in DOMAIN a /\ a[1].kind = "REGISTER_OK"
        BY <2>2, <3>1
      <4>2. QED
        BY <4>1 DEF Informed, a
    <3>2. CASE m.kind # "REGISTER_OK"
      <4>1. \A i \in DOMAIN Tail(a) : i + 1 \in DOMAIN a /\ Tail(a)[i] = a[i + 1]
        BY <2>2
      <4>2. link'[c] = link[c] /\ toClient'[c] = Tail(a) /\ toClient[c] = a
        BY <2>1, <3>2 DEF a
      <4>3. QED
        BY <4>1, <4>2 DEF Informed
    <3>3. QED
      BY <3>1, <3>2
  <2>7. Brings(heard[c], a \o l, session) => Brings(heard'[c], Tail(a) \o l, session)
    <3> DEFINE q == a \o l
    <3>1. q \in Seq(Received) /\ q # <<>>
      BY <1>2, <1>3, <2>1, ConcatProperties, ConcatEqualIffEmpty DEF a, l
    <3>2. Head(q) = m /\ Tail(q) = Tail(a) \o l
      <4>1. q = <<m>> \o (Tail(a) \o l)
        <5>1. <<m>> \o Tail(a) = a
          BY <1>2, <2>1, HeadTail DEF a, m
        <5>2. <<m>> \in Seq(Received)
          BY <2>2
        <5>3. (<<m>> \o Tail(a)) \o l = <<m>> \o (Tail(a) \o l)
          BY <1>3, <2>2, <5>2, ConcatAssociative DEF l
        <5>4. QED
          BY <5>1, <5>3
      <4>2. Tail(a) \o l \in Seq(Received)
        BY <1>3, <2>2, ConcatProperties DEF l
      <4>3. QED
        BY <2>2, <4>1, <4>2, HeadOfPair
    <3> HIDE DEF q
    <3>3. Brings(heard[c], q, session) => Brings(Updated(heard[c], Head(q)), Tail(q), session)
      BY <1>1, <3>1, BringsTail
    <3>4. QED
      BY <2>4, <3>2, <3>3 DEF q
  <2>8. Stream(c) = a \o l /\ Stream(c)' = Tail(a) \o l
    BY <1>3, <2>1 DEF Stream, a, l
  <2>9. QED
    BY <1>3, <1>4, <2>5, <2>6, <2>7, <2>8 DEF Synced
<1>6. CASE c # d
  <2>1. toClient'[c] = toClient[c] /\ heard'[c] = heard[c] /\ link'[c] = link[c]
    BY <1>1, <1>6 DEF Receive
  <2>2. Stream(c)' = Stream(c) /\ (Informed(c)' <=> Informed(c))
    BY <1>3, <2>1 DEF Stream, Informed
  <2>3. QED
    BY <1>1, <1>3, <1>4, <2>1, <2>2 DEF Synced
<1>7. QED
  BY <1>5, <1>6

LEMMA ConnectKeeps ==
    ASSUME SessionInv, NEW d \in Clients, Join(d) \/ Reconnect(d), NEW c \in Clients
    PROVE  Synced(c)'
<1>1. /\ toClient \in [Clients -> Seq(Messages)] /\ link \in [Clients -> Links]
  BY DEF SessionInv, TypeOK
<1>2. session' = session /\ outbox' = outbox /\ registry' = registry /\ heard' = heard
      /\ Late(c)' = Late(c)
  BY DEF Join, Reconnect, serverVars, historyVars, Late
<1>3. Informed(c)' => Informed(c) /\ toClient'[c] = toClient[c]
  BY <1>1 DEF Join, Reconnect, Informed
<1>4. QED
  BY <1>2, <1>3 DEF SessionInv, Synced, Stream

-----------------------------------------------------------------------------
LEMMA ApplyKeeps ==
    ASSUME SessionInv, NEW d \in Clients, ApplySnapshot(d), NEW c \in Clients
    PROVE  Synced(c)'
<1>1. link \in [Clients -> Links] /\ link[d] = "answered"
  BY DEF SessionInv, TypeOK, ApplySnapshot
<1>2. /\ session' = session /\ outbox' = outbox /\ registry' = registry /\ heard' = heard
      /\ toClient' = toClient /\ Late(c)' = Late(c)
  BY DEF ApplySnapshot, serverVars, historyVars, Late
<1>3. Informed(c)' <=> Informed(c)
  BY <1>1, <1>2 DEF ApplySnapshot, Informed, Links
<1>4. QED
  BY <1>2, <1>3 DEF SessionInv, Synced, Stream

(* The copy of a client. *)
LEMMA CopiedStep ==
    ASSUME TypeOK, Copied, [Next]_vars
    PROVE  Copied'
<1> USE DEF Copied, TypeOK, Links
<1>1. CASE ChangeSession \/ ChangeTrial \/ MarkReady \/ RunSend
  BY <1>1 DEF ChangeSession, ChangeTrial, Change, MarkReady, RunSend, clientVars, historyVars
<1>2. ASSUME NEW d \in Clients, HandleRegister(d) PROVE Copied'
  BY <1>2 DEF HandleRegister, historyVars
<1>3. ASSUME NEW d \in Clients, Join(d) \/ Reconnect(d) PROVE Copied'
  BY <1>3 DEF Join, Reconnect, historyVars
<1>4. ASSUME NEW d \in Clients, Receive(d) PROVE Copied'
  BY <1>4 DEF Receive
<1>5. ASSUME NEW d \in Clients, ApplySnapshot(d) PROVE Copied'
  BY <1>5 DEF ApplySnapshot, historyVars
<1>6. CASE UNCHANGED vars
  BY <1>6 DEF vars, clientVars, historyVars
<1>7. QED
  BY <1>1, <1>2, <1>3, <1>4, <1>5, <1>6 DEF Next, ClientStep

-----------------------------------------------------------------------------
(* The types. *)
LEMMA InitTypes == Init => TypeOK
<1> SUFFICES ASSUME Init PROVE TypeOK
  OBVIOUS
<1>1. registry \in Seq(Clients) /\ IsInjective(registry)
  BY DEF Init, IsInjective
<1>2. NoSession \in Views
  BY DEF NoSession, Views, SessionStates, Phases
<1>3. QED
  BY <1>1, <1>2, SessionAssumption DEF Init, TypeOK, Links

LEMMA RegistryGrows ==
    ASSUME TypeOK, NEW d \in Clients, HandleRegister(d)
    PROVE  registry' \in Seq(Clients) /\ IsInjective(registry')
<1>1. registry \in Seq(Clients) /\ IsInjective(registry)
  BY DEF TypeOK
<1>2. CASE Contains(registry, d)
  BY <1>1, <1>2 DEF HandleRegister
<1>3. CASE ~Contains(registry, d)
  <2>1. registry' = Append(registry, d)
    BY <1>3 DEF HandleRegister
  <2>2. /\ registry' \in Seq(Clients) /\ DOMAIN registry' = 1..(Len(registry) + 1)
        /\ Len(registry) \in Nat
        /\ \A i \in 1..Len(registry) : registry'[i] = registry[i] /\ registry[i] # d
        /\ registry'[Len(registry) + 1] = d /\ DOMAIN registry = 1..Len(registry)
    BY <1>1, <1>3, <2>1, AppendProperties, LenProperties DEF Contains
  <2>3. IsInjective(registry')
    BY <1>1, <2>2 DEF IsInjective
  <2>4. QED
    BY <2>2, <2>3
<1>4. QED
  BY <1>2, <1>3

LEMMA SessionStep ==
    ASSUME SessionInv, [Next]_vars
    PROVE  SessionInv'
<1> DEFINE Owed == \A i \in DOMAIN outbox :
                       Contains(registry, outbox[i].to) /\ outbox[i].msg.kind # "REGISTER_OK"
<1>1. TypeOK /\ Owed /\ \A c \in Clients : Synced(c)
  BY DEF SessionInv
<1>2. ASSUME NEW kind, NEW t, Command(kind, t) \in Messages,
             kind \notin {"REGISTER_OK", "none"}, Change(kind, t)
      PROVE  SessionInv'
  <2>1. Command(kind, t).kind # "REGISTER_OK"
    BY <1>2 DEF Command
  <2>2. /\ session' = Updated(session, Command(kind, t)) /\ session' \in Views
        /\ outbox' = outbox \o Fanned(Command(kind, t))
        /\ UNCHANGED <<registry, clientVars, toClient>> /\ changes' \in 0..MaxChanges
    BY <1>1, <1>2, ChangeUpdates
  <2>3. /\ Owed' /\ outbox' \in Seq([to : Clients, msg : Messages])
        /\ \A c \in Clients : Synced(c)'
    BY <1>2, <2>1, <2>2, ChangeKeeps
  <2>4. TypeOK'
    BY <1>1, <2>2, <2>3 DEF TypeOK, clientVars, historyVars
  <2>5. QED
    BY <2>3, <2>4 DEF SessionInv
<1>3. CASE ChangeSession
  <2>1. PICK k \in {"SESSION_START", "SESSION_STOP"} : Change(k, NoTrial)
    BY <1>3 DEF ChangeSession
  <2>2. Command(k, NoTrial) \in Messages /\ k \notin {"REGISTER_OK", "none"}
    BY DEF Messages
  <2>3. QED
    BY <1>2, <2>1, <2>2
<1>4. CASE ChangeTrial
  <2>1. PICK k \in TrialKinds, t \in Trials : Change(k, t)
    BY <1>4 DEF ChangeTrial
  <2>2. Command(k, t) \in Messages /\ k \notin {"REGISTER_OK", "none"}
    BY DEF Messages, TrialKinds
  <2>3. QED
    BY <1>2, <2>1, <2>2
<1>5. CASE MarkReady
  <2>1. \A c \in Clients : Synced(c)'
    BY <1>5, ReadyKeeps
  <2>2. session' \in Views /\ changes' \in 0..MaxChanges
    <3>1. session \in Views /\ changes \in 0..MaxChanges
      BY <1>1 DEF TypeOK
    <3>2. [session EXCEPT !.state = "READY"] \in Views
      BY <3>1 DEF Views, SessionStates
    <3>3. QED
      BY <1>5, <3>1, <3>2, SessionAssumption DEF MarkReady
  <2>3. TypeOK' /\ Owed'
    BY <1>1, <1>5, <2>2 DEF MarkReady, TypeOK, clientVars, historyVars
  <2>4. QED
    BY <2>1, <2>3 DEF SessionInv
<1>6. CASE RunSend
  <2>1. \A c \in Clients : Synced(c)'
    BY <1>6, SendKeeps
  <2>2. /\ outbox \in Seq(Tasks) /\ outbox # <<>> /\ Tail(outbox) \in Seq(Tasks)
        /\ Head(outbox) \in Tasks /\ Len(Tail(outbox)) = Len(outbox) - 1
        /\ \A i \in 1..Len(Tail(outbox)) : Tail(outbox)[i] = outbox[i + 1]
    BY <1>1, <1>6, HeadTailProperties DEF TypeOK, RunSend, Tasks
  <2>3. Owed'
    <3>1. /\ DOMAIN outbox' = 1..(Len(outbox) - 1) /\ DOMAIN outbox = 1..Len(outbox)
          /\ Len(outbox) \in Nat /\ \A i \in DOMAIN outbox' : outbox'[i] = outbox[i + 1]
          /\ registry' = registry
      BY <1>6, <2>2, LenProperties DEF RunSend
    <3>2. \A i \in DOMAIN outbox' : i + 1 \in DOMAIN outbox
      BY <3>1
    <3>3. QED
      BY <1>1, <3>1, <3>2
  <2>4. toClient' \in [Clients -> Seq(Messages)]
    <3>1. /\ Head(outbox).to \in Clients /\ Head(outbox).msg \in Messages
          /\ toClient \in [Clients -> Seq(Messages)]
      BY <1>1, <2>2 DEF Tasks, TypeOK
    <3>2. Append(toClient[Head(outbox).to], Head(outbox).msg) \in Seq(Messages)
      BY <3>1, AppendProperties
    <3>3. QED
      BY <1>6, <3>1, <3>2 DEF RunSend
  <2>5. TypeOK'
    BY <1>1, <1>6, <2>2, <2>4 DEF RunSend, TypeOK, Tasks, clientVars, historyVars
  <2>6. QED
    BY <2>1, <2>3, <2>5 DEF SessionInv
<1>7. ASSUME NEW d \in Clients, HandleRegister(d) PROVE SessionInv'
  <2>1. \A c \in Clients : Synced(c)'
    BY <1>7, RegisterKeeps
  <2>2. registry' \in Seq(Clients) /\ IsInjective(registry')
    BY <1>1, <1>7, RegistryGrows
  <2>3. \A e : Contains(registry, e) => Contains(registry', e)
    <3>1. CASE registry' = registry
      BY <3>1
    <3>2. CASE registry' = Append(registry, d)
      BY <1>1, <3>2, AppendProperties, LenProperties DEF Contains, TypeOK
    <3>3. QED
      BY <1>7, <3>1, <3>2 DEF HandleRegister
  <2>4. Owed'
    BY <1>1, <1>7, <2>3 DEF HandleRegister
  <2>5. toClient' \in [Clients -> Seq(Messages)]
    <3>1. Snapshot(session) \in Messages /\ toClient \in [Clients -> Seq(Messages)]
      <4>1. session \in Views /\ toClient \in [Clients -> Seq(Messages)]
        BY <1>1 DEF TypeOK
      <4>2. QED
        BY <4>1 DEF Messages
    <3>2. Append(toClient[d], Snapshot(session)) \in Seq(Messages)
      BY <3>1, AppendProperties
    <3>3. QED
      BY <1>7, <3>1, <3>2 DEF HandleRegister
  <2>6. TypeOK'
    BY <1>1, <1>7, <2>2, <2>5 DEF HandleRegister, historyVars, TypeOK
  <2>7. QED
    BY <2>1, <2>4, <2>6 DEF SessionInv
<1>8. ASSUME NEW d \in Clients, Join(d) \/ Reconnect(d) PROVE SessionInv'
  <2>1. \A c \in Clients : Synced(c)'
    BY <1>8, ConnectKeeps
  <2>2. Owed'
    BY <1>1, <1>8 DEF Join, Reconnect, serverVars
  <2>3. /\ registering' \subseteq Clients /\ link' \in [Clients -> Links]
        /\ reconnects' \in 0..MaxReconnects
    <3>1. /\ registering \subseteq Clients /\ link \in [Clients -> Links]
          /\ reconnects \in 0..MaxReconnects /\ "registering" \in Links
      BY <1>1 DEF TypeOK, Links
    <3>2. registering' \subseteq Clients /\ link' \in [Clients -> Links]
      BY <1>8, <3>1 DEF Join, Reconnect
    <3>3. reconnects' \in 0..MaxReconnects
      BY <1>8, <3>1, SessionAssumption DEF Join, Reconnect
    <3>4. QED
      BY <3>2, <3>3
  <2>4. TypeOK'
    <3>1. toClient \in [Clients -> Seq(Messages)] /\ <<>> \in Seq(Messages)
      BY <1>1 DEF TypeOK
    <3>2. toClient' \in [Clients -> Seq(Messages)]
      BY <1>8, <3>1 DEF Join, Reconnect
    <3>3. QED
      BY <1>1, <1>8, <2>3, <3>2 DEF Join, Reconnect, TypeOK, serverVars, historyVars
  <2>5. QED
    BY <2>1, <2>2, <2>4 DEF SessionInv
<1>9. ASSUME NEW d \in Clients, Receive(d) PROVE SessionInv'
  <2>1. \A c \in Clients : Synced(c)' /\ heard'[c] \in Views
    BY <1>9, ReceiveKeeps
  <2>2. Owed'
    BY <1>1, <1>9 DEF Receive, serverVars
  <2>3. toClient' \in [Clients -> Seq(Messages)]
    <3>1. toClient \in [Clients -> Seq(Messages)] /\ toClient[d] # <<>>
      BY <1>1, <1>9 DEF TypeOK, Receive
    <3>2. Tail(toClient[d]) \in Seq(Messages)
      BY <3>1, HeadTailProperties
    <3>3. QED
      BY <1>9, <3>1, <3>2 DEF Receive
  <2>4. /\ heard' \in [Clients -> Views] /\ link' \in [Clients -> Links]
        /\ commanded' \subseteq Clients
    BY <1>1, <1>9, <2>1 DEF Receive, TypeOK, Links
  <2>5. answer' \in [Clients -> Views]
    <3>1. toClient[d] \in Seq(Messages) /\ toClient[d] # <<>> /\ answer \in [Clients -> Views]
      BY <1>1, <1>9 DEF TypeOK, Receive
    <3>2. Head(toClient[d]) \in Messages
      BY <3>1, HeadTailProperties
    <3>3. Head(toClient[d]).kind = "REGISTER_OK" => Head(toClient[d]).view \in Views
      BY <3>2 DEF Messages, Snapshot, Command, TrialKinds
    <3>4. QED
      BY <1>9, <3>1, <3>3 DEF Receive
  <2>6. TypeOK'
    BY <1>1, <1>9, <2>3, <2>4, <2>5 DEF Receive, TypeOK, serverVars
  <2>7. QED
    BY <2>1, <2>2, <2>6 DEF SessionInv
<1>10. ASSUME NEW d \in Clients, ApplySnapshot(d) PROVE SessionInv'
  <2>1. \A c \in Clients : Synced(c)'
    BY <1>10, ApplyKeeps
  <2>2. Owed'
    BY <1>1, <1>10 DEF ApplySnapshot, serverVars
  <2>3. NoSession \in Views
    BY DEF NoSession, Views, SessionStates, Phases
  <2>4. TypeOK'
    BY <1>1, <1>10, <2>3 DEF ApplySnapshot, TypeOK, Links, serverVars, historyVars
  <2>5. QED
    BY <2>1, <2>2, <2>4 DEF SessionInv
<1>11. CASE UNCHANGED vars
  <2>1. \A c \in Clients : Synced(c)'
    BY <1>1, <1>11 DEF vars, serverVars, clientVars, historyVars, Synced, Informed, Stream, Late, Only
  <2>2. TypeOK' /\ Owed'
    BY <1>1, <1>11 DEF vars, serverVars, clientVars, historyVars, TypeOK
  <2>3. QED
    BY <2>1, <2>2 DEF SessionInv
<1>12. QED
  BY <1>3, <1>4, <1>5, <1>6, <1>7, <1>8, <1>9, <1>10, <1>11 DEF Next, ClientStep

LEMMA SpecSessionInv == Spec => []SessionInv
<1>1. Init => SessionInv
  BY InitSession, InitTypes DEF SessionInv
<1>2. SessionInv /\ [Next]_vars => SessionInv'
  BY SessionStep
<1>3. QED
  BY <1>1, <1>2, PTL DEF Spec

LEMMA SpecCopied == Spec => []Copied
<1>1. Init => Copied
  BY DEF Init, Copied
<1>2. SessionInv /\ Copied /\ [Next]_vars => Copied'
  BY CopiedStep DEF SessionInv
<1>3. QED
  BY <1>1, <1>2, SpecSessionInv, PTL DEF Spec

(* The types of what the server holds, what is on its way and what the      *)
(* clients have; in particular no client is entered in the registry twice,  *)
(* however often it registers.                                              *)
THEOREM SessionTypesCorrect == Spec => []TypeOK
<1>1. SessionInv => TypeOK
  BY DEF SessionInv
<1>2. QED
  BY <1>1, SpecSessionInv, PTL

(* Wherever a registration falls between the changes of a session and their *)
(* commands, and whatever a reconnect drops, a client misses nothing: once  *)
(* all is delivered, its last snapshot and the commands its handlers were   *)
(* given after it say the trial, the phase and the state the server is in;  *)
(* and so does its own copy if they were given none: for any clients,       *)
(* trials, changes and reconnects.                                          *)
THEOREM ClientsCatchUp == Spec => []CaughtUp
<1>1. ASSUME SessionInv, NEW c \in Clients, Quiet(c)
      PROVE  Agree(heard[c], session)
  <2>1. /\ session \in Views /\ heard[c] \in Views /\ outbox \in Seq(Tasks) /\ toClient[c] = <<>>
        /\ \A i \in DOMAIN outbox : outbox[i].to # c
    BY <1>1 DEF SessionInv, TypeOK, Quiet, Tasks
  <2>2. Late(c) \in Seq(Received) /\ Silent(Late(c))
    <3>1. /\ Late(c) \in Seq(Received) /\ DOMAIN Late(c) = DOMAIN outbox
          /\ \A i \in DOMAIN outbox :
                Late(c)[i] = IF outbox[i].to = c THEN outbox[i].msg ELSE Noise
      BY <2>1, OnlyFacts DEF Late
    <3>2. QED
      BY <2>1, <3>1 DEF Silent
  <2>3. Stream(c) = Late(c)
    BY <2>1, <2>2, ConcatEmptySeq DEF Stream
  <2>4. Brings(heard[c], Late(c), session)
    BY <1>1, <2>3 DEF SessionInv, Synced, Informed, Quiet
  <2>5. QED
    BY <2>1, <2>2, <2>4, SilentBrought DEF Agree
<1>2. ASSUME SessionInv, Copied, NEW c \in Clients, Quiet(c), c \notin commanded
      PROVE  Agree(copy[c], session)
  BY <1>1, <1>2 DEF Copied, Quiet
<1>3. SessionInv /\ Copied => CaughtUp
  BY <1>1, <1>2 DEF CaughtUp
<1>4. QED
  BY <1>3, SpecSessionInv, SpecCopied, PTL
=============================================================================
