----------------------- MODULE ServerLifecycleProofs -----------------------
(***************************************************************************)
(* What the server command leaves behind, proved for any set of clients,   *)
(* any number of messages and whatever fails.                              *)
(***************************************************************************)
EXTENDS ServerLifecycle, FiniteSetTheorems, TLAPS

Settled == \A p \in Peers : calls[p] = "none" \/ Answered(p)

(* The types the argument needs. *)
Types ==
    /\ failed \in BOOLEAN
    /\ calls \in [Peers -> CallStates]
    /\ session \in {None, Trial}
    /\ count \in Nat /\ trials \subseteq {Trial}

(* As long as nothing failed, tasks are at work only while the command that  *)
(* made them is gathering them.                                              *)
Gathered == failed \/ (program \in Commands /\ program = command) \/ Settled

(* What the finally block has done by the time it is where it is. *)
Cleaned ==
    /\ program \in {"shutdown", "closing", "returned", "raised"} =>
          discovery \in {"unused", "closed"}
    /\ program \in {"closing", "returned", "raised"} => serveTask = "cancelled"
    /\ program \in {"returned", "raised"} =>
          transport = "down" /\ handle = "closed" /\ summary # NoSummary
    /\ program = "returned" => ~failed

IInv == Types /\ Gathered /\ Cleaned

-----------------------------------------------------------------------------
(* A session's steps lead to each other and, in the end, to its sleep. *)
LEMMA StepsStay ==
    ASSUME NEW s \in Commands \union {"STATE_UPDATE", "collect"}
    PROVE  NextStep[s] \in Commands \union {"STATE_UPDATE", "collect", "sleep"}
<1>1. s \in {"SESSION_START", "TRIAL_ARM", "STATE_UPDATE", "TRIAL_START_AT", "collect",
             "TRIAL_END", "SESSION_STOP"}
    BY DEF Commands, Acknowledged
<1>. QED
    BY <1>1 DEF NextStep, Commands, Acknowledged

(* An event adds no trial to the recorder's but the session's. *)
LEMMA RecordKeeps ==
    ASSUME Types, NEW e, Record(e), TrialsIn(e) \subseteq {Trial}
    PROVE  count' \in Nat /\ trials' \subseteq {Trial} /\ summary' = summary
BY DEF Types, Record

LEMMA InitIInv == Init => IInv
<1> SUFFICES ASSUME Init PROVE IInv
    OBVIOUS
<1>1. Types
    BY DEF Init, Types, CallStates
<1>2. Settled
    BY DEF Init, Settled
<1>3. Cleaned
    BY DEF Init, Cleaned
<1>. QED
    BY <1>1, <1>2, <1>3 DEF IInv, Gathered

LEMMA TypesStep == Types /\ [Next]_vars => Types'
<1> SUFFICES ASSUME Types, [Next]_vars PROVE Types'
    OBVIOUS
<1> USE DEF Types
<1>1. ASSUME Driver PROVE Types'
  <2>1. ASSUME BroadcastState PROVE Types'
    <3>1. TrialsIn(Broadcast) \subseteq {Trial}
        BY DEF Broadcast, Event, TrialsIn
    <3>. QED
        BY <2>1, <3>1, RecordKeeps
        DEF BroadcastState, Proceed, Raise, recorderVars, callVars
  <2>2. ASSUME StartServer \/ Publish \/ Wait \/ Collect \/ Sleep PROVE Types'
    BY <2>2 DEF StartServer, Publish, Wait, Collect, Sleep, Proceed, Raise, recorderVars, callVars
  <2>3. ASSUME Issue PROVE Types'
    BY <2>3 DEF Issue, driverVars, recorderVars, CallStates
  <2>4. ASSUME Gather PROVE Types'
    BY <2>4 DEF Gather, Proceed, Raise, recorderVars
  <2>5. ASSUME Withdraw \/ Shutdown \/ CloseRecorder PROVE Types'
    BY <2>5 DEF Withdraw, Shutdown, CloseRecorder, recorderVars, callVars
  <2>. QED
    BY <1>1, <2>1, <2>2, <2>3, <2>4, <2>5 DEF Driver
<1>2. ASSUME NEW p \in Peers, Task(p) PROVE Types'
  <2>1. ASSUME RecordSend(p) PROVE Types'
    <3>1. TrialsIn(Sent(command, p)) \subseteq {Trial}
        BY DEF Sent, Event, TrialsIn, HeaderTrial
    <3>. QED
        BY <2>1, <3>1, RecordKeeps DEF RecordSend, driverVars, recorderVars, CallStates
  <2>2. ASSUME Transmit(p) \/ CallTimesOut(p) PROVE Types'
    BY <2>2 DEF Transmit, CallTimesOut, driverVars, recorderVars, CallStates
  <2>. QED
    BY <1>2, <2>1, <2>2 DEF Task
<1>3. ASSUME NEW p \in Peers, Answer(p) PROVE Types'
    BY <1>3 DEF Answer, driverVars, recorderVars, callVars
<1>4. ASSUME NEW p \in Peers, ServeTurn(p) PROVE Types'
  <2>1. TrialsIn(Received(Head(inbox[p]), p)) \subseteq {Trial}
    BY DEF Received, Event, TrialsIn
  <2>. QED
    BY <1>4, <2>1, RecordKeeps DEF ServeTurn, driverVars
<1>5. ASSUME NEW p \in Peers, Expire(p) PROVE Types'
  <2>1. TrialsIn(AckTimeout(p)) \subseteq {Trial}
    BY DEF AckTimeout, Event, TrialsIn
  <2>. QED
    BY <1>5, <2>1, RecordKeeps DEF Expire, driverVars
<1>6. ASSUME ServeOther \/ ServeRaises PROVE Types'
  <2>1. TrialsIn(Event("receive", "peer", "PING", <<"PING">>, None, None, session))
          \subseteq {Trial}
    BY DEF Event, TrialsIn
  <2>. QED
    BY <1>6, <2>1, RecordKeeps
    DEF ServeOther, ServeRaises, RecordPing, driverVars, recorderVars, callVars
<1>7. CASE UNCHANGED vars
    BY <1>7 DEF vars, driverVars, callVars, recorderVars
<1>. QED
    BY <1>1, <1>2, <1>3, <1>4, <1>5, <1>6, <1>7 DEF Next, ServeLoop

(* A task at work is not settled, and no ACK unsettles one. *)
LEMMA GatheredStep == IInv /\ [Next]_vars => Gathered'
<1> SUFFICES ASSUME IInv, [Next]_vars PROVE Gathered'
    OBVIOUS
<1> USE DEF IInv, Types, Gathered, Settled, Answered
<1>1. ASSUME Driver PROVE Gathered'
  <2>1. ASSUME StartServer \/ Publish \/ Wait \/ BroadcastState \/ Collect \/ Sleep
               \/ Withdraw \/ Shutdown \/ CloseRecorder
        PROVE  Gathered'
    BY <2>1 DEF StartServer, Publish, Wait, BroadcastState, Collect, Sleep, Withdraw,
       Shutdown, CloseRecorder, Proceed, Raise, callVars, Commands, Acknowledged
  <2>2. ASSUME Issue PROVE Gathered'
    BY <2>2 DEF Issue, driverVars
  <2>3. ASSUME Gather PROVE Gathered'
    BY <2>3 DEF Gather, Proceed, Raise
  <2>. QED
    BY <1>1, <2>1, <2>2, <2>3 DEF Driver
<1>2. ASSUME NEW p \in Peers, Task(p) PROVE Gathered'
    BY <1>2 DEF Task, Transmit, RecordSend, CallTimesOut, driverVars
<1>3. ASSUME NEW p \in Peers, Answer(p) \/ ServeTurn(p) \/ Expire(p) PROVE Gathered'
    BY <1>3 DEF Answer, ServeTurn, Expire, driverVars, callVars
<1>4. ASSUME ServeOther \/ ServeRaises PROVE Gathered'
    BY <1>4 DEF ServeOther, ServeRaises, driverVars, callVars
<1>5. CASE UNCHANGED vars
    BY <1>5 DEF vars, driverVars, callVars
<1>. QED
    BY <1>1, <1>2, <1>3, <1>4, <1>5 DEF Next, ServeLoop

LEMMA CleanedStep == IInv /\ [Next]_vars => Cleaned'
<1> SUFFICES ASSUME IInv, [Next]_vars PROVE Cleaned'
    OBVIOUS
<1> USE DEF IInv, Types, Cleaned
<1>1. ASSUME Driver PROVE Cleaned'
  <2>1. ASSUME StartServer \/ Publish \/ Wait \/ Sleep \/ Withdraw \/ Shutdown
        PROVE  Cleaned'
    BY <2>1 DEF StartServer, Publish, Wait, Sleep, Withdraw, Shutdown, Raise, recorderVars
  <2>2. ASSUME Issue PROVE Cleaned'
    BY <2>2 DEF Issue, driverVars, recorderVars, Commands, Acknowledged
  <2>3. ASSUME Gather \/ BroadcastState \/ Collect PROVE Cleaned'
    <3>1. \/ program' = "withdraw"
          \/ program' \in Commands \union {"STATE_UPDATE", "collect", "sleep"}
        BY <2>3, StepsStay DEF Gather, BroadcastState, Collect, Proceed, Raise
    <3>. QED
        BY <3>1 DEF Commands, Acknowledged
  <2>4. ASSUME CloseRecorder PROVE Cleaned'
    <3>1. summary' \in [event_count : Nat, trial_ids : SUBSET {Trial}]
        BY <2>4 DEF CloseRecorder
    <3>. QED
        BY <2>4, <3>1, LifecycleAssumption DEF CloseRecorder
  <2>. QED
    BY <1>1, <2>1, <2>2, <2>3, <2>4 DEF Driver
<1>2. ASSUME NEW p \in Peers, Task(p) \/ Answer(p) \/ ServeTurn(p) \/ Expire(p) PROVE Cleaned'
    BY <1>2 DEF Task, Transmit, RecordSend, CallTimesOut, Answer, ServeTurn, Expire,
       Record, driverVars, recorderVars
<1>3. ASSUME ServeOther \/ ServeRaises PROVE Cleaned'
    BY <1>3 DEF ServeOther, ServeRaises, RecordPing, Record, driverVars, recorderVars
<1>4. CASE UNCHANGED vars
    BY <1>4 DEF vars, driverVars, recorderVars
<1>. QED
    BY <1>1, <1>2, <1>3, <1>4 DEF Next, ServeLoop

LEMMA SpecIInv == Spec => []IInv
<1>1. IInv /\ [Next]_vars => IInv'
    BY TypesStep, GatheredStep, CleanedStep DEF IInv
<1>. QED
    BY <1>1, InitIInv, PTL DEF Spec

(* However the server command came to its end after the session's try block, *)
(* unless cleaning up raised itself, nothing is left published or listening,  *)
(* the log is closed and its summary was written; and no task is at work if   *)
(* it returned: for any clients and any messages.                            *)
THEOREM EndsAreClean == Spec => []EndsClean
<1>1. IInv => EndsClean
    BY DEF IInv, Gathered, Cleaned, Settled, EndsClean, Commands, Acknowledged
<1>. QED
    BY <1>1, SpecIInv, PTL

-----------------------------------------------------------------------------
(* The log.  The commands of a session are issued in one order, and each of *)
(* the events that are recorded is a new one: the message is not on its way *)
(* any more, or the task was not there yet.                                 *)
Order == [SESSION_START |-> 1, TRIAL_ARM |-> 2, TRIAL_START_AT |-> 3, TRIAL_END |-> 4,
          SESSION_STOP |-> 5]
Rank(c) == IF c \in Commands THEN Order[c] ELSE 0

Early == {"start", "publish", "wait"}
BeforeState == Early \union {"SESSION_START", "TRIAL_ARM", "STATE_UPDATE"}

Shape ==
    /\ program \in Steps \union Ends \union Early \union {"sleep", "withdraw", "shutdown", "closing"}
    /\ discovery \in {"unused", "open", "published", "closed"}
    /\ transport \in {"down", "up"}
    /\ serveTask \in {"none", "running", "dead", "cancelled"}
    /\ command \in Commands \union {None}
    /\ pending \subseteq Peers /\ acked \subseteq Peers /\ reached \subseteq Peers
    /\ completed \subseteq Commands
    /\ DOMAIN inbox = Peers
    /\ results \in Nat
    /\ handle \in {"open", "closed"}

(* Where the program is with its commands. *)
Course ==
    /\ program \in Early => command = None
    /\ program \in Commands => program = command \/ Rank(command) = Rank(program) - 1
    /\ program = "STATE_UPDATE" => command = "TRIAL_ARM"
    /\ program = "collect" => command = "TRIAL_START_AT"
    /\ program \in Early \union Steps => ~failed
    /\ Rank(command) > 1 => session = Trial

SendLogged(p) == \E e \in log : e.kind = "send" /\ e.msg = <<command, p>>
AckLogged(p) == \E e \in log : e.type = "ACK" /\ e.replyTo = <<command, p>>
Expired(p) == \E e \in log : e.kind = "ack_timeout" /\ e.peer = p
Reported(p) == \E e \in log : e.type = "RESULT_REPORT" /\ e.peer = p

Underway(p) == p \in reached \/ inbox[p] # <<>>

(* The command is on its way to a client, or its ACK is on its way back, or *)
(* was recorded; a client whose entry expired does not acknowledge any more, *)
(* so that no other command is issued.                                      *)
Exchange(p) ==
    /\ inbox[p] \in {<<>>, <<Ack(p)>>, <<Report(p), Ack(p)>>}
    /\ p \in reached => inbox[p] = <<>>
    /\ Underway(p) => command \in Acknowledged /\ calls[p] \notin {"none", "sending"}
    /\ Underway(p) \/ calls[p] = "sending" => p \notin acked /\ ~AckLogged(p)
    /\ p \in acked => AckLogged(p)
    /\ calls[p] \in {"sending", "sent"} => ~SendLogged(p)
    /\ calls[p] \in {"waiting", "done"} => SendLogged(p)
    /\ calls[p] # "none" => command # None
    /\ calls[p] = "waiting" => command \in Acknowledged
    /\ calls[p] \in {"none", "done"} => command \notin Acknowledged
    /\ p \in pending => p \notin acked /\ command \in Acknowledged
    /\ Expired(p) => p \notin pending \union acked /\ command \in Acknowledged
    /\ inbox[p] = <<Report(p), Ack(p)>> => command = "TRIAL_START_AT"
    /\ Reported(p) => /\ Rank(command) > 2
                      /\ inbox[p] # <<Report(p), Ack(p)>>
                      /\ command = "TRIAL_START_AT" => p \notin reached /\ calls[p] # "sending"

(* What the fields of an event say of the session. *)
Sound(e) ==
    /\ e.kind = "send" =>
          \E c \in Commands, p \in Peers :
              e.msg = <<c, p>> /\ Rank(c) <= Rank(command) /\ e.trial = HeaderTrial(c)
    /\ e.type = "ACK" =>
          /\ e.kind = "receive"
          /\ \E c \in Commands, p \in Peers :
                /\ e.replyTo = <<c, p>> /\ e.msg = <<"ACK", c, p>>
                /\ Rank(c) <= Rank(command)
                /\ e.trial = None
                /\ Rank(c) > 1 => e.session = Trial
    /\ e.kind = "broadcast_state" => program \notin BeforeState

Done(c, p) ==
    /\ \E e \in log : e.kind = "send" /\ e.msg = <<c, p>>
    /\ c \in Acknowledged => \E a \in log : a.type = "ACK" /\ a.replyTo = <<c, p>>

(* What the recorder keeps is what a replay of the log makes of it. *)
Summed ==
    /\ IsFiniteSet(log)
    /\ count = Cardinality(log) /\ trials = ReplayedTrials(log)
    /\ summary # NoSummary =>
          /\ handle = "closed"
          /\ summary = [event_count |-> count, trial_ids |-> trials]

Reporters == {p \in Peers : Reported(p)}

LogInv ==
    /\ Shape /\ Course /\ Summed
    /\ \A p \in Peers : Exchange(p)
    /\ \A e \in log : Sound(e)
    /\ \A c \in completed, p \in Peers : Done(c, p)
    /\ results <= Cardinality(Reporters)

-----------------------------------------------------------------------------
LEMMA Ranks ==
    /\ Rank(None) = 0 /\ None \notin Commands
    /\ Rank("SESSION_START") = 1 /\ Rank("TRIAL_ARM") = 2 /\ Rank("TRIAL_START_AT") = 3
    /\ Rank("TRIAL_END") = 4 /\ Rank("SESSION_STOP") = 5
    /\ Commands = {"SESSION_START", "TRIAL_ARM", "TRIAL_START_AT", "TRIAL_END", "SESSION_STOP"}
    /\ \A c \in Commands : Rank(c) \in 1..5
BY NoneAssumption DEF Rank, Order, Commands, Acknowledged

LEMMA NextSteps ==
    /\ NextStep["SESSION_START"] = "TRIAL_ARM" /\ NextStep["TRIAL_ARM"] = "STATE_UPDATE"
    /\ NextStep["STATE_UPDATE"] = "TRIAL_START_AT" /\ NextStep["TRIAL_START_AT"] = "collect"
    /\ NextStep["collect"] = "TRIAL_END" /\ NextStep["TRIAL_END"] = "SESSION_STOP"
    /\ NextStep["SESSION_STOP"] = "sleep"
    /\ Steps = {"SESSION_START", "TRIAL_ARM", "STATE_UPDATE", "TRIAL_START_AT", "collect",
                "TRIAL_END", "SESSION_STOP"}
BY DEF NextStep, Steps

(* A new event counts as one. *)
LEMMA RecordSums ==
    ASSUME Summed, NEW e, Record(e), e \notin log,
           e.trial \in {None, Trial}, e.session \in {None, Trial}
    PROVE  Summed' /\ log' = log \union {e}
<1>1. log' = log \union {e} /\ summary' = summary /\ handle' = handle /\ handle = "open"
  BY DEF Record
<1>2. IsFiniteSet(log') /\ Cardinality(log') = Cardinality(log) + 1
  BY <1>1, FS_AddElement DEF Summed
<1>3. ReplayedTrials(log') = ReplayedTrials(log) \union ({TrialOf(e)} \ {None})
  BY <1>1 DEF ReplayedTrials
<1>4. TrialsIn(e) = {TrialOf(e)} \ {None}
  BY DEF TrialsIn, TrialOf
<1>5. QED
  BY <1>1, <1>2, <1>3, <1>4 DEF Summed, Record

LEMMA LogGrows ==
    ASSUME NEW e, log' = log \union {e}, command' = command, NEW p
    PROVE  /\ SendLogged(p)' <=> SendLogged(p) \/ (e.kind = "send" /\ e.msg = <<command, p>>)
           /\ AckLogged(p)' <=> AckLogged(p) \/ (e.type = "ACK" /\ e.replyTo = <<command, p>>)
           /\ Expired(p)' <=> Expired(p) \/ (e.kind = "ack_timeout" /\ e.peer = p)
           /\ Reported(p)' <=> Reported(p) \/ (e.type = "RESULT_REPORT" /\ e.peer = p)
BY DEF SendLogged, AckLogged, Expired, Reported

LEMMA LogStays ==
    ASSUME log' = log, command' = command, NEW p
    PROVE  /\ SendLogged(p)' <=> SendLogged(p)
           /\ AckLogged(p)' <=> AckLogged(p)
           /\ Expired(p)' <=> Expired(p)
           /\ Reported(p)' <=> Reported(p)
BY DEF SendLogged, AckLogged, Expired, Reported

(* What concerns a client is untouched. *)
LEMMA ExchangeKept ==
    ASSUME NEW p \in Peers, Exchange(p), command' = command,
           calls'[p] = calls[p], inbox'[p] = inbox[p],
           p \in reached' <=> p \in reached,
           p \in pending' <=> p \in pending,
           p \in acked' <=> p \in acked,
           SendLogged(p)' <=> SendLogged(p), AckLogged(p)' <=> AckLogged(p),
           Expired(p)' <=> Expired(p), Reported(p)' <=> Reported(p)
    PROVE  Exchange(p)'
<1>1. Ack(p)' = Ack(p) /\ Report(p)' = Report(p)
  BY DEF Ack, Report
<1>2. QED
  BY <1>1 DEF Exchange, Underway

LEMMA SoundKept ==
    ASSUME NEW e, Sound(e), command' = command,
           program' \in BeforeState => program \in BeforeState
    PROVE  Sound(e)'
BY DEF Sound, BeforeState, Early

LEMMA DoneKept ==
    ASSUME NEW c, NEW p, Done(c, p), log \subseteq log'
    PROVE  Done(c, p)'
BY DEF Done

-----------------------------------------------------------------------------
(* The steps of the driver.  Most of them touch no call and no line of the   *)
(* log.                                                                     *)
Tables == <<log, command, calls, pending, acked, reached, inbox>>

LEMMA TablesKept ==
    ASSUME LogInv, UNCHANGED Tables, program' \in BeforeState => program \in BeforeState
    PROVE  /\ \A p \in Peers : Exchange(p)' /\ (Reported(p)' <=> Reported(p))
           /\ \A e \in log' : Sound(e)'
           /\ \A c \in completed, p \in Peers : Done(c, p)'
           /\ Reporters' = Reporters
<1> USE DEF Tables
<1>1. \A p \in Peers : /\ (SendLogged(p)' <=> SendLogged(p))
                       /\ (AckLogged(p)' <=> AckLogged(p))
                       /\ (Expired(p)' <=> Expired(p))
                       /\ (Reported(p)' <=> Reported(p))
  BY LogStays
<1>2. \A p \in Peers : Exchange(p)'
  BY <1>1, ExchangeKept DEF LogInv
<1>3. \A e \in log' : Sound(e)'
  BY SoundKept DEF LogInv
<1>4. \A c \in completed, p \in Peers : Done(c, p)'
  BY DoneKept DEF LogInv
<1>5. QED
  BY <1>1, <1>2, <1>3, <1>4 DEF Reporters

LEMMA QuietDriverStep ==
    ASSUME LogInv, IInv, StartServer \/ Publish \/ Wait \/ Collect \/ Sleep \/ Withdraw \/ Shutdown
                         \/ CloseRecorder
    PROVE  LogInv'
<1> USE DEF LogInv
<1>1. UNCHANGED Tables /\ UNCHANGED <<session, completed, count, trials>>
  BY DEF StartServer, Publish, Wait, Collect, Sleep, Withdraw, Shutdown, CloseRecorder,
     Tables, callVars, netVars, recorderVars
<1>2. program' \in BeforeState => program \in BeforeState
  BY NextSteps DEF StartServer, Publish, Wait, Collect, Sleep, Withdraw, Shutdown,
     CloseRecorder, Proceed, Raise, BeforeState, Early
<1>3. /\ \A p \in Peers : Exchange(p)' /\ (Reported(p)' <=> Reported(p))
      /\ \A e \in log' : Sound(e)'
      /\ \A c \in completed, p \in Peers : Done(c, p)'
      /\ Reporters' = Reporters
  BY <1>1, <1>2, TablesKept
<1>4. Shape'
  BY <1>1, NextSteps DEF StartServer, Publish, Wait, Collect, Sleep, Withdraw, Shutdown,
     CloseRecorder, Proceed, Raise, Shape, Early, Ends, Tables, recorderVars
<1>5. Course'
  BY <1>1, Ranks, NextSteps DEF StartServer, Publish, Wait, Collect, Sleep, Withdraw, Shutdown,
     CloseRecorder, Proceed, Raise, Course, Shape, Early, Ends, Tables
<1>6. Summed'
  BY <1>1 DEF StartServer, Publish, Wait, Collect, Sleep, Withdraw, Shutdown,
     CloseRecorder, Summed, Tables, recorderVars
<1>7. results' \in {results, results - 1}
  BY DEF StartServer, Publish, Wait, Collect, Sleep, Withdraw, Shutdown, CloseRecorder
<1>8. results' <= Cardinality(Reporters')
  <2>1. Reporters \subseteq Peers
    BY DEF Reporters
  <2>2. Cardinality(Reporters) \in Nat
    BY <2>1, FS_Subset, FS_CardinalityType, LifecycleAssumption
  <2>3. QED
    BY <1>3, <1>7, <2>2 DEF Shape
<1>9. QED
  BY <1>1, <1>3, <1>4, <1>5, <1>6, <1>8

(* When a command is issued, the one before it is over for every client. *)
LEMMA IssueIsFresh ==
    ASSUME LogInv, IInv, program \in Commands \ {command}, NEW p \in Peers
    PROVE  /\ inbox[p] = <<>> /\ p \notin reached /\ ~Expired(p)
           /\ Rank(program) = Rank(command) + 1
           /\ ~\E e \in log : e.kind = "send" /\ e.msg = <<program, p>>
           /\ ~\E e \in log : e.type = "ACK" /\ e.replyTo = <<program, p>>
           /\ Reported(p) => program \in {"TRIAL_END", "SESSION_STOP"}
<1>1. Exchange(p) /\ Course /\ Shape
  BY DEF LogInv
<1>2. ~failed
  BY <1>1, NextSteps, Ranks DEF Course
<1>3. Settled
  BY <1>2 DEF IInv, Gathered
<1>4. calls[p] = "none" \/ calls[p] = "done" \/ p \in acked
  BY <1>3 DEF Settled, Answered
<1>5. ~Underway(p)
  BY <1>1, <1>4 DEF Exchange
<1>6. ~Expired(p)
  BY <1>1, <1>4 DEF Exchange
<1>7. Rank(program) = Rank(command) + 1
  BY <1>1, Ranks DEF Course, Shape
<1>8. ~\E e \in log : e.kind = "send" /\ e.msg = <<program, p>>
  <2>1. SUFFICES ASSUME NEW e \in log, e.kind = "send", e.msg = <<program, p>> PROVE FALSE
    OBVIOUS
  <2>2. PICK c \in Commands, q \in Peers : e.msg = <<c, q>> /\ Rank(c) <= Rank(command)
    BY <2>1 DEF LogInv, Sound
  <2>3. c = program
    BY <2>1, <2>2
  <2>4. QED
    BY <1>1, <1>7, <2>2, <2>3, Ranks DEF Shape
<1>9. ~\E e \in log : e.type = "ACK" /\ e.replyTo = <<program, p>>
  <2>1. SUFFICES ASSUME NEW e \in log, e.type = "ACK", e.replyTo = <<program, p>> PROVE FALSE
    OBVIOUS
  <2>2. PICK c \in Commands, q \in Peers : e.replyTo = <<c, q>> /\ Rank(c) <= Rank(command)
    BY <2>1 DEF LogInv, Sound
  <2>3. c = program
    BY <2>1, <2>2
  <2>4. QED
    BY <1>1, <1>7, <2>2, <2>3, Ranks DEF Shape
<1>10. Reported(p) => program \in {"TRIAL_END", "SESSION_STOP"}
  BY <1>1, <1>7, Ranks DEF Exchange, Shape
<1>11. QED
  BY <1>5, <1>6, <1>7, <1>8, <1>9, <1>10 DEF Underway

LEMMA IssueStep ==
    ASSUME LogInv, IInv, Issue
    PROVE  LogInv'
<1> USE DEF Issue, driverVars, netVars, recorderVars
<1>1. \A p \in Peers :
          /\ inbox[p] = <<>> /\ p \notin reached /\ ~Expired(p)
          /\ Rank(program) = Rank(command) + 1
          /\ ~\E e \in log : e.kind = "send" /\ e.msg = <<program, p>>
          /\ ~\E e \in log : e.type = "ACK" /\ e.replyTo = <<program, p>>
          /\ Reported(p) => program \in {"TRIAL_END", "SESSION_STOP"}
  BY IssueIsFresh
<1>2. Shape /\ Course /\ Summed
  BY DEF LogInv
<1>3. Shape'
  BY <1>2 DEF Shape
<1>4. Course'
  BY <1>2, NextSteps, Ranks DEF Course, Shape, Early
<1>5. Summed'
  BY <1>2 DEF Summed
<1>6. \A p \in Peers : Reported(p)' <=> Reported(p)
  BY DEF Reported
<1>7. \A p \in Peers : Exchange(p)'
  <2>1. SUFFICES ASSUME NEW p \in Peers PROVE Exchange(p)'
    OBVIOUS
  <2>2. ~SendLogged(p)' /\ ~AckLogged(p)' /\ ~Expired(p)'
    BY <1>1, <2>1 DEF SendLogged, AckLogged, Expired
  <2>3. Reported(p)' => program \in {"TRIAL_END", "SESSION_STOP"}
    BY <1>1, <1>6, <2>1
  <2>4. /\ inbox'[p] = <<>> /\ p \notin reached' /\ p \notin acked'
        /\ calls'[p] = "sending" /\ command' = program /\ program \in Commands
        /\ p \in pending' => program \in Acknowledged
    BY <1>1, <2>1
  <2>5. \A x, y : <<x, y>> # <<>>
    OBVIOUS
  <2> HIDE DEF Issue
  <2>6. QED
    BY <2>2, <2>3, <2>4, <2>5, Ranks DEF Exchange, Underway
<1>8. \A e \in log' : Sound(e)'
  <2>1. SUFFICES ASSUME NEW e \in log PROVE Sound(e)'
    OBVIOUS
  <2>2. Sound(e) /\ command' = program /\ program' = program
    BY DEF LogInv
  <2>3. Rank(command) <= Rank(program)
    BY <1>2, Ranks DEF Course, Shape
  <2>4. \A c \in Commands : Rank(c) <= Rank(command) => Rank(c) <= Rank(program)
    BY <1>2, <2>3, Ranks DEF Shape
  <2> HIDE DEF Issue
  <2>5. QED
    BY <2>2, <2>4 DEF Sound
<1>9. \A c \in completed, p \in Peers : Done(c, p)'
  BY DoneKept DEF LogInv
<1>10. results' <= Cardinality(Reporters')
  BY <1>6 DEF LogInv, Reporters
<1>11. QED
  BY <1>3, <1>4, <1>5, <1>7, <1>8, <1>9, <1>10 DEF LogInv

LEMMA GatherStep ==
    ASSUME LogInv, IInv, Gather
    PROVE  LogInv'
<1> USE DEF Gather, netVars, recorderVars, Tables
<1>1. UNCHANGED Tables
  OBVIOUS
<1>2. Shape /\ Course /\ Summed /\ program = command /\ program \in Commands
  BY DEF LogInv
<1>3. program' \in BeforeState => program \in BeforeState
  BY <1>2, NextSteps, Ranks DEF Proceed, Raise, BeforeState, Early
<1>4. /\ \A p \in Peers : Exchange(p)'
      /\ \A e \in log' : Sound(e)'
      /\ \A c \in completed, p \in Peers : Done(c, p)'
      /\ Reporters' = Reporters
  BY <1>1, <1>3, TablesKept
<1>5. Shape'
  BY <1>2, NextSteps, Ranks DEF Shape, Proceed, Raise
<1>6. Course'
  <2>1. program' \in {"TRIAL_ARM", "STATE_UPDATE", "collect", "TRIAL_END", "SESSION_STOP",
                      "sleep", "withdraw"}
    BY <1>2, NextSteps, Ranks DEF Proceed, Raise
  <2>2. CASE program' = "withdraw"
    BY <1>2, <2>2, NextSteps, Ranks DEF Course, Early
  <2>3. CASE Proceed
    BY <1>2, <2>3, NextSteps, Ranks DEF Course, Early, Proceed
  <2>4. QED
    BY <2>2, <2>3 DEF Raise
<1>7. Summed'
  BY <1>2 DEF Summed
<1>8. \A c \in completed', p \in Peers : Done(c, p)'
  <2>1. CASE completed' = completed
    BY <1>4, <2>1
  <2>2. CASE completed' = completed \union {command} /\ \A p \in Peers : Answered(p)
    <3>1. SUFFICES ASSUME NEW p \in Peers PROVE Done(command, p)'
      BY <1>4, <2>2
    <3>2. Answered(p) /\ Exchange(p)
      BY <2>2 DEF LogInv
    <3>3. SendLogged(p) /\ (command \in Acknowledged => AckLogged(p))
      BY <3>2 DEF Answered, Exchange
    <3>4. log' = log
      OBVIOUS
    <3>5. Done(command, p)
      BY <3>3 DEF Done, SendLogged, AckLogged
    <3>6. QED
      BY <3>4, <3>5 DEF Done
  <2>3. QED
    BY <2>1, <2>2
<1>9. results' <= Cardinality(Reporters')
  BY <1>4 DEF LogInv
<1>10. QED
  BY <1>4, <1>5, <1>6, <1>7, <1>8, <1>9 DEF LogInv

LEMMA BroadcastStep ==
    ASSUME LogInv, IInv, BroadcastState
    PROVE  LogInv'
<1> USE DEF BroadcastState, netVars, callVars
<1>1. Shape /\ Course /\ Summed /\ program = "STATE_UPDATE" /\ session \in {None, Trial}
  BY DEF LogInv, IInv, Types
<1>2. UNCHANGED <<command, calls, pending, acked, completed, reached, inbox, results,
                  session, discovery, transport, serveTask>>
  OBVIOUS
<1>3. program' \in {"TRIAL_START_AT", "withdraw"}
  BY NextSteps DEF Proceed, Raise
<1>4. Course'
  BY <1>1, <1>2, NextSteps, Ranks DEF Course, Early, Proceed, Raise
<1>5. CASE Raise /\ UNCHANGED recorderVars
  <2>1. UNCHANGED Tables /\ UNCHANGED <<count, trials, handle, summary>>
    BY <1>5 DEF Tables, recorderVars
  <2>2. /\ \A p \in Peers : Exchange(p)'
        /\ \A e \in log' : Sound(e)'
        /\ \A c \in completed, p \in Peers : Done(c, p)'
        /\ Reporters' = Reporters
    BY <1>1, <2>1, TablesKept DEF BeforeState
  <2>3. Shape' /\ Summed'
    BY <1>1, <1>2, <1>3, <2>1, NextSteps DEF Shape, Summed, Tables
  <2>4. QED
    BY <1>2, <1>4, <2>2, <2>3 DEF LogInv
<1>6. CASE Record(Broadcast)
  <2> PICK e : e = Broadcast
    OBVIOUS
  <2>1. e.kind = "broadcast_state" /\ e.type = "STATE_UPDATE" /\ e.trial = None
        /\ e.session = session
    BY DEF Broadcast, Event
  <2>2. e \notin log
    BY <1>1, <2>1 DEF LogInv, Sound, BeforeState
  <2>3. Summed' /\ log' = log \union {e}
    BY <1>1, <1>6, <2>1, <2>2, RecordSums
  <2> HIDE DEF BroadcastState
  <2>4. \A p \in Peers : /\ (SendLogged(p)' <=> SendLogged(p))
                         /\ (AckLogged(p)' <=> AckLogged(p))
                         /\ (Expired(p)' <=> Expired(p))
                         /\ (Reported(p)' <=> Reported(p))
    BY <1>2, <2>1, <2>3, LogGrows
  <2>5. \A p \in Peers : Exchange(p)'
    BY <1>2, <2>4, ExchangeKept DEF LogInv
  <2>6. \A f \in log : Sound(f)'
    BY <1>1, <1>2, SoundKept DEF LogInv, BeforeState
  <2>7. Sound(e)'
    BY <1>3, <2>1 DEF Sound, BeforeState, Early
  <2>8. \A c \in completed', p \in Peers : Done(c, p)'
    BY <1>2, <2>3, DoneKept DEF LogInv
  <2>9. Shape'
    BY <1>1, <1>2, <1>3, <1>6, NextSteps DEF Shape, Record
  <2>10. results' <= Cardinality(Reporters')
    BY <1>2, <2>4 DEF LogInv, Reporters
  <2>11. QED
    BY <1>4, <2>3, <2>5, <2>6, <2>7, <2>8, <2>9, <2>10 DEF LogInv
<1>7. QED
  BY <1>5, <1>6

-----------------------------------------------------------------------------
(* The steps of the others: what is recorded says nothing of another client. *)
Elsewhere(p) ==
    /\ UNCHANGED <<program, failed, command, completed, session>>
    /\ \A q \in Peers \ {p} : /\ calls'[q] = calls[q] /\ inbox'[q] = inbox[q]
                              /\ (q \in reached' <=> q \in reached)
                              /\ (q \in pending' <=> q \in pending)
                              /\ (q \in acked' <=> q \in acked)

About(e, p) ==
    /\ Sound(e)'
    /\ e.peer = p
    /\ e.kind = "send" => e.msg = <<command, p>>
    /\ e.type = "ACK" => e.replyTo = <<command, p>>

LEMMA OthersKept ==
    ASSUME LogInv, NEW p \in Peers, Shape', Summed', Elsewhere(p),
           log \subseteq log', \A e \in log' \ log : About(e, p),
           Exchange(p)', results' <= Cardinality(Reporters')
    PROVE  LogInv'
<1> USE DEF Elsewhere, About
<1>1. \A q \in Peers \ {p} : /\ (SendLogged(q)' <=> SendLogged(q))
                             /\ (AckLogged(q)' <=> AckLogged(q))
                             /\ (Expired(q)' <=> Expired(q))
                             /\ (Reported(q)' <=> Reported(q))
  BY DEF SendLogged, AckLogged, Expired, Reported
<1>2. \A q \in Peers \ {p} : Exchange(q)'
  BY <1>1, ExchangeKept DEF LogInv
<1>3. \A e \in log' : Sound(e)'
  BY SoundKept DEF LogInv
<1>4. \A c \in completed', q \in Peers : Done(c, q)'
  BY DoneKept DEF LogInv
<1>5. Course'
  BY DEF LogInv, Course
<1>6. QED
  BY <1>2, <1>3, <1>4, <1>5 DEF LogInv

(* The reports that are counted are of clients that reported. *)
LEMMA ReportersStay ==
    ASSUME LogInv, results' = results, log \subseteq log'
    PROVE  results' <= Cardinality(Reporters')
<1>1. Reporters \subseteq Reporters' /\ Reporters' \subseteq Peers
  BY DEF Reporters, Reported
<1>2. IsFiniteSet(Reporters')
  BY <1>1, FS_Subset, LifecycleAssumption
<1>3. IsFiniteSet(Reporters) /\ Cardinality(Reporters) <= Cardinality(Reporters')
  BY <1>1, <1>2, FS_Subset
<1>4. Cardinality(Reporters) \in Nat /\ Cardinality(Reporters') \in Nat
  BY <1>2, <1>3, FS_CardinalityType
<1>5. QED
  BY <1>3, <1>4 DEF LogInv, Shape

LEMMA TransmitStep ==
    ASSUME LogInv, IInv, NEW p \in Peers, Transmit(p) \/ CallTimesOut(p)
    PROVE  LogInv'
<1>1. Exchange(p) /\ Shape /\ Summed /\ calls \in [Peers -> CallStates]
  BY DEF LogInv, IInv, Types
<1>2. /\ UNCHANGED <<program, failed, command, completed, session, inbox, pending, acked,
                     results, discovery, transport, serveTask, log, count, trials, handle,
                     summary>>
  BY DEF Transmit, CallTimesOut, driverVars, netVars, recorderVars
<1>3. reached' \subseteq Peers /\ \A q \in Peers \ {p} : (q \in reached' <=> q \in reached)
  BY <1>1 DEF Transmit, CallTimesOut, netVars, Shape
<1>4. Elsewhere(p)
  <2>1. \A q \in Peers \ {p} : calls'[q] = calls[q]
    BY <1>1 DEF Transmit, CallTimesOut
  <2>2. QED
    BY <1>2, <1>3, <2>1 DEF Elsewhere
<1>5. Shape' /\ Summed'
  BY <1>1, <1>2, <1>3 DEF Shape, Summed
<1>6. /\ (SendLogged(p)' <=> SendLogged(p))
      /\ (AckLogged(p)' <=> AckLogged(p))
      /\ (Expired(p)' <=> Expired(p))
      /\ (Reported(p)' <=> Reported(p))
  BY <1>2, LogStays
<1>7. Ack(p)' = Ack(p) /\ Report(p)' = Report(p)
  BY <1>2 DEF Ack, Report
<1>8. Exchange(p)'
  <2>1. CASE Transmit(p)
    <3>1. /\ calls[p] = "sending" /\ calls'[p] \in {"sent", "failed"}
          /\ p \in reached' /\ p \notin reached => /\ command \in Acknowledged
                                                   /\ calls'[p] = "sent"
      BY <1>1, <2>1 DEF Transmit
    <3>2. ~Underway(p)
      BY <1>1, <3>1 DEF Exchange
    <3>3. QED
      BY <1>1, <1>2, <1>6, <1>7, <3>1, <3>2 DEF Exchange, Underway
  <2>2. CASE CallTimesOut(p)
    <3>1. calls[p] = "waiting" /\ calls'[p] = "failed" /\ reached' = reached
      BY <1>1, <2>2 DEF CallTimesOut, netVars
    <3>2. QED
      BY <1>1, <1>2, <1>6, <1>7, <3>1 DEF Exchange, Underway
  <2>3. QED
    BY <2>1, <2>2
<1>9. log' = log /\ results' <= Cardinality(Reporters')
  BY <1>2, ReportersStay
<1>10. QED
  BY <1>4, <1>5, <1>8, <1>9, OthersKept

LEMMA RecordSendStep ==
    ASSUME LogInv, IInv, NEW p \in Peers, RecordSend(p)
    PROVE  LogInv'
<1> USE DEF RecordSend, driverVars, netVars
<1>1. /\ Exchange(p) /\ Shape /\ Summed /\ calls \in [Peers -> CallStates]
      /\ session \in {None, Trial} /\ calls[p] = "sent"
  BY DEF LogInv, IInv, Types
<1>2. /\ UNCHANGED <<program, failed, command, completed, session, inbox, pending, acked,
                     results, discovery, transport, serveTask, reached>>
      /\ \A q \in Peers \ {p} : calls'[q] = calls[q]
  BY <1>1
<1>3. Ack(p)' = Ack(p) /\ Report(p)' = Report(p) /\ Elsewhere(p)
  BY <1>2 DEF Ack, Report, Elsewhere
<1>4. CASE handle = "open"
  <2> PICK e : e = Sent(command, p)
    OBVIOUS
  <2>1. /\ e.kind = "send" /\ e.peer = p /\ e.type = command /\ e.msg = <<command, p>>
        /\ e.trial = HeaderTrial(command) /\ e.session = session
    BY DEF Sent, Event
  <2>2. e \notin log
    BY <1>1, <2>1 DEF Exchange, SendLogged
  <2>3. Record(e)
    BY <1>4
  <2>4. Summed' /\ log' = log \union {e}
    BY <1>1, <2>1, <2>2, <2>3, RecordSums DEF HeaderTrial
  <2>5. calls'[p] = IF command \in Acknowledged THEN "waiting" ELSE "done"
    BY <1>1, <1>4
  <2> HIDE DEF RecordSend
  <2>6. command \in Commands
    BY <1>1 DEF Shape, Exchange
  <2>7. e.type # "ACK" /\ e.type # "RESULT_REPORT"
    BY <2>1, <2>6, Ranks
  <2>8. About(e, p)
    <3>1. Rank(command) <= Rank(command)
      BY <2>6, Ranks
    <3>2. Sound(e)'
      BY <1>2, <2>1, <2>6, <2>7, <3>1 DEF Sound
    <3>3. QED
      BY <2>1, <2>7, <3>2 DEF About
  <2>9. /\ SendLogged(p)'
        /\ (AckLogged(p)' <=> AckLogged(p))
        /\ (Expired(p)' <=> Expired(p))
        /\ (Reported(p)' <=> Reported(p))
    BY <1>2, <2>1, <2>4, <2>7, LogGrows
  <2>10. Exchange(p)'
    BY <1>1, <1>2, <1>3, <2>5, <2>9 DEF Exchange, Underway
  <2>11. Shape'
    BY <1>1, <1>2, <2>3 DEF Shape, Record
  <2>12. results' <= Cardinality(Reporters')
    BY <1>2, <2>4, ReportersStay
  <2>13. QED
    BY <1>3, <2>4, <2>8, <2>10, <2>11, <2>12, OthersKept
<1>5. CASE handle # "open"
  <2>1. UNCHANGED <<log, count, trials, handle, summary>> /\ calls'[p] = "failed"
    BY <1>1, <1>5 DEF recorderVars
  <2> HIDE DEF RecordSend
  <2>2. Shape' /\ Summed'
    BY <1>1, <1>2, <2>1 DEF Shape, Summed
  <2>3. /\ (SendLogged(p)' <=> SendLogged(p))
        /\ (AckLogged(p)' <=> AckLogged(p))
        /\ (Expired(p)' <=> Expired(p))
        /\ (Reported(p)' <=> Reported(p))
    BY <1>2, <2>1, LogStays
  <2>4. Exchange(p)'
    BY <1>1, <1>2, <1>3, <2>1, <2>3 DEF Exchange, Underway
  <2>5. log' = log /\ results' <= Cardinality(Reporters')
    BY <1>2, <2>1, ReportersStay
  <2>6. QED
    BY <1>3, <2>2, <2>4, <2>5, OthersKept
<1>6. QED
  BY <1>4, <1>5

LEMMA AnswerStep ==
    ASSUME LogInv, IInv, NEW p \in Peers, Answer(p)
    PROVE  LogInv'
<1>1. Exchange(p) /\ Shape /\ Summed /\ p \in reached
  BY DEF LogInv, Answer
<1>2. UNCHANGED <<program, failed, command, completed, session, calls, pending, acked,
                  results, discovery, transport, serveTask, log, count, trials, handle,
                  summary>>
  BY DEF Answer, driverVars, callVars, recorderVars
<1>3. /\ reached' = reached \ {p} /\ DOMAIN inbox' = Peers
      /\ \A q \in Peers \ {p} : inbox'[q] = inbox[q]
  BY <1>1 DEF Answer, Shape
<1>4. \/ inbox'[p] = <<Ack(p)>>
      \/ inbox'[p] = <<Report(p), Ack(p)>> /\ command = "TRIAL_START_AT"
  <2>1. inbox[p] = <<>>
    BY <1>1 DEF Exchange
  <2>2. \A x, y : Append(<<>>, x) = <<x>> /\ <<>> \o <<x, y>> = <<x, y>>
    OBVIOUS
  <2> DEFINE a == Ack(p)
             r == Report(p)
  <2>3. inbox'[p] = Append(<<>>, a) \/ (inbox'[p] = <<>> \o <<r, a>> /\ command = "TRIAL_START_AT")
    BY <1>1, <2>1 DEF Answer, Shape
  <2> HIDE DEF a, r
  <2>4. inbox'[p] = <<a>> \/ (inbox'[p] = <<r, a>> /\ command = "TRIAL_START_AT")
    BY <2>3
  <2>5. QED
    BY <2>4 DEF a, r
<1>5. Elsewhere(p)
  BY <1>2, <1>3 DEF Elsewhere
<1>6. Shape' /\ Summed'
  BY <1>1, <1>2, <1>3 DEF Shape, Summed
<1>7. /\ (SendLogged(p)' <=> SendLogged(p))
      /\ (AckLogged(p)' <=> AckLogged(p))
      /\ (Expired(p)' <=> Expired(p))
      /\ (Reported(p)' <=> Reported(p))
      /\ Ack(p)' = Ack(p) /\ Report(p)' = Report(p)
  BY <1>2, LogStays DEF Ack, Report
<1>8. Exchange(p)'
  <2>1. \A x, y : <<x>> # <<y, x>>
    OBVIOUS
  <2> DEFINE a == Ack(p)
             r == Report(p)
  <2>2. a' = a /\ r' = r
    BY <1>7
  <2> HIDE DEF a, r
  <2>3. <<a>> # <<r, a>>
    BY <2>1
  <2>4. QED
    BY <1>1, <1>2, <1>3, <1>4, <1>7, <2>2, <2>3 DEF Exchange, Underway, a, r
<1>9. log' = log /\ results' <= Cardinality(Reporters')
  BY <1>2, ReportersStay
<1>10. QED
  BY <1>5, <1>6, <1>8, <1>9, OthersKept

(* A turn of the serve loop takes the first message of a client. *)
LEMMA ServeTurnStep ==
    ASSUME LogInv, IInv, NEW p \in Peers, ServeTurn(p)
    PROVE  LogInv'
<1> DEFINE m == Head(inbox[p])
           a == Ack(p)
           r == Report(p)
<1>1. /\ Exchange(p) /\ Shape /\ Summed /\ Course /\ session \in {None, Trial}
      /\ inbox[p] # <<>>
  BY DEF LogInv, IInv, Types, ServeTurn
<1>2. UNCHANGED <<program, failed, command, completed, session, calls, discovery, transport,
                  serveTask, reached>>
  BY DEF ServeTurn, driverVars
<1>3. a' = a /\ r' = r
  BY <1>2 DEF Ack, Report
<1>4. /\ p \notin reached /\ p \notin acked /\ ~AckLogged(p)
      /\ command \in Acknowledged /\ command \in Commands /\ calls[p] \notin {"none", "sending"}
  BY <1>1 DEF Exchange, Underway, Commands
<1>5. inbox' = [inbox EXCEPT ![p] = Tail(inbox[p])] /\ Record(Received(m, p))
  BY DEF ServeTurn
<1>6. DOMAIN inbox' = Peers /\ \A q \in Peers \ {p} : inbox'[q] = inbox[q]
  BY <1>1, <1>5 DEF Shape
<1>7. a.type = "ACK" /\ a.replyTo = <<command, p>> /\ a.msg = <<"ACK", command, p>>
      /\ r.type = "RESULT_REPORT" /\ r.replyTo = None
  BY DEF Ack, Report
<1>8. pending' \subseteq pending /\ acked' \subseteq acked \union {p}
      /\ \A q \in Peers \ {p} : (q \in pending' <=> q \in pending) /\ (q \in acked' <=> q \in acked)
  BY DEF ServeTurn
<1>9. Elsewhere(p)
  BY <1>2, <1>6, <1>8 DEF Elsewhere
<1> HIDE DEF a, r, m
<1> PICK e : e = Received(m, p)
  OBVIOUS
<1>10. /\ e.kind = "receive" /\ e.peer = p /\ e.type = m.type /\ e.msg = m.msg
       /\ e.replyTo = m.replyTo /\ e.trial = None /\ e.session = session
  BY DEF Received, Event
<1>11. CASE inbox[p] = <<a>>
  <2>1. m = a /\ inbox'[p] = <<>>
    BY <1>1, <1>5, <1>11 DEF m, Shape
  <2>2. /\ pending' = pending \ {p} /\ results' = results
        /\ acked' = IF p \in pending THEN acked \union {p} ELSE acked
    BY <1>7, <2>1 DEF ServeTurn, m
  <2>3. e \notin log
    BY <1>4, <1>7, <1>10, <2>1 DEF AckLogged
  <2>4. Summed' /\ log' = log \union {e}
    BY <1>1, <1>5, <1>10, <2>3, RecordSums
  <2>5. About(e, p)
    <3>1. Rank(command) <= Rank(command) /\ (Rank(command) > 1 => session = Trial)
      BY <1>1, <1>4, Ranks DEF Course
    <3>2. Sound(e)'
      BY <1>2, <1>4, <1>7, <1>10, <2>1, <3>1 DEF Sound
    <3>3. QED
      BY <1>7, <1>10, <2>1, <3>2 DEF About
  <2>6. /\ (SendLogged(p)' <=> SendLogged(p))
        /\ AckLogged(p)'
        /\ (Expired(p)' <=> Expired(p))
        /\ (Reported(p)' <=> Reported(p))
    BY <1>2, <1>7, <1>10, <2>1, <2>4, LogGrows
  <2>7. \A x, y : <<>> # <<x, y>>
    OBVIOUS
  <2>8. Exchange(p)'
    BY <1>1, <1>2, <1>3, <1>4, <2>1, <2>2, <2>6, <2>7 DEF Exchange, Underway, a, r
  <2>9. Shape'
    BY <1>1, <1>2, <1>5, <1>6, <1>8, <2>2 DEF Shape, Record
  <2>10. results' <= Cardinality(Reporters')
    BY <2>2, <2>4, ReportersStay
  <2>11. QED
    BY <1>9, <2>4, <2>5, <2>8, <2>9, <2>10, OthersKept
<1>12. CASE inbox[p] = <<r, a>>
  <2>1. m = r /\ inbox'[p] = <<a>>
    BY <1>1, <1>5, <1>12 DEF m, Shape
  <2>2. UNCHANGED <<pending, acked>> /\ results' = results + 1
    BY <1>7, <2>1 DEF ServeTurn, m
  <2>3. command = "TRIAL_START_AT" /\ ~Reported(p)
    BY <1>1, <1>12 DEF Exchange, a, r
  <2>4. e \notin log
    BY <1>7, <1>10, <2>1, <2>3 DEF Reported
  <2>5. Summed' /\ log' = log \union {e}
    BY <1>1, <1>5, <1>10, <2>4, RecordSums
  <2>6. About(e, p)
    <3>1. Sound(e)'
      BY <1>7, <1>10, <2>1 DEF Sound
    <3>2. QED
      BY <1>7, <1>10, <2>1, <3>1 DEF About
  <2>7. /\ (SendLogged(p)' <=> SendLogged(p))
        /\ (AckLogged(p)' <=> AckLogged(p))
        /\ (Expired(p)' <=> Expired(p))
        /\ Reported(p)'
    BY <1>2, <1>7, <1>10, <2>1, <2>5, LogGrows
  <2>8. <<a>> # <<r, a>> /\ <<a>> # <<>>
    OBVIOUS
  <2>9. Exchange(p)'
    BY <1>1, <1>2, <1>3, <1>4, <2>1, <2>2, <2>3, <2>7, <2>8, Ranks DEF Exchange, Underway, a, r
  <2>10. Shape'
    BY <1>1, <1>2, <1>5, <1>6, <2>2 DEF Shape, Record
  <2>11. results' <= Cardinality(Reporters')
    <3>1. \A q \in Peers \ {p} : Reported(q)' <=> Reported(q)
      BY <1>2, <1>10, <2>5, LogGrows
    <3>2. Reporters' = Reporters \union {p} /\ p \notin Reporters
      BY <2>3, <2>7, <3>1 DEF Reporters
    <3>3. IsFiniteSet(Reporters)
      BY FS_Subset, LifecycleAssumption DEF Reporters
    <3>4. Cardinality(Reporters') = Cardinality(Reporters) + 1 /\ Cardinality(Reporters) \in Nat
      BY <3>2, <3>3, FS_AddElement, FS_CardinalityType
    <3>5. QED
      BY <1>1, <2>2, <3>4 DEF LogInv, Shape
  <2>12. QED
    BY <1>9, <2>5, <2>6, <2>9, <2>10, <2>11, OthersKept
<1>13. QED
  BY <1>1, <1>11, <1>12 DEF Exchange, a, r

LEMMA ExpireStep ==
    ASSUME LogInv, IInv, NEW p \in Peers, Expire(p)
    PROVE  LogInv'
<1>1. Exchange(p) /\ Shape /\ Summed /\ session \in {None, Trial} /\ p \in pending
  BY DEF LogInv, IInv, Types, Expire
<1>2. /\ UNCHANGED <<program, failed, command, completed, session, calls, discovery, transport,
                     serveTask, reached, inbox, acked, results>>
      /\ pending' = pending \ {p}
      /\ Record(AckTimeout(p))
  BY DEF Expire, driverVars, netVars
<1> PICK e : e = AckTimeout(p)
  OBVIOUS
<1>3. /\ e.kind = "ack_timeout" /\ e.peer = p /\ e.type = None /\ e.trial = None
      /\ e.session = session
  BY DEF AckTimeout, Event
<1>4. None # "ACK" /\ None # "RESULT_REPORT"
  BY NoneAssumption
<1>5. e \notin log
  BY <1>1, <1>3 DEF Exchange, Expired
<1>6. Summed' /\ log' = log \union {e}
  BY <1>1, <1>2, <1>3, <1>5, RecordSums
<1>7. About(e, p) /\ Elsewhere(p)
  BY <1>2, <1>3, <1>4 DEF About, Elsewhere, Sound
<1>8. /\ (SendLogged(p)' <=> SendLogged(p))
      /\ (AckLogged(p)' <=> AckLogged(p))
      /\ Expired(p)'
      /\ (Reported(p)' <=> Reported(p))
      /\ Ack(p)' = Ack(p) /\ Report(p)' = Report(p)
  BY <1>2, <1>3, <1>4, <1>6, LogGrows DEF Ack, Report
<1>9. Exchange(p)'
  BY <1>1, <1>2, <1>8 DEF Exchange, Underway
<1>10. Shape'
  BY <1>1, <1>2 DEF Shape, Record
<1>11. results' <= Cardinality(Reporters')
  BY <1>2, <1>6, ReportersStay
<1>12. QED
  BY <1>6, <1>7, <1>9, <1>10, <1>11, OthersKept

LEMMA OtherTurnStep ==
    ASSUME LogInv, IInv, ServeOther \/ ServeRaises
    PROVE  LogInv'
<1>1. /\ UNCHANGED <<program, failed, command, completed, session, calls, discovery, transport,
                     reached, inbox, pending, acked, results>>
      /\ serveTask' \in {serveTask, "dead"}
  BY DEF ServeOther, ServeRaises, driverVars, netVars, callVars
<1>2. RecordPing \/ UNCHANGED recorderVars
  BY DEF ServeOther, ServeRaises
<1>3. Shape /\ Course /\ Summed /\ session \in {None, Trial}
  BY DEF LogInv, IInv, Types
<1>4. CASE UNCHANGED recorderVars
  <2>1. UNCHANGED Tables
    BY <1>1, <1>4 DEF Tables, recorderVars
  <2>2. /\ \A p \in Peers : Exchange(p)'
        /\ \A e \in log' : Sound(e)'
        /\ \A c \in completed, p \in Peers : Done(c, p)'
        /\ Reporters' = Reporters
    BY <1>1, <2>1, TablesKept
  <2>3. Shape' /\ Course' /\ Summed'
    BY <1>1, <1>3, <1>4 DEF Shape, Course, Summed, recorderVars
  <2>4. QED
    BY <1>1, <2>2, <2>3 DEF LogInv
<1>5. CASE RecordPing
  <2> PICK e : e = Event("receive", "peer", "PING", <<"PING">>, None, None, session)
    OBVIOUS
  <2>1. e.kind = "receive" /\ e.type = "PING" /\ e.trial = None /\ e.session = session
    BY DEF Event
  <2>2. Record(e) /\ e \notin log
    BY <1>5, <2>1 DEF RecordPing
  <2>3. Summed' /\ log' = log \union {e}
    BY <1>3, <2>1, <2>2, RecordSums
  <2>4. \A p \in Peers : /\ (SendLogged(p)' <=> SendLogged(p))
                         /\ (AckLogged(p)' <=> AckLogged(p))
                         /\ (Expired(p)' <=> Expired(p))
                         /\ (Reported(p)' <=> Reported(p))
    BY <1>1, <2>1, <2>3, LogGrows
  <2>5. \A p \in Peers : Exchange(p)'
    BY <1>1, <2>4, ExchangeKept DEF LogInv
  <2>6. \A f \in log' : Sound(f)'
    <3>1. Sound(e)'
      BY <2>1 DEF Sound
    <3>2. QED
      BY <1>1, <2>3, <3>1, SoundKept DEF LogInv
  <2>7. \A c \in completed', p \in Peers : Done(c, p)'
    BY <1>1, <2>3, DoneKept DEF LogInv
  <2>8. Shape' /\ Course'
    BY <1>1, <1>3, <2>2 DEF Shape, Course, Record
  <2>9. results' <= Cardinality(Reporters')
    BY <1>1, <2>4 DEF LogInv, Reporters
  <2>10. QED
    BY <2>3, <2>5, <2>6, <2>7, <2>8, <2>9 DEF LogInv
<1>6. QED
  BY <1>2, <1>4, <1>5

LEMMA InitLogInv == Init => LogInv
<1> SUFFICES ASSUME Init PROVE LogInv
  OBVIOUS
<1> USE DEF Init
<1>1. command = None /\ command \notin Commands /\ command \notin Acknowledged
  BY NoneAssumption DEF Commands
<1>2. Shape
  BY DEF Shape, Early
<1>3. Course
  BY <1>1, NextSteps DEF Course, Early, Steps, Rank, Commands, Acknowledged
<1>4. Summed
  BY FS_EmptySet DEF Summed, ReplayedTrials
<1>5. \A p \in Peers : Exchange(p)
  BY <1>1 DEF Exchange, Underway, SendLogged, AckLogged, Expired, Reported
<1>6. results <= Cardinality(Reporters)
  <2>1. Cardinality(Reporters) \in Nat
    BY FS_Subset, FS_CardinalityType, LifecycleAssumption DEF Reporters
  <2>2. QED
    BY <2>1
<1>7. QED
  BY <1>2, <1>3, <1>4, <1>5, <1>6 DEF LogInv

LEMMA LogInvStep == LogInv /\ IInv /\ [Next]_vars => LogInv'
<1> SUFFICES ASSUME LogInv, IInv, [Next]_vars PROVE LogInv'
  OBVIOUS
<1>1. CASE Driver
  <2>1. CASE Issue
    BY <2>1, IssueStep
  <2>2. CASE Gather
    BY <2>2, GatherStep
  <2>3. CASE BroadcastState
    BY <2>3, BroadcastStep
  <2>4. CASE StartServer \/ Publish \/ Wait \/ Collect \/ Sleep \/ Withdraw \/ Shutdown
             \/ CloseRecorder
    BY <2>4, QuietDriverStep
  <2>5. QED
    BY <1>1, <2>1, <2>2, <2>3, <2>4 DEF Driver
<1>2. CASE ServeOther \/ ServeRaises
  BY <1>2, OtherTurnStep
<1>3. ASSUME NEW p \in Peers, Task(p) \/ Answer(p) \/ ServeLoop(p) PROVE LogInv'
  <2>1. CASE Transmit(p) \/ CallTimesOut(p)
    BY <2>1, TransmitStep
  <2>2. CASE RecordSend(p)
    BY <2>2, RecordSendStep
  <2>3. CASE Answer(p)
    BY <2>3, AnswerStep
  <2>4. CASE ServeTurn(p)
    BY <2>4, ServeTurnStep
  <2>5. CASE Expire(p)
    BY <2>5, ExpireStep
  <2>6. QED
    BY <1>3, <2>1, <2>2, <2>3, <2>4, <2>5 DEF Task, ServeLoop
<1>4. CASE UNCHANGED vars
  <2>1. UNCHANGED Tables /\ UNCHANGED <<program, failed, discovery, transport, serveTask, session,
                                        results, completed, count, trials, handle, summary>>
    BY <1>4 DEF vars, driverVars, callVars, netVars, recorderVars, Tables
  <2>2. /\ \A p \in Peers : Exchange(p)'
        /\ \A e \in log' : Sound(e)'
        /\ \A c \in completed, p \in Peers : Done(c, p)'
        /\ Reporters' = Reporters
    BY <2>1, TablesKept
  <2>3. Shape' /\ Course' /\ Summed'
    BY <2>1 DEF LogInv, Shape, Course, Summed, Tables
  <2>4. QED
    BY <2>1, <2>2, <2>3 DEF LogInv
<1>5. QED
  BY <1>1, <1>2, <1>3, <1>4 DEF Next

(* The log's invariant holds in every state of the server command, together *)
(* with the one of its end.                                                 *)
THEOREM SpecLogInv == Spec => [](IInv /\ LogInv)
<1>1. Spec => []IInv
  BY SpecIInv
<1>2. QED
  BY <1>1, InitLogInv, LogInvStep, PTL DEF Spec

(* The types: in particular no more results are queued than there are       *)
(* clients, nothing but an ACK and the report of a trial is in an inbox, and *)
(* no ACK completed a call whose entry is still in the table.                *)
THEOREM TypeCorrect == Spec => []TypeOK
<1>1. IInv /\ LogInv => TypeOK
  <2> SUFFICES ASSUME IInv, LogInv PROVE TypeOK
    OBVIOUS
  <2>1. Types /\ Shape /\ Summed /\ \A p \in Peers : Exchange(p)
    BY DEF IInv, LogInv
  <2>2. results \in 0..Cardinality(Peers)
    <3>1. Reporters \subseteq Peers
      BY DEF Reporters
    <3>2. /\ Cardinality(Reporters) <= Cardinality(Peers)
          /\ Cardinality(Reporters) \in Nat /\ Cardinality(Peers) \in Nat
      BY <3>1, FS_Subset, FS_CardinalityType, LifecycleAssumption
    <3>3. QED
      BY <2>1, <3>2 DEF LogInv, Shape
  <2>3. \A p \in Peers : Len(inbox[p]) <= 2
    <3>1. SUFFICES ASSUME NEW p \in Peers PROVE Len(inbox[p]) <= 2
      OBVIOUS
    <3>2. inbox[p] \in {<<>>, <<Ack(p)>>, <<Report(p), Ack(p)>>}
      BY <2>1 DEF Exchange
    <3>3. \A x, y : Len(<<>>) <= 2 /\ Len(<<x>>) <= 2 /\ Len(<<x, y>>) <= 2
      OBVIOUS
    <3>4. QED
      BY <3>2, <3>3
  <2>4. acked \subseteq Peers \ pending
    BY <2>1 DEF Exchange, Shape
  <2>5. summary \in [event_count : Nat, trial_ids : SUBSET {Trial}] \union {NoSummary}
    BY <2>1 DEF Summed, Types
  <2>6. QED
    BY <2>1, <2>2, <2>3, <2>4, <2>5 DEF TypeOK, Types, Shape, Early
<1>2. QED
  BY <1>1, SpecLogInv, PTL

(* Whatever a task or the serve loop still records while the server is shut *)
(* down, the counts of the summary are those of the log that is left.       *)
THEOREM SummaryAgrees == Spec => []SummaryAgreesWithLog
<1>1. LogInv => SummaryAgreesWithLog
  BY DEF LogInv, Summed, SummaryAgreesWithLog
<1>2. QED
  BY <1>1, SpecLogInv, PTL

(* Of every command that succeeded the log has the sending to every client  *)
(* and its ACK, and what belongs to the trial is in the trial's timeline.   *)
THEOREM CommandsAreInTheLog == Spec => []CommandsAreLogged
<1>1. LogInv => CommandsAreLogged
  <2> SUFFICES ASSUME LogInv, NEW c \in completed, NEW p \in Peers
               PROVE  /\ Sends(log, <<c, p>>) # {}
                      /\ c \in Acknowledged => Acks(log, <<c, p>>) # {}
                      /\ HeaderTrial(c) = Trial =>
                            Sends(log, <<c, p>>) \union Acks(log, <<c, p>>)
                              \subseteq TrialTimeline(log, Trial)
    BY DEF CommandsAreLogged
  <2>1. Done(c, p) /\ c \in Commands
    BY DEF LogInv, Shape
  <2>2. Sends(log, <<c, p>>) # {}
    BY <2>1 DEF Done, Sends
  <2>3. c \in Acknowledged => Acks(log, <<c, p>>) # {}
    BY <2>1 DEF Done, Acks, MessageTimeline
  <2>4. ASSUME HeaderTrial(c) = Trial, NEW e \in Sends(log, <<c, p>>)
        PROVE  e \in TrialTimeline(log, Trial)
    <3>1. e \in log /\ e.kind = "send" /\ e.msg = <<c, p>> /\ Sound(e)
      BY <2>4 DEF Sends, LogInv
    <3>2. PICK d \in Commands, q \in Peers : e.msg = <<d, q>> /\ e.trial = HeaderTrial(d)
      BY <3>1 DEF Sound
    <3>3. d = c
      BY <3>1, <3>2
    <3>4. QED
      BY <2>4, <3>1, <3>2, <3>3, LifecycleAssumption DEF TrialTimeline, TrialOf
  <2>5. ASSUME HeaderTrial(c) = Trial, NEW e \in Acks(log, <<c, p>>)
        PROVE  e \in TrialTimeline(log, Trial)
    <3>1. e \in log /\ e.type = "ACK" /\ (e.msg = <<c, p>> \/ e.replyTo = <<c, p>>) /\ Sound(e)
      BY <2>5 DEF Acks, MessageTimeline, LogInv
    <3>2. PICK d \in Commands, q \in Peers :
              /\ e.replyTo = <<d, q>> /\ e.msg = <<"ACK", d, q>>
              /\ e.trial = None /\ (Rank(d) > 1 => e.session = Trial)
      BY <3>1 DEF Sound
    <3>3. e.msg # <<c, p>>
      BY <3>2
    <3>4. d = c
      BY <3>1, <3>2, <3>3
    <3>5. Rank(c) > 1
      BY <2>5, Ranks, LifecycleAssumption DEF HeaderTrial
    <3>6. QED
      BY <3>1, <3>2, <3>4, <3>5 DEF TrialTimeline, TrialOf
  <2>6. QED
    BY <2>2, <2>3, <2>4, <2>5
<1>2. QED
  BY <1>1, SpecLogInv, PTL
=============================================================================
