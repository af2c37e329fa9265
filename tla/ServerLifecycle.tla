-------------------------- MODULE ServerLifecycle --------------------------
(***************************************************************************)
(* The server command of the command line, from run_server_command down to *)
(* the EventRecorder: it starts the server, publishes it, runs a session   *)
(* of one trial, withdraws it and shuts it down, whatever went wrong.      *)
(* What is left of the session is its log and the summary of the log.      *)
(*                                                                         *)
(* The serve loop and the tasks of a fan-out record concurrently; an       *)
(* exception of a handler ends the serve loop for good.  Commands are      *)
(* simpler here than in CommandFanout: an entry may expire at any moment.  *)
(***************************************************************************)
EXTENDS EventLog, Sequences

CONSTANTS
    Peers,     \* the registered clients
    Trial,     \* the trial of the session
    NoSummary  \* summary.json does not exist

ASSUME LifecycleAssumption ==
    /\ IsFiniteSet(Peers)
    /\ Trial # None
    /\ NoSummary \notin [event_count : Nat, trial_ids : SUBSET {Trial}]

VARIABLES
    program,    \* where run_server_command is
    failed,     \* whether an exception of its body is on its way out
    discovery,  \* the ZeroconfDiscoveryService
    transport,  \* whether the transport is up
    serveTask,  \* the task of _serve_loop
    session,    \* the current_trial_id
    command,    \* the command that was issued last
    calls,      \* its _send_control tasks
    pending,    \* the peers with an entry in the table of pending ACKs
    acked,      \* the peers whose ACK completed its call
    completed,  \* history: the commands that succeeded
    reached,    \* the peers that have the command and did not answer yet
    inbox,      \* the messages of a peer that the server did not receive yet
    results,    \* _results: how many reports are queued
    log,        \* events.jsonl
    count,      \* _event_count
    trials,     \* _trial_ids
    handle,     \* the log file
    summary     \* summary.json

driverVars == <<program, failed, discovery>>
callVars == <<command, calls, pending, acked, completed>>
netVars == <<reached, inbox>>
recorderVars == <<log, count, trials, handle, summary>>
vars == <<driverVars, transport, serveTask, session, results, callVars, netVars,
          recorderVars>>

(* The commands of a session, in their order, with what comes in between. *)
NextStep == [SESSION_START |-> "TRIAL_ARM", TRIAL_ARM |-> "STATE_UPDATE",
             STATE_UPDATE |-> "TRIAL_START_AT", TRIAL_START_AT |-> "collect",
             collect |-> "TRIAL_END", TRIAL_END |-> "SESSION_STOP",
             SESSION_STOP |-> "sleep"]
Acknowledged == {"SESSION_START", "TRIAL_ARM", "TRIAL_START_AT", "SESSION_STOP"}
Commands == Acknowledged \union {"TRIAL_END"}
Steps == DOMAIN NextStep

(* An event without a message has none of the types below. *)
ASSUME NoneAssumption == None \notin Commands \union {"ACK", "RESULT_REPORT"}

HeaderTrial(c) == IF c \in {"TRIAL_ARM", "TRIAL_START_AT", "TRIAL_END"} THEN Trial ELSE None

Init ==
    /\ program = "start"
    /\ failed = FALSE
    /\ discovery \in {"unused", "open"}
    /\ transport = "down"
    /\ serveTask = "none"
    /\ session = None
    /\ command = None
    /\ calls = [p \in Peers |-> "none"]
    /\ pending = {}
    /\ acked = {}
    /\ completed = {}
    /\ reached = {}
    /\ inbox = [p \in Peers |-> <<>>]
    /\ results = 0
    /\ log = {}
    /\ count = 0
    /\ trials = {}
    /\ handle = "open"
    /\ summary = NoSummary

(* EventRecorder.record: the line is written and flushed, then counted.     *)
Record(e) ==
    /\ handle = "open"
    /\ log' = log \union {e}
    /\ count' = count + 1
    /\ trials' = trials \union TrialsIn(e)
    /\ UNCHANGED <<handle, summary>>

(* _record adds the session's trial to what a message says. *)
Sent(c, p) == Event("send", p, c, <<c, p>>, None, HeaderTrial(c), session)
Received(m, p) == Event("receive", p, m.type, m.msg, m.replyTo, None, session)
Broadcast ==
    Event("broadcast_state", "server", "STATE_UPDATE", <<"STATE_UPDATE">>, None, None, session)
AckTimeout(p) == Event("ack_timeout", p, None, None, None, None, session)

-----------------------------------------------------------------------------
(* server.start, which may raise, and then discovery.register, which may,   *)
(* too; neither is within the try.                                          *)
StartServer ==
    /\ program = "start"
    /\ \/ /\ transport' = "up"
          /\ serveTask' = "running"
          /\ program' = IF discovery = "open" THEN "publish" ELSE "wait"
       \/ /\ program' = "startFailed"
          /\ UNCHANGED <<transport, serveTask>>
    /\ UNCHANGED <<failed, discovery, session, results, callVars, netVars, recorderVars>>

Publish ==
    /\ program = "publish"
    /\ \/ discovery' = "published" /\ program' = "wait"
       \/ program' = "startFailed" /\ UNCHANGED discovery
    /\ UNCHANGED <<failed, transport, serveTask, session, results, callVars,
                   netVars, recorderVars>>

(* The step is done ... *)
Proceed == program' = NextStep[program] /\ UNCHANGED failed

(* Mutant of Raise: discovery.close is not in the finally block. *)
RaisePastWithdraw == program' = "shutdown" /\ failed' = TRUE

(* ... or an exception within the try leads to the finally block. *)
Raise == program' = "withdraw" /\ failed' = TRUE

(* wait_until_clients_ready times out, or what was asked for comes next. *)
Wait ==
    /\ program = "wait"
    /\ \/ program' \in {"SESSION_START", "sleep"} /\ UNCHANGED failed
       \/ Raise
    /\ UNCHANGED <<discovery, transport, serveTask, session, results, callVars,
                   netVars, recorderVars>>

(* Mutant of Issue: arm_trial leaves the session to start_trial. *)
IssueArmsNothing ==
    /\ program \in Commands \ {command}
    /\ session' = CASE program = "SESSION_START" -> None
                    [] program = "TRIAL_START_AT" -> Trial
                    [] OTHER -> session
    /\ command' = program
    /\ calls' = [p \in Peers |-> "sending"]
    /\ pending' = IF program \in Acknowledged THEN Peers ELSE {}
    /\ acked' = {}
    /\ UNCHANGED <<driverVars, transport, serveTask, results, completed, netVars,
                   recorderVars>>

(* A command: the session changes first, then a task is made for each       *)
(* client, which registers its entry if the command is to be acknowledged.  *)
Issue ==
    /\ program \in Commands \ {command}
    /\ session' = CASE program = "SESSION_START" -> None
                    [] program \in {"TRIAL_ARM", "TRIAL_START_AT"} -> Trial
                    [] OTHER -> session
    /\ command' = program
    /\ calls' = [p \in Peers |-> "sending"]
    /\ pending' = IF program \in Acknowledged THEN Peers ELSE {}
    /\ acked' = {}
    /\ UNCHANGED <<driverVars, transport, serveTask, results, completed, netVars,
                   recorderVars>>

Answered(p) == calls[p] = "done" \/ (calls[p] = "waiting" /\ p \in acked)

(* gather returns when all tasks did, and raises with the first of them. *)
Gather ==
    /\ program \in Commands /\ program = command
    /\ \/ /\ \A p \in Peers : Answered(p)
          /\ completed' = completed \union {command}
          /\ Proceed
       \/ /\ \E p \in Peers : calls[p] = "failed"
          /\ Raise /\ UNCHANGED completed
    /\ UNCHANGED <<discovery, transport, serveTask, session, results, command,
                   calls, pending, acked, netVars, recorderVars>>

BroadcastState ==
    /\ program = "STATE_UPDATE"
    /\ \/ Record(Broadcast) /\ Proceed
       \/ UNCHANGED recorderVars /\ Raise
    /\ UNCHANGED <<discovery, transport, serveTask, session, results, callVars, netVars>>

(* collect takes a result or times out, unless no client has the role. *)
Collect ==
    /\ program = "collect"
    /\ \/ results > 0 /\ results' = results - 1 /\ Proceed
       \/ results = 0 /\ UNCHANGED results /\ Raise
       \/ UNCHANGED results /\ Proceed
    /\ UNCHANGED <<discovery, transport, serveTask, session, callVars, netVars,
                   recorderVars>>

(* A duration is given: without one the command runs until it is killed. *)
Sleep ==
    /\ program = "sleep"
    /\ program' = "withdraw"
    /\ UNCHANGED <<failed, discovery, transport, serveTask, session, results,
                   callVars, netVars, recorderVars>>

-----------------------------------------------------------------------------
(* The finally block: discovery.close, which may raise ... *)
Withdraw ==
    /\ program = "withdraw"
    /\ IF discovery = "unused"
         THEN program' = "shutdown" /\ UNCHANGED discovery
         ELSE \/ program' = "shutdown" /\ discovery' = "closed"
              \/ program' = "closeFailed" /\ UNCHANGED discovery
    /\ UNCHANGED <<failed, transport, serveTask, session, results, callVars,
                   netVars, recorderVars>>

(* ... and shutdown, which cancels the serve loop and awaits it, while other *)
(* tasks run on; when the loop died, its exception is raised here and        *)
(* nothing else is done ...                                                  *)
Shutdown ==
    /\ program = "shutdown"
    /\ IF serveTask = "dead"
         THEN program' = "shutdownFailed" /\ UNCHANGED serveTask
         ELSE program' = "closing" /\ serveTask' = "cancelled"
    /\ UNCHANGED <<failed, discovery, transport, session, results, callVars,
                   netVars, recorderVars>>

(* Mutant of CloseRecorder: the log is left open. *)
CloseLeavesOpen ==
    /\ program = "closing"
    /\ program' = IF failed THEN "raised" ELSE "returned"
    /\ transport' = "down"
    /\ summary' = [event_count |-> count, trial_ids |-> trials]
    /\ UNCHANGED <<failed, discovery, serveTask, session, results, callVars,
                   netVars, log, count, trials, handle>>

(* ... then the transport is stopped and the recorder closed: the summary   *)
(* is written, and the log after it.                                        *)
CloseRecorder ==
    /\ program = "closing"
    /\ program' = IF failed THEN "raised" ELSE "returned"
    /\ transport' = "down"
    /\ summary' = [event_count |-> count, trial_ids |-> trials]
    /\ handle' = "closed"
    /\ UNCHANGED <<failed, discovery, serveTask, session, results, callVars,
                   netVars, log, count, trials>>

-----------------------------------------------------------------------------
(* The task of a call sends its message, which raises when the transport is *)
(* down, and may raise otherwise; a client has it, if it was not lost.      *)
Transmit(p) ==
    /\ calls[p] = "sending"
    /\ \/ /\ transport = "up"
          /\ calls' = [calls EXCEPT ![p] = "sent"]
          /\ reached' \in {reached, IF command \in Acknowledged THEN reached \union {p}
                                                                 ELSE reached}
       \/ /\ calls' = [calls EXCEPT ![p] = "failed"]
          /\ UNCHANGED reached
    /\ UNCHANGED <<driverVars, transport, serveTask, session, results, command,
                   pending, acked, completed, inbox, recorderVars>>

(* When send returned the task records, which raises once the recorder is    *)
(* closed, and waits for the ACK if there is to be one.                      *)
RecordSend(p) ==
    /\ calls[p] = "sent"
    /\ IF handle = "open"
         THEN /\ Record(Sent(command, p))
              /\ calls' = [calls EXCEPT ![p] = IF command \in Acknowledged THEN "waiting"
                                                                           ELSE "done"]
         ELSE /\ calls' = [calls EXCEPT ![p] = "failed"]
              /\ UNCHANGED recorderVars
    /\ UNCHANGED <<driverVars, transport, serveTask, session, results, command,
                   pending, acked, completed, netVars>>

(* Mutant of CallTimesOut: the scan of the serve loop decides. *)
CallTimesOutByScan(p) ==
    /\ calls[p] = "waiting" /\ p \notin acked /\ p \notin pending
    /\ calls' = [calls EXCEPT ![p] = "failed"]
    /\ UNCHANGED <<driverVars, transport, serveTask, session, results, command,
                   pending, acked, completed, netVars, recorderVars>>

CallTimesOut(p) ==
    /\ calls[p] = "waiting" /\ p \notin acked
    /\ calls' = [calls EXCEPT ![p] = "failed"]
    /\ UNCHANGED <<driverVars, transport, serveTask, session, results, command,
                   pending, acked, completed, netVars, recorderVars>>

(* A client carries the command out, and may report a result of the trial   *)
(* before it acknowledges.                                                  *)
Ack(p) == [type |-> "ACK", msg |-> <<"ACK", command, p>>, replyTo |-> <<command, p>>]
Report(p) == [type |-> "RESULT_REPORT", msg |-> <<"RESULT_REPORT", p>>, replyTo |-> None]

Answer(p) ==
    /\ p \in reached
    /\ reached' = reached \ {p}
    /\ \/ inbox' = [inbox EXCEPT ![p] = Append(@, Ack(p))]
       \/ /\ command = "TRIAL_START_AT"
          /\ inbox' = [inbox EXCEPT ![p] = @ \o <<Report(p), Ack(p)>>]
    /\ UNCHANGED <<driverVars, transport, serveTask, session, results, callVars,
                   recorderVars>>

(* Mutant of ServeTurn: an ACK resolves its entry but leaves it there. *)
ServeTurnKeepsEntry(p) ==
    /\ serveTask = "running"
    /\ inbox[p] # <<>>
    /\ inbox' = [inbox EXCEPT ![p] = Tail(@)]
    /\ LET m == Head(inbox[p])
       IN  /\ Record(Received(m, p))
           /\ IF m.type = "ACK"
                THEN /\ acked' = IF p \in pending THEN acked \union {p} ELSE acked
                     /\ UNCHANGED <<results, pending>>
                ELSE results' = results + 1 /\ UNCHANGED <<pending, acked>>
    /\ UNCHANGED <<driverVars, transport, serveTask, session, command, calls,
                   completed, reached>>

(* A turn of _serve_loop that received a message records and handles it. *)
ServeTurn(p) ==
    /\ serveTask = "running"
    /\ inbox[p] # <<>>
    /\ inbox' = [inbox EXCEPT ![p] = Tail(@)]
    /\ LET m == Head(inbox[p])
       IN  /\ Record(Received(m, p))
           /\ IF m.type = "ACK"
                THEN /\ pending' = pending \ {p}
                     /\ acked' = IF p \in pending THEN acked \union {p} ELSE acked
                     /\ UNCHANGED results
                ELSE results' = results + 1 /\ UNCHANGED <<pending, acked>>
    /\ UNCHANGED <<driverVars, transport, serveTask, session, command, calls,
                   completed, reached>>

(* _expire_acks at the end of a turn. *)
Expire(p) ==
    /\ serveTask = "running"
    /\ p \in pending
    /\ pending' = pending \ {p}
    /\ Record(AckTimeout(p))
    /\ UNCHANGED <<driverVars, transport, serveTask, session, results, command,
                   calls, acked, completed, netVars>>

(* A turn that received something else, like a ping; one is enough (bound). *)
RecordPing ==
    /\ \A e \in log : e.type # "PING"
    /\ Record(Event("receive", "peer", "PING", <<"PING">>, None, None, session))

ServeOther ==
    /\ serveTask = "running"
    /\ RecordPing
    /\ UNCHANGED <<driverVars, transport, serveTask, session, results, callVars, netVars>>

(* A turn that raises: in recv, on a message that does not decode, or in the *)
(* handler of some other message, which was recorded by then.  Nobody awaits *)
(* the task.                                                                 *)
ServeRaises ==
    /\ serveTask = "running"
    /\ serveTask' = "dead"
    /\ UNCHANGED recorderVars \/ RecordPing
    /\ UNCHANGED <<driverVars, transport, session, results, callVars, netVars>>

Driver ==
    \/ StartServer \/ Publish
    \/ Wait \/ Issue \/ Gather \/ BroadcastState \/ Collect \/ Sleep
    \/ Withdraw \/ Shutdown \/ CloseRecorder
Task(p) == Transmit(p) \/ RecordSend(p) \/ CallTimesOut(p)
ServeLoop(p) == ServeTurn(p) \/ Expire(p)

Next ==
    \/ Driver
    \/ ServeOther \/ ServeRaises
    \/ \E p \in Peers : Task(p) \/ Answer(p) \/ ServeLoop(p)

Spec == Init /\ [][Next]_vars

(* Every await of the command has a timeout of its own or is of a task that  *)
(* was cancelled.  Nothing is asked of the serve loop or of the clients.     *)
FairSpec == Spec /\ WF_vars(Driver) /\ \A p \in Peers : WF_vars(Task(p))

-----------------------------------------------------------------------------
Ends == {"startFailed", "closeFailed", "shutdownFailed", "raised", "returned"}
CallStates == {"none", "sending", "sent", "waiting", "done", "failed"}

TypeOK ==
    /\ program \in Steps \union Ends
                  \union {"start", "publish", "wait", "sleep", "withdraw", "shutdown", "closing"}
    /\ failed \in BOOLEAN
    /\ discovery \in {"unused", "open", "published", "closed"}
    /\ transport \in {"down", "up"}
    /\ serveTask \in {"none", "running", "dead", "cancelled"}
    /\ session \in {None, Trial}
    /\ results \in 0..Cardinality(Peers)
    /\ command \in Commands \union {None}
    /\ calls \in [Peers -> CallStates]
    /\ pending \subseteq Peers /\ acked \subseteq Peers \ pending /\ reached \subseteq Peers
    /\ DOMAIN inbox = Peers /\ \A p \in Peers : Len(inbox[p]) <= 2
    /\ count \in Nat /\ trials \subseteq {Trial}
    /\ handle \in {"open", "closed"}
    /\ summary \in [event_count : Nat, trial_ids : SUBSET {Trial}] \union {NoSummary}

(* The summary that the recorder kept event by event and what a replay makes *)
(* of the log agree, whatever tasks still record while the server is shut    *)
(* down.                                                                     *)
SummaryAgreesWithLog ==
    summary # NoSummary =>
        /\ summary.event_count = Cardinality(log)
        /\ summary.trial_ids = ReplayedTrials(log)

(* A session can be followed in its log: of every command that succeeded the *)
(* replay has the sending to every client and, if it was to be acknowledged, *)
(* the client's ACK, although different tasks record them in any order; and   *)
(* what belongs to the trial is in the trial's timeline, although an ACK has  *)
(* no trial in its header.                                                   *)
CommandsAreLogged ==
    \A c \in completed, p \in Peers :
        LET events == Sends(log, <<c, p>>) \union Acks(log, <<c, p>>)
        IN  /\ Sends(log, <<c, p>>) # {}
            /\ c \in Acknowledged => Acks(log, <<c, p>>) # {}
            /\ HeaderTrial(c) = Trial => events \subseteq TrialTimeline(log, Trial)

(* When the command returned, or an exception of its body came out of it,    *)
(* the service is withdrawn, the loop and the transport are down, the log is *)
(* closed and its summary is there.  When it returned, no task is at work     *)
(* either.  When an exception came out, gather may have left tasks of the     *)
(* command that failed: they find the transport down or the log closed.      *)
EndsClean ==
    /\ program \in {"returned", "raised"} =>
          /\ discovery \in {"unused", "closed"}
          /\ transport = "down" /\ serveTask = "cancelled"
          /\ handle = "closed" /\ summary # NoSummary
    /\ program = "returned" => \A p \in Peers : calls[p] = "none" \/ Answered(p)

(* The command comes to an end when the clients are silent and even when the *)
(* serve loop is dead.                                                        *)
CommandEnds == <>(program \in Ends)

(* README: "when a session directory is closed its summary.json is written  *)
(* automatically".                                                          *)
ClosedHasSummary ==
    program \in {"returned", "raised", "shutdownFailed"} => summary # NoSummary
=============================================================================
