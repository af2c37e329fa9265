--------------------------- MODULE ClientRuntime ---------------------------
(***************************************************************************)
(* The three asyncio tasks of an ExperimentClient: the application, which  *)
(* calls connect, register, sync_clock, ready and close, the receive loop  *)
(* and the heartbeat loop.  They share the status, the table of exchanges  *)
(* that wait for a reply and the reconnect lock, and each of them runs     *)
(* until it awaits something.  Only the receive loop completes exchanges.  *)
(*                                                                         *)
(* The transport is the in-memory one: sending, stopping and starting do   *)
(* not suspend, the server's queue loses nothing, and stop drops what the  *)
(* client has not received.  Each kind of failure has a budget.            *)
(***************************************************************************)
EXTENDS Naturals, Sequences, FiniteSets

CONSTANTS
    SendFaults,    \* how often transport.send may raise in the heartbeat loop
    RecvFaults,    \* how often transport.recv may raise
    RestartFaults, \* how often transport.start or transport.send may raise in reconnect
    HandlerFaults, \* how often a handler of SESSION_START, or its ACK, may raise
    Starts         \* how many SESSION_START commands the server sends

ASSUME BudgetAssumption ==
    {SendFaults, RecvFaults, RestartFaults, HandlerFaults, Starts} \subseteq Nat

VARIABLES
    pc,          \* where each task awaits
    saved,       \* previous_status of the sync_clock a task is in
    status,      \* self.status
    answered,    \* the tasks whose future in _responses holds its reply
    lock,        \* _reconnect_lock: its holder first, then its FIFO of waiters
    closing,     \* _closing, and _running false
    toServer,    \* the server's queue
    toClient,    \* the client's queue
    serverView,  \* current_status in the server's registry
    budget       \* what remains of each budget

taskVars == <<pc, saved, status, answered, lock, closing>>
vars == <<taskVars, toServer, toClient, serverView, budget>>

Loops == {"recv", "hb"}
Tasks == Loops \union {"app"}

Rest(t) == IF t = "recv" THEN "receiving" ELSE "sleeping"
Labels == {"new", "connected", "register", "registered", "sync", "synced", "ready",
           "closing", "closed", "closefailed",
           "receiving", "applying", "sleeping", "lock", "reRegister", "reSync",
           "dead", "ended"}
Statuses == {"DISCOVERED", "CONNECTED", "REGISTERED", "SYNCED", "READY", "RUNNING",
             "DEGRADED", "RECONNECTING", "DISCONNECTED"}

Register(t) == [kind |-> "REGISTER", task |-> t]
Ping(t) == [kind |-> "PING", task |-> t]
Status(s) == [kind |-> "CLIENT_STATUS", status |-> s]
Reply(t) == [kind |-> "reply", task |-> t]
Start == [kind |-> "SESSION_START"]

At(t, from, to) == pc[t] = from /\ pc' = [pc EXCEPT ![t] = to]
Spent(f) == [budget EXCEPT ![f] = @ - 1]
Send(msgs) == toServer' = toServer \o msgs
Answered(t) == t \in answered /\ answered' = answered \ {t}

-----------------------------------------------------------------------------
Init ==
    /\ pc = [t \in Tasks |-> "new"]
    /\ saved = [t \in Tasks |-> "DISCOVERED"]
    /\ status = "DISCOVERED"
    /\ answered = {}
    /\ lock = <<>>
    /\ closing = FALSE
    /\ toServer = <<>>
    /\ toClient = <<>>
    /\ serverView = "ABSENT"
    /\ budget = [send |-> SendFaults, recv |-> RecvFaults, restart |-> RestartFaults,
                 handler |-> HandlerFaults, session |-> Starts]

(* connect *)
Connect ==
    /\ pc["app"] = "new"
    /\ pc' = [app |-> "connected", recv |-> Rest("recv"), hb |-> Rest("hb")]
    /\ status' = "CONNECTED"
    /\ UNCHANGED <<saved, answered, lock, closing, toServer, toClient, serverView, budget>>

(* register: send REGISTER and await the reply. *)
AppRegister ==
    /\ At("app", "connected", "register")
    /\ Send(<<Register("app")>>)
    /\ UNCHANGED <<saved, status, answered, lock, closing, toClient, serverView, budget>>

AppRegistered ==
    /\ At("app", "register", "registered")
    /\ Answered("app")
    /\ status' = "REGISTERED"
    /\ UNCHANGED <<saved, lock, closing, toServer, toClient, serverView, budget>>

(* sync_clock *)
AppSync ==
    /\ At("app", "registered", "sync")
    /\ saved' = [saved EXCEPT !["app"] = status]
    /\ Send(<<Ping("app")>>)
    /\ UNCHANGED <<status, answered, lock, closing, toClient, serverView, budget>>

AppSynced ==
    /\ At("app", "sync", "synced")
    /\ Answered("app")
    /\ status' = "SYNCED"
    /\ Send(<<Status("SYNCED")>>)
    /\ UNCHANGED <<saved, lock, closing, toClient, serverView, budget>>

AppReady ==
    /\ At("app", "synced", "ready")
    /\ status' = "READY"
    /\ Send(<<Status("READY")>>)
    /\ UNCHANGED <<saved, answered, lock, closing, toClient, serverView, budget>>

(* close cancels the receive loop, which gives back the lock it may hold, or *)
(* leaves the FIFO it waits in (each loop is in it once at most); awaiting a *)
(* loop that died raises its exception ...                                   *)
Without(t) ==
    IF lock = <<>> THEN <<>> ELSE IF Head(lock) = t THEN Tail(lock) ELSE <<Head(lock)>>

(* Mutant of Close: the cancelled loop keeps the lock. *)
CloseKeepsLock ==
    /\ pc["app"] = "ready"
    /\ closing' = TRUE
    /\ pc' = IF pc["recv"] = "dead"
               THEN [pc EXCEPT !["app"] = "closefailed"]
               ELSE [pc EXCEPT !["app"] = "closing", !["recv"] = "ended"]
    /\ UNCHANGED <<saved, status, answered, lock, toServer, toClient, serverView, budget>>

Close ==
    /\ pc["app"] = "ready"
    /\ closing' = TRUE
    /\ IF pc["recv"] = "dead"
         THEN /\ pc' = [pc EXCEPT !["app"] = "closefailed"]
              /\ UNCHANGED lock
         ELSE /\ pc' = [pc EXCEPT !["app"] = "closing", !["recv"] = "ended"]
              /\ lock' = Without("recv")
    /\ UNCHANGED <<saved, status, answered, toServer, toClient, serverView, budget>>

(* ... and then the heartbeat loop, before it stops the transport. *)
CloseHeartbeat ==
    /\ pc["app"] = "closing"
    /\ IF pc["hb"] = "dead"
         THEN /\ pc' = [pc EXCEPT !["app"] = "closefailed"]
              /\ UNCHANGED <<lock, toClient, status>>
         ELSE /\ pc' = [pc EXCEPT !["app"] = "closed", !["hb"] = "ended"]
              /\ lock' = Without("hb")
              /\ toClient' = <<>>
              /\ status' = "DISCONNECTED"
    /\ UNCHANGED <<saved, answered, closing, toServer, serverView, budget>>

-----------------------------------------------------------------------------
(* Mutant of Restart: _closing is not looked at. *)
RestartAlways(t, others, own, sent, left) ==
    /\ toClient' = <<>>
    /\ pc' = [pc EXCEPT ![t] = "reRegister"]
    /\ lock' = <<t>> \o others
    /\ status' = "CONNECTED"
    /\ Send(Append(sent, Register(t)))
    /\ budget' = left

(* reconnect, from the moment task t has the lock to its next await: return *)
(* if the client is closing, else restart the transport and register, or    *)
(* die of the exception that transport.start or transport.send raised.      *)
(* The task comes with the status it wrote, what it sent and its budget.    *)
Restart(t, others, own, sent, left) ==
    IF closing
      THEN /\ pc' = [pc EXCEPT ![t] = Rest(t)]
           /\ lock' = others
           /\ status' = own
           /\ Send(sent)
           /\ budget' = left
           /\ UNCHANGED toClient
      ELSE /\ toClient' = <<>>
           /\ \/ /\ pc' = [pc EXCEPT ![t] = "reRegister"]
                 /\ lock' = <<t>> \o others
                 /\ status' = "CONNECTED"
                 /\ Send(Append(sent, Register(t)))
                 /\ budget' = left
              \/ /\ left.restart > 0
                 /\ pc' = [pc EXCEPT ![t] = "dead"]
                 /\ lock' = others
                 /\ status' \in {"RECONNECTING", "CONNECTED"}
                 /\ Send(sent)
                 /\ budget' = [left EXCEPT !.restart = @ - 1]

(* The call of reconnect by a loop whose transport failed. *)
Reconnect(t, own, sent, left) ==
    /\ IF lock = <<>>
         THEN Restart(t, <<>>, own, sent, left)
         ELSE /\ pc' = [pc EXCEPT ![t] = "lock"]
              /\ lock' = Append(lock, t)
              /\ status' = own
              /\ Send(sent)
              /\ budget' = left
              /\ UNCHANGED toClient
    /\ UNCHANGED <<saved, closing, serverView>>

TakeLock(t) ==
    /\ pc[t] = "lock"
    /\ Head(lock) = t
    /\ Restart(t, Tail(lock), status, <<>>, budget)
    /\ UNCHANGED <<saved, answered, closing, serverView>>

(* register returns in reconnect: sync_clock(preserve_status=True) begins. *)
Reregistered(t) ==
    /\ At(t, "reRegister", "reSync")
    /\ Answered(t)
    /\ status' = "REGISTERED"
    /\ saved' = [saved EXCEPT ![t] = "REGISTERED"]
    /\ Send(<<Ping(t)>>)
    /\ UNCHANGED <<lock, closing, toClient, serverView, budget>>

(* sync_clock returns in reconnect: it restores the status, ready follows. *)
Resynced(t) ==
    /\ At(t, "reSync", Rest(t))
    /\ Answered(t)
    /\ status' = "READY"
    /\ lock' = Tail(lock)
    /\ Send(<<Status(saved[t]), Status("READY")>>)
    /\ UNCHANGED <<saved, closing, toClient, serverView, budget>>

(* A send in sync_clock or in ready raises: the task dies of it. *)
ReconnectFails(t) ==
    /\ Answered(t)
    /\ budget.restart > 0
    /\ \/ /\ At(t, "reRegister", "dead")
          /\ status' = "REGISTERED"
          /\ UNCHANGED toServer
       \/ /\ At(t, "reSync", "dead")
          /\ \/ status' = saved[t] /\ UNCHANGED toServer
             \/ status' = "READY" /\ Send(<<Status(saved[t])>>)
    /\ lock' = Tail(lock)
    /\ budget' = Spent("restart")
    /\ UNCHANGED <<saved, closing, toClient, serverView>>

-----------------------------------------------------------------------------
(* Mutant of RecvReply: a reply goes to the application's exchange. *)
RecvReplyToApp ==
    /\ pc["recv"] = "receiving"
    /\ toClient # <<>>
    /\ Head(toClient).kind = "reply"
    /\ answered' = answered \union {"app"}
    /\ toClient' = Tail(toClient)
    /\ UNCHANGED <<pc, saved, status, lock, closing, toServer, serverView, budget>>

(* _recv_loop: a reply completes the exchange of its task ... *)
RecvReply ==
    /\ pc["recv"] = "receiving"
    /\ toClient # <<>>
    /\ Head(toClient).kind = "reply"
    /\ answered' = answered \union {Head(toClient).task}
    /\ toClient' = Tail(toClient)
    /\ UNCHANGED <<pc, saved, status, lock, closing, toServer, serverView, budget>>

(* ... SESSION_START sets the status and runs the handlers ... *)
RecvStart ==
    /\ At("recv", "receiving", "applying")
    /\ toClient # <<>>
    /\ Head(toClient) = Start
    /\ status' = "RUNNING"
    /\ toClient' = Tail(toClient)
    /\ UNCHANGED <<saved, answered, lock, closing, toServer, serverView, budget>>

(* ... which return (the ACK is sent, of no concern here) or raise, or the  *)
(* ACK does ...                                                             *)
RecvApplied ==
    /\ At("recv", "applying", "receiving")
    /\ UNCHANGED <<saved, status, answered, lock, closing, toServer, toClient,
                   serverView, budget>>

HandlerRaises ==
    /\ At("recv", "applying", "dead")
    /\ budget.handler > 0
    /\ budget' = Spent("handler")
    /\ UNCHANGED <<saved, status, answered, lock, closing, toServer, toClient, serverView>>

(* ... and an exception of transport.recv makes the loop reconnect itself.  *)
RecvRaises ==
    /\ pc["recv"] = "receiving"
    /\ budget.recv > 0
    /\ Reconnect("recv", status, <<>>, Spent("recv"))
    /\ UNCHANGED answered

-----------------------------------------------------------------------------
(* _heartbeat_loop.  The server only takes a HEARTBEAT as a sign of life, so *)
(* it is not in the model; every few heartbeats one is followed by           *)
(* sync_clock(preserve_status=True) ...                                      *)
HbSync ==
    /\ ~closing
    /\ At("hb", "sleeping", "sync")
    /\ saved' = [saved EXCEPT !["hb"] = status]
    /\ Send(<<Ping("hb")>>)
    /\ UNCHANGED <<status, answered, lock, closing, toClient, serverView, budget>>

(* Mutants of HbSynced: DEGRADED is not reported, and the status of the     *)
(* server's registry is taken over.                                         *)
HbSyncedSilently ==
    /\ At("hb", "sync", "sleeping")
    /\ Answered("hb")
    /\ status' \in {saved["hb"], "DEGRADED"}
    /\ Send(<<Status(saved["hb"])>>)
    /\ UNCHANGED <<saved, lock, closing, toClient, serverView, budget>>

HbAdoptsView ==
    /\ At("hb", "sync", "sleeping")
    /\ Answered("hb")
    /\ status' = serverView
    /\ UNCHANGED <<saved, lock, closing, toServer, toClient, serverView, budget>>

(* ... which writes the status back that it found, unless the new offset or *)
(* RTT is beyond its limit.                                                 *)
HbSynced ==
    /\ At("hb", "sync", "sleeping")
    /\ Answered("hb")
    /\ \/ /\ status' = saved["hb"]
          /\ Send(<<Status(saved["hb"])>>)
       \/ /\ status' = "DEGRADED"
          /\ Send(<<Status(saved["hb"]), Status("DEGRADED")>>)
    /\ UNCHANGED <<saved, lock, closing, toClient, serverView, budget>>

(* The HEARTBEAT or the PING cannot be sent. *)
HbRaises ==
    /\ pc["hb"] = "sleeping" /\ ~closing
    /\ budget.send > 0
    /\ Reconnect("hb", status, <<>>, Spent("send"))
    /\ UNCHANGED answered

(* A CLIENT_STATUS that follows the PONG cannot be sent. *)
HbStatusRaises ==
    /\ pc["hb"] = "sync" /\ ~closing
    /\ Answered("hb")
    /\ budget.send > 0
    /\ \/ Reconnect("hb", saved["hb"], <<>>, Spent("send"))
       \/ Reconnect("hb", "DEGRADED", <<Status(saved["hb"])>>, Spent("send"))

(* The loop sees that the client is not running any more. *)
HbEnds ==
    /\ closing
    /\ At("hb", "sleeping", "ended")
    /\ UNCHANGED <<saved, status, answered, lock, closing, toServer, toClient,
                   serverView, budget>>

-----------------------------------------------------------------------------
(* A turn of the server's loop, as far as this client sees it. *)
ServerTurn ==
    /\ toServer # <<>>
    /\ LET m == Head(toServer)
       IN  /\ toClient' = IF m.kind \in {"REGISTER", "PING"}
                            THEN Append(toClient, Reply(m.task)) ELSE toClient
           /\ serverView' = CASE m.kind = "REGISTER" -> "REGISTERED"
                               [] m.kind = "CLIENT_STATUS" -> m.status
                               [] OTHER -> serverView
    /\ toServer' = Tail(toServer)
    /\ UNCHANGED <<taskVars, budget>>

(* start_session sends SESSION_START to a client it knows. *)
ServerStart ==
    /\ serverView # "ABSENT"
    /\ budget.session > 0
    /\ budget' = Spent("session")
    /\ toClient' = Append(toClient, Start)
    /\ UNCHANGED <<taskVars, toServer, serverView>>

AppProgress == AppRegister \/ AppRegistered \/ AppSync \/ AppSynced \/ AppReady
CloseProgress == CloseHeartbeat \/ HbEnds
RecvProgress == RecvReply \/ RecvStart \/ RecvApplied \/ HandlerRaises
HbProgress == HbSync \/ HbSynced
HbFails == HbRaises \/ HbStatusRaises
ReconnectProgress(t) ==
    TakeLock(t) \/ Reregistered(t) \/ Resynced(t) \/ ReconnectFails(t)
ServerStep == ServerTurn \/ ServerStart

Next ==
    \/ Connect \/ Close
    \/ AppProgress \/ CloseProgress
    \/ RecvProgress \/ RecvRaises
    \/ HbProgress \/ HbFails
    \/ \E t \in Loops : ReconnectProgress(t)
    \/ ServerStep

Spec == Init /\ [][Next]_vars

(* Every task that can run does, and so does the server.  Nothing fails, no *)
(* command is sent and the application does nothing unless it wants to.     *)
Fairness ==
    /\ WF_vars(RecvProgress)
    /\ WF_vars(HbSynced)
    /\ WF_vars(CloseProgress)
    /\ \A t \in Loops : WF_vars(ReconnectProgress(t))
    /\ WF_vars(ServerTurn)

FairSpec == Spec /\ Fairness

-----------------------------------------------------------------------------
Messages ==
    {Register(t) : t \in Tasks} \union {Ping(t) : t \in Tasks}
        \union {Status(s) : s \in Statuses}
        \union {Reply(t) : t \in Tasks} \union {Start}

TypeOK ==
    /\ pc \in [Tasks -> Labels]
    /\ saved \in [Tasks -> Statuses]
    /\ status \in Statuses
    /\ answered \subseteq Tasks
    /\ lock \in Seq(Loops)
    /\ closing \in BOOLEAN
    /\ toServer \in Seq(Messages)
    /\ toClient \in Seq(Messages)
    /\ serverView \in Statuses \union {"ABSENT"}
    /\ \A f \in DOMAIN budget : budget[f] \in Nat

(* When all is quiet the server believes what the client says of itself:    *)
(* the status written last is the status sent last, whichever of the three  *)
(* tasks wrote it.  (SESSION_START makes the client RUNNING without a       *)
(* CLIENT_STATUS; the health scan of the server is in ClientRegistry.)      *)
Quiet ==
    /\ pc["app"] = "ready" /\ pc["recv"] = "receiving" /\ pc["hb"] = "sleeping"
    /\ toServer = <<>> /\ toClient = <<>>

ViewAgrees == Quiet => status \in {serverView, "RUNNING"}

(* A client that closes never registers again: a loop that was waiting for  *)
(* the reconnect lock finds out when it gets it.                            *)
Registrations == {i \in DOMAIN toServer : toServer[i].kind = "REGISTER"}
NoRegisterAfterClose ==
    [][closing => Cardinality(Registrations') <= Cardinality(Registrations)]_vars

(* At most one loop is restarting the transport, and the lock is free when  *)
(* none is.                                                                 *)
Reconnecting == {t \in Loops : pc[t] \in {"reRegister", "reSync"}}
LockHeldByReconnect ==
    /\ \A t \in Reconnecting : lock # <<>> /\ Head(lock) = t
    /\ lock # <<>> => pc[Head(lock)] \in {"lock", "reRegister", "reSync"}

(* The heartbeat loop's reconnect comes to an end, whatever else the tasks  *)
(* do, unless the receive loop, which has to deliver the replies, fails too. *)
HbReconnectEnds ==
    pc["hb"] \in {"lock", "reRegister", "reSync"}
        ~> \/ pc["hb"] \in {"sleeping", "ended", "dead"}
           \/ pc["recv"] \in {"lock", "reRegister", "dead"}

(* server.py: the reply to REGISTER brings the session, so that "late or    *)
(* reconnecting clients catch up": a reconnect comes to an end.             *)
ReconnectEnds ==
    \A t \in Loops : pc[t] \in {"lock", "reRegister", "reSync"}
                       ~> pc[t] \in {Rest(t), "ended", "dead"}

(* barrier.py: the barrier waits for the clients "to enter the state ready  *)
(* or running", so a client that said it is ready must stay in one of them. *)
ReadyIsKept ==
    pc["app"] = "ready" /\ budget.send = SendFaults /\ budget.recv = RecvFaults
        => status \in {"READY", "RUNNING", "DEGRADED"}
=============================================================================
