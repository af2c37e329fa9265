---------------------------- MODULE SessionSync ----------------------------
(***************************************************************************)
(* The experiment session on the server and what the clients are told of   *)
(* it: a snapshot when they register or register again, and a command for  *)
(* every change after that.  start_session and its kin change the session  *)
(* and make the sending tasks in one step, but the tasks run later, so     *)
(* that a registration may be handled between a change and its command.    *)
(* A client changes its own copy of the session only when the task that     *)
(* waits for its registration applies the snapshot; a command goes to the  *)
(* handlers and leaves the copy alone.                                     *)
(***************************************************************************)
EXTENDS Naturals, Sequences, SequencesExt

CONSTANTS
    Clients,       \* the client ids
    Trials,        \* the trial ids
    NoTrial,       \* None
    MaxChanges,    \* bound: the calls that change the session
    MaxReconnects  \* bound: the restarts of the clients' transports

ASSUME SessionAssumption ==
    NoTrial \notin Trials /\ MaxChanges \in Nat /\ MaxReconnects \in Nat

VARIABLES
    session,     \* SessionManager of the server: state, trial and phase
    registry,    \* the clients of the registry, in the order they registered
    outbox,      \* the _send_control tasks that have not run yet, in order
    toClient,    \* the queue of each client
    registering, \* the clients whose REGISTER the server has not handled
    link,        \* each client: "off", "registering", "answered", "on"
    answer,      \* the snapshot each client was answered with and has to apply
    copy,        \* client.session of each client
    changes,     \* how often the session was changed
    reconnects,  \* how often a client restarted its transport
    heard,       \* history: the last snapshot received, with the commands the
                 \* handlers were given since; no client keeps it
    commanded    \* history: the clients given a command since that snapshot

serverVars == <<session, registry, outbox, changes>>
historyVars == <<heard, commanded>>
clientVars == <<registering, link, answer, copy, reconnects, historyVars>>
vars == <<serverVars, clientVars, toClient>>

Phases == {"none", "armed", "running", "ended"}
SessionStates == {"IDLE", "WAITING_CLIENTS", "READY", "RUNNING", "STOPPED"}
Links == {"off", "registering", "answered", "on"}
Views == [state : SessionStates, trial : Trials \union {NoTrial}, phase : Phases]

(* The messages to a client, by what they say of the session. *)
Snapshot(view) == [kind |-> "REGISTER_OK", view |-> view]
Command(kind, trial) == [kind |-> kind, trial |-> trial]
TrialKinds == {"TRIAL_ARM", "TRIAL_START_AT", "TRIAL_END"}
Messages ==
    {Snapshot(v) : v \in Views}
        \union {Command(k, NoTrial) : k \in {"SESSION_START", "SESSION_STOP"}}
        \union {Command(k, t) : k \in TrialKinds, t \in Trials}

NoSession == [state |-> "IDLE", trial |-> NoTrial, phase |-> "none"]

Init ==
    /\ session = NoSession
    /\ registry = <<>>
    /\ outbox = <<>>
    /\ toClient = [c \in Clients |-> <<>>]
    /\ registering = {}
    /\ link = [c \in Clients |-> "off"]
    /\ answer = [c \in Clients |-> NoSession]
    /\ copy = [c \in Clients |-> NoSession]
    /\ changes = 0
    /\ reconnects = 0
    /\ heard = [c \in Clients |-> NoSession]
    /\ commanded = {}

-----------------------------------------------------------------------------
(* SessionManager.create and start, stop, arm_trial, start_trial, end_trial: *)
(* none of them looks at the state it finds.                                 *)
After(view, kind, trial) ==
    CASE kind = "SESSION_START" ->
           [state |-> "RUNNING", trial |-> NoTrial, phase |-> "none"]
      [] kind = "SESSION_STOP" -> [view EXCEPT !.state = "STOPPED"]
      [] kind = "TRIAL_ARM" -> [view EXCEPT !.trial = trial, !.phase = "armed"]
      [] kind = "TRIAL_START_AT" -> [view EXCEPT !.trial = trial, !.phase = "running"]
      [] kind = "TRIAL_END" ->
           IF view.trial = trial THEN [view EXCEPT !.phase = "ended"] ELSE view

(* start_session, stop_session, arm_trial, start_trial and end_trial: change *)
(* the session, then make one sending task per client of the registry.       *)
Change(kind, trial) ==
    /\ changes < MaxChanges
    /\ changes' = changes + 1
    /\ session' = After(session, kind, trial)
    /\ outbox' = outbox \o [i \in DOMAIN registry |->
                              [to |-> registry[i], msg |-> Command(kind, trial)]]
    /\ UNCHANGED <<registry, clientVars, toClient>>

ChangeSession == \E k \in {"SESSION_START", "SESSION_STOP"} : Change(k, NoTrial)
ChangeTrial == \E k \in TrialKinds, t \in Trials : Change(k, t)

(* wait_until_clients_ready ends with mark_ready, which no client is told. *)
MarkReady ==
    /\ changes < MaxChanges
    /\ changes' = changes + 1
    /\ session' = [session EXCEPT !.state = "READY"]
    /\ UNCHANGED <<registry, outbox, clientVars, toClient>>

(* The next sending task puts its command in the queue of its client. *)
RunSend ==
    /\ outbox # <<>>
    /\ LET out == Head(outbox)
       IN  toClient' = [toClient EXCEPT ![out.to] = Append(@, out.msg)]
    /\ outbox' = Tail(outbox)
    /\ UNCHANGED <<session, registry, changes, clientVars>>

(* Mutants of HandleRegister: a client is entered again, the snapshot leaves *)
(* the trial out, and a client that comes back gets no reply.                *)
RegisterTwice(c) ==
    /\ c \in registering
    /\ registering' = registering \ {c}
    /\ registry' = Append(registry, c)
    /\ toClient' = [toClient EXCEPT ![c] = Append(@, Snapshot(session))]
    /\ UNCHANGED <<session, outbox, changes, link, answer, copy, reconnects, historyVars>>

RegisterWithoutTrial(c) ==
    /\ c \in registering
    /\ registering' = registering \ {c}
    /\ registry' = IF Contains(registry, c) THEN registry ELSE Append(registry, c)
    /\ toClient' = [toClient EXCEPT ![c] =
                       Append(@, Snapshot([NoSession EXCEPT !.state = session.state]))]
    /\ UNCHANGED <<session, outbox, changes, link, answer, copy, reconnects, historyVars>>

RegisterUnanswered(c) ==
    /\ c \in registering
    /\ registering' = registering \ {c}
    /\ registry' = IF Contains(registry, c) THEN registry ELSE Append(registry, c)
    /\ toClient' = IF Contains(registry, c) THEN toClient
                     ELSE [toClient EXCEPT ![c] = Append(@, Snapshot(session))]
    /\ UNCHANGED <<session, outbox, changes, link, answer, copy, reconnects, historyVars>>

(* _handle_register: the snapshot is taken and sent in one step. *)
HandleRegister(c) ==
    /\ c \in registering
    /\ registering' = registering \ {c}
    /\ registry' = IF Contains(registry, c) THEN registry ELSE Append(registry, c)
    /\ toClient' = [toClient EXCEPT ![c] = Append(@, Snapshot(session))]
    /\ UNCHANGED <<session, outbox, changes, link, answer, copy, reconnects, historyVars>>

-----------------------------------------------------------------------------
(* A client connects and registers. *)
Join(c) ==
    /\ link[c] = "off"
    /\ link' = [link EXCEPT ![c] = "registering"]
    /\ registering' = registering \union {c}
    /\ UNCHANGED <<serverVars, answer, copy, reconnects, historyVars, toClient>>

(* reconnect of a registered client: the queue is dropped with all that is  *)
(* in it, and the client registers again on a new one.                      *)
Reconnect(c) ==
    /\ link[c] = "on"
    /\ reconnects < MaxReconnects
    /\ reconnects' = reconnects + 1
    /\ toClient' = [toClient EXCEPT ![c] = <<>>]
    /\ link' = [link EXCEPT ![c] = "registering"]
    /\ registering' = registering \union {c}
    /\ UNCHANGED <<serverVars, answer, copy, historyVars>>

(* _recv_loop: a REGISTER_OK becomes the result of the future that register *)
(* waits for; a command is given to the handlers, which changes no copy.    *)
Receive(c) ==
    /\ link[c] # "off" /\ toClient[c] # <<>>
    /\ toClient' = [toClient EXCEPT ![c] = Tail(@)]
    /\ LET m == Head(toClient[c])
       IN  IF m.kind = "REGISTER_OK"
             THEN /\ answer' = [answer EXCEPT ![c] = m.view]
                  /\ link' = [link EXCEPT ![c] = "answered"]
                  /\ heard' = [heard EXCEPT ![c] = m.view]
                  /\ commanded' = commanded \ {c}
             ELSE /\ heard' = [heard EXCEPT ![c] = After(@, m.kind, m.trial)]
                  /\ commanded' = commanded \union {c}
                  /\ UNCHANGED <<answer, link>>
    /\ UNCHANGED <<serverVars, registering, copy, reconnects>>

(* register, in its own task: the snapshot replaces the copy, maybe after   *)
(* the receive loop gave later commands to the handlers.                    *)
ApplySnapshot(c) ==
    /\ link[c] = "answered"
    /\ link' = [link EXCEPT ![c] = "on"]
    /\ copy' = [copy EXCEPT ![c] = answer[c]]
    /\ answer' = [answer EXCEPT ![c] = NoSession]
    /\ UNCHANGED <<serverVars, toClient, registering, reconnects, historyVars>>

ClientStep(c) == Join(c) \/ Reconnect(c) \/ Receive(c) \/ ApplySnapshot(c)

Next ==
    \/ ChangeSession \/ ChangeTrial \/ MarkReady
    \/ RunSend
    \/ \E c \in Clients : HandleRegister(c) \/ ClientStep(c)

Spec == Init /\ [][Next]_vars

(* Tasks run, the server's loop turns and the clients receive; nobody has   *)
(* to connect, to reconnect or to change the session.                       *)
Fairness ==
    /\ WF_vars(RunSend)
    /\ \A c \in Clients :
          WF_vars(HandleRegister(c)) /\ WF_vars(Receive(c)) /\ WF_vars(ApplySnapshot(c))
FairSpec == Spec /\ Fairness

-----------------------------------------------------------------------------
TypeOK ==
    /\ session \in Views
    /\ registry \in Seq(Clients) /\ IsInjective(registry)
    /\ outbox \in Seq([to : Clients, msg : Messages])
    /\ toClient \in [Clients -> Seq(Messages)]
    /\ registering \subseteq Clients
    /\ link \in [Clients -> Links]
    /\ answer \in [Clients -> Views]
    /\ copy \in [Clients -> Views]
    /\ changes \in 0..MaxChanges
    /\ reconnects \in 0..MaxReconnects
    /\ heard \in [Clients -> Views]
    /\ commanded \subseteq Clients

Quiet(c) ==
    /\ link[c] = "on" /\ toClient[c] = <<>>
    /\ \A i \in DOMAIN outbox : outbox[i].to # c

(* Two views agree in all that a client is told of: mark_ready is not.      *)
Agree(view, w) ==
    /\ view.trial = w.trial /\ view.phase = w.phase
    /\ w.state \in {"RUNNING", "STOPPED"} => view.state = w.state

(* A client that joins late, or comes back after it lost what was on its    *)
(* way, misses nothing: once all is delivered, the snapshot it received and *)
(* the commands its handlers were given after it say what the server says,  *)
(* wherever its registration fell between a change and its commands; and    *)
(* its own copy is the server's if its handlers were given none.  (It is    *)
(* stale as soon as they were: no command changes it.)                      *)
CaughtUp ==
    \A c \in Clients : Quiet(c) =>
        /\ Agree(heard[c], session)
        /\ c \notin commanded => Agree(copy[c], session)

(* A client of the registry is told of everything in the end: there is no   *)
(* change that one which stays connected misses.                            *)
AllAreTold ==
    \A c \in Clients :
        link[c] = "registering" ~> link[c] = "on" /\ Quiet(c)
=============================================================================
