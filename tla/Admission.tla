----------------------------- MODULE Admission -----------------------------
(***************************************************************************)
(* The client command, run after run, against the registration handler of  *)
(* a server that may be stopped and started: what the client believes of   *)
(* its registration, and what the registry holds of it.                    *)
(*                                                                         *)
(* An id is used by one program at a time, which has at most one exchange  *)
(* open.  Messages of an id reach the server in order; a request is        *)
(* "live" as long as the program that sent it still waits for its answer   *)
(* on the same connection.  Heartbeats leave the status of an entry alone  *)
(* and are left out; the health scan may find any client silent.           *)
(***************************************************************************)
EXTENDS Handshake, Sequences

CONSTANTS
    Clients,        \* the ids of client commands
    Doctors,        \* the ids of probes, each of which is used once
    ClientSetups,   \* what a client command may be started with
    ServerConfigs,  \* the configurations a server may have, as Normalize leaves them
    MaxInFlight     \* bound: no start and no reconnect behind more messages

Ids == Clients \union Doctors

ASSUME AdmissionAssumption ==
    /\ Clients \intersect Doctors = {}
    /\ MaxInFlight \in Nat

VARIABLES
    config,      \* the configuration of the server
    server,      \* "down", "up", or "dead": the serve loop ended with an exception
    entry,       \* what the registry holds of an id
    phase,       \* what the program of an id waits for
    setup,       \* what it was started with
    answer,      \* what it was told of its registration
    terms,       \* its negotiated version and capabilities
    recovering,  \* the clients that register again after a failure
    said,        \* the statuses it has reported in this run
    sent,        \* its messages on their way to the server
    reply        \* the answer on its way back

serverVars == <<config, server, entry>>
clientVars == <<phase, setup, answer, terms, recovering, said>>
netVars == <<sent, reply>>
admissionVars == <<serverVars, clientVars, netVars>>

Statuses == {"REGISTERED", "SYNCED", "READY", "DEGRADED", "REJECTED", "DISCONNECTED"}
NoEntry == [role |-> "none", terms |-> NoTerms, status |-> "DISCONNECTED"]
NoSetup == [role |-> "none", version |-> Text(0, 0), secret |-> NoSecret]
NoReply == [kind |-> "none", verdict |-> "none", terms |-> NoTerms]

Message(kind, s, status) == [kind |-> kind, setup |-> s, status |-> status, live |-> TRUE]
Register(s) == Message("REGISTER", s, "none")
Ping == Message("PING", NoSetup, "none")
Status(status) == Message("CLIENT_STATUS", NoSetup, status)

Known(i) == entry[i] # NoEntry

(* What is under way when a connection is closed is lost or goes on, but *)
(* nobody waits for an answer to it any more.                            *)
Abandoned(messages) ==
    {<<>>, [k \in DOMAIN messages |-> [messages[k] EXCEPT !.live = FALSE]]}

-----------------------------------------------------------------------------
AdmissionInit ==
    /\ config \in ServerConfigs
    /\ server = "down"
    /\ entry = [i \in Ids |-> NoEntry]
    /\ phase = [i \in Ids |-> "off"]
    /\ setup = [i \in Ids |-> NoSetup]
    /\ answer = [i \in Ids |-> "none"]
    /\ terms = [i \in Ids |-> NoTerms]
    /\ recovering = {}
    /\ said = [i \in Ids |-> {}]
    /\ sent = [i \in Ids |-> <<>>]
    /\ reply = [i \in Ids |-> NoReply]

(* run_client_command up to register's await. *)
StartClient(i, s) ==
    /\ phase[i] = "off"
    /\ Len(sent[i]) < MaxInFlight
    /\ phase' = [phase EXCEPT ![i] = "registering"]
    /\ setup' = [setup EXCEPT ![i] = s]
    /\ answer' = [answer EXCEPT ![i] = "none"]
    /\ terms' = [terms EXCEPT ![i] = [version |-> s.version, capabilities |-> {}]]
    /\ said' = [said EXCEPT ![i] = {}]
    /\ sent' = [sent EXCEPT ![i] = Append(@, Register(s))]
    /\ UNCHANGED <<serverVars, recovering, reply>>

(* register's answer; the command goes on to sync_clock whatever it says. *)
Registered(i) ==
    /\ phase[i] = "registering"
    /\ reply[i].kind = "REGISTER"
    /\ phase' = [phase EXCEPT ![i] = "syncing"]
    /\ answer' = [answer EXCEPT ![i] = reply[i].verdict]
    /\ terms' = IF reply[i].verdict = "OK"
                  THEN [terms EXCEPT ![i] = reply[i].terms] ELSE terms
    /\ sent' = [sent EXCEPT ![i] = Append(@, Ping)]
    /\ reply' = [reply EXCEPT ![i] = NoReply]
    /\ UNCHANGED <<serverVars, setup, recovering, said>>

(* sync_clock's answer, and ready; a reconnect preserves the status of the *)
(* registration, the command itself goes on to SYNCED.                     *)
Synced(i) ==
    LET first == IF i \notin recovering THEN "SYNCED"
                 ELSE IF answer[i] = "OK" THEN "REGISTERED" ELSE "REJECTED"
    IN  /\ phase[i] = "syncing"
        /\ reply[i].kind = "PING"
        /\ phase' = [phase EXCEPT ![i] = "running"]
        /\ said' = [said EXCEPT ![i] = @ \union {first, "READY"}]
        /\ recovering' = recovering \ {i}
        /\ sent' = [sent EXCEPT ![i] = @ \o <<Status(first), Status("READY")>>]
        /\ reply' = [reply EXCEPT ![i] = NoReply]
        /\ UNCHANGED <<serverVars, setup, answer, terms>>

(* A send of the heartbeat loop raised: transport.stop, start, register. *)
Reconnect(i) ==
    /\ phase[i] = "running"
    /\ Len(sent[i]) < MaxInFlight
    /\ phase' = [phase EXCEPT ![i] = "registering"]
    /\ recovering' = recovering \union {i}
    /\ \E kept \in Abandoned(sent[i]) :
          sent' = [sent EXCEPT ![i] = Append(kept, Register(setup[i]))]
    /\ UNCHANGED <<serverVars, setup, answer, terms, said, reply>>

(* The command returns, fails or is killed; the server is not told. *)
End(i) ==
    /\ phase[i] # "off"
    /\ phase' = [phase EXCEPT ![i] = "off"]
    /\ setup' = [setup EXCEPT ![i] = NoSetup]
    /\ answer' = [answer EXCEPT ![i] = "none"]
    /\ terms' = [terms EXCEPT ![i] = NoTerms]
    /\ recovering' = recovering \ {i}
    /\ said' = [said EXCEPT ![i] = {}]
    /\ \E kept \in Abandoned(sent[i]) : sent' = [sent EXCEPT ![i] = kept]
    /\ reply' = [reply EXCEPT ![i] = NoReply]
    /\ UNCHANGED serverVars

-----------------------------------------------------------------------------
(* A turn of the serve loop with a message of i. *)
Take(i, kind) ==
    /\ server = "up"
    /\ sent[i] # <<>>
    /\ Head(sent[i]).kind = kind
    /\ sent' = [sent EXCEPT ![i] = Tail(@)]

(* Mutant of Respond: a client that is refused is not told. *)
RespondUnlessRefused(i, answered) ==
    IF Head(sent[i]).live
      THEN /\ reply' = IF answered.verdict \in {"OK", "none"}
                         THEN [reply EXCEPT ![i] = answered] ELSE reply
           /\ UNCHANGED server
      ELSE /\ server' \in {"up", "dead"}
           /\ UNCHANGED reply

(* transport.send, outside of any try: the answer to a connection that is   *)
(* gone is dropped, goes to the next connection of the id, where nobody     *)
(* waits for it, or raises (router_mandatory), which ends the serve loop.   *)
Respond(i, answered) ==
    IF Head(sent[i]).live
      THEN /\ reply' = [reply EXCEPT ![i] = answered]
           /\ UNCHANGED server
      ELSE /\ server' \in {"up", "dead"}
           /\ UNCHANGED reply

(* Mutants of RegisterOrRefresh: a refresh keeps the capabilities of the    *)
(* first registration, and it keeps the status.                             *)
RefreshKeepsTerms(i, s, agreed) ==
    entry' = [entry EXCEPT ![i] =
        [role |-> s.role, status |-> "REGISTERED",
         terms |-> IF entry[i].status = "DISCONNECTED" THEN agreed ELSE entry[i].terms]]

RefreshKeepsStatus(i, s, agreed) ==
    entry' = [entry EXCEPT ![i] =
        [role |-> s.role, terms |-> agreed,
         status |-> IF entry[i].status = "DISCONNECTED" THEN "REGISTERED"
                    ELSE entry[i].status]]

(* register_or_refresh of a client whose role is not in the way: a new entry *)
(* and a refreshed one hold the same.                                        *)
RegisterOrRefresh(i, s, agreed) ==
    entry' = [entry EXCEPT ![i] =
        [role |-> s.role, terms |-> agreed, status |-> "REGISTERED"]]

(* _handle_register *)
HandleRegister(i) ==
    LET s == Head(sent[i]).setup
        taken == entry[i].status # "DISCONNECTED" /\ entry[i].role # s.role
        verdict == Verdict(config, i, s, taken)
        agreed == Negotiated(config, s)
    IN  /\ Take(i, "REGISTER")
        /\ ~Undecidable(config, s.version)
        /\ IF verdict = "OK" THEN RegisterOrRefresh(i, s, agreed) ELSE UNCHANGED entry
        /\ Respond(i, [kind |-> "REGISTER", verdict |-> verdict,
                       terms |-> IF verdict = "OK" THEN agreed ELSE NoTerms])
        /\ UNCHANGED <<config, clientVars>>

(* ... whose exception on what it cannot decide ends the serve loop. *)
HandlerRaises(i) ==
    /\ Take(i, "REGISTER")
    /\ Undecidable(config, Head(sent[i]).setup.version)
    /\ server' = "dead"
    /\ UNCHANGED <<config, entry, clientVars, reply>>

(* _handle_ping answers anybody, admitted or not. *)
HandlePing(i) ==
    /\ Take(i, "PING")
    /\ Respond(i, [kind |-> "PING", verdict |-> "none", terms |-> NoTerms])
    /\ UNCHANGED <<config, entry, clientVars>>

(* CLIENT_STATUS is written to the entry of the id, if there is one. *)
HandleStatus(i) ==
    /\ Take(i, "CLIENT_STATUS")
    /\ entry' = IF Known(i) THEN [entry EXCEPT ![i].status = Head(sent[i]).status]
                ELSE entry
    /\ UNCHANGED <<config, server, clientVars, reply>>

Handle(i) == HandleRegister(i) \/ HandlerRaises(i) \/ HandlePing(i) \/ HandleStatus(i)

(* The health scan finds the client silent, for half the timeout or all of it. *)
HealthScan(i) ==
    /\ server = "up"
    /\ Known(i)
    /\ \E status \in {"DEGRADED", "DISCONNECTED"} :
          /\ entry[i].status \notin {status, "DISCONNECTED"}
          /\ status = "DEGRADED" => entry[i].status # "REJECTED"
          /\ entry' = [entry EXCEPT ![i].status = status]
    /\ UNCHANGED <<config, server, clientVars, netVars>>

ServerStart ==
    /\ server = "down"
    /\ server' = "up"
    /\ UNCHANGED <<config, entry, clientVars, netVars>>

(* The registry dies with the server, and so may what was on its way. *)
ServerStop ==
    /\ server # "down"
    /\ server' = "down"
    /\ entry' = [i \in Ids |-> NoEntry]
    /\ \E lost \in SUBSET Ids :
          sent' = [i \in Ids |-> IF i \in lost THEN <<>> ELSE sent[i]]
    /\ UNCHANGED <<config, clientVars, reply>>

ClientCommand(i) ==
    \/ \E s \in ClientSetups : StartClient(i, s)
    \/ Registered(i) \/ Synced(i) \/ Reconnect(i) \/ End(i)

-----------------------------------------------------------------------------
(* A client that was admitted in this run and the registry agree on its     *)
(* role, version and capabilities, whatever its id was registered with      *)
(* before, and however the server was restarted meanwhile.                  *)
TermsAgree ==
    \A i \in Ids :
        answer[i] = "OK" /\ Known(i) =>
            /\ entry[i].role = setup[i].role
            /\ entry[i].terms = terms[i]

(* What the barrier waits for: the registry shows an admitted client as     *)
(* SYNCED or READY only if it has said so in this run; the READY of an      *)
(* earlier run of its id, which may come in late, never stands in for it.   *)
ReadyIsOfThisRun ==
    \A i \in Ids :
        answer[i] = "OK" /\ Known(i) /\ entry[i].status \in {"SYNCED", "READY"} =>
            entry[i].status \in said[i]
=============================================================================
