--------------------------- MODULE NetworkDoctor ---------------------------
(***************************************************************************)
(* The doctor command beside the client commands of Admission: it resolves *)
(* the server's address, tries its port and, if that seems to work, joins  *)
(* the server as a client of its own, with no timeout on any exchange.     *)
(***************************************************************************)
EXTENDS Admission, FiniteSetsExt, Integers

CONSTANTS
    DoctorConfigs,  \* the configurations a doctor may be started with
    Installed,      \* the sets of optional packages it may find installed
    Terminals       \* bound: the programs that run at the same time

ASSUME DoctorAssumption ==
    \A c \in DoctorConfigs :
        /\ Complete(c) /\ c.health.benchmark_ping_count \in Int
        /\ IsDict(c.security.shared_secrets)

VARIABLES
    probe,   \* where a doctor runs, with what, the target it found, the
             \* pings it has left, and whether a server ended with its
             \* question (a history variable)
    report   \* what it has found out

doctorVars == <<probe, report>>
vars == <<admissionVars, doctorVars>>

(* Where the server command listens; it publishes the address it binds to. *)
ServerHost == config.network.bind_host
ServerPort == config.network.control_port
Published == server # "down" /\ config.network.discovery = "zeroconf"

Loopback == {"any", "loopback"}
NoTarget == [host |-> "none", port |-> 0]
NoProbe == [config |-> Defaults, site |-> "server", packages |-> {}, target |-> NoTarget,
            pings |-> 0, lost |-> FALSE]
NoReport == [visible |-> FALSE, match |-> "unknown", reachable |-> FALSE,
             handshake |-> "none"]

Busy == {"resolving", "checking", "registering", "syncing"}

(* A server on the loopback address is found on its own machine only. *)
Listening(d) ==
    /\ server # "down"
    /\ probe[d].target.port = ServerPort
    /\ IF ServerHost = "loopback"
         THEN probe[d].target.host \in Loopback /\ probe[d].site = "server"
         ELSE probe[d].target.host = ServerHost

Linked(i) == i \in Doctors => Listening(i)

Move(d, from, to) == phase[d] = from /\ phase' = [phase EXCEPT ![d] = to]
Note(d, field, value) == report' = [report EXCEPT ![d][field] = value]

(* What a doctor that is done no longer needs. *)
Forget(d) ==
    probe' = [probe EXCEPT ![d].config = Defaults, ![d].packages = {}, ![d].pings = 0,
                           ![d].lost = FALSE]

(* Mutant of Samples: no ping when none is configured. *)
SamplesAsConfigured(c) == Min({c.health.benchmark_ping_count, 5})

(* The pings of a probe: one at least, and five at most. *)
Samples(c) == Min({Max({c.health.benchmark_ping_count, 1}), 5})

-----------------------------------------------------------------------------
Init ==
    /\ AdmissionInit
    /\ probe = [d \in Doctors |-> NoProbe]
    /\ report = [d \in Doctors |-> NoReport]

(* run: the packages, the configuration and the machine it runs on. *)
StartDoctor(d, c, site, packages) ==
    /\ Move(d, "off", "resolving")
    /\ probe' = [probe EXCEPT ![d].config = c, ![d].site = site, ![d].packages = packages,
                              ![d].pings = Samples(c)]
    /\ setup' = [setup EXCEPT ![d] = Setup(c, d, "doctor")]
    /\ UNCHANGED <<serverVars, answer, terms, recovering, said, netVars, report>>

Looks(d) == "zeroconf" \in probe[d].packages /\ probe[d].config.network.discovery = "zeroconf"

(* A record has the server's version as a text, a number included; the     *)
(* doctor compares it with its own as that is configured.                  *)
AsText(version) ==
    IF version.kind = "number" THEN [version EXCEPT !.kind = "text"] ELSE version

(* _resolve_target with a record: discover(timeout=0) takes what the thread *)
(* of the browser has added by then.                                        *)
ResolveRecord(d) ==
    /\ Move(d, "resolving", "checking")
    /\ Looks(d)
    /\ Published
    /\ probe' = [probe EXCEPT ![d].target = [host |-> ServerHost, port |-> ServerPort]]
    /\ report' = [report EXCEPT ![d].visible = TRUE,
                    ![d].match = IF AsText(config.protocol.version) = setup[d].version
                                   THEN "yes" ELSE "no"]
    /\ UNCHANGED <<serverVars, setup, answer, terms, recovering, said, netVars>>

(* ... or none, with or without zeroconf: _manual_target. *)
ResolveManual(d) ==
    LET network == probe[d].config.network
    IN  /\ Move(d, "resolving", "checking")
        /\ probe' = [probe EXCEPT ![d].target =
                        [host |-> network.host, port |-> network.control_port]]
        /\ UNCHANGED <<serverVars, setup, answer, terms, recovering, said, netVars, report>>

(* The browser's thread adds a record while discover iterates over them. *)
DiscoverRaises(d) ==
    /\ Move(d, "resolving", "raised")
    /\ Looks(d)
    /\ Published
    /\ Forget(d)
    /\ setup' = [setup EXCEPT ![d] = NoSetup]
    /\ UNCHANGED <<serverVars, answer, terms, recovering, said, netVars, report>>

(* _check_port takes a loopback target for reachable in any case. *)
Reachable(d) == Listening(d) \/ probe[d].target.host \in Loopback

Probes(d) ==
    /\ probe[d].config.network.backend = "zmq"
    /\ "zmq" \in probe[d].packages
    /\ Reachable(d)

(* _make_probe_config, and what the probe's client takes from it. *)
ProbeConfig(d) ==
    LET target == probe[d].target
    IN  WithNetwork(probe[d].config,
            [host |-> IF target.host = "any" THEN "loopback" ELSE target.host,
             control_port |-> target.port])

Probe(d) ==
    LET c == ProbeConfig(d)
        s == Setup(c, d, "doctor")
    IN  /\ Probes(d)
        /\ Move(d, "checking", "registering")
        /\ Note(d, "reachable", TRUE)
        /\ setup' = [setup EXCEPT ![d] = s]
        /\ terms' = [terms EXCEPT ![d] = [version |-> s.version, capabilities |-> {}]]
        /\ probe' = [probe EXCEPT ![d].target.host = c.network.host]
        /\ sent' = [sent EXCEPT ![d] = Append(@, Register(s))]
        /\ UNCHANGED <<serverVars, answer, recovering, said, reply>>

SkipProbe(d) ==
    /\ ~Probes(d)
    /\ Move(d, "checking", "reported")
    /\ Note(d, "reachable", Reachable(d))
    /\ Forget(d)
    /\ UNCHANGED <<serverVars, setup, answer, terms, recovering, said, netVars>>

(* The probe's client is closed, and the report is made. *)
StopProbe(d, messages) ==
    /\ Forget(d)
    /\ answer' = [answer EXCEPT ![d] = "none"]
    /\ terms' = [terms EXCEPT ![d] = NoTerms]
    /\ said' = [said EXCEPT ![d] = {}]
    /\ \E kept \in Abandoned(messages) : sent' = [sent EXCEPT ![d] = kept]

Leave(d, handshake, messages) ==
    /\ phase' = [phase EXCEPT ![d] = "reported"]
    /\ Note(d, "handshake", handshake)
    /\ StopProbe(d, messages)

(* Mutant of HandshakeOk: any answer is taken for a success. *)
HandshakeAnswered(answered) == answered.kind = "REGISTER"

HandshakeOk(answered) == answered.verdict = "OK"

(* register's answer: a refusal ends the probe, otherwise the pings begin. *)
ProbeRegistered(d) ==
    /\ phase[d] = "registering"
    /\ reply[d].kind = "REGISTER"
    /\ reply' = [reply EXCEPT ![d] = NoReply]
    /\ IF HandshakeOk(reply[d])
         THEN /\ phase' = [phase EXCEPT ![d] = "syncing"]
              /\ answer' = [answer EXCEPT ![d] = reply[d].verdict]
              /\ terms' = [terms EXCEPT ![d] = reply[d].terms]
              /\ sent' = [sent EXCEPT ![d] = Append(@, Ping)]
              /\ UNCHANGED <<said, doctorVars>>
         ELSE Leave(d, "failed", sent[d])
    /\ UNCHANGED <<serverVars, setup, recovering>>

(* sync_clock's answer: the status is reported, and the next ping sent. *)
ProbeSynced(d) ==
    LET messages == Append(sent[d], Status("SYNCED"))
    IN  /\ phase[d] = "syncing"
        /\ reply[d].kind = "PING"
        /\ reply' = [reply EXCEPT ![d] = NoReply]
        /\ IF probe[d].pings > 1
             THEN /\ said' = [said EXCEPT ![d] = @ \union {"SYNCED"}]
                  /\ sent' = [sent EXCEPT ![d] = Append(messages, Ping)]
                  /\ probe' = [probe EXCEPT ![d].pings = @ - 1]
                  /\ UNCHANGED <<phase, answer, terms, report>>
             ELSE Leave(d, "ok", messages)
        /\ UNCHANGED <<serverVars, setup, recovering>>

(* A doctor that does not come back is interrupted, and makes no report. *)
Interrupt(d) ==
    /\ phase[d] \in Busy
    /\ phase' = [phase EXCEPT ![d] = "raised"]
    /\ setup' = [setup EXCEPT ![d] = NoSetup]
    /\ report' = [report EXCEPT ![d] = NoReport]
    /\ reply' = [reply EXCEPT ![d] = NoReply]
    /\ StopProbe(d, sent[d])
    /\ UNCHANGED <<serverVars, recovering>>

-----------------------------------------------------------------------------
Free == Cardinality({i \in Ids : phase[i] \notin {"off", "reported", "raised"}}) < Terminals

DoctorRuns(d) ==
    \/ ResolveRecord(d) \/ ResolveManual(d) \/ DiscoverRaises(d)
    \/ Probe(d) \/ SkipProbe(d)
    \/ ProbeRegistered(d) \/ ProbeSynced(d)

DoctorStarts(d) ==
    \E c \in DoctorConfigs, site \in {"server", "other"}, packages \in Installed :
        StartDoctor(d, c, site, packages)

(* The questions of doctors that are lost with a server that is stopped, or *)
(* that dies of them.                                                       *)
Orphan ==
    probe' = [d \in Doctors |-> [probe[d] EXCEPT
                !.lost = @ \/ (/\ phase[d] \in Busy /\ server' # "up"
                              /\ sent[d] # <<>> /\ sent'[d] = <<>>)]]

ServeLoop(i) == Linked(i) /\ Handle(i) /\ Orphan /\ UNCHANGED report

Next ==
    \/ \E i \in Clients : /\ phase[i] = "off" => Free
                          /\ ClientCommand(i)
                          /\ UNCHANGED doctorVars
    \/ \E d \in Doctors : Free /\ DoctorStarts(d)
    \/ \E d \in Doctors : DoctorRuns(d) \/ Interrupt(d)
    \/ \E i \in Ids : ServeLoop(i) \/ (HealthScan(i) /\ UNCHANGED doctorVars)
    \/ ServerStart /\ UNCHANGED doctorVars
    \/ ServerStop /\ Orphan /\ UNCHANGED report

Spec == Init /\ [][Next]_vars

(* The doctor's steps that do not wait for the server are its own, and the *)
(* serve loop, as long as it runs, takes what has reached it.              *)
Fairness ==
    \A d \in Doctors :
        /\ WF_vars(DoctorRuns(d))
        /\ WF_vars(ServeLoop(d))

FairSpec == Spec /\ Fairness

-----------------------------------------------------------------------------
Phases == {"off", "resolving", "checking", "registering", "syncing", "running",
           "reported", "raised"}

TypeOK ==
    /\ config \in ServerConfigs
    /\ server \in {"down", "up", "dead"}
    /\ \A i \in Ids :
          /\ entry[i].status \in Statuses
          /\ phase[i] \in Phases
          /\ answer[i] \in Verdicts \union {"none"}
          /\ said[i] \subseteq Statuses
    /\ recovering \subseteq Clients
    /\ \A d \in Doctors :
          /\ probe[d].pings \in (IF phase[d] \in Busy THEN 1..5 ELSE {0})
          /\ report[d].handshake \in {"none", "ok", "failed"}

(* The report of a doctor is the server's verdict: a handshake that went    *)
(* well means that the server admits clients of the doctor's version, one   *)
(* that failed that it does not, and never for the version if the versions  *)
(* were said to match; a target that is not reached was not joined, and is  *)
(* none on the doctor's own machine.                                        *)
ReportIsTrue ==
    \A d \in Doctors : phase[d] = "reported" =>
        LET r == report[d]
            admitted == Admits(config, d, setup[d])
        IN  /\ r.handshake = "ok" => admitted
            /\ r.handshake = "failed" => ~admitted
            /\ r.handshake = "failed" /\ r.match = "yes" => config.security.require_secret
            /\ ~r.reachable => r.handshake = "none" /\ probe[d].target.host \notin Loopback

(* A doctor comes back, refused or not, unless what it asked a server can   *)
(* no more be answered: no server that runs is there, or one was stopped    *)
(* with the question or died of it.                                         *)
Unanswered(d) ==
    /\ phase[d] \in {"registering", "syncing"}
    /\ reply[d] = NoReply
    /\ \/ server # "up"
       \/ ~Listening(d)
       \/ probe[d].lost

DoctorReturns ==
    \A d \in Doctors : phase[d] \in Busy ~> phase[d] \notin Busy \/ Unanswered(d)
=============================================================================
