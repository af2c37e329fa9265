# A TLA+ verification project for psyexp-net

psyexp-net connects the machines of a psychology experiment: one `ExperimentServer` drives a
session, `ExperimentClient`s present stimuli and collect responses, and a trial has to start on
all of them at the same moment. The program is single-threaded asyncio on each machine, so what
is hard about it is not memory but *order*: several tasks share state and lose it at every
`await`, messages come late, twice or never, and every clock runs on its own.

This directory has TLA+ modules translated from `src/psyexp_net`, TLC configurations that check
them on small instances, and TLAPS proofs for every value of the constants. `PROJECT.json` maps
each definition to the lines it models, and lists the runs, the mutants that show each property
can fail, the findings, the hazards and the theorems.

    tlc -workers 2 -config ClientRegistry.cfg MCClientRegistry     # model-check one run
    tlapm CommandFanoutProofs.tla                                  # check the proofs of a module

## 1. Inventory

| Component | Source | State it keeps | Operations |
|---|---|---|---|
| Command fan-out, ACK tracking | `runtime/server.py` 286-369, 405-431; `protocol/ack.py` | `pending`, `_message_tracking`, `_command_groups`, one future per call | `_send_to_all`, `_send_control`, ACK handling, `_expire_acks`, `_observe_ack_timing` |
| Registry, health scan, barrier | `runtime/registry.py`, `runtime/barrier.py`, `server.py` 85-92, 159-266, 371-403 | per client: role, status, `last_seen`; the state of the session | register or refresh, touch, status report, heartbeat, scan, `wait_until_ready` |
| Client runtime | `runtime/client.py` | `status`, `_responses`, `_reconnect_lock`, `_running`, `_closing`, two loop tasks | `connect`, `register`, `sync_clock`, `ready`, `reconnect`, `close`, receive loop, heartbeat loop |
| Session | `runtime/session.py` | id, state, trial, phase; a copy on each client | create, start, stop, arm, start and end a trial, `mark_ready`, snapshot, `apply_snapshot` |
| Clock synchronisation | `timing/sync.py`, `runtime/scheduler.py`, `client.py` 127-145, 236-252 | offset and round trip per client | PING/PONG, estimate, `resolve_execute_at`, waiting for the start of a trial |
| Deduplication | `protocol/ack.py` 69-83 | an ordered, bounded set of message ids | `seen` |
| Result collection | `server.py` 57, 143-144, 183-187 | a queue per role | RESULT_REPORT, `collect` |
| Server lifecycle, server command | `server.py` 65-83, 146-157; `cli/main.py` 284-343 | serve task, `_running`, the zeroconf registration | `start`, serve loop, the session, `finally`, `shutdown` |
| Event recorder, replay | `logging/recorder.py`, `logging/replay.py` | log file, counts, trial and peer ids, `summary.json` | `record`, `close`; timelines |
| Transports | `transport/memory.py`, `transport/zmq_lan.py` | queues; sockets and poller | start, stop, send, broadcast, recv across its awaits |
| Benchmark | `health/benchmark.py` | - | rounds of `start_trial`, `collect`, `broadcast_state` |
| Versioning, authentication | `protocol/versioning.py`, `security/auth.py`, `server.py` 212-273 | what the registry holds of an id; what the client negotiated | `negotiate_protocol`, `validate`, `_handle_register` |
| Client command | `cli/main.py` 346-402 | - | start, register, `sync_clock`, `ready`, end |
| Messages, codec, schemas | `protocol/message.py`, `codec.py`, `registry.py` | - | pure conversions |
| Discovery | `discovery/` | the published service | register, close, discover |
| Doctor | `health/doctor.py` | its report, the client of its probe | resolve the target, try the port, probe |
| Configuration | `config.py`, `cli/main.py` 181-209 | a configuration | merge of the sources, coercion, adaptations of the commands |
| Statistics, monitors, demo | `logging/metrics.py`, `timing/`, `health/monitors.py`, `cli/main.py` 405-444 | lists of floats | diagnostics, a fixed script |

**How they interact.** The server has one serve loop, which receives every message, records it,
runs its handler and then scans the pending ACKs and the health of the clients. The experimenter's
task calls `start_session` and its kin, which change the session at once and start one sending
task per registered client; these tasks wait on futures that only the serve loop completes. A
client has a receive loop (the only one to complete its own exchanges and to run handlers), a
heartbeat loop (which also synchronises the clock), and the application. All three may write
`status`, and both loops may reconnect. Registry, session, pending table and recorder are shared
by the serve loop and the experimenter's tasks without locks, safe only between two `await`s.

**What is hard, and what makes each part correct.**

* *Fan-out.* ACK, caller timeout and expiry scan race for one call, and three tables are cleaned on
  three paths. Correct: success means that everyone carried the command out; success leaves nothing
  in the tables; no client can hang a command.
* *Registry and barrier.* The scan and the handlers overwrite one status and one time stamp. Correct:
  a healthy status is recent, silence is found in bounded time, nobody is dropped who was just heard,
  the barrier passes only on live clients.
* *Client.* Three tasks, one status, one lock, and replies that only one task delivers. Correct: the
  server's view is the client's; the lock belongs to the one that reconnects; reconnects end; closing
  is final.
* *Session.* A registration may fall between a change and its commands, and its snapshot be applied after
  later commands were dispatched. Correct: a late or returning client is told all that the server knows.
* *Clocks.* Asymmetric delays, and a receive loop that sleeps. Correct: estimates are within half a
  round trip, nobody starts early, all start together.
* *Rounds.* Results are per role, not per trial; repeated commands have to be recognised. Correct: a
  result is collected in its round; a command runs once.
* *Admission.* Ids are used run after run, statuses of an earlier run come in late, the server is
  restarted and knows nobody, a client goes on whatever it was told. Correct: client and registry agree
  on what was negotiated; nobody is taken for ready by the word of an earlier run.
* *Transport.* `recv` reads the transport before and after it suspends, and another task replaces it in
  between. Correct: nothing twice, nothing out of order, nothing that arrived is left lying.
* *Doctor.* A client with no timeout on any exchange, against a server that comes and goes. Correct: the
  report is the server's verdict, and there is one.
* *Configuration.* Four sources, three of them merged twice. Correct: the last one that speaks wins.
* *Lifecycle and log.* Any await may fail, the serve loop may die, and tasks record while the server
  shuts down. Correct: the command ends, cleans up, and its log and summary tell what happened.

## 2. Modules

| Module | Models | Main actions |
|---|---|---|
| `CommandFanout` | the fan-out with both of its clocks, per command and client | `Issue`, `CallStart`, `Transmit`, `SendError`, `CallSent`, `PeerApply`, `Lose`, `HandleAck`, `Scan`, `CallResume`, `CallTimeout`, `ReturnOk`, `ReturnFailed`, `Tick` |
| `FanoutContract` | what the fan-out promises an experimenter (abstract) | `Join`, `Issue`, `CarryOut`, `Succeed`, `Fail` |
| `ClientRegistry` | registry, serve-loop turns with their scan, barrier | `RegisterOk`, `RegisterReject`, `Report`, `SignOfLife`, `IdleTurn`, `StartWait`, `Poll`, `Tick` |
| `ClientRuntime` | the three tasks of one client, against a server | one action per stretch between two awaits: `AppSync`, `AppSynced`, `RecvReply`, `HbRaises`, `TakeLock`, ... |
| `SessionSync` | the session, its commands and snapshots, the clients' copies | `ChangeSession`, `ChangeTrial`, `MarkReady`, `RunSend`, `HandleRegister`, `Join`, `Reconnect`, `Receive`, `ApplySnapshot` |
| `ClockSync` | time stamps, estimates, scheduled starts | `SendPing`, `HandlePing`, `SendPong`, `TakePong`, `StartTrial`, `ReceiveStart`, `RunTrial`, `Tick` |
| `TrialRounds` | rounds of trials, result queues, deduplication, repeated messages | `StartTrial`, `Collect`, `EndRound`, `Receive`, `RunHandler`, `SendAck`, `HandleResult`, `HandleAck`, `Expire`, `Repeat` |
| `EventLog` | the replay's reading of a log (no state) | `TrialTimeline`, `MessageTimeline`, `Acks`, ... |
| `ServerLifecycle` (extends `EventLog`) | `run_server_command` with serve loop, sending tasks and recorder | `StartServer`, `Publish`, `Wait`, `Issue`, `Gather`, `Collect`, `Withdraw`, `Shutdown`, `CloseRecorder`, `ServeTurn`, `ServeRaises`, ... |
| `AppConfig` | where a configuration comes from (no state) | `DeepMerge`, `FromMapping`, `FromSources`, `Raises`, `Normalize`, ... |
| `Handshake` (extends `AppConfig`) | how a server decides on a registration (no state) | `Compatible`, `Negotiated`, `Authentic`, `Verdict`, ... |
| `Admission` (extends `Handshake`) | `run_client_command`, run after run, against `_handle_register` and a server that is restarted | `StartClient`, `Registered`, `Synced`, `Reconnect`, `End`, `HandleRegister`, `HandlerRaises`, `HandlePing`, `HandleStatus`, `HealthScan`, `ServerStart`, `ServerStop` |
| `NetworkDoctor` (extends `Admission`) | the doctor beside these clients, as one more of them | `StartDoctor`, `ResolveRecord`, `ResolveManual`, `DiscoverRaises`, `Probe`, `SkipProbe`, `ProbeRegistered`, `ProbeSynced`, `Interrupt` |
| `TransportContract` | what a client may rely on, over either transport (abstract) | `Send`, `Broadcast`, `Receive` |
| `Transport` | the way to the clients in memory and over ZeroMQ, and the receive loop at its end | `Connect`, `Reconnect`, `Close`, `Call`, `PollReturns`, `Get`, `Expire`, `Receive`, `Misread`, `Unblock`, `Cancelled`, `RecvReconnect`, `RouteUp`, `Send`, `Broadcast`, ... |
| `CommandFanoutProofs`, `ClientRegistryProofs`, `ClientRuntimeProofs`, `TrialRoundsProofs`, `ServerLifecycleProofs`, `TransportProofs` | theorems about the module each is named after | |
| `SyncProofs` | theorems about `ClockSync` and `SessionSync`: what a client knows of the server's time and session | |
| `AdmissionProofs` | theorems about `AppConfig`, `Admission` and `NetworkDoctor`, which extend each other | |
| `MC...` | constants of the runs | |

**How state corresponds.** One action is what a task does between two awaits that may suspend: an
asyncio task cannot be interrupted elsewhere. Where sending does not suspend (the in-memory
transport) it is part of the action; where it may (a fan-out's `transport.send`) it is a step of its
own. A table keyed by ids is the set of its keys or a function on them; a future is a member of the
set of calls or tasks that have their answer. A message is a record of the fields the properties
tell apart. Variables marked *history* exist only to state properties.

**Time.** `ClientRegistry` counts the ticks since an event and saturates beyond every threshold of
the code; `CommandFanout` counts down what is left of each timeout. Neither bounds how long the
system runs. `ClockSync` uses integer time stamps, doubled where the code divides by two, so that
nothing is rounded. Where only the possibility of a timeout matters (`TrialRounds`,
`ServerLifecycle`) it may happen at any moment.

**Composition.** The modules overlap on purpose: the fan-out is modelled in full once, and
`TrialRounds`, `SessionSync` and `ServerLifecycle` use what it promises (in the form of a simpler
call with an entry that may expire whenever it likes). `ClientRegistry` takes accepting and rejecting for a choice and counts time; `Admission` has the decision
itself and lets the health scan strike at any moment; `NetworkDoctor` joins the doctor to it, whose
probe registers with the same handler, in the same registry. Two abstract specifications say what a
part promises the others: `FanoutContract`, which `CommandFanout` implements under the mapping written at
its end, and `TransportContract`, which `Transport` implements with both transports; the FIFO queues of
`SessionSync`, `TrialRounds` and `ClientRuntime` are what it promises in memory.

**External code.** What pyzmq does is not in the repository; `Transport` and `Admission` take what the
code in `src` has to reckon with: sockets connect some time after `start`; a ROUTER without a route
raises or drops, as `router_mandatory` says, and hands a connection over as `router_handover` says; a
socket that is closed may cancel the poll or the receive that waits on it, or leave it waiting; what
a closed DEALER had queued may be sent within its linger or be lost.

## 3. Runs

| Run | Instance | Checks |
|---|---|---|
| `fanout` | 2 clients, an acknowledged command, timeout of 2 ticks | `OkMeansApplied`, `CleanAfterSuccess`, `GroupComplete`, `ImplementsContract`, `EveryCommandReturns`, `PendingDrains` |
| `registry` | 2 clients, 2 required roles, timeout of 4 ticks, a scan every 2 | `HealthyIsFresh`, `SilentIsDropped`, `NoFalseDisconnect`, `BarrierPassesLive`, `BarrierReturns` |
| `client` | 1 client; sending may fail twice, everything else once | `ViewAgrees`, `LockHeldByReconnect`, `NoRegisterAfterClose`, `HbReconnectEnds` |
| `session` | 2 clients, 2 trials, 2 changes, one reconnect of either | `CaughtUp`, `AllAreTold` |
| `clock_sync` | 2 clients, one ahead of the server and one behind | `OffsetWithinHalfRtt`, `NeverEarly`, `SkewBounded` |
| `trial_rounds` | 2 peers, 3 rounds, 2 repeated messages, a deduplicator of 2 ids | `ResultsAreOfRound`, `RunsOnce`, `AcksAreTimed` |
| `lifecycle` | 2 clients, a failure possible at every await | `SummaryAgreesWithLog`, `CommandsAreLogged`, `EndsClean`, `CommandEnds` |
| `doctor` | 1 client id with four setups (versions, secrets, roles), 1 doctor with three configurations (one with a number for its version), two servers (open, and locked on the LAN), one program at a time besides what is still under way | `TermsAgree`, `ReadyIsOfThisRun`, `ReportIsTrue`, `DoctorReturns` |
| `transport` | 1 client, 3 starts of its transport, 3 messages; in memory, and over ZeroMQ with and without handover | `ImplementsContract`, `Heard` |
| `client_deadlock`, `client_ready`, `lifecycle_summary` | the smallest instance that shows it | the findings of section 5 |

Each run has the type invariant of its module, too, except `registry` and `clock_sync`, whose type
invariants are theorems.

**Why the bounds are enough.** Two clients are the least with which a command can be half carried
out, a role be held by another client, and a trial have a skew; clients meet only in the tables, which
treat them alike. In `fanout` a timeout of two ticks lets ACK, caller and scan come in every order and
the entry's clock differ from the caller's; commands without ACK are left to the theorems. Two
changes are enough for `session` because what a client makes of a command depends on the command
alone, so an order that goes wrong goes wrong with two of them, and the second trial tells a late
command from a current one. In `registry` half the timeout and the scan's interval are equal, which
lets a scan fall on, before and after both thresholds. In `client` the second fault of sending hits
the reconnect that the first one caused. `trial_rounds` needs three rounds to push ids out of a
deduplicator of two; a message is repeated only within the window it promises to remember. In `doctor` a single id is enough because entries do not meet, except for the doctor's, which has an id of
its own; the setups are such that a second run can differ from the first in role, version and secret, one
by one, and `MaxInFlight` is two because two statuses follow each other. A doctor and a client do not run
at the same moment (`Terminals`), but what either has sent is still under way, and its entry still there,
when the other runs. In `transport` three starts are needed for a receive that began before a reconnect
and is hit by a second one, and three messages for one lost, one received, and one on the other channel;
clients share only the decision which of them a broadcast reaches, and the proof has any number. The
theorems of section 4 have none of these bounds.

**Fairness.** Safety runs have none. `FairSpec` asks the least the scheduler gives:

* the serve loop turns, for `recv` returns after 50 ms at the latest, and time passes
  (`ClientRegistry`, `CommandFanout`); a task whose timeout is over is resumed;
* the loops of a client and the server take the next message if there is one, and the task that awaited
  a registration applies its snapshot (`ClientRuntime`, `SessionSync`); no failure, no reconnect and no call of the application is ever fair;
* the server command's own steps, each of which waits for something with a timeout, and its sending
  tasks (`ServerLifecycle`). Nothing is assumed there of the clients, nor of the serve loop, which may
  be dead;
* the receive loop runs whenever it can go on, and its handlers return (`Transport`); no reconnect, no
  connection and no message is fair;
* the doctor's own steps, and the serve loop on what has reached it, as long as it runs (`NetworkDoctor`);
  a server that was stopped need not come back.

No client has to answer, to send a heartbeat or to report a result in any of them, except that
`SessionSync` asks clients to receive what they are sent. `CHECK_DEADLOCK FALSE` is used where the
system stops by design: all commands returned, the client closed, the budget of changes spent, the
command ended, the doctor done, the receive loop cancelled by what it waited on.

## 4. Proofs

The proofs hold for any sets of clients, commands, roles and trials, any configurations, any timeouts
and any number of failures; what they use of the constants are the named assumptions
(`FanoutAssumption`, `RegistryAssumption`, `BudgetAssumption`, `ClockAssumption`, `SessionAssumption`,
`RoundsAssumption`, `LifecycleAssumption`, `NoneAssumption`, `AdmissionAssumption`, `DoctorAssumption`,
`TransportAssumption`), which TLC evaluates in each run. Every invariant is proved from an inductive one
(`IInv`; `LogInv` for the log, `ClockInv` and `SessionInv` in `SyncProofs`): `Init => IInv`, `IInv /\ [Next]_vars => IInv'`, with a lemma for each
action or group of actions, and `IInv => Inv`.

*CommandFanout.* `TypeCorrect`, `SuccessIsReal`, `GroupsAreComplete`, `SuccessLeavesNothing` and
`FanoutImplementsContract`. None of the properties is inductive. `IInv` adds how the state of a call
follows that of its fan-out (`CallsOfFanout`), that a command is on its way, acknowledged or applied
at most once (`OneWay`), how the three tables follow the calls (`Tables`), that the apply times of a
group are those of the calls whose tracking is gone (`Groups`), and that a call that is done has been
applied (`OkMeansDone`). A group closes by comparing cardinalities; `FullSubset` turns that into
equality of sets. The refinement is proved step by step from `IInv`: a step of the code is a step of the
contract or leaves it unchanged, so `ImplementsContract` holds for all constants.

*ClientRegistry.* `TypeCorrect`, `HealthyClientsAreFresh`, `SilentClientsAreDropped`,
`DisconnectsAreTrue`, `BarrierIsLive`. The invariant relates the age the registry sees (which the
scan itself resets) to the true silence: they are equal while a client is healthy, and while it is
DEGRADED they differ by no more than the time at which the scan touched it. `ScanKeeps` and
`HeardKeeps` are the two lemmas for the scan and the handlers.

*ClockSync.* `ClockTypesCorrect`, `EstimateIsBounded`, `NobodyIsEarly`, `TogetherWithinRtt`. The invariant
orders the time stamps of an exchange in the server's time and keeps, for every started trial, the
margin its target was computed with; the rest is linear arithmetic.

*SessionSync.* `SessionTypesCorrect`, `ClientsCatchUp`. No command changes `client.session`: only the
snapshot of a registration does, in the task that awaited it. What a client was *told* is therefore a
history variable (`heard`: the last snapshot it received, with the commands its handlers were given since),
and its copy agrees with the server only while it was given none (`commanded`). `CaughtUp` says both of a
client to which nothing is on its way; `SessionInv` speaks of every client at every moment: what it was
told, followed by all it has yet to receive, the commands whose sending task has not run included, brings it
to the server's view (`Brings`); and while no command was given to its handlers, the copy, or the answer
that is to replace it, is what it was told (`Copied`). A snapshot may already have the changes whose
commands are still to be sent. That does no harm because replaying these commands leaves the server's own
view as it is, which is the other half of the invariant (`Synced`). What a queue of any length makes of a
view is said without folding it: the last message that sets the trial, or the state, decides, and after that
only an end of that very trial changes anything (`TrialFrom`, `StateFrom`). That a view can be brought up to
date message by message, at both ends of the queue, are lemmas about `Brings`. Reconnects empty the queue,
but only until the snapshot of the next registration.

*ClientRuntime.* `TypeCorrect`, `LockIsHeld`, `ServerKnowsStatus`, `ClosedForGood`. With two loops the
lock's queue has five values, and a loop is in it exactly while it is in `reconnect` (`Fifo`); that is
what makes the lock free again after a task that was cancelled while it waited. `ViewAgrees` speaks of a
client at rest. `Belief` says what holds on the way there, as long as the application is done and no loop is
between writing a status and sending it: the last message still under way that tells a status, or else
what the server believes, has the status the client has, unless SESSION_START made it RUNNING. The
heartbeat's `sync_clock` keeps it by the order of its two writes, SYNCED first and the saved status last,
each with its message.

*TrialRounds.* `TypeCorrect`, `ResultsAreOfTheRound`, `AcksAreAlwaysTimed`, `NothingRunsTwice`. The
deduplicator holds its ids in the order they were last received in, and whatever it dropped came before
all it has (`Latest`); together with the reach of a repeat (`Near`: a message that comes again is one of
the latest when it does) a known message is recognised. So a peer runs each trial once (`Course`), its
result is ahead of its ACK on the same way (`Flow`), the trial is over only when the ACKs are in, and
therefore no result is left when the next one starts. An ACK of a command that was recognised has no
apply time; it follows, on the same way, the one that has (`Stamped`), which takes the entry.

*ServerLifecycle.* `TypeCorrect`, `EndsAreClean`, `SummaryAgrees`, `CommandsAreInTheLog`. `EndsClean` speaks
of the end of the command only: the service withdrawn, loop and transport down, log closed, summary
written, and no task at work if the command returned. (When an exception came out, `gather` may have left the
other tasks of its command, `server.py:314`; they find the transport down or the log closed, and can only
fail.) The invariant says what is true on the way there: as long as nothing
failed, tasks are at work only while the command that made them gathers them (`Gathered`), and what the
finally block has done by the time it is where it is (`Cleaned`). That the summary exists needs the
assumption that `NoSummary` is none. For the log, `LogInv` orders the commands of a session (`Rank`) and
says for every client whether its command is on its way, its ACK on its way back, or both in the log
(`Exchange`). An event that is recorded is therefore a new one, which is why a set can stand for the log
and its count for the recorder's; and a command is completed only when each of its messages was recorded.
An event's fields say what the session was then (`Sound`), so the timeline of a trial has the
commands that are the trial's.

*Admission.* `TypeCorrect`, `TermsAlwaysAgree`, `ReadyIsNeverStale`. Each step concerns one id and leaves
the others alone (`Alone`, `KeptInv`). For an id, `Exchange` says that a question whose connection is still
there is the last thing it sent, and that no answer waits meanwhile; `Told` that once the client was
told OK, or will be by the answer under way, everything still under way is of this run: registrations have
its setup, statuses are among those it said, and the entry, if the server has one, is what this run
negotiated (`Agreed`). What an earlier run left is never live, and a FIFO delivers it before the question
of the next one, whose registration then replaces what it wrote. `ReadyIsOfThisRun` does not follow
from the two ends alone: it needs what is in between.

*NetworkDoctor.* `ReportsAreTrue` adds, for a doctor, that nobody has its id with another role (`AsDoctor`), with
what its versions were compared (`Matched`), and that it goes on to the pings only if the server would
admit it (`Answers`). It has a hypothesis: the versions of servers are texts with numbers, or numbers. A
server whose version is another text (`"latest"`) refuses everybody, those with the same text
included, and a doctor that finds equal versions says they match.

*Transport.* `TypeCorrect`, `TransportImplementsContract`. A receive is in order because whatever still
waits for a client comes after all that was returned to it of the same channel (`Ordered`), and because
the item that `queue.get` has handed over but `recv` has not yet returned comes between the two, and
exists in memory only (`InHand`); a reconnect may empty the inbox at any moment, which keeps both. Of the
receive loop's eleven steps only three return something (`RecvMoves`, `TakeReturns`, `GetStep`); all others
stutter in the contract, every send is one of its sends. `TypeCorrect` includes that a client that is
connected in memory has a queue, so that no broadcast passes it by.

*AppConfig.* `SourcesInOrder`: although the file is merged with the defaults before it is merged with the
rest, and the rest with the defaults again, each field ends up with the value of the last source that
gives it, as `config.py:10-12` says. `SecretsAreMerged`: the one field that is meant to be a dictionary is
merged key by key if both sources give it as one, so neither takes a secret from an id; a scalar replaces
all of it (`config.py:20-23`), and the environment can give nothing but a scalar. `MisspellingsAreRefused`:
a configuration is refused exactly if one of the three sources has an unknown field in a known section.
They are theorems about operators, for any sources; no run states them.

Only model-checked: everything under fairness (`EveryCommandReturns`, `PendingDrains`, `BarrierReturns`,
`HbReconnectEnds`, `AllAreTold`, `CommandEnds`, `Heard`, `DoctorReturns`), which the installed provers do not
reach. Every invariant that a run checks is a theorem.

## 5. Findings

* `client_deadlock`: the receive loop that reconnects waits for a reply that only it could deliver
  (`client.py:182`), holding the lock the heartbeat loop needs.
* `client_ready`: a heartbeat's `sync_clock` puts back the status from before its await and takes
  READY from a client that has just reported it (`client.py:141`).
* `lifecycle_summary`: after an exception in the serve loop `shutdown` raises before it stops the
  transport and closes the recorder (`server.py:76`), so there is no `summary.json`.

Seen while modelling, without a run that expects a violation:

* Writing DEGRADED touches `last_seen` (`registry.py:63`), so a silent client is disconnected one and a half
  heartbeat timeouts after it was last heard of, not one; `SilentIsDropped` states the bound that holds.
* The entry of a pending ACK begins to expire at `add` (`server.py:332`) and the call's own timeout only
  after `send` returned (`server.py:347`), so that an ACK in between is dropped although the call waits.
* `discovery.register` is outside the `try` of the server command (`cli/main.py:313`).
* `inspect-log` fails on events without a message (`cli/main.py:120`).
* A version that is a number (`version = 1.0` without quotes in a TOML file, or any version given by
  the environment, `config.py:32`) makes `parse_protocol_version` raise an `AttributeError` that
  `_handle_register` does not catch: a client's registration ends the server's loop (`HandlerRaises`).
  So do secrets that are no dictionary, as the environment gives them, once one has to be looked up
  (`Undecidable`), and, with `router_mandatory`, an answer to a client that has gone (`server.py:265`, 284,
  in no `try`; `Respond`). Nobody awaits the loop, so that the server stays there and answers nobody.
* The doctor compares its version with that of the record as texts (`doctor.py:70-79`): a server whose version
  is the number 1.0 matches a doctor's "1.0" (`AsText`), and dies of its registration. A doctor whose own version
  is a number waits for a server that has died of it; when that server is started again, nobody remembers
  the question, and `DoctorReturns` has to excuse that, too (`lost`).
* `client.session` is set by the snapshot of a registration only (`client.py:124`, 292-296): TRIAL_ARM,
  TRIAL_START_AT and the rest leave it as it is, so it is out of date as soon as the session goes on, and
  a snapshot may be applied after commands that are newer than it were dispatched. The comment at
  `server.py:235` and the tests (`test_runtime_integration.py:244-306`) speak of the moment after a
  registration only, which is what `CaughtUp` says of the copy.
* A client that is rejected goes on to `sync_clock` and `ready` (`cli/main.py:386-388`), and the server
  writes its statuses to the entry its id has from an earlier run. `TermsAgree` and `ReadyIsOfThisRun`
  hold for clients that were admitted.
* A client does not register again when the server was restarted: nobody answers its heartbeats, and
  the registry of the new server does not know it.
* The doctor takes a loopback target for reachable whether anybody listens or not (`doctor.py:167`),
  and then waits without a timeout for a REGISTER_OK: `DoctorReturns` has to excuse it (`Unanswered`). Its
  entry stays in the registry, and commands that follow are fanned out to it and time out.
* A server command with the default address listens on the loopback and publishes that address
  (`cli/main.py:203`, `zeroconf_service.py:113`); doctors elsewhere find a record they cannot reach.
* A reconnect of the heartbeat loop may cancel the poll of the receive loop; the `CancelledError` is no
  `Exception` (`client.py:180`), and the client hears nothing any more. If the poll has just returned,
  `recv` finds new sockets, none of them among the old events, and waits for the next broadcast without
  a timeout (`zmq_lan.py:119-123`), while commands queue up. `Heard` has to excuse both over ZeroMQ.
* After a `start` that failed midway `recv` returns None without suspending (`zmq_lan.py:107`), and the
  receive loop never lets another task run (`spinning`); the sockets that were made are never closed.

## 6. Not modelled, and why

* ZeroMQ transport: the way from the clients to the server, high-water marks and the other socket options
  (their defaults lose or delay messages, which `Transport` has anyway).
* Two programs with one client id at the same time: the ROUTER's handover between them and their shared
  entry. `Admission` has the runs of an id one after the other, with what is left under way of each.
* Heartbeats in `Admission`: they write back the status the entry has; their effect on its age is in
  `ClientRegistry`.
* In `SessionSync`, a reconnect while a registration is pending, which `ClientRuntime` has.
* What the doctor measures (round trips, jitter, offsets), its notes and its summary.
* `AppConfig` lists the fields a command decides by; the file formats are external. The commands read
  a file only; `from_sources` is for programs that use the package, as the clients of `doctor` do.
* Statistics and monitors: floats, no state anything depends on. Messages, codec and schemas: conversions
  that no property here tells apart. The demo is a script over modelled operations; the LSL bridge is a
  placeholder.
* Within modelled parts: `pause`, `abort` and `parameter_version` of the session and `stale_clients`
  of the registry, which nothing calls; latencies and kinds in summaries; metrics. The run of
  `CommandFanout` has one command; several, and those without ACK, are covered by its theorems only.

## 7. Plan

Done: the inventory, all modules above with their runs, and the proofs of all their invariants. Next:

1. An abstract session (a register that every connected client reads in the end) that `SessionSync`
   implements, and one of rounds (start, collect, end per trial) that `TrialRounds` does.
2. *Action properties*: what a step of the registry or of a client may never do to a status.
3. *Event log*: kinds, peers and latencies of the summary, and timelines ordered by time.
