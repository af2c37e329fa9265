----------------------------- MODULE Transport -----------------------------
(***************************************************************************)
(* The way from the server to the clients, over the in-memory transport or *)
(* over ZeroMQ, and the receive loop at its end.  recv reads the state of  *)
(* the transport before it suspends and again after, and the heartbeat     *)
(* loop may stop and start the transport in between.                       *)
(*                                                                         *)
(* Each start of a client's transport makes new sockets, told apart by the *)
(* number of the start.  Messages to a client are numbered as they are     *)
(* sent; both kinds of queues are FIFO, so that the first of a queue is    *)
(* the one with the lowest number.  What pyzmq and the network do is       *)
(* external: sockets connect some time after start, the closing of a       *)
(* socket may cancel those who wait on it, and a start may fail.           *)
(***************************************************************************)
EXTENDS Naturals, Sequences

CONSTANTS
    Clients,    \* the client ids
    Wires,      \* the transports to choose from
    MaxStarts,  \* bound: the starts of each client's transport
    MaxSent     \* bound: the messages to each client

(* router_mandatory and router_handover make no difference in memory. *)
WireRecords == [backend : {"memory", "zmq"}, mandatory : BOOLEAN, handover : BOOLEAN]

ASSUME TransportAssumption ==
    Wires \subseteq WireRecords /\ MaxStarts \in Nat /\ MaxSent \in Nat

VARIABLES
    wire,     \* the transport
    link,     \* of each client: "off", "on", or "half": start raised midway
    gen,      \* the number of its last start
    beating,  \* the clients whose heartbeat loop runs
    recv,     \* where the receive loop of a client is in transport.recv
    inbox,    \* the messages that have reached the client's sockets or queue
    known,    \* the clients the in-memory hub has a queue for
    route,    \* the start of a client that the server's ROUTER sends to
    joined,   \* the start of a client whose SUB the server's PUB knows of
    sent,     \* the channels of the messages sent to each client, in order
    heard     \* the messages that recv has returned to each client, in order

linkVars == <<link, gen, beating>>
serverVars == <<known, route, joined>>
logVars == <<sent, heard>>
vars == <<wire, linkVars, recv, inbox, serverVars, logVars>>

Channels == {"control", "broadcast"}
InMemory == wire.backend = "memory"

(* gen is that of the start the call was made in, sock that of the sockets *)
(* it waits for, events what the poll returned, item what get returned.    *)
Recv(at, g) == [at |-> at, gen |-> g, sock |-> g, events |-> {}, item |-> 0]
Idle(c) == recv' = [recv EXCEPT ![c] = Recv("idle", gen[c])]
At(c, at) == recv[c].at = at
Goto(c, at) == recv' = [recv EXCEPT ![c].at = at]

(* The transport was stopped, and started, since recv was called. *)
Crossed(c) == ~At(c, "idle") /\ recv[c].gen # gen[c]

Earliest(n, S) == n \in S /\ \A k \in S : n <= k
Of(c, ch) == {n \in inbox[c] : sent[c][n] = ch}
Hear(c, n) == heard' = [heard EXCEPT ![c] = Append(@, n)]

(* Mutant of EnsureClient: neither start nor send makes a queue. *)
EnsureNothing(c) == known

(* ensure_client *)
EnsureClient(c) == IF InMemory THEN known \union {c} ELSE known

-----------------------------------------------------------------------------
Init ==
    /\ wire \in Wires
    /\ link = [c \in Clients |-> "off"]
    /\ gen = [c \in Clients |-> 0]
    /\ beating = {}
    /\ recv = [c \in Clients |-> Recv("off", 0)]
    /\ inbox = [c \in Clients |-> {}]
    /\ known = {}
    /\ route = [c \in Clients |-> 0]
    /\ joined = [c \in Clients |-> 0]
    /\ sent = [c \in Clients |-> <<>>]
    /\ heard = [c \in Clients |-> <<>>]

(* connect: start, and the loops.  In memory, a queue that the server has  *)
(* made in the meantime is found as it is.                                 *)
Connect(c) ==
    /\ link[c] = "off"
    /\ gen[c] < MaxStarts
    /\ link' = [link EXCEPT ![c] = "on"]
    /\ gen' = [gen EXCEPT ![c] = @ + 1]
    /\ beating' = beating \union {c}
    /\ recv' = [recv EXCEPT ![c] = Recv("idle", gen[c] + 1)]
    /\ known' = EnsureClient(c)
    /\ UNCHANGED <<wire, inbox, route, joined, logVars>>

(* transport.stop and transport.start of a reconnect, in one step: what had *)
(* arrived is gone with the old sockets, or with the old queue.             *)
Renew(c, to) ==
    /\ gen[c] < MaxStarts
    /\ link' = [link EXCEPT ![c] = to]
    /\ gen' = [gen EXCEPT ![c] = @ + 1]
    /\ inbox' = [inbox EXCEPT ![c] = {}]
    /\ UNCHANGED <<wire, serverVars, logVars>>

(* The heartbeat loop reconnects, wherever the receive loop is ... *)
Reconnect(c) ==
    /\ c \in beating
    /\ link[c] = "on"
    /\ ~At(c, "spinning")
    /\ Renew(c, "on")
    /\ UNCHANGED <<beating, recv>>

(* ... and ends if the start raises. *)
ReconnectRaises(c) ==
    /\ ~InMemory
    /\ c \in beating
    /\ link[c] = "on"
    /\ ~At(c, "spinning")
    /\ Renew(c, "half")
    /\ beating' = beating \ {c}
    /\ UNCHANGED recv

(* The receive loop reconnects, while the client runs, when recv has raised; *)
(* stop does nothing for a transport whose start raised: its sockets stay    *)
(* open.                                                                     *)
RecvReconnect(c) ==
    /\ At(c, "raised")
    /\ link[c] # "off"
    /\ Renew(c, "on")
    /\ recv' = [recv EXCEPT ![c] = Recv("idle", gen[c] + 1)]
    /\ UNCHANGED beating

RecvReconnectRaises(c) ==
    /\ At(c, "raised")
    /\ link[c] # "off"
    /\ Renew(c, "half")
    /\ Goto(c, "dead")
    /\ UNCHANGED beating

(* close: the loops are cancelled before the transport is stopped. *)
Close(c) ==
    /\ link[c] # "off"
    /\ ~At(c, "spinning")
    /\ link' = [link EXCEPT ![c] = "off"]
    /\ beating' = beating \ {c}
    /\ recv' = [recv EXCEPT ![c] = Recv("off", gen[c])]
    /\ inbox' = [inbox EXCEPT ![c] = {}]
    /\ known' = known \ {c}
    /\ UNCHANGED <<wire, gen, route, joined, logVars>>

-----------------------------------------------------------------------------
(* The loop calls recv.  Without a poller it returns None at once, and the *)
(* loop, which finds nothing to await, calls it for ever.                  *)
Call(c) ==
    /\ At(c, "idle")
    /\ recv' = [recv EXCEPT ![c] =
                  Recv(IF InMemory \/ link[c] = "on" THEN "poll" ELSE "spinning", gen[c])]
    /\ UNCHANGED <<wire, linkVars, inbox, serverVars, logVars>>

(* Mutant of Ready: the control socket is not registered with the poller. *)
ReadyBroadcast(c) == {ch \in {"broadcast"} : Of(c, ch) # {}}

(* The sockets the poller finds readable. *)
Ready(c) == {ch \in Channels : Of(c, ch) # {}}

PollReturns(c) ==
    /\ ~InMemory
    /\ At(c, "poll")
    /\ ~Crossed(c)
    /\ Ready(c) # {}
    /\ recv' = [recv EXCEPT ![c].at = "polled", ![c].events = Ready(c)]
    /\ UNCHANGED <<wire, linkVars, inbox, serverVars, logVars>>

(* queue.get takes an item, which wait_for then hands to recv. *)
Get(c) ==
    /\ InMemory
    /\ At(c, "poll")
    /\ ~Crossed(c)
    /\ \E n \in inbox[c] :
          /\ Earliest(n, inbox[c])
          /\ recv' = [recv EXCEPT ![c].at = "got", ![c].item = n]
          /\ inbox' = [inbox EXCEPT ![c] = @ \ {n}]
    /\ UNCHANGED <<wire, linkVars, serverVars, logVars>>

(* The timeout: nothing has come, or what it waits on is no longer used. *)
Expire(c) ==
    /\ At(c, "poll")
    /\ Crossed(c) \/ inbox[c] = {}
    /\ Idle(c)
    /\ UNCHANGED <<wire, linkVars, inbox, serverVars, logVars>>

Return(c) ==
    /\ At(c, "got")
    /\ Hear(c, recv[c].item)
    /\ Idle(c)
    /\ UNCHANGED <<wire, linkVars, inbox, serverVars, sent>>

(* Mutant of Take: the message is left in the socket. *)
Peek(c, ch) ==
    \E n \in Of(c, ch) :
        /\ Earliest(n, Of(c, ch))
        /\ Hear(c, n)
        /\ Idle(c)
        /\ UNCHANGED <<wire, linkVars, inbox, serverVars, sent>>

(* The receive of a socket's next message, once there is one. *)
Take(c, ch) ==
    \E n \in Of(c, ch) :
        /\ Earliest(n, Of(c, ch))
        /\ Hear(c, n)
        /\ inbox' = [inbox EXCEPT ![c] = @ \ {n}]
        /\ Idle(c)
        /\ UNCHANGED <<wire, linkVars, serverVars, sent>>

(* After the poll: the control socket, if it is among the events, goes first. *)
Receive(c) ==
    /\ At(c, "polled")
    /\ ~Crossed(c)
    /\ Take(c, IF "control" \in recv[c].events THEN "control" ELSE "broadcast")

(* The control socket of a new start is not among the events of the old     *)
(* one: recv waits, without a timeout, for the new broadcast socket ...     *)
Misread(c) ==
    /\ At(c, "polled")
    /\ Crossed(c)
    /\ recv' = [recv EXCEPT ![c].at = "blocked", ![c].sock = gen[c]]
    /\ UNCHANGED <<wire, linkVars, inbox, serverVars, logVars>>

(* ... which may be None if the start failed. *)
MisreadNone(c) ==
    /\ At(c, "polled")
    /\ link[c] = "half"
    /\ Goto(c, "raised")
    /\ UNCHANGED <<wire, linkVars, inbox, serverVars, logVars>>

Unblock(c) ==
    /\ At(c, "blocked")
    /\ recv[c].sock = gen[c]
    /\ Take(c, "broadcast")

(* Closing a socket may cancel the poll or the receive that waits on it; no *)
(* handler of the receive loop catches that.                                *)
Cancelled(c) ==
    /\ ~InMemory
    /\ recv[c].at \in {"poll", "blocked"}
    /\ recv[c].sock # gen[c]
    /\ Goto(c, "dead")
    /\ UNCHANGED <<wire, linkVars, inbox, serverVars, logVars>>

-----------------------------------------------------------------------------
(* The sockets of a start connect; another start of the same id is handed  *)
(* the connection, or has to wait until the old one is gone.               *)
RouteUp(c) ==
    /\ ~InMemory
    /\ link[c] = "on"
    /\ route[c] # gen[c]
    /\ route[c] = 0 \/ wire.handover
    /\ route' = [route EXCEPT ![c] = gen[c]]
    /\ UNCHANGED <<wire, linkVars, recv, inbox, known, joined, logVars>>

RouteDown(c) ==
    /\ route[c] # 0
    /\ link[c] = "on" => route[c] # gen[c]
    /\ route' = [route EXCEPT ![c] = 0]
    /\ UNCHANGED <<wire, linkVars, recv, inbox, known, joined, logVars>>

Join(c) ==
    /\ ~InMemory
    /\ link[c] = "on"
    /\ joined[c] # gen[c]
    /\ joined' = [joined EXCEPT ![c] = gen[c]]
    /\ UNCHANGED <<wire, linkVars, recv, inbox, known, route, logVars>>

Reached(at, c) == link[c] = "on" /\ at[c] = gen[c]
Deliver(to) == [c \in Clients |-> IF c \in to THEN inbox[c] \union {Len(sent[c]) + 1}
                                  ELSE inbox[c]]

(* send: in memory the queue is made if there is none; a ROUTER that must   *)
(* route raises when it has no route, and otherwise drops the message.      *)
Send(c) ==
    /\ Len(sent[c]) < MaxSent
    /\ InMemory \/ route[c] # 0 \/ ~wire.mandatory
    /\ sent' = [sent EXCEPT ![c] = Append(@, "control")]
    /\ inbox' = Deliver(IF InMemory \/ Reached(route, c) THEN {c} ELSE {})
    /\ known' = EnsureClient(c)
    /\ UNCHANGED <<wire, linkVars, recv, route, joined, heard>>

(* broadcast: to the queues there are, or to the subscribers. *)
Broadcast ==
    /\ \A c \in Clients : Len(sent[c]) < MaxSent
    /\ sent' = [c \in Clients |-> Append(sent[c], "broadcast")]
    /\ inbox' = Deliver(IF InMemory THEN known ELSE {c \in Clients : Reached(joined, c)})
    /\ UNCHANGED <<wire, linkVars, recv, serverVars, heard>>

-----------------------------------------------------------------------------
Program(c) ==
    Connect(c) \/ Reconnect(c) \/ ReconnectRaises(c) \/ Close(c)

RecvLoop(c) ==
    \/ Call(c) \/ PollReturns(c) \/ Get(c) \/ Expire(c) \/ Return(c)
    \/ Receive(c) \/ Misread(c) \/ MisreadNone(c) \/ Unblock(c)
    \/ RecvReconnect(c) \/ RecvReconnectRaises(c)

Network(c) == Cancelled(c) \/ RouteUp(c) \/ RouteDown(c) \/ Join(c)

Next ==
    \/ \E c \in Clients : Program(c) \/ RecvLoop(c) \/ Network(c) \/ Send(c)
    \/ Broadcast

Spec == Init /\ [][Next]_vars

(* The event loop runs the receive loop whenever it can go on; handlers are *)
(* taken to return.                                                         *)
FairSpec == Spec /\ \A c \in Clients : WF_vars(RecvLoop(c))

-----------------------------------------------------------------------------
Places == {"off", "idle", "poll", "polled", "got", "blocked", "raised", "spinning", "dead"}
Calls == [at : Places, gen : Nat, sock : Nat, events : SUBSET Channels, item : Nat]

TypeOK ==
    /\ wire \in Wires
    /\ link \in [Clients -> {"off", "on", "half"}]
    /\ gen \in [Clients -> Nat]
    /\ beating \subseteq Clients
    /\ recv \in [Clients -> Calls]
    /\ inbox \in [Clients -> SUBSET Nat]
    /\ known \subseteq Clients
    /\ InMemory => \A c \in Clients : link[c] = "off" \/ c \in known
    /\ route \in [Clients -> Nat]
    /\ joined \in [Clients -> Nat]
    /\ sent \in [Clients -> Seq(Channels)]
    /\ heard \in [Clients -> Seq(Nat)]

(* Both transports keep the contract, over restarts of the client, of its   *)
(* transport, and over a receive that is overtaken by them: no message      *)
(* comes twice, and none after a later one of its channel, or in memory     *)
(* after a later one of any channel.                                        *)
Contract == INSTANCE TransportContract WITH ordered <- InMemory

ImplementsContract == Contract!Spec

(* Nothing gets lost on the way up: a message that has reached a client is  *)
(* returned by recv, unless the transport is stopped before, or was stopped *)
(* and started while the receive loop was suspended in recv.  In memory the *)
(* receive loop recovers from that.                                         *)
Waiting(c, n, g) ==
    /\ gen[c] = g
    /\ link[c] # "off"
    /\ n \in inbox[c]

Returned(c, n) == \E k \in DOMAIN heard[c] : heard[c][k] = n

Heard ==
    \A c \in Clients, n \in 1..MaxSent, g \in 1..MaxStarts :
        Waiting(c, n, g) ~>
            \/ Returned(c, n)
            \/ gen[c] # g
            \/ link[c] = "off"
            \/ ~InMemory /\ Crossed(c)
=============================================================================
