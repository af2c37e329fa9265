-------------------------- MODULE TransportProofs --------------------------
(***************************************************************************)
(* What recv returns, for any number of clients, messages and restarts.    *)
(*                                                                         *)
(* TypeOK is not enough for the order: what waits for a client has to come *)
(* after all that was returned to it of the same channel, the item that    *)
(* get has returned but recv has not comes between the two, and only the   *)
(* in-memory transport ever holds one.                                     *)
(***************************************************************************)
EXTENDS Transport, TLAPS

(* n comes after all that c has heard, in memory, or of n's channel. *)
After(c, n) ==
    \A k \in DOMAIN heard[c] :
        InMemory \/ sent[c][heard[c][k]] = sent[c][n] => heard[c][k] < n

Numbered ==
    \A c \in Clients :
        /\ \A n \in inbox[c] : n \in 1..Len(sent[c])
        /\ \A k \in DOMAIN heard[c] : heard[c][k] \in 1..Len(sent[c])

Ordered == \A c \in Clients : \A n \in inbox[c] : After(c, n)

InHand ==
    \A c \in Clients :
        /\ recv[c].at \in {"polled", "blocked"} => ~InMemory
        /\ recv[c].at = "got" =>
              /\ InMemory
              /\ recv[c].item \in 1..Len(sent[c])
              /\ After(c, recv[c].item)
              /\ \A n \in inbox[c] : recv[c].item < n

Inv == TypeOK /\ Numbered /\ Ordered /\ InHand

-----------------------------------------------------------------------------
(* What the receive loop does to its call of recv leaves it one. *)
LEMMA Moved ==
    ASSUME NEW r \in Calls, NEW at \in Places
    PROVE  /\ [r EXCEPT !.at = at] \in Calls
           /\ \A es \in SUBSET Channels : [r EXCEPT !.at = at, !.events = es] \in Calls
           /\ \A n \in Nat : [r EXCEPT !.at = at, !.item = n] \in Calls
           /\ \A n \in Nat : [r EXCEPT !.at = at, !.sock = n] \in Calls
  BY DEF Calls

LEMMA Fresh ==
    ASSUME NEW at \in Places, NEW g \in Nat
    PROVE  Recv(at, g) \in Calls
  BY DEF Recv, Calls

LEMMA GotoType ==
    ASSUME TypeOK, NEW c \in Clients, NEW at \in Places, Goto(c, at)
    PROVE  recv' \in [Clients -> Calls]
<1>1. recv[c] \in Calls
  BY DEF TypeOK
<1>2. [recv[c] EXCEPT !.at = at] \in Calls
  BY <1>1, Moved
<1>3. QED
  BY <1>2 DEF TypeOK, Goto

(* A step keeps TypeOK: the actions of the program that runs a client. *)
LEMMA ProgramType ==
    ASSUME TypeOK, NEW c \in Clients, Program(c)
    PROVE  TypeOK'
<1> USE DEF TypeOK, InMemory
<1>1. CASE Connect(c)
  <2>1. Recv("idle", gen[c] + 1) \in Calls
    BY Fresh DEF Places
  <2>2. QED
    BY <1>1, <2>1 DEF Connect, EnsureClient, logVars
<1>2. CASE Reconnect(c)
  BY <1>2 DEF Reconnect, Renew, serverVars, logVars
<1>3. CASE ReconnectRaises(c)
  BY <1>3 DEF ReconnectRaises, Renew, serverVars, logVars
<1>4. CASE Close(c)
  <2>1. Recv("off", gen[c]) \in Calls
    BY Fresh DEF Places
  <2>2. QED
    BY <1>4, <2>1 DEF Close, logVars
<1>5. QED
  BY <1>1, <1>2, <1>3, <1>4 DEF Program

(* ... of its receive loop ... *)
LEMMA IdleType ==
    ASSUME TypeOK, NEW c \in Clients, Idle(c)
    PROVE  recv' \in [Clients -> Calls]
<1>1. Recv("idle", gen[c]) \in Calls
  BY Fresh DEF TypeOK, Places
<1>2. QED
  BY <1>1 DEF TypeOK, Idle

LEMMA RecvType ==
    ASSUME TypeOK, NEW c \in Clients, RecvLoop(c)
    PROVE  TypeOK'
<1>1. recv \in [Clients -> Calls] /\ recv[c] \in Calls /\ gen[c] \in Nat
  BY DEF TypeOK
<1> USE DEF linkVars, serverVars, logVars
<1>2. ASSUME recv' \in [Clients -> Calls],
             UNCHANGED <<wire, linkVars, inbox, serverVars, logVars>>
      PROVE  TypeOK'
  BY <1>2 DEF TypeOK, InMemory
<1>3. CASE Call(c)
  <2>1. \A at \in Places : Recv(at, gen[c]) \in Calls
    BY <1>1, Fresh
  <2>2. recv' \in [Clients -> Calls]
    BY <1>1, <1>3, <2>1 DEF Call, Places
  <2>3. QED
    BY <1>2, <1>3, <2>2 DEF Call
<1>4. CASE PollReturns(c)
  <2>1. Ready(c) \in SUBSET Channels
    BY DEF Ready
  <2>2. [recv[c] EXCEPT !.at = "polled", !.events = Ready(c)] \in Calls
    BY <1>1, <2>1, Moved DEF Places
  <2>3. recv' \in [Clients -> Calls]
    BY <1>1, <1>4, <2>2 DEF PollReturns
  <2>4. QED
    BY <1>2, <1>4, <2>3 DEF PollReturns
<1>5. CASE Get(c)
  <2>1. PICK n \in inbox[c] :
            /\ recv' = [recv EXCEPT ![c].at = "got", ![c].item = n]
            /\ inbox' = [inbox EXCEPT ![c] = @ \ {n}]
    BY <1>5 DEF Get
  <2>2. n \in Nat
    BY <2>1 DEF TypeOK
  <2>3. [recv[c] EXCEPT !.at = "got", !.item = n] \in Calls
    BY <1>1, <2>2, Moved DEF Places
  <2>4. recv' \in [Clients -> Calls]
    BY <1>1, <2>1, <2>3
  <2>5. QED
    BY <1>5, <2>1, <2>4 DEF Get, TypeOK, InMemory
<1>6. CASE Expire(c)
  BY <1>2, <1>6, IdleType DEF Expire
<1>7. CASE Return(c)
  <2>1. recv[c].item \in Nat
    BY <1>1 DEF Calls
  <2>2. heard' \in [Clients -> Seq(Nat)]
    BY <1>7, <2>1 DEF Return, Hear, TypeOK
  <2>3. recv' \in [Clients -> Calls]
    BY <1>7, IdleType DEF Return
  <2>4. QED
    BY <1>7, <2>2, <2>3 DEF Return, TypeOK, InMemory
<1>8. ASSUME NEW ch \in Channels, Take(c, ch) PROVE TypeOK'
  <2>1. PICK n \in Of(c, ch) : /\ Hear(c, n)
                              /\ inbox' = [inbox EXCEPT ![c] = @ \ {n}]
                              /\ Idle(c)
                              /\ UNCHANGED <<wire, linkVars, serverVars, sent>>
    BY <1>8 DEF Take
  <2>2. n \in Nat
    BY <2>1 DEF Of, TypeOK
  <2>3. heard' \in [Clients -> Seq(Nat)]
    BY <2>1, <2>2 DEF Hear, TypeOK
  <2>4. recv' \in [Clients -> Calls]
    BY <2>1, IdleType
  <2>5. QED
    BY <2>1, <2>3, <2>4 DEF TypeOK, InMemory
<1>9. CASE Receive(c) \/ Unblock(c)
  BY <1>8, <1>9 DEF Receive, Unblock, Channels
<1>10. CASE Misread(c)
  <2>1. [recv[c] EXCEPT !.at = "blocked", !.sock = gen[c]] \in Calls
    BY <1>1, Moved DEF Places
  <2>2. recv' \in [Clients -> Calls]
    BY <1>1, <1>10, <2>1 DEF Misread
  <2>3. QED
    BY <1>2, <1>10, <2>2 DEF Misread
<1>11. CASE MisreadNone(c)
  BY <1>2, <1>11, GotoType DEF MisreadNone, Places
<1>12. CASE RecvReconnect(c)
  <2>1. Recv("idle", gen[c] + 1) \in Calls
    BY <1>1, Fresh DEF Places
  <2>2. recv' \in [Clients -> Calls]
    BY <1>1, <1>12, <2>1 DEF RecvReconnect
  <2>3. QED
    BY <1>12, <2>2 DEF RecvReconnect, Renew, TypeOK, InMemory
<1>13. CASE RecvReconnectRaises(c)
  <2>1. recv' \in [Clients -> Calls]
    BY <1>13, GotoType DEF RecvReconnectRaises, Places
  <2>2. UNCHANGED <<wire, beating, serverVars, logVars>>
    BY <1>13 DEF RecvReconnectRaises, Renew
  <2>3. /\ gen' = [gen EXCEPT ![c] = @ + 1]
        /\ link' = [link EXCEPT ![c] = "half"]
        /\ inbox' = [inbox EXCEPT ![c] = {}]
        /\ link[c] # "off"
    BY <1>13 DEF RecvReconnectRaises, Renew
  <2>4. QED
    BY <2>1, <2>2, <2>3 DEF TypeOK, InMemory
<1>14. QED
  BY <1>3, <1>4, <1>5, <1>6, <1>7, <1>9, <1>10, <1>11, <1>12, <1>13 DEF RecvLoop

(* ... and of the network and the server. *)
LEMMA ServerType ==
    ASSUME TypeOK, NEW c \in Clients, Network(c) \/ Send(c) \/ Broadcast
    PROVE  TypeOK'
<1> USE DEF linkVars, serverVars, logVars
<1>1. CASE Cancelled(c)
  <2>1. recv' \in [Clients -> Calls]
    BY <1>1, GotoType DEF Cancelled, Places
  <2>2. QED
    BY <1>1, <2>1 DEF Cancelled, TypeOK, InMemory
<1>2. CASE RouteUp(c)
  BY <1>2 DEF RouteUp, TypeOK, InMemory
<1>3. CASE RouteDown(c)
  BY <1>3 DEF RouteDown, TypeOK, InMemory
<1>4. CASE Join(c)
  BY <1>4 DEF Join, TypeOK, InMemory
<1>5. \A to : Deliver(to) \in [Clients -> SUBSET Nat]
  BY DEF Deliver, TypeOK
<1>6. CASE Send(c)
  <2>1. sent' \in [Clients -> Seq(Channels)]
    BY <1>6 DEF Send, TypeOK, Channels
  <2>2. QED
    BY <1>5, <1>6, <2>1 DEF Send, EnsureClient, TypeOK, InMemory
<1>7. CASE Broadcast
  <2>1. sent' \in [Clients -> Seq(Channels)]
    BY <1>7 DEF Broadcast, TypeOK, Channels
  <2>2. QED
    BY <1>5, <1>7, <2>1 DEF Broadcast, TypeOK, InMemory
<1>8. QED
  BY <1>1, <1>2, <1>3, <1>4, <1>6, <1>7 DEF Network

LEMMA TypeStep == TypeOK /\ [Next]_vars => TypeOK'
<1>1. ASSUME TypeOK, UNCHANGED vars PROVE TypeOK'
  BY <1>1 DEF TypeOK, InMemory, vars, linkVars, serverVars, logVars
<1>2. ASSUME TypeOK, NEW c \in Clients,
             Program(c) \/ RecvLoop(c) \/ Network(c) \/ Send(c)
      PROVE  TypeOK'
  BY <1>2, ProgramType, RecvType, ServerType
<1>3. ASSUME TypeOK, Broadcast PROVE TypeOK'
  <2>1. CASE Clients # {}
    BY <1>3, <2>1, ServerType
  <2>2. CASE Clients = {}
    BY <1>3, <2>2 DEF Broadcast, Deliver, TypeOK, InMemory, linkVars, serverVars
  <2>3. QED
    BY <2>1, <2>2
<1>4. QED
  BY <1>1, <1>2, <1>3 DEF Next

-----------------------------------------------------------------------------
(* A step that sends and returns nothing, and puts nothing into a queue,    *)
(* keeps the order.                                                         *)
LEMMA CalmStep ==
    ASSUME Inv, TypeOK', UNCHANGED <<wire, sent, heard>>,
           \A c \in Clients :
               /\ inbox'[c] \subseteq inbox[c]
               /\ recv'[c].at = "got" => recv[c].at = "got" /\ recv'[c].item = recv[c].item
               /\ recv'[c].at \in {"polled", "blocked"} => ~InMemory
    PROVE  Inv'
<1>1. \A c \in Clients : \A n : After(c, n)' <=> After(c, n)
  BY DEF After, InMemory
<1>2. Numbered'
  BY DEF Inv, Numbered
<1>3. Ordered'
  BY <1>1 DEF Inv, Ordered
<1>4. InHand'
  BY <1>1 DEF Inv, InHand, InMemory
<1>5. QED
  BY <1>2, <1>3, <1>4 DEF Inv

(* A message that is sent gets a number above all that are known. *)
LEMMA SendStep ==
    ASSUME Inv, TypeOK', UNCHANGED <<wire, recv, heard>>,
           \A c \in Clients :
               \/ sent'[c] = sent[c] /\ inbox'[c] = inbox[c]
               \/ /\ \E ch \in Channels : sent'[c] = Append(sent[c], ch)
                  /\ inbox'[c] \subseteq inbox[c] \union {Len(sent[c]) + 1}
    PROVE  Inv'
<1>1. \A c \in Clients : /\ sent[c] \in Seq(Channels)
                         /\ Len(sent[c]) \in Nat
                         /\ heard[c] \in Seq(Nat)
  BY DEF Inv, TypeOK
<1>2. \A c \in Clients :
        /\ Len(sent'[c]) \in Nat
        /\ Len(sent[c]) <= Len(sent'[c])
        /\ \A n \in 1..Len(sent[c]) : sent'[c][n] = sent[c][n]
        /\ inbox'[c] \subseteq inbox[c] \union {Len(sent[c]) + 1}
        /\ inbox'[c] # inbox[c] => Len(sent'[c]) = Len(sent[c]) + 1
  BY <1>1
<1>3. \A c \in Clients : \A n \in 1..Len(sent[c]) : After(c, n) => After(c, n)'
  BY <1>1, <1>2 DEF After, Inv, Numbered, InMemory
<1>4. ASSUME NEW c \in Clients, NEW n, n = Len(sent[c]) + 1 PROVE After(c, n)'
  <2>1. \A k \in DOMAIN heard[c] : heard[c][k] \in Nat /\ heard[c][k] <= Len(sent[c])
    BY <1>1 DEF Inv, Numbered
  <2>2. \A k \in DOMAIN heard[c] : heard[c][k] < n
    BY <1>1, <1>4, <2>1
  <2>3. QED
    BY <2>2 DEF After
<1>5. Numbered'
  BY <1>1, <1>2 DEF Inv, Numbered
<1>6. ASSUME NEW c \in Clients, NEW n \in inbox'[c] PROVE After(c, n)'
  <2>1. CASE n \in inbox[c]
    <3>1. After(c, n) /\ n \in 1..Len(sent[c])
      BY <2>1 DEF Inv, Ordered, Numbered
    <3>2. QED
      BY <1>3, <3>1
  <2>2. CASE n \notin inbox[c]
    <3>1. n = Len(sent[c]) + 1
      BY <1>2, <2>2
    <3>2. QED
      BY <1>4, <3>1
  <2>3. QED
    BY <2>1, <2>2
<1>7. Ordered'
  BY <1>6 DEF Ordered
<1>8. InHand'
  BY <1>1, <1>2, <1>3 DEF Inv, InHand, InMemory
<1>9. QED
  BY <1>5, <1>7, <1>8 DEF Inv

(* A message that is returned comes before all that wait on its channel, in *)
(* memory before all that wait.                                             *)
LEMMA HearStep ==
    ASSUME Inv, TypeOK', UNCHANGED <<wire, sent>>,
           NEW c \in Clients, NEW n \in 1..Len(sent[c]),
           After(c, n), Hear(c, n), Idle(c),
           \A d \in Clients : inbox'[d] \subseteq inbox[d],
           \A k \in inbox'[c] : InMemory \/ sent[c][k] = sent[c][n] => n < k
    PROVE  Inv'
<1>1. \A d \in Clients : heard[d] \in Seq(Nat) /\ Len(sent[d]) \in Nat
  BY DEF Inv, TypeOK
<1>2. /\ \A d \in Clients \ {c} : heard'[d] = heard[d] /\ recv'[d] = recv[d]
      /\ heard'[c] = Append(heard[c], n)
      /\ recv'[c].at = "idle"
  BY DEF Hear, Idle, Recv, Inv, TypeOK
<1>3. DOMAIN heard'[c] = 1..(Len(heard[c]) + 1)
  BY <1>1, <1>2
<1>4. /\ heard'[c][Len(heard[c]) + 1] = n
      /\ \A k \in DOMAIN heard[c] : heard'[c][k] = heard[c][k]
      /\ DOMAIN heard'[c] = DOMAIN heard[c] \union {Len(heard[c]) + 1}
  BY <1>1, <1>2, <1>3
<1>5. Numbered'
  BY <1>1, <1>2, <1>4 DEF Inv, Numbered
<1>6. \A k \in inbox'[c] : After(c, k)'
  BY <1>2, <1>4 DEF After, Inv, Ordered, InMemory
<1>7. \A d \in Clients \ {c} : \A k : After(d, k)' <=> After(d, k)
  BY <1>2 DEF After, InMemory
<1>8. Ordered'
  BY <1>6, <1>7 DEF Inv, Ordered
<1>9. InHand'
  BY <1>2, <1>7 DEF Inv, InHand, InMemory
<1>10. QED
  BY <1>5, <1>8, <1>9 DEF Inv

-----------------------------------------------------------------------------
(* What an action of recv does to the messages. *)
Quiet ==
    /\ UNCHANGED <<wire, sent, heard>>
    /\ \A c \in Clients :
          /\ inbox'[c] \subseteq inbox[c]
          /\ recv'[c].at = "got" => recv[c].at = "got" /\ recv'[c].item = recv[c].item
          /\ recv'[c].at \in {"polled", "blocked"} => ~InMemory

Returns(c, n) ==
    /\ UNCHANGED <<wire, sent>>
    /\ n \in 1..Len(sent[c])
    /\ After(c, n)
    /\ Hear(c, n)
    /\ Idle(c)
    /\ \A d \in Clients : inbox'[d] \subseteq inbox[d]
    /\ \A k \in inbox'[c] : InMemory \/ sent[c][k] = sent[c][n] => n < k

LEMMA GotoQuiet ==
    ASSUME TypeOK, NEW c \in Clients, NEW at \in Places \ {"got"}, Goto(c, at)
    PROVE  /\ recv'[c].at = at
           /\ \A d \in Clients \ {c} : recv'[d] = recv[d]
<1>1. recv[c] \in Calls
  BY DEF TypeOK
<1>2. [recv[c] EXCEPT !.at = at].at = at
  BY <1>1 DEF Calls
<1>3. QED
  BY <1>2 DEF Goto, TypeOK

LEMMA IdleQuiet ==
    ASSUME TypeOK, NEW c \in Clients, NEW at, NEW g, recv' = [recv EXCEPT ![c] = Recv(at, g)]
    PROVE  /\ recv'[c].at = at
           /\ \A d \in Clients \ {c} : recv'[d] = recv[d]
  BY DEF TypeOK, Recv

LEMMA ProgramQuiet ==
    ASSUME Inv, NEW c \in Clients, Program(c)
    PROVE  Quiet
<1> USE DEF Inv, TypeOK, InHand, Quiet, logVars, serverVars
<1>1. CASE Connect(c)
  <2>1. recv'[c].at = "idle" /\ \A d \in Clients \ {c} : recv'[d] = recv[d]
    BY <1>1, IdleQuiet DEF Connect
  <2>2. QED
    BY <1>1, <2>1 DEF Connect
<1>2. CASE Reconnect(c)
  BY <1>2 DEF Reconnect, Renew
<1>3. CASE ReconnectRaises(c)
  BY <1>3 DEF ReconnectRaises, Renew
<1>4. CASE Close(c)
  <2>1. recv'[c].at = "off" /\ \A d \in Clients \ {c} : recv'[d] = recv[d]
    BY <1>4, IdleQuiet DEF Close
  <2>2. QED
    BY <1>4, <2>1 DEF Close
<1>5. QED
  BY <1>1, <1>2, <1>3, <1>4 DEF Program

LEMMA TakeReturns ==
    ASSUME Inv, NEW c \in Clients, ~InMemory, NEW ch \in Channels, Take(c, ch)
    PROVE  \E n \in 1..Len(sent[c]) : Returns(c, n)
<1>1. PICK n \in Of(c, ch) : /\ Earliest(n, Of(c, ch))
                            /\ Hear(c, n)
                            /\ inbox' = [inbox EXCEPT ![c] = @ \ {n}]
                            /\ Idle(c)
                            /\ UNCHANGED <<wire, linkVars, serverVars, sent>>
  BY DEF Take
<1>2. n \in inbox[c] /\ sent[c][n] = ch /\ n \in 1..Len(sent[c]) /\ After(c, n)
  BY <1>1 DEF Of, Inv, Ordered, Numbered
<1>3. \A d \in Clients : inbox'[d] \subseteq inbox[d]
  BY <1>1 DEF Inv, TypeOK
<1>4. ASSUME NEW k \in inbox'[c], sent[c][k] = ch PROVE n < k
  <2>1. k \in Of(c, ch) /\ k # n /\ k \in Nat /\ n \in Nat
    BY <1>1, <1>2, <1>3, <1>4 DEF Of, Inv, TypeOK
  <2>2. QED
    BY <1>1, <2>1 DEF Earliest
<1>5. QED
  BY <1>1, <1>2, <1>3, <1>4 DEF Returns

LEMMA RecvMoves ==
    ASSUME Inv, NEW c \in Clients, RecvLoop(c), ~Get(c)
    PROVE  Quiet \/ \E n \in 1..Len(sent[c]) : Returns(c, n)
<1>1. TypeOK /\ recv[c] \in Calls
  BY DEF Inv, TypeOK
<1> USE DEF linkVars, serverVars, logVars
<1>2. ASSUME NEW at \in Places \ {"got"}, UNCHANGED <<wire, sent, heard>>,
             recv'[c].at = at, \A d \in Clients \ {c} : recv'[d] = recv[d],
             at \in {"polled", "blocked"} => ~InMemory,
             \A d \in Clients : inbox'[d] \subseteq inbox[d]
      PROVE  Quiet
  BY <1>2 DEF Quiet, Inv, InHand
<1>3. CASE Call(c)
  <2>1. PICK at \in {"poll", "spinning"} :
            recv'[c].at = at /\ \A d \in Clients \ {c} : recv'[d] = recv[d]
    BY <1>1, <1>3, IdleQuiet DEF Call
  <2>2. QED
    BY <1>2, <1>3, <2>1 DEF Call, Places
<1>4. CASE PollReturns(c)
  <2>1. [recv[c] EXCEPT !.at = "polled", !.events = Ready(c)].at = "polled"
    BY <1>1 DEF Calls
  <2>2. recv'[c].at = "polled" /\ \A d \in Clients \ {c} : recv'[d] = recv[d]
    BY <1>1, <1>4, <2>1 DEF PollReturns, TypeOK
  <2>3. QED
    BY <1>2, <1>4, <2>2 DEF PollReturns, Places
<1>5. CASE Expire(c)
  BY <1>1, <1>2, <1>5, IdleQuiet DEF Expire, Idle, Places
<1>6. CASE Return(c)
  <2>1. Returns(c, recv[c].item)
    BY <1>6 DEF Return, Returns, At, Inv, InHand
  <2>2. recv[c].item \in 1..Len(sent[c])
    BY <1>6 DEF Return, At, Inv, InHand
  <2>3. QED
    BY <2>1, <2>2
<1>7. CASE Receive(c) \/ Unblock(c)
  <2>1. ~InMemory
    BY <1>7 DEF Receive, Unblock, At, Inv, InHand
  <2>2. \E ch \in Channels : Take(c, ch)
    BY <1>7 DEF Receive, Unblock, Channels
  <2>3. QED
    BY <2>1, <2>2, TakeReturns
<1>8. CASE Misread(c)
  <2>1. ~InMemory
    BY <1>8 DEF Misread, At, Inv, InHand
  <2>2. [recv[c] EXCEPT !.at = "blocked", !.sock = gen[c]].at = "blocked"
    BY <1>1 DEF Calls
  <2>3. recv'[c].at = "blocked" /\ \A d \in Clients \ {c} : recv'[d] = recv[d]
    BY <1>1, <1>8, <2>2 DEF Misread, TypeOK
  <2>4. QED
    BY <1>2, <1>8, <2>1, <2>3 DEF Misread, Places
<1>9. CASE MisreadNone(c)
  <2>1. recv'[c].at = "raised" /\ \A d \in Clients \ {c} : recv'[d] = recv[d]
    BY <1>1, <1>9, GotoQuiet DEF MisreadNone, Places
  <2>2. QED
    BY <1>2, <1>9, <2>1 DEF MisreadNone, Places
<1>10. ASSUME NEW to, Renew(c, to) PROVE \A d \in Clients : inbox'[d] \subseteq inbox[d]
  BY <1>1, <1>10 DEF Renew, TypeOK
<1>11. CASE RecvReconnect(c)
  <2>1. recv'[c].at = "idle" /\ \A d \in Clients \ {c} : recv'[d] = recv[d]
    BY <1>1, <1>11, IdleQuiet DEF RecvReconnect
  <2>2. QED
    BY <1>2, <1>10, <1>11, <2>1 DEF RecvReconnect, Renew, Places
<1>12. CASE RecvReconnectRaises(c)
  <2>1. recv'[c].at = "dead" /\ \A d \in Clients \ {c} : recv'[d] = recv[d]
    BY <1>1, <1>12, GotoQuiet DEF RecvReconnectRaises, Places
  <2>2. QED
    BY <1>2, <1>10, <1>12, <2>1 DEF RecvReconnectRaises, Renew, Places
<1>13. QED
  BY <1>3, <1>4, <1>5, <1>6, <1>7, <1>8, <1>9, <1>11, <1>12 DEF RecvLoop

(* The item that get returns is the first of the queue. *)
LEMMA GetStep ==
    ASSUME Inv, TypeOK', NEW c \in Clients, Get(c)
    PROVE  Inv'
<1>1. PICK n \in inbox[c] :
          /\ Earliest(n, inbox[c])
          /\ recv' = [recv EXCEPT ![c].at = "got", ![c].item = n]
          /\ inbox' = [inbox EXCEPT ![c] = @ \ {n}]
  BY DEF Get
<1>2. InMemory /\ UNCHANGED <<wire, sent, heard>>
  BY DEF Get, logVars
<1>3. recv[c] \in Calls
  BY DEF Inv, TypeOK
<1>4. /\ [recv[c] EXCEPT !.at = "got", !.item = n].at = "got"
      /\ [recv[c] EXCEPT !.at = "got", !.item = n].item = n
  BY <1>3 DEF Calls
<1>5. /\ recv'[c].at = "got" /\ recv'[c].item = n
      /\ \A d \in Clients \ {c} : recv'[d] = recv[d] /\ inbox'[d] = inbox[d]
      /\ inbox'[c] = inbox[c] \ {n}
  BY <1>1, <1>4 DEF Inv, TypeOK
<1>6. \A d \in Clients : \A k : After(d, k)' <=> After(d, k)
  BY <1>2 DEF After, InMemory
<1>7. n \in 1..Len(sent[c]) /\ After(c, n)
  BY <1>1 DEF Inv, Numbered, Ordered
<1>8. \A k \in inbox'[c] : n < k
  <2>1. SUFFICES ASSUME NEW k \in inbox'[c] PROVE n < k
    OBVIOUS
  <2>2. k \in Nat /\ n \in Nat /\ k # n /\ n <= k
    BY <1>1, <1>5 DEF Earliest, Inv, TypeOK
  <2>3. QED
    BY <2>2
<1>9. Numbered'
  BY <1>2, <1>5 DEF Inv, Numbered
<1>10. Ordered'
  BY <1>5, <1>6 DEF Inv, Ordered
<1>11. InHand'
  <2>1. InMemory'
    BY <1>2 DEF InMemory
  <2>2. \A d \in Clients \ {c} : recv'[d].at \notin {"polled", "blocked"}
    BY <1>2, <1>5 DEF Inv, InHand
  <2>3. QED
    BY <1>2, <1>5, <1>6, <1>7, <1>8, <2>1, <2>2 DEF Inv, InHand
<1>12. QED
  BY <1>9, <1>10, <1>11 DEF Inv

LEMMA NetworkQuiet ==
    ASSUME Inv, NEW c \in Clients, Network(c)
    PROVE  Quiet
<1> USE DEF logVars
<1>1. CASE Cancelled(c)
  <2>1. recv'[c].at = "dead" /\ \A d \in Clients \ {c} : recv'[d] = recv[d]
    BY <1>1, GotoQuiet DEF Cancelled, Places, Inv
  <2>2. QED
    BY <1>1, <2>1 DEF Cancelled, Quiet, Inv, InHand
<1>2. CASE RouteUp(c) \/ RouteDown(c) \/ Join(c)
  BY <1>2 DEF RouteUp, RouteDown, Join, Quiet, Inv, InHand
<1>3. QED
  BY <1>1, <1>2 DEF Network

(* What a send does to the messages. *)
Sends ==
    /\ UNCHANGED <<wire, recv, heard>>
    /\ \A c \in Clients :
          \/ sent'[c] = sent[c] /\ inbox'[c] = inbox[c]
          \/ /\ \E ch \in Channels : sent'[c] = Append(sent[c], ch)
             /\ inbox'[c] \subseteq inbox[c] \union {Len(sent[c]) + 1}

LEMMA ServerSends ==
    ASSUME Inv, Broadcast \/ \E c \in Clients : Send(c)
    PROVE  Sends
<1>1. CASE Broadcast
  BY <1>1 DEF Broadcast, Deliver, Sends, Channels
<1>2. ASSUME NEW c \in Clients, Send(c) PROVE Sends
  <2>1. /\ sent'[c] = Append(sent[c], "control")
        /\ \A d \in Clients \ {c} : sent'[d] = sent[d] /\ inbox'[d] = inbox[d]
        /\ inbox'[c] \subseteq inbox[c] \union {Len(sent[c]) + 1}
    BY <1>2 DEF Send, Deliver, Inv, TypeOK
  <2>2. QED
    BY <1>2, <2>1 DEF Send, Sends, Channels
<1>3. QED
  BY <1>1, <1>2

(* So there are these kinds of steps. *)
LEMMA StepKinds ==
    ASSUME Inv, Next
    PROVE  \/ Quiet
           \/ \E c \in Clients : Get(c)
           \/ \E c \in Clients : \E n \in 1..Len(sent[c]) : Returns(c, n)
           \/ Sends
  BY ProgramQuiet, RecvMoves, NetworkQuiet, ServerSends DEF Next

LEMMA InvStep == Inv /\ [Next]_vars => Inv'
<1>1. SUFFICES ASSUME Inv, [Next]_vars, TypeOK' PROVE Inv'
  BY TypeStep DEF Inv
<1>2. CASE UNCHANGED vars
  BY <1>1, <1>2, CalmStep DEF vars, logVars, Inv, InHand
<1>3. CASE Quiet
  BY <1>1, <1>3, CalmStep DEF Quiet
<1>4. ASSUME NEW c \in Clients, Get(c) PROVE Inv'
  BY <1>1, <1>4, GetStep
<1>5. ASSUME NEW c \in Clients, NEW n \in 1..Len(sent[c]), Returns(c, n) PROVE Inv'
  BY <1>1, <1>5, HearStep DEF Returns
<1>6. CASE Sends
  BY <1>1, <1>6, SendStep DEF Sends
<1>7. QED
  BY <1>1, <1>2, <1>3, <1>4, <1>5, <1>6, StepKinds

LEMMA InvInit == Init => Inv
<1>1. SUFFICES ASSUME Init PROVE Inv
  OBVIOUS
<1>2. \A c \in Clients : recv[c].at = "off" /\ recv[c] \in Calls
  BY <1>1, Fresh DEF Init, Recv, Places
<1>3. TypeOK
  BY <1>1, <1>2, Fresh DEF Init, TypeOK, Places, InMemory
<1>4. QED
  BY <1>1, <1>2, <1>3 DEF Init, Inv, Numbered, Ordered, InHand

LEMMA SpecInv == Spec => []Inv
  BY InvInit, InvStep, PTL DEF Spec

-----------------------------------------------------------------------------
(* The state of the transports keeps its type, and a started in-memory      *)
(* client is known to the hub.                                              *)
THEOREM TypeCorrect == Spec => []TypeOK
<1>1. Inv => TypeOK
  BY DEF Inv
<1>2. QED
  BY <1>1, SpecInv, PTL

LEMMA ReturnsReceive ==
    ASSUME Inv, NEW c \in Clients, NEW n \in 1..Len(sent[c]), Returns(c, n)
    PROVE  Contract!Receive(c, n)
  BY DEF Returns, After, Hear, Contract!Receive, InMemory

(* A send is one of the contract, whoever it reaches. *)
LEMMA SendIsSend ==
    ASSUME Broadcast \/ \E c \in Clients : Send(c)
    PROVE  Contract!Next
  BY DEF Broadcast, Send, Contract!Next, Contract!Send, Contract!Broadcast, InMemory, Channels

LEMMA ContractStep == Inv /\ [Next]_vars => [Contract!Next]_(Contract!vars)
<1>1. SUFFICES ASSUME Inv, [Next]_vars PROVE Contract!Next \/ UNCHANGED Contract!vars
  OBVIOUS
<1>2. CASE UNCHANGED vars
  BY <1>2 DEF vars, logVars, Contract!vars, InMemory
<1>3. CASE Quiet
  BY <1>3 DEF Quiet, Contract!vars, InMemory
<1>4. ASSUME NEW c \in Clients, Get(c) PROVE UNCHANGED Contract!vars
  BY <1>4 DEF Get, logVars, Contract!vars, InMemory
<1>5. ASSUME NEW c \in Clients, NEW n \in 1..Len(sent[c]), Returns(c, n)
      PROVE  Contract!Next
  BY <1>1, <1>5, ReturnsReceive DEF Contract!Next
<1>6. CASE Broadcast \/ \E c \in Clients : Send(c)
  BY <1>6, SendIsSend
<1>7. QED
  BY <1>1, <1>2, <1>3, <1>4, <1>5, <1>6, ProgramQuiet, RecvMoves, NetworkQuiet DEF Next

(* Both transports keep the contract: recv returns what was sent, once, and *)
(* in the order of its channel, in memory of all channels, whatever         *)
(* restarts overtake it.                                                    *)
THEOREM TransportImplementsContract == Spec => ImplementsContract
<1>1. Init => Contract!Init
  BY DEF Init, Contract!Init, InMemory
<1>2. QED
  BY <1>1, SpecInv, ContractStep, PTL DEF Spec, ImplementsContract, Contract!Spec
=============================================================================
