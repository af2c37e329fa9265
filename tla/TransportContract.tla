------------------------- MODULE TransportContract -------------------------
(***************************************************************************)
(* What a client may rely on, whichever transport its messages come over:  *)
(* of each channel it receives some of the messages, each of them once and *)
(* in the order they were sent.  Over an ordered transport the channels    *)
(* keep their order among each other, too.  Messages may be lost.          *)
(***************************************************************************)
EXTENDS Naturals, Sequences

CONSTANTS
    Clients,  \* the client ids
    Channels  \* "control" and "broadcast"

VARIABLES
    ordered,  \* one queue for all channels
    sent,     \* for each client, the channels of the messages sent to it, in order
    heard     \* the messages each client has received, in order

vars == <<ordered, sent, heard>>

Init ==
    /\ ordered \in BOOLEAN
    /\ sent = [c \in Clients |-> <<>>]
    /\ heard = [c \in Clients |-> <<>>]

Send(c, ch) ==
    /\ sent' = [sent EXCEPT ![c] = Append(@, ch)]
    /\ UNCHANGED <<ordered, heard>>

Broadcast(ch) ==
    /\ sent' = [c \in Clients |-> Append(sent[c], ch)]
    /\ UNCHANGED <<ordered, heard>>

(* Message n of those sent to c comes after all it has received, over an *)
(* unordered transport all of its channel.                               *)
Receive(c, n) ==
    /\ \A k \in DOMAIN heard[c] :
          ordered \/ sent[c][heard[c][k]] = sent[c][n] => heard[c][k] < n
    /\ heard' = [heard EXCEPT ![c] = Append(@, n)]
    /\ UNCHANGED <<ordered, sent>>

Next ==
    \/ \E c \in Clients, ch \in Channels : Send(c, ch)
    \/ \E ch \in Channels : Broadcast(ch)
    \/ \E c \in Clients : \E n \in 1..Len(sent[c]) : Receive(c, n)

Spec == Init /\ [][Next]_vars
=============================================================================
