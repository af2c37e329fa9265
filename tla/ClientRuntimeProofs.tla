------------------------ MODULE ClientRuntimeProofs ------------------------
(***************************************************************************)
(* What the three tasks of a client cannot do to each other, proved for    *)
(* any number of failures and of commands.                                 *)
(***************************************************************************)
EXTENDS ClientRuntime, SequenceTheorems, FiniteSetTheorems, TLAPS

Budgets == [send : Nat, recv : Nat, restart : Nat, handler : Nat, session : Nat]

(* The types, as far as the argument needs them. *)
Types ==
    /\ pc \in [Tasks -> Labels]
    /\ saved \in [Tasks -> Statuses]
    /\ status \in Statuses
    /\ answered \subseteq Tasks
    /\ closing \in BOOLEAN
    /\ toServer \in Seq(Messages)
    /\ toClient \in Seq(Messages)
    /\ serverView \in Statuses \union {"ABSENT"}
    /\ budget \in Budgets

(* The two loops in the order they asked for the lock. *)
Fifos == {<<>>, <<"recv">>, <<"hb">>, <<"recv", "hb">>, <<"hb", "recv">>}
In(t, q) == \E i \in DOMAIN q : q[i] = t

(* The loops that are in reconnect hold the lock or wait for it, and the one *)
(* that restarts the transport holds it.                                     *)
Queued(t) == pc[t] \in {"lock", "reRegister", "reSync"}
Fifo ==
    /\ lock \in Fifos
    /\ \A t \in Loops : /\ Queued(t) <=> In(t, lock)
                        /\ pc[t] \in {"reRegister", "reSync"} => Head(lock) = t

(* connect is the first that the application does, and close the last. *)
Course ==
    /\ pc["app"] = "new" => \A t \in Loops : pc[t] = "new"
    /\ closing => pc["app"] \in {"closing", "closed", "closefailed"}

(* What the server will believe when it has read all that was sent. *)
Says(m) == m.kind \in {"REGISTER", "CLIENT_STATUS"}
Ends(q, view, s) ==
    \/ view = s /\ \A i \in DOMAIN q : ~Says(q[i])
    \/ \E i \in DOMAIN q : q[i] = Status(s) /\ \A j \in DOMAIN q : j > i => ~Says(q[j])

(* It is what the client believes, unless a loop is in reconnect, where its *)
(* status is ahead of what it sends.                                        *)
Settled ==
    /\ pc["app"] = "ready"
    /\ pc["recv"] \in {"receiving", "applying"}
    /\ pc["hb"] \in {"sleeping", "sync"}
Belief == Settled => status = "RUNNING" \/ Ends(toServer, serverView, status)

IInv == Types /\ Fifo /\ Course /\ Belief

-----------------------------------------------------------------------------
(* Short sequences. *)
LEMMA Pair ==
    ASSUME NEW a, NEW b
    PROVE  Append(<<a>>, b) = <<a, b>> /\ <<a>> \o <<b>> = <<a, b>>
<1> PICK S : S = {a, b}
  OBVIOUS
<1>1. <<a>> \in Seq(S) /\ <<b>> \in Seq(S) /\ a \in S /\ b \in S
  OBVIOUS
<1>2. PICK x \in Seq(S) : x = <<a>> /\ Len(x) = 1 /\ x[1] = a
  BY <1>1
<1>3. <<a, b>> \in Seq(S) /\ Len(<<a, b>>) = 2 /\ <<a, b>>[1] = a /\ <<a, b>>[2] = b
  BY <1>1
<1>4. PICK y \in Seq(S) : y = <<a, b>> /\ Len(y) = 2 /\ y[1] = a /\ y[2] = b
  BY <1>3
<1>5. /\ Append(x, b) \in Seq(S) /\ Len(Append(x, b)) = 2
      /\ Append(x, b)[1] = a /\ Append(x, b)[2] = b
  BY <1>1, <1>2, AppendProperties
<1>6. PICK z \in Seq(S) : z = Append(x, b) /\ Len(z) = 2 /\ z[1] = a /\ z[2] = b
  BY <1>5
<1>7. \A i \in 1..2 : i = 1 \/ i = 2
  OBVIOUS
<1>8. z = y
  BY <1>4, <1>6, <1>7, SeqEqual
<1>9. Append(x, b) = x \o <<b>>
  BY <1>1, AppendIsConcat
<1>10. QED
  BY <1>2, <1>4, <1>6, <1>8, <1>9

LEMMA Short ==
    /\ \A a : /\ Head(<<a>>) = a /\ Tail(<<a>>) = <<>> /\ <<a>> # <<>>
              /\ <<a>> \o <<>> = <<a>> /\ Append(<<>>, a) = <<a>>
    /\ \A a, b : Head(<<a, b>>) = a /\ Tail(<<a, b>>) = <<b>> /\ <<a, b>> # <<>>
    /\ \A t : ~In(t, <<>>)
    /\ \A a, t : In(t, <<a>>) <=> t = a
    /\ \A a, b, t : In(t, <<a, b>>) <=> t = a \/ t = b
<1>1. \A a : /\ Head(<<a>>) = a /\ Tail(<<a>>) = <<>> /\ <<a>> # <<>>
             /\ <<a>> \o <<>> = <<a>> /\ Append(<<>>, a) = <<a>>
  OBVIOUS
<1>2. \A a, b : Head(<<a, b>>) = a /\ Tail(<<a, b>>) = <<b>> /\ <<a, b>> # <<>>
  OBVIOUS
<1>3. \A t : ~In(t, <<>>)
  BY DEF In
<1>4. \A a, t : In(t, <<a>>) <=> t = a
  BY DEF In
<1>5. \A a, b, t : In(t, <<a, b>>) <=> t = a \/ t = b
  BY DEF In
<1>6. QED
  BY <1>1, <1>2, <1>3, <1>4, <1>5

(* The order of two loops. *)
LEMMA Orders ==
    ASSUME NEW q \in Fifos, NEW t \in Loops
    PROVE  /\ q \in Seq(Loops) /\ ~In(t, <<>>)
           /\ q # <<>> => /\ Head(q) \in Loops /\ In(Head(q), q) /\ Tail(q) \in Fifos
                          /\ \A u \in Loops : In(u, Tail(q)) <=> In(u, q) /\ u # Head(q)
                          /\ <<Head(q)>> \o Tail(q) = q /\ <<Head(q)>> \in Fifos
                          /\ \A u : In(u, <<Head(q)>>) <=> u = Head(q)
           /\ ~In(t, q) => /\ Append(q, t) \in Fifos
                           /\ \A u \in Loops : In(u, Append(q, t)) <=> In(u, q) \/ u = t
                           /\ Head(Append(q, t)) = IF q = <<>> THEN t ELSE Head(q)
<1>1. /\ Loops = {"recv", "hb"} /\ Fifos = {<<>>, <<"recv">>, <<"hb">>, <<"recv", "hb">>, <<"hb", "recv">>}
  BY DEF Loops, Fifos
<1>2. q \in Seq(Loops)
  <2>1. \A a, b \in Loops : <<a, b>> \in Seq(Loops) /\ <<a>> \in Seq(Loops) /\ <<>> \in Seq(Loops)
    OBVIOUS
  <2>2. QED
    BY <1>1, <2>1
<1>3. CASE q = <<>>
  BY <1>1, <1>2, <1>3, Short
<1>4. ASSUME NEW a \in Loops, NEW b \in Loops, a # b PROVE \A u \in Loops : u = a \/ u = b
  BY <1>1, <1>4
<1>5. \A a, b \in Loops : a # b => <<a>> \in Fifos /\ <<a, b>> \in Fifos /\ <<>> \in Fifos
  BY <1>1
<1>6. ASSUME NEW a \in Loops, NEW b \in Loops, a # b, q = <<a>>
      PROVE  /\ q # <<>> /\ Head(q) = a /\ Tail(q) = <<>> /\ <<Head(q)>> = q
             /\ q \o Tail(q) = q
             /\ t # a => t = b /\ Append(q, t) = <<a, b>> /\ Head(Append(q, t)) = a
  <2>1. q # <<>> /\ Head(q) = a /\ Tail(q) = <<>> /\ <<a>> \o <<>> = <<a>>
    BY <1>6, Short
  <2>2. <<Head(q)>> = q
    BY <1>6, <2>1
  <2>3. q \o Tail(q) = q
    BY <1>6, <2>1
  <2>4. Append(q, b) = <<a, b>>
    BY <1>6, Pair
  <2>5. t # a => t = b
    BY <1>4, <1>6
  <2>6. Head(<<a, b>>) = a
    BY Short
  <2>7. QED
    BY <2>1, <2>2, <2>3, <2>4, <2>5, <2>6
<1>7. ASSUME NEW a \in Loops, NEW b \in Loops, a # b, q = <<a, b>>
      PROVE  /\ q # <<>> /\ Head(q) = a /\ Tail(q) = <<b>> /\ <<Head(q)>> = <<a>>
             /\ <<a>> \o Tail(q) = q
  <2>1. q # <<>> /\ Head(q) = a /\ Tail(q) = <<b>>
    BY <1>7, Short
  <2>2. <<Head(q)>> = <<a>>
    BY <2>1
  <2>3. <<a>> \o <<b>> = q
    BY <1>7, Pair
  <2>4. QED
    BY <2>1, <2>2, <2>3
<1>8. \E a, b \in Loops : a # b /\ (q = <<>> \/ q = <<a>> \/ q = <<a, b>>)
  BY <1>1
<1>9. ASSUME NEW a \in Loops, NEW b \in Loops, a # b, q = <<a>>
      PROVE  /\ Head(q) \in Loops /\ In(Head(q), q) /\ Tail(q) \in Fifos
             /\ \A u \in Loops : In(u, Tail(q)) <=> In(u, q) /\ u # Head(q)
             /\ <<Head(q)>> \o Tail(q) = q /\ <<Head(q)>> \in Fifos
             /\ \A u : In(u, <<Head(q)>>) <=> u = Head(q)
             /\ ~In(t, q) => /\ Append(q, t) \in Fifos
                             /\ \A u \in Loops : In(u, Append(q, t)) <=> In(u, q) \/ u = t
                             /\ Head(Append(q, t)) = Head(q)
  <2>1. \A u : In(u, q) <=> u = a
    BY <1>9, Short
  <2>2. \A u : ~In(u, <<>>)
    BY Short
  <2>3. \A u : In(u, <<a, b>>) <=> u = a \/ u = b
    BY Short
  <2>4. q \in Fifos /\ <<>> \in Fifos /\ <<a, b>> \in Fifos
    BY <1>1, <1>5, <1>9
  <2>5. /\ Head(q) = a /\ Tail(q) = <<>> /\ <<Head(q)>> = q /\ q \o Tail(q) = q
        /\ t # a => t = b /\ Append(q, t) = <<a, b>> /\ Head(Append(q, t)) = a
    BY <1>6, <1>9
  <2>6. In(Head(q), q) /\ Tail(q) \in Fifos /\ <<Head(q)>> \in Fifos
    BY <2>1, <2>4, <2>5
  <2>7. \A u \in Loops : In(u, Tail(q)) <=> In(u, q) /\ u # Head(q)
    BY <2>1, <2>2, <2>5
  <2>8. <<Head(q)>> \o Tail(q) = q
    BY <2>5
  <2>9. \A u : In(u, <<Head(q)>>) <=> u = Head(q)
    BY <2>1, <2>5
  <2>10. ~In(t, q) => /\ Append(q, t) \in Fifos
                      /\ \A u \in Loops : In(u, Append(q, t)) <=> In(u, q) \/ u = t
                      /\ Head(Append(q, t)) = Head(q)
    BY <2>1, <2>3, <2>4, <2>5
  <2>11. QED
    BY <1>9, <2>5, <2>6, <2>7, <2>8, <2>9, <2>10
<1>10. ASSUME NEW a \in Loops, NEW b \in Loops, a # b, q = <<a, b>>
      PROVE  /\ Head(q) \in Loops /\ In(Head(q), q) /\ Tail(q) \in Fifos
             /\ \A u \in Loops : In(u, Tail(q)) <=> In(u, q) /\ u # Head(q)
             /\ <<Head(q)>> \o Tail(q) = q /\ <<Head(q)>> \in Fifos
             /\ \A u : In(u, <<Head(q)>>) <=> u = Head(q)
             /\ In(t, q)
  <2>1. \A u : In(u, q) <=> u = a \/ u = b
    BY <1>10, Short
  <2>2. (\A u : In(u, <<a>>) <=> u = a) /\ (\A u : In(u, <<b>>) <=> u = b)
    BY Short
  <2>3. <<a>> \in Fifos /\ <<b>> \in Fifos
    BY <1>5, <1>10
  <2>4. Head(q) = a /\ Tail(q) = <<b>> /\ <<Head(q)>> = <<a>> /\ <<a>> \o Tail(q) = q
    BY <1>7, <1>10
  <2>5. In(Head(q), q) /\ Tail(q) \in Fifos /\ <<Head(q)>> \in Fifos
    BY <2>1, <2>3, <2>4
  <2>6. \A u \in Loops : In(u, Tail(q)) <=> In(u, q) /\ u # Head(q)
    BY <1>10, <2>1, <2>2, <2>4
  <2>7. <<Head(q)>> \o Tail(q) = q
    BY <2>4
  <2>8. \A u : In(u, <<Head(q)>>) <=> u = Head(q)
    BY <2>2, <2>4
  <2>9. In(t, q)
    BY <1>4, <1>10, <2>1
  <2>10. QED
    BY <1>10, <2>4, <2>5, <2>6, <2>7, <2>8, <2>9
<1>11. QED
  <2>1. CASE q # <<>>
    <3>1. PICK a \in Loops, b \in Loops : a # b /\ (q = <<a>> \/ q = <<a, b>>)
      BY <1>8, <2>1
    <3>2. CASE q = <<a>>
      <4>1. /\ Head(q) \in Loops /\ In(Head(q), q) /\ Tail(q) \in Fifos
            /\ \A u \in Loops : In(u, Tail(q)) <=> In(u, q) /\ u # Head(q)
            /\ <<Head(q)>> \o Tail(q) = q /\ <<Head(q)>> \in Fifos
            /\ \A u : In(u, <<Head(q)>>) <=> u = Head(q)
            /\ ~In(t, q) => /\ Append(q, t) \in Fifos
                            /\ \A u \in Loops : In(u, Append(q, t)) <=> In(u, q) \/ u = t
                            /\ Head(Append(q, t)) = Head(q)
        BY <1>9, <3>1, <3>2
      <4>2. QED
        BY <1>2, <2>1, <4>1, Short
    <3>3. CASE q = <<a, b>>
      <4>1. /\ Head(q) \in Loops /\ In(Head(q), q) /\ Tail(q) \in Fifos
            /\ \A u \in Loops : In(u, Tail(q)) <=> In(u, q) /\ u # Head(q)
            /\ <<Head(q)>> \o Tail(q) = q /\ <<Head(q)>> \in Fifos
            /\ \A u : In(u, <<Head(q)>>) <=> u = Head(q)
            /\ In(t, q)
        BY <1>10, <3>1, <3>3
      <4>2. QED
        BY <1>2, <2>1, <4>1, Short
    <3>4. QED
      BY <3>1, <3>2, <3>3
  <2>2. QED
    BY <1>3, <2>1

(* The messages and what they say. *)
LEMMA Kinds ==
    /\ \A t \in Tasks : /\ Register(t) \in Messages /\ Register(t).kind = "REGISTER"
                        /\ Ping(t) \in Messages /\ Ping(t).kind = "PING"
                        /\ Reply(t) \in Messages
    /\ \A s \in Statuses : Status(s) \in Messages
    /\ Start \in Messages
    /\ \A s : Status(s).kind = "CLIENT_STATUS" /\ Status(s).status = s
    /\ \A m \in Messages : /\ m.kind \in {"REGISTER", "PING", "reply"} => m.task \in Tasks
                           /\ m.kind = "CLIENT_STATUS" => m.status \in Statuses
<1>1. /\ \A t : /\ Register(t).kind = "REGISTER" /\ Register(t).task = t
                 /\ Ping(t).kind = "PING" /\ Ping(t).task = t
                 /\ Reply(t).kind = "reply" /\ Reply(t).task = t
      /\ \A s : Status(s).kind = "CLIENT_STATUS" /\ Status(s).status = s
      /\ Start.kind = "SESSION_START"
  BY DEF Register, Ping, Reply, Start, Status
<1>2. \A m : m \in Messages <=> \/ \E t \in Tasks : m = Register(t) \/ m = Ping(t) \/ m = Reply(t)
                                \/ \E s \in Statuses : m = Status(s)
                                \/ m = Start
  BY DEF Messages
<1>3. \A m \in Messages : /\ m.kind \in {"REGISTER", "PING", "reply"} => m.task \in Tasks
                          /\ m.kind = "CLIENT_STATUS" => m.status \in Statuses
  BY <1>1, <1>2
<1>4. QED
  BY <1>1, <1>2, <1>3

LEMMA EndsPing ==
    ASSUME NEW q \in Seq(Messages), NEW t \in Tasks, NEW view, NEW s, Ends(q, view, s)
    PROVE  Ends(q \o <<Ping(t)>>, view, s)
<1> DEFINE w == q \o <<Ping(t)>>
<1>1. PICK m \in Messages : m = Ping(t) /\ ~Says(m)
  BY Kinds DEF Says
<1>2. w = Append(q, m)
  BY <1>1, AppendIsConcat
<1>3. /\ w \in Seq(Messages) /\ Len(w) = Len(q) + 1 /\ Len(q) \in Nat
      /\ \A i \in 1..Len(q) : w[i] = q[i]
      /\ w[Len(q) + 1] = m
  BY <1>2, AppendProperties
<1>4. DOMAIN q = 1..Len(q) /\ DOMAIN w = 1..(Len(q) + 1)
  BY <1>3
<1> HIDE DEF w
<1>5. \A i \in 1..(Len(q) + 1) : i \in 1..Len(q) \/ i = Len(q) + 1
  BY <1>3
<1>6. CASE view = s /\ \A i \in DOMAIN q : ~Says(q[i])
  <2>1. \A i \in DOMAIN w : ~Says(w[i])
    BY <1>1, <1>3, <1>4, <1>5, <1>6
  <2>2. QED
    BY <1>6, <2>1 DEF Ends, w
<1>7. ASSUME NEW i \in DOMAIN q, q[i] = Status(s), \A j \in DOMAIN q : j > i => ~Says(q[j])
      PROVE  Ends(w, view, s)
  <2>1. i \in DOMAIN w /\ w[i] = Status(s)
    BY <1>3, <1>4, <1>7
  <2>2. \A j \in DOMAIN w : j > i => ~Says(w[j])
    BY <1>1, <1>3, <1>4, <1>5, <1>7
  <2>3. QED
    BY <2>1, <2>2 DEF Ends
<1>8. QED
  BY <1>6, <1>7 DEF Ends, w

LEMMA OneByOne ==
    ASSUME NEW q \in Seq(Messages), NEW m \in Messages, NEW n \in Messages
    PROVE  q \o <<m, n>> = (q \o <<m>>) \o <<n>>
<1>1. <<m>> \in Seq(Messages) /\ <<n>> \in Seq(Messages)
  OBVIOUS
<1>2. <<m, n>> = <<m>> \o <<n>>
  BY Pair
<1>3. QED
  BY <1>1, <1>2, ConcatAssociative

LEMMA EndsStatus ==
    ASSUME NEW q \in Seq(Messages), NEW view, NEW s \in Statuses
    PROVE  /\ Ends(q \o <<Status(s)>>, view, s)
           /\ \A r \in Statuses : Ends(q \o <<Status(r), Status(s)>>, view, s)
<1>1. ASSUME NEW a \in Seq(Messages) PROVE Ends(Append(a, Status(s)), view, s)
  <2> DEFINE w == Append(a, Status(s))
  <2>1. PICK m \in Messages : m = Status(s)
    BY Kinds
  <2>2. /\ w \in Seq(Messages) /\ Len(w) = Len(a) + 1 /\ Len(a) \in Nat
        /\ w[Len(a) + 1] = Status(s)
    BY <2>1, AppendProperties
  <2> HIDE DEF w
  <2>3. Len(a) + 1 \in DOMAIN w /\ \A j \in DOMAIN w : ~(j > Len(a) + 1)
    BY <2>2
  <2>4. QED
    BY <2>2, <2>3 DEF Ends, w
<1>2. q \o <<Status(s)>> = Append(q, Status(s))
  BY Kinds, AppendIsConcat
<1>3. ASSUME NEW r \in Statuses
      PROVE  /\ q \o <<Status(r), Status(s)>> = Append(Append(q, Status(r)), Status(s))
             /\ Append(q, Status(r)) \in Seq(Messages)
  <2>1. PICK m \in Messages, n \in Messages : m = Status(r) /\ n = Status(s)
    BY Kinds
  <2>2. /\ Append(q, m) = q \o <<m>> /\ Append(q, m) \in Seq(Messages)
        /\ Append(Append(q, m), n) = Append(q, m) \o <<n>>
    BY AppendProperties, AppendIsConcat
  <2>3. q \o <<m, n>> = (q \o <<m>>) \o <<n>>
    BY OneByOne
  <2>4. QED
    BY <2>1, <2>2, <2>3
<1>4. QED
  BY <1>1, <1>2, <1>3

LEMMA EndsTail ==
    ASSUME NEW q \in Seq(Messages), q # <<>>, NEW view, NEW s, Ends(q, view, s)
    PROVE  /\ ~Says(Head(q)) => Ends(Tail(q), view, s)
           /\ Head(q).kind = "CLIENT_STATUS" => Ends(Tail(q), Head(q).status, s)
           /\ \A v : Head(q).kind = "REGISTER" => Ends(Tail(q), v, s)
<1> DEFINE w == Tail(q)
<1>1. /\ Len(q) \in Nat \ {0} /\ Head(q) = q[1] /\ w \in Seq(Messages)
      /\ Len(w) = Len(q) - 1
      /\ \A i \in 1..Len(w) : w[i] = q[i + 1]
  BY HeadTailProperties, EmptySeq
<1>2. DOMAIN q = 1..Len(q) /\ DOMAIN w = 1..(Len(q) - 1)
  BY <1>1
<1> HIDE DEF w
<1>3. \A i \in 1..(Len(q) - 1) : i + 1 \in DOMAIN q /\ w[i] = q[i + 1] /\ i + 1 > 1
  BY <1>1, <1>2
<1>4. CASE view = s /\ \A i \in DOMAIN q : ~Says(q[i])
  <2>1. \A i \in DOMAIN w : ~Says(w[i])
    BY <1>2, <1>3, <1>4
  <2>2. ~Says(Head(q))
    BY <1>1, <1>2, <1>4
  <2>3. QED
    BY <1>4, <2>1, <2>2 DEF Ends, Says, w
<1>5. ASSUME NEW i \in DOMAIN q, q[i] = Status(s), \A j \in DOMAIN q : j > i => ~Says(q[j])
      PROVE  \/ i = 1 /\ Head(q) = Status(s) /\ \A j \in DOMAIN w : ~Says(w[j])
             \/ \A v : Ends(w, v, s)
  <2>1. CASE i = 1
    BY <1>1, <1>2, <1>3, <1>5, <2>1
  <2>2. CASE i # 1
    <3>1. i - 1 \in DOMAIN w /\ w[i - 1] = Status(s)
      BY <1>1, <1>2, <1>3, <1>5, <2>2
    <3>2. ASSUME NEW j \in DOMAIN w, j > i - 1 PROVE ~Says(w[j])
      <4>1. j + 1 \in DOMAIN q /\ j + 1 > i /\ w[j] = q[j + 1]
        BY <1>1, <1>2, <1>3, <1>5, <3>2
      <4>2. QED
        BY <1>5, <4>1
    <3>3. QED
      BY <3>1, <3>2 DEF Ends
  <2>3. QED
    BY <2>1, <2>2
<1>6. CASE \E i \in DOMAIN q : q[i] = Status(s) /\ \A j \in DOMAIN q : j > i => ~Says(q[j])
  BY <1>5, <1>6, Kinds DEF Ends, Says, w
<1>7. QED
  BY <1>4, <1>6 DEF Ends

-----------------------------------------------------------------------------
(* What a task may send at once, and what it may spend. *)
LEMMA Lists ==
    /\ \A t \in Tasks : <<Register(t)>> \in Seq(Messages) /\ <<Ping(t)>> \in Seq(Messages)
    /\ \A s \in Statuses : <<Status(s)>> \in Seq(Messages)
    /\ \A r, s \in Statuses : <<Status(r), Status(s)>> \in Seq(Messages)
    /\ <<>> \in Seq(Messages)
    /\ \A a, b \in Seq(Messages) : a \o b \in Seq(Messages)
<1>1. \A m \in Messages : <<m>> \in Seq(Messages)
  OBVIOUS
<1>2. \A m, n \in Messages : <<m, n>> \in Seq(Messages)
  OBVIOUS
<1>3. QED
  BY <1>1, <1>2, Kinds, ConcatProperties, EmptySeq

LEMMA Spending ==
    ASSUME NEW b \in Budgets
    PROVE  /\ b.restart > 0 => [b EXCEPT !.restart = @ - 1] \in Budgets
           /\ b.send > 0 => [b EXCEPT !["send"] = @ - 1] \in Budgets
           /\ b.recv > 0 => [b EXCEPT !["recv"] = @ - 1] \in Budgets
           /\ b.restart > 0 => [b EXCEPT !["restart"] = @ - 1] \in Budgets
           /\ b.handler > 0 => [b EXCEPT !["handler"] = @ - 1] \in Budgets
           /\ b.session > 0 => [b EXCEPT !["session"] = @ - 1] \in Budgets
BY DEF Budgets

LEMMA InitIInv == Init => IInv
<1> SUFFICES ASSUME Init PROVE IInv
  OBVIOUS
<1> USE DEF Init
<1>1. Types
  BY BudgetAssumption, EmptySeq DEF Types, Tasks, Loops, Labels, Statuses, Budgets
<1>2. Fifo
  <2>1. lock \in Fifos /\ \A t \in Loops : ~In(t, lock) /\ ~Queued(t)
    BY Short DEF Fifos, Queued, Tasks
  <2>2. QED
    BY <2>1 DEF Fifo, Queued
<1>3. Course /\ Belief
  BY DEF Course, Belief, Settled, Tasks
<1>4. QED
  BY <1>1, <1>2, <1>3 DEF IInv

-----------------------------------------------------------------------------
(* A task that has the lock restarts the transport, gives up or dies, while *)
(* the others wait.                                                         *)
Holds(t, others) ==
    /\ others \in Fifos /\ ~In(t, others)
    /\ <<t>> \o others \in Fifos /\ Head(<<t>> \o others) = t
    /\ \A u \in Loops : In(u, <<t>> \o others) <=> u = t \/ In(u, others)
    /\ \A u \in Loops \ {t} : /\ Queued(u) <=> In(u, others)
                             /\ pc[u] \notin {"reRegister", "reSync"}

LEMMA RestartStep ==
    ASSUME IInv, NEW t \in Loops, pc[t] # "new", NEW others, NEW own \in Statuses,
           NEW sent \in Seq(Messages), NEW left \in Budgets,
           Restart(t, others, own, sent, left), Holds(t, others),
           UNCHANGED <<saved, closing, serverView>>, answered' \subseteq answered
    PROVE  IInv'
<1>1. /\ Types /\ Course /\ t \in Tasks /\ Rest(t) \in Labels
      /\ Rest(t) \notin {"lock", "reRegister", "reSync"} /\ "app" # t
  BY DEF IInv, Loops, Tasks, Rest, Labels
<1>2. <<Register(t)>> \in Seq(Messages) /\ Append(sent, Register(t)) \in Seq(Messages)
  BY <1>1, Lists, Kinds, AppendProperties
<1>3. \/ /\ closing /\ pc' = [pc EXCEPT ![t] = Rest(t)] /\ lock' = others
      \/ ~closing /\ pc' = [pc EXCEPT ![t] = "reRegister"] /\ lock' = <<t>> \o others
      \/ ~closing /\ pc' = [pc EXCEPT ![t] = "dead"] /\ lock' = others
  BY DEF Restart
<1>4. Types'
  <2>1. pc' \in [Tasks -> Labels]
    BY <1>1, <1>3 DEF Types, Labels
  <2>2. toClient' \in Seq(Messages)
    BY <1>1, Lists DEF Restart, Types
  <2>3. toServer' \in Seq(Messages)
    <3>1. toServer' = toServer \o sent \/ toServer' = toServer \o Append(sent, Register(t))
      BY DEF Restart, Send
    <3>2. QED
      BY <1>1, <1>2, <3>1, Lists DEF Types
  <2>4. status' \in Statuses /\ budget' \in Budgets
    BY Spending DEF Restart, Statuses
  <2>5. QED
    BY <1>1, <2>1, <2>2, <2>3, <2>4 DEF Types
<1>5. Fifo'
  <2>1. CASE pc' = [pc EXCEPT ![t] = Rest(t)] /\ lock' = others
    BY <1>1, <2>1 DEF Fifo, Queued, Types, Tasks, Holds
  <2>2. CASE pc' = [pc EXCEPT ![t] = "reRegister"] /\ lock' = <<t>> \o others
    BY <1>1, <2>2 DEF Fifo, Queued, Types, Tasks, Holds
  <2>3. CASE pc' = [pc EXCEPT ![t] = "dead"] /\ lock' = others
    BY <1>1, <2>3 DEF Fifo, Queued, Types, Tasks, Holds
  <2>4. QED
    BY <1>3, <2>1, <2>2, <2>3
<1>6. Course'
  BY <1>1, <1>3 DEF Course, Types, Tasks, Loops
<1>7. Belief'
  <2>1. ~Settled'
    BY <1>1, <1>3 DEF Course, Settled, Types, Tasks, Loops
  <2>2. QED
    BY <2>1 DEF Belief
<1>8. QED
  BY <1>4, <1>5, <1>6, <1>7 DEF IInv

LEMMA ReconnectStep ==
    ASSUME IInv, NEW t \in Loops, pc[t] # "new", ~Queued(t), NEW own \in Statuses,
           NEW sent \in Seq(Messages), NEW left \in Budgets, Reconnect(t, own, sent, left), answered' \subseteq answered
    PROVE  IInv'
<1>1. Types /\ Fifo /\ Course /\ t \in Tasks /\ "app" # t
  BY DEF IInv, Loops, Tasks
<1>2. CASE lock = <<>>
  <2>1. Restart(t, <<>>, own, sent, left) /\ UNCHANGED <<saved, closing, serverView>>
    BY <1>2 DEF Reconnect
  <2>2. <<t>> \o <<>> = <<t>> /\ Head(<<t>>) = t /\ \A u : In(u, <<t>>) <=> u = t
    BY Short
  <2>3. <<t>> \in Fifos /\ <<>> \in Fifos
    BY DEF Fifos, Loops
  <2>4. \A u \in Loops : ~In(u, <<>>) /\ ~Queued(u)
    BY <1>1, <1>2, Short DEF Fifo
  <2>5. Holds(t, <<>>)
    BY <2>2, <2>3, <2>4 DEF Holds, Queued
  <2>6. QED
    BY <2>1, <2>5, RestartStep
<1>3. CASE lock # <<>>
  <2>1. /\ pc' = [pc EXCEPT ![t] = "lock"] /\ lock' = Append(lock, t) /\ status' = own
        /\ Send(sent) /\ budget' = left /\ UNCHANGED <<toClient, saved, closing, serverView>>
    BY <1>3 DEF Reconnect
  <2>2. /\ Append(lock, t) \in Fifos
        /\ \A u \in Loops : In(u, Append(lock, t)) <=> In(u, lock) \/ u = t
        /\ Head(Append(lock, t)) = Head(lock)
    BY <1>1, <1>3, Orders DEF Fifo
  <2>3. Types'
    BY <1>1, <2>1, Lists DEF Types, Send, Labels
  <2>4. Fifo'
    BY <1>1, <2>1, <2>2 DEF Fifo, Queued, Types, Tasks
  <2>5. Course' /\ Belief'
    BY <1>1, <2>1 DEF Course, Belief, Settled, Types, Tasks, Loops
  <2>6. QED
    BY <2>3, <2>4, <2>5 DEF IInv
<1>4. QED
  BY <1>2, <1>3

LEMMA TakeLockStep ==
    ASSUME IInv, NEW t \in Loops, TakeLock(t)
    PROVE  IInv'
<1>1. Types /\ Fifo
  BY DEF IInv
<1>2. /\ pc[t] = "lock" /\ Head(lock) = t /\ Restart(t, Tail(lock), status, <<>>, budget)
      /\ UNCHANGED <<saved, answered, closing, serverView>>
  BY DEF TakeLock
<1>3. lock # <<>>
  BY <1>1, <1>2, Short DEF Fifo, Queued
<1>4. /\ Tail(lock) \in Fifos /\ <<Head(lock)>> \o Tail(lock) = lock
      /\ \A u \in Loops : In(u, Tail(lock)) <=> In(u, lock) /\ u # Head(lock)
      /\ In(Head(lock), lock)
  BY <1>1, <1>3, Orders DEF Fifo
<1>5. \A u \in Loops \ {t} : /\ Queued(u) <=> In(u, Tail(lock))
                             /\ pc[u] \notin {"reRegister", "reSync"}
  BY <1>1, <1>2, <1>4 DEF Fifo
<1>6. <<t>> \o Tail(lock) = lock /\ lock \in Fifos
  BY <1>1, <1>2, <1>4 DEF Fifo
<1>7. \A u \in Loops : In(u, lock) <=> u = t \/ In(u, Tail(lock))
  BY <1>2, <1>4
<1>8. Holds(t, Tail(lock))
  BY <1>2, <1>4, <1>5, <1>6, <1>7 DEF Holds
<1>9. <<>> \in Seq(Messages) /\ status \in Statuses /\ budget \in Budgets
  BY <1>1, Lists DEF Types
<1>10. QED
  BY <1>2, <1>8, <1>9, RestartStep

LEMMA FifoKept ==
    ASSUME Fifo, lock' = lock,
           \A t \in Loops : pc'[t] = pc[t] \/ (~Queued(t) /\ ~Queued(t)')
    PROVE  Fifo'
<1>1. \A t \in Loops : Queued(t)' <=> Queued(t)
  BY DEF Queued
<1>2. \A t \in Loops : pc'[t] \in {"reRegister", "reSync"} => pc'[t] = pc[t]
  BY DEF Queued
<1>3. QED
  BY <1>1, <1>2 DEF Fifo

LEMMA Unsettled ==
    ASSUME ~Settled'
    PROVE  Belief'
BY DEF Belief

LEMMA BeliefKept ==
    ASSUME Belief, Settled' => Settled, UNCHANGED <<status, toServer, serverView>>
    PROVE  Belief'
BY DEF Belief

(* The other steps of reconnect. *)
LEMMA ReregisteredStep ==
    ASSUME IInv, NEW t \in Loops, Reregistered(t)
    PROVE  IInv'
<1>1. Types /\ Fifo /\ Course /\ t \in Tasks /\ t # "app"
  BY DEF IInv, Loops, Tasks
<1>2. Types'
  BY <1>1, Lists DEF Types, Reregistered, At, Answered, Send, Labels, Statuses
<1>3. Fifo'
  BY <1>1 DEF Fifo, Queued, Reregistered, At, Types, Tasks
<1>4. Course' /\ ~Settled'
  BY <1>1 DEF Course, Settled, Reregistered, At, Types, Tasks, Loops
<1>5. QED
  BY <1>2, <1>3, <1>4, Unsettled DEF IInv

LEMMA LeaveStep ==
    ASSUME Fifo, Types, NEW t \in Loops, pc[t] \in {"reRegister", "reSync"}, NEW to,
           to \notin {"lock", "reRegister", "reSync"}, pc' = [pc EXCEPT ![t] = to],
           lock' = Tail(lock)
    PROVE  Fifo'
<1>1. Head(lock) = t /\ lock # <<>> /\ lock \in Fifos
  BY Short DEF Fifo, Queued
<1>2. /\ Tail(lock) \in Fifos
      /\ \A u \in Loops : In(u, Tail(lock)) <=> In(u, lock) /\ u # t
  BY <1>1, Orders
<1>3. \A u \in Loops : pc'[u] = IF u = t THEN to ELSE pc[u]
  BY DEF Types, Tasks
<1>4. \A u \in Loops \ {t} : pc[u] \notin {"reRegister", "reSync"}
  BY <1>1 DEF Fifo
<1>5. QED
  BY <1>2, <1>3, <1>4 DEF Fifo, Queued

LEMMA ResyncedStep ==
    ASSUME IInv, NEW t \in Loops, Resynced(t)
    PROVE  IInv'
<1>1. Types /\ Fifo /\ Course /\ t \in Tasks /\ t # "app"
  BY DEF IInv, Loops, Tasks
<1>2. /\ pc[t] = "reSync" /\ pc' = [pc EXCEPT ![t] = Rest(t)] /\ status' = "READY"
      /\ lock' = Tail(lock) /\ toServer' = toServer \o <<Status(saved[t]), Status("READY")>>
      /\ answered' = answered \ {t}
      /\ UNCHANGED <<saved, closing, toClient, serverView, budget>>
  BY DEF Resynced, At, Answered, Send
<1>3. saved[t] \in Statuses /\ "READY" \in Statuses
  BY <1>1 DEF Types, Statuses
<1>4. Types'
  <2>1. toServer' \in Seq(Messages)
    BY <1>1, <1>2, <1>3, Lists DEF Types
  <2>2. QED
    BY <1>1, <1>2, <1>3, <2>1 DEF Types, Rest, Labels
<1>5. Fifo'
  <2>1. Rest(t) \notin {"lock", "reRegister", "reSync"}
    BY DEF Rest
  <2>2. QED
    BY <1>1, <1>2, <2>1, LeaveStep
<1>6. Course'
  BY <1>1, <1>2 DEF Course, Types, Tasks
<1>7. Belief'
  BY <1>1, <1>2, <1>3, EndsStatus DEF Belief, Types
<1>8. QED
  BY <1>4, <1>5, <1>6, <1>7 DEF IInv

LEMMA ReconnectFailsStep ==
    ASSUME IInv, NEW t \in Loops, ReconnectFails(t)
    PROVE  IInv'
<1>1. Types /\ Fifo /\ Course /\ t \in Tasks /\ t # "app"
  BY DEF IInv, Loops, Tasks
<1>2. /\ pc[t] \in {"reRegister", "reSync"} /\ pc' = [pc EXCEPT ![t] = "dead"]
      /\ lock' = Tail(lock) /\ answered' = answered \ {t}
      /\ status' \in {"REGISTERED", "READY", saved[t]}
      /\ toServer' = toServer \/ toServer' = toServer \o <<Status(saved[t])>>
      /\ budget.restart > 0 /\ budget' = [budget EXCEPT !["restart"] = @ - 1]
      /\ UNCHANGED <<saved, closing, toClient, serverView>>
  BY DEF ReconnectFails, At, Answered, Send, Spent
<1>3. saved[t] \in Statuses
  BY <1>1 DEF Types
<1>4. Types'
  <2>1. toServer' \in Seq(Messages)
    BY <1>1, <1>2, <1>3, Lists DEF Types
  <2>2. budget' \in Budgets
    BY <1>1, <1>2, Spending DEF Types
  <2>3. status' \in Statuses
    BY <1>2, <1>3 DEF Statuses
  <2>4. QED
    BY <1>1, <1>2, <2>1, <2>2, <2>3 DEF Types, Labels
<1>5. Fifo'
  BY <1>1, <1>2, LeaveStep
<1>6. Course' /\ ~Settled'
  BY <1>1, <1>2 DEF Course, Settled, Types, Tasks, Loops
<1>7. QED
  BY <1>4, <1>5, <1>6, Unsettled DEF IInv

-----------------------------------------------------------------------------
(* The application. *)
LEMMA AppStep ==
    ASSUME IInv, Connect \/ AppRegister \/ AppRegistered \/ AppSync \/ AppSynced
    PROVE  IInv'
<1>1. Types /\ Fifo /\ Course
  BY DEF IInv
<1>2. Types'
  <2>1. CASE Connect
    BY <1>1, <2>1 DEF Types, Connect, Rest, Labels, Statuses, Tasks, Loops
  <2>2. CASE AppRegister
    BY <1>1, <2>2, Lists DEF Types, AppRegister, At, Send, Labels, Tasks
  <2>3. CASE AppRegistered
    BY <1>1, <2>3 DEF Types, AppRegistered, At, Answered, Labels, Statuses
  <2>4. CASE AppSync
    BY <1>1, <2>4, Lists DEF Types, AppSync, At, Send, Labels, Tasks
  <2>5. CASE AppSynced
    BY <1>1, <2>5, Lists DEF Types, AppSynced, At, Answered, Send, Labels, Statuses
  <2>6. QED
    BY <2>1, <2>2, <2>3, <2>4, <2>5
<1>3. ~Settled' /\ Course'
  <2>1. CASE Connect
    BY <1>1, <2>1 DEF Course, Settled, Connect
  <2>2. CASE AppRegister \/ AppRegistered \/ AppSync \/ AppSynced
    BY <1>1, <2>2 DEF Course, Settled, AppRegister, AppRegistered, AppSync, AppSynced, At, Types,
       Tasks, Loops
  <2>3. QED
    BY <2>1, <2>2
<1>4. Fifo'
  <2>1. CASE Connect
    BY <1>1, <2>1, FifoKept DEF Connect, Course, Queued, Loops, Rest
  <2>2. CASE AppRegister \/ AppRegistered \/ AppSync \/ AppSynced
    BY <1>1, <2>2, FifoKept DEF AppRegister, AppRegistered, AppSync, AppSynced, At, Types, Tasks,
       Loops
  <2>3. QED
    BY <2>1, <2>2
<1>5. QED
  BY <1>2, <1>3, <1>4, Unsettled DEF IInv

LEMMA AppReadyStep ==
    ASSUME IInv, AppReady
    PROVE  IInv'
<1>1. Types /\ Fifo /\ Course
  BY DEF IInv
<1>2. /\ pc["app"] = "synced" /\ pc' = [pc EXCEPT !["app"] = "ready"] /\ status' = "READY"
      /\ toServer' = toServer \o <<Status("READY")>>
      /\ UNCHANGED <<saved, answered, lock, closing, toClient, serverView, budget>>
  BY DEF AppReady, At, Send
<1>3. "READY" \in Statuses
  BY DEF Statuses
<1>4. Types'
  BY <1>1, <1>2, <1>3, Lists DEF Types, Labels
<1>5. Fifo'
  BY <1>1, <1>2, FifoKept DEF Types, Tasks, Loops
<1>6. Course'
  BY <1>1, <1>2 DEF Course, Types, Tasks, Loops
<1>7. Belief'
  BY <1>1, <1>2, <1>3, EndsStatus DEF Belief, Types
<1>8. QED
  BY <1>4, <1>5, <1>6, <1>7 DEF IInv

(* A loop that is cancelled is in the lock's FIFO no more. *)
LEMMA CancelStep ==
    ASSUME Types, Fifo, NEW t \in Loops, lock' = Without(t),
           \A u \in Loops : pc'[u] = IF u = t THEN "ended" ELSE pc[u]
    PROVE  Fifo'
<1>1. /\ lock' \in Fifos
      /\ \A u \in Loops : In(u, lock') <=> In(u, lock) /\ u # t
  <2>1. CASE lock = <<>>
    BY <2>1, Short DEF Fifo, Without
  <2>2. CASE lock # <<>> /\ Head(lock) = t
    BY <2>2, Orders DEF Fifo, Without
  <2>3. CASE lock # <<>> /\ Head(lock) # t
    <3>1. lock' = <<Head(lock)>> /\ <<Head(lock)>> \in Fifos /\ In(Head(lock), lock)
          /\ (\A u : In(u, <<Head(lock)>>) <=> u = Head(lock)) /\ Head(lock) \in Loops
      BY <2>3, Orders DEF Fifo, Without
    <3>2. \A u \in Loops : u = t \/ u = Head(lock)
      BY <2>3, <3>1 DEF Loops
    <3>3. QED
      BY <2>3, <3>1, <3>2
  <2>4. QED
    BY <2>1, <2>2, <2>3
<1>2. ASSUME NEW u \in Loops, pc'[u] \in {"reRegister", "reSync"} PROVE Head(lock') = u
  <2>1. u # t /\ Head(lock) = u /\ lock # <<>>
    BY <1>2, Short DEF Fifo, Queued
  <2>2. lock' = <<u>>
    BY <2>1 DEF Without
  <2>3. QED
    BY <2>2, Short
<1>3. QED
  BY <1>1, <1>2 DEF Fifo, Queued

LEMMA CloseStep ==
    ASSUME IInv, Close
    PROVE  IInv'
<1>1. Types /\ Fifo /\ Course
  BY DEF IInv
<1>2. /\ pc["app"] = "ready" /\ closing' = TRUE
      /\ \/ pc' = [pc EXCEPT !["app"] = "closefailed"] /\ lock' = lock
         \/ /\ pc' = [pc EXCEPT !["app"] = "closing", !["recv"] = "ended"]
            /\ lock' = Without("recv")
      /\ UNCHANGED <<saved, status, answered, toServer, toClient, serverView, budget>>
  BY DEF Close
<1>3. Types'
  BY <1>1, <1>2 DEF Types, Labels
<1>4. Fifo'
  <2>1. CASE pc' = [pc EXCEPT !["app"] = "closefailed"] /\ lock' = lock
    BY <1>1, <2>1, FifoKept DEF Types, Tasks, Loops
  <2>2. CASE /\ pc' = [pc EXCEPT !["app"] = "closing", !["recv"] = "ended"]
             /\ lock' = Without("recv")
    <3>1. \A u \in Loops : pc'[u] = IF u = "recv" THEN "ended" ELSE pc[u]
      BY <1>1, <2>2 DEF Types, Tasks, Loops
    <3>2. QED
      BY <1>1, <2>2, <3>1, CancelStep DEF Loops
  <2>3. QED
    BY <1>2, <2>1, <2>2
<1>5. Course' /\ ~Settled'
  BY <1>1, <1>2 DEF Course, Settled, Types, Tasks, Loops
<1>6. QED
  BY <1>3, <1>4, <1>5, Unsettled DEF IInv

LEMMA CloseHeartbeatStep ==
    ASSUME IInv, CloseHeartbeat
    PROVE  IInv'
<1>1. Types /\ Fifo /\ Course
  BY DEF IInv
<1>2. /\ pc["app"] = "closing"
      /\ \/ /\ pc' = [pc EXCEPT !["app"] = "closefailed"]
            /\ UNCHANGED <<lock, toClient, status>>
         \/ /\ pc' = [pc EXCEPT !["app"] = "closed", !["hb"] = "ended"]
            /\ lock' = Without("hb") /\ toClient' = <<>> /\ status' = "DISCONNECTED"
      /\ UNCHANGED <<saved, answered, closing, toServer, serverView, budget>>
  BY DEF CloseHeartbeat
<1>3. Types'
  BY <1>1, <1>2, Lists DEF Types, Labels, Statuses
<1>4. Fifo'
  <2>1. CASE pc' = [pc EXCEPT !["app"] = "closefailed"] /\ UNCHANGED <<lock, toClient, status>>
    BY <1>1, <2>1, FifoKept DEF Types, Tasks, Loops
  <2>2. CASE /\ pc' = [pc EXCEPT !["app"] = "closed", !["hb"] = "ended"]
             /\ lock' = Without("hb")
    <3>1. \A u \in Loops : pc'[u] = IF u = "hb" THEN "ended" ELSE pc[u]
      BY <1>1, <2>2 DEF Types, Tasks, Loops
    <3>2. QED
      BY <1>1, <2>2, <3>1, CancelStep DEF Loops
  <2>3. QED
    BY <1>2, <2>1, <2>2
<1>5. Course' /\ ~Settled'
  BY <1>1, <1>2 DEF Course, Settled, Types, Tasks, Loops
<1>6. QED
  BY <1>3, <1>4, <1>5, Unsettled DEF IInv

-----------------------------------------------------------------------------
(* The receive loop. *)
LEMMA RecvStep ==
    ASSUME IInv, RecvProgress \/ RecvRaises
    PROVE  IInv'
<1>1. Types /\ Fifo /\ Course /\ Belief
  BY DEF IInv
<1>2. CASE RecvReply
  <2>1. Types'
    <3>1. Head(toClient) \in Messages /\ Tail(toClient) \in Seq(Messages)
      BY <1>1, <1>2, HeadTailProperties DEF RecvReply, Types
    <3>2. Head(toClient).task \in Tasks
      BY <1>2, <3>1, Kinds DEF RecvReply
    <3>3. QED
      BY <1>1, <1>2, <3>1, <3>2 DEF RecvReply, Types
  <2>2. Fifo' /\ Course' /\ Belief'
    BY <1>1, <1>2, FifoKept, BeliefKept DEF RecvReply, Course, Settled
  <2>3. QED
    BY <2>1, <2>2 DEF IInv
<1>3. CASE RecvStart
  <2>1. Types'
    <3>1. Tail(toClient) \in Seq(Messages)
      BY <1>1, <1>3, HeadTailProperties DEF RecvStart, Types
    <3>2. QED
      BY <1>1, <1>3, <3>1 DEF RecvStart, At, Types, Labels, Statuses
  <2>2. Fifo' /\ Course'
    BY <1>1, <1>3, FifoKept DEF RecvStart, At, Course, Types, Tasks, Loops, Queued
  <2>3. Belief'
    BY <1>3 DEF RecvStart, Belief
  <2>4. QED
    BY <2>1, <2>2, <2>3 DEF IInv
<1>4. CASE RecvApplied
  <2>1. Types' /\ Course'
    BY <1>1, <1>4 DEF RecvApplied, At, Types, Labels, Course, Tasks, Loops
  <2>2. Fifo'
    BY <1>1, <1>4, FifoKept DEF RecvApplied, At, Types, Tasks, Loops, Queued
  <2>3. Settled' => Settled
    BY <1>1, <1>4 DEF RecvApplied, At, Settled, Types, Tasks, Loops
  <2>4. Belief'
    BY <1>1, <1>4, <2>3, BeliefKept DEF RecvApplied
  <2>5. QED
    BY <2>1, <2>2, <2>4 DEF IInv
<1>5. CASE HandlerRaises
  <2>1. Types'
    BY <1>1, <1>5, Spending DEF HandlerRaises, At, Spent, Types, Labels
  <2>2. Fifo' /\ Course'
    BY <1>1, <1>5, FifoKept DEF HandlerRaises, At, Course, Types, Tasks, Loops, Queued
  <2>3. ~Settled'
    BY <1>1, <1>5 DEF HandlerRaises, At, Settled, Types, Tasks, Loops
  <2>4. QED
    BY <2>1, <2>2, <2>3, Unsettled DEF IInv
<1>6. CASE RecvRaises
  <2>1. Spent("recv") \in Budgets /\ status \in Statuses /\ <<>> \in Seq(Messages)
    BY <1>1, <1>6, Spending, Lists DEF RecvRaises, Spent, Types
  <2>2. ~Queued("recv") /\ "recv" \in Loops /\ pc["recv"] # "new"
    BY <1>6 DEF RecvRaises, Queued, Loops
  <2>3. QED
    BY <1>6, <2>1, <2>2, ReconnectStep DEF RecvRaises
<1>7. QED
  BY <1>2, <1>3, <1>4, <1>5, <1>6 DEF RecvProgress

(* The heartbeat loop. *)
LEMMA HbStep ==
    ASSUME IInv, HbProgress \/ HbFails \/ HbEnds
    PROVE  IInv'
<1>1. Types /\ Fifo /\ Course /\ Belief /\ saved["hb"] \in Statuses /\ "DEGRADED" \in Statuses
  BY DEF IInv, Types, Tasks, Loops, Statuses
<1>2. CASE HbSync
  <2>1. /\ pc["hb"] = "sleeping" /\ pc' = [pc EXCEPT !["hb"] = "sync"]
        /\ toServer' = toServer \o <<Ping("hb")>> /\ "hb" \in Tasks
        /\ UNCHANGED <<status, answered, lock, closing, toClient, serverView, budget>>
    BY <1>2 DEF HbSync, At, Send, Tasks, Loops
  <2>2. Types'
    <3>1. toServer' \in Seq(Messages)
      BY <1>1, <2>1, Lists DEF Types
    <3>2. QED
      BY <1>1, <1>2, <2>1, <3>1 DEF Types, Labels, HbSync
  <2>3. Fifo' /\ Course'
    BY <1>1, <2>1, FifoKept DEF Types, Tasks, Loops, Course, Queued
  <2>4. Settled' => Settled
    BY <1>1, <2>1 DEF Settled, Types, Tasks, Loops
  <2>5. Belief'
    BY <1>1, <2>1, <2>4, EndsPing DEF Belief, Types
  <2>6. QED
    BY <2>2, <2>3, <2>5 DEF IInv
<1>3. CASE HbSynced
  <2>1. /\ pc["hb"] = "sync" /\ pc' = [pc EXCEPT !["hb"] = "sleeping"]
        /\ answered' = answered \ {"hb"} /\ status' \in Statuses
        /\ \/ toServer' = toServer \o <<Status(status')>>
           \/ toServer' = toServer \o <<Status(saved["hb"]), Status(status')>>
        /\ UNCHANGED <<saved, lock, closing, toClient, serverView, budget>>
    BY <1>1, <1>3 DEF HbSynced, At, Answered, Send
  <2>2. Types'
    <3>1. toServer' \in Seq(Messages)
      BY <1>1, <2>1, Lists DEF Types
    <3>2. QED
      BY <1>1, <2>1, <3>1 DEF Types, Labels
  <2>3. Fifo' /\ Course'
    BY <1>1, <2>1, FifoKept DEF Types, Tasks, Loops, Course, Queued
  <2>4. Ends(toServer', serverView', status')
    BY <1>1, <2>1, EndsStatus DEF Types
  <2>5. QED
    BY <2>2, <2>3, <2>4 DEF IInv, Belief
<1>4. CASE HbRaises
  <2>1. Spent("send") \in Budgets /\ status \in Statuses /\ <<>> \in Seq(Messages)
    BY <1>1, <1>4, Spending, Lists DEF HbRaises, Spent, Types
  <2>2. ~Queued("hb") /\ "hb" \in Loops /\ pc["hb"] # "new"
    BY <1>4 DEF HbRaises, Queued, Loops
  <2>3. QED
    BY <1>4, <2>1, <2>2, ReconnectStep DEF HbRaises
<1>5. CASE HbStatusRaises
  <2>1. /\ Spent("send") \in Budgets /\ <<>> \in Seq(Messages)
        /\ <<Status(saved["hb"])>> \in Seq(Messages)
    BY <1>1, <1>5, Spending, Lists DEF HbStatusRaises, Spent, Types
  <2>2. ~Queued("hb") /\ "hb" \in Loops /\ pc["hb"] # "new" /\ answered' \subseteq answered
    BY <1>5 DEF HbStatusRaises, Queued, Loops, Answered
  <2>3. CASE Reconnect("hb", saved["hb"], <<>>, Spent("send"))
    BY <1>1, <2>1, <2>2, <2>3, ReconnectStep
  <2>4. CASE Reconnect("hb", "DEGRADED", <<Status(saved["hb"])>>, Spent("send"))
    BY <1>1, <2>1, <2>2, <2>4, ReconnectStep
  <2>5. QED
    BY <1>5, <2>3, <2>4 DEF HbStatusRaises
<1>6. CASE HbEnds
  <2>1. Types' /\ Course'
    BY <1>1, <1>6 DEF HbEnds, At, Types, Labels, Course, Tasks, Loops
  <2>2. Fifo'
    BY <1>1, <1>6, FifoKept DEF HbEnds, At, Types, Tasks, Loops, Queued
  <2>3. ~Settled'
    BY <1>1, <1>6 DEF HbEnds, At, Settled, Types, Tasks, Loops
  <2>4. QED
    BY <2>1, <2>2, <2>3, Unsettled DEF IInv
<1>7. QED
  BY <1>2, <1>3, <1>4, <1>5, <1>6 DEF HbProgress, HbFails

-----------------------------------------------------------------------------
(* The server. *)
LEMMA ServerTurnStep ==
    ASSUME IInv, ServerTurn
    PROVE  IInv'
<1> DEFINE m == Head(toServer)
<1>1. Types /\ Fifo /\ Course /\ Belief
  BY DEF IInv
<1>2. /\ toServer # <<>> /\ toServer' = Tail(toServer) /\ UNCHANGED <<taskVars, budget>>
      /\ toClient' = toClient \/ toClient' = Append(toClient, Reply(m.task))
      /\ m.kind \notin {"REGISTER", "PING"} => toClient' = toClient
      /\ m.kind = "REGISTER" => serverView' = "REGISTERED"
      /\ m.kind = "CLIENT_STATUS" => serverView' = m.status
      /\ ~Says(m) => serverView' = serverView
  BY DEF ServerTurn, Says
<1>3. m \in Messages /\ Tail(toServer) \in Seq(Messages)
  BY <1>1, <1>2, HeadTailProperties DEF Types
<1>4. \A s : Ends(toServer, serverView, s) => Ends(toServer', serverView', s)
  <2>1. SUFFICES ASSUME NEW s, Ends(toServer, serverView, s)
                 PROVE  Ends(toServer', serverView', s)
    OBVIOUS
  <2>2. /\ ~Says(m) => Ends(Tail(toServer), serverView, s)
        /\ m.kind = "CLIENT_STATUS" => Ends(Tail(toServer), m.status, s)
        /\ \A v : m.kind = "REGISTER" => Ends(Tail(toServer), v, s)
    BY <1>1, <1>2, <2>1, EndsTail DEF Types
  <2> HIDE DEF m
  <2>3. QED
    BY <1>2, <2>2 DEF Says
<1> HIDE DEF m
<1>5. Types'
  <2>1. toClient' \in Seq(Messages)
    <3>1. m.kind \in {"REGISTER", "PING"} => Reply(m.task) \in Messages
      BY <1>3, Kinds
    <3>2. QED
      BY <1>1, <1>2, <3>1, AppendProperties DEF Types
  <2>2. serverView' \in Statuses \union {"ABSENT"}
    <3>1. m.kind = "CLIENT_STATUS" => m.status \in Statuses
      BY <1>3, Kinds
    <3>2. QED
      BY <1>1, <1>2, <3>1 DEF Types, Says, Statuses
  <2>3. QED
    BY <1>1, <1>2, <1>3, <2>1, <2>2 DEF Types, taskVars
<1>6. Fifo' /\ Course'
  BY <1>1, <1>2, FifoKept DEF Course, taskVars
<1>7. Belief'
  BY <1>1, <1>2, <1>4 DEF Belief, Settled, taskVars
<1>8. QED
  BY <1>5, <1>6, <1>7 DEF IInv

LEMMA ServerStartStep ==
    ASSUME IInv, ServerStart
    PROVE  IInv'
<1>1. Types /\ Fifo /\ Course /\ Belief
  BY DEF IInv
<1>2. Types'
  BY <1>1, Kinds, AppendProperties, Spending DEF Types, ServerStart, Spent, taskVars
<1>3. Fifo' /\ Course' /\ Belief'
  BY <1>1, FifoKept, BeliefKept DEF ServerStart, taskVars, Course, Settled
<1>4. QED
  BY <1>2, <1>3 DEF IInv

LEMMA NextIInv == IInv /\ [Next]_vars => IInv'
<1> SUFFICES ASSUME IInv, [Next]_vars PROVE IInv'
  OBVIOUS
<1>1. CASE Connect \/ AppProgress
  BY <1>1, AppStep, AppReadyStep DEF AppProgress
<1>2. CASE Close \/ CloseHeartbeat
  BY <1>2, CloseStep, CloseHeartbeatStep
<1>3. CASE RecvProgress \/ RecvRaises
  BY <1>3, RecvStep
<1>4. CASE HbProgress \/ HbFails \/ HbEnds
  BY <1>4, HbStep
<1>5. ASSUME NEW t \in Loops, ReconnectProgress(t) PROVE IInv'
  BY <1>5, TakeLockStep, ReregisteredStep, ResyncedStep, ReconnectFailsStep DEF ReconnectProgress
<1>6. CASE ServerStep
  BY <1>6, ServerTurnStep, ServerStartStep DEF ServerStep
<1>7. CASE UNCHANGED vars
  <2>1. Types /\ Fifo /\ Course /\ Belief
    BY DEF IInv
  <2>2. Types' /\ Fifo' /\ Course' /\ Belief'
    BY <1>7, <2>1, FifoKept, BeliefKept DEF vars, taskVars, Types, Course, Settled
  <2>3. QED
    BY <2>2 DEF IInv
<1>8. QED
  BY <1>1, <1>2, <1>3, <1>4, <1>5, <1>6, <1>7 DEF Next, CloseProgress

-----------------------------------------------------------------------------
(* The invariant: the loops in reconnect are in the order in which they asked *)
(* for the lock, and while no loop is, the status of the client is the one    *)
(* that it sent last, or RUNNING.                                             *)
THEOREM SpecIInv == Spec => []IInv
<1>1. Init => IInv
  BY InitIInv
<1>2. IInv /\ [Next]_vars => IInv'
  BY NextIInv
<1>3. QED
  BY <1>1, <1>2, PTL DEF Spec

(* Every variable has its type, whatever fails and however often. *)
THEOREM TypeCorrect == Spec => []TypeOK
<1>1. IInv => TypeOK
  <2>1. ASSUME NEW b \in Budgets PROVE \A f \in DOMAIN b : b[f] \in Nat
    BY <2>1 DEF Budgets
  <2>2. Fifo => lock \in Seq(Loops)
    BY Orders DEF Fifo, Loops
  <2>3. QED
    BY <2>1, <2>2 DEF IInv, Types, TypeOK
<1>2. QED
  BY <1>1, SpecIInv, PTL

(* At most one loop restarts the transport, it holds the reconnect lock, and *)
(* whoever is first in the lock's FIFO is in reconnect: close, a failed      *)
(* restart and an exception in the middle all give the lock back.            *)
THEOREM LockIsHeld == Spec => []LockHeldByReconnect
<1>1. IInv => LockHeldByReconnect
  <2> SUFFICES ASSUME IInv PROVE LockHeldByReconnect
    OBVIOUS
  <2>1. Fifo
    BY DEF IInv
  <2>2. ASSUME NEW t \in Reconnecting PROVE lock # <<>> /\ Head(lock) = t
    BY <2>1, <2>2, Short DEF Reconnecting, Fifo, Queued
  <2>3. ASSUME lock # <<>> PROVE pc[Head(lock)] \in {"lock", "reRegister", "reSync"}
    <3>1. Head(lock) \in Loops /\ In(Head(lock), lock)
      BY <2>1, <2>3, Orders DEF Fifo, Loops
    <3>2. QED
      BY <2>1, <3>1 DEF Fifo, Queued
  <2>4. QED
    BY <2>2, <2>3 DEF LockHeldByReconnect
<1>2. QED
  BY <1>1, SpecIInv, PTL

(* When all is quiet, the registry of the server has the status of the       *)
(* client, whichever of the three tasks wrote it last and whatever failed in *)
(* between.                                                                  *)
THEOREM ServerKnowsStatus == Spec => []ViewAgrees
<1>1. IInv => ViewAgrees
  <2>1. \A v, s : Ends(<<>>, v, s) => v = s
    BY DEF Ends
  <2>2. QED
    BY <2>1 DEF IInv, Belief, Settled, ViewAgrees, Quiet
<1>2. QED
  BY <1>1, SpecIInv, PTL

-----------------------------------------------------------------------------
(* A registration is sent when there is another in the server's queue. *)
Places(q) == {i \in DOMAIN q : q[i].kind = "REGISTER"}

LEMMA PlacesCount ==
    ASSUME NEW q \in Seq(Messages)
    PROVE  /\ IsFiniteSet(Places(q))
           /\ \A m \in Messages : m.kind # "REGISTER" => Places(Append(q, m)) = Places(q)
           /\ q # <<>> => Cardinality(Places(Tail(q))) <= Cardinality(Places(q))
<1>1. DOMAIN q = 1..Len(q) /\ Len(q) \in Nat
  OBVIOUS
<1>2. IsFiniteSet(Places(q))
  <2>1. IsFiniteSet(1..Len(q))
    BY <1>1, FS_Interval
  <2>2. QED
    BY <1>1, <2>1, FS_Subset DEF Places
<1>3. ASSUME NEW m \in Messages, m.kind # "REGISTER" PROVE Places(Append(q, m)) = Places(q)
  <2> DEFINE w == Append(q, m)
  <2>1. /\ w \in Seq(Messages) /\ Len(w) = Len(q) + 1
        /\ \A i \in 1..Len(q) : w[i] = q[i]
        /\ w[Len(q) + 1] = m
    BY AppendProperties
  <2>2. DOMAIN w = 1..(Len(q) + 1)
    BY <2>1
  <2> HIDE DEF w
  <2>3. \A i \in 1..(Len(q) + 1) : i \in 1..Len(q) \/ i = Len(q) + 1
    BY <1>1
  <2>4. \A i \in 1..Len(q) : i \in 1..(Len(q) + 1)
    BY <1>1
  <2>5. Places(w) = Places(q)
    BY <1>1, <1>3, <2>1, <2>2, <2>3, <2>4 DEF Places
  <2>6. QED
    BY <2>5 DEF w
<1>4. ASSUME q # <<>> PROVE Cardinality(Places(Tail(q))) <= Cardinality(Places(q))
  <2> DEFINE w == Tail(q)
             f == [i \in Places(w) |-> i + 1]
  <2>1. /\ Len(q) \in Nat \ {0} /\ w \in Seq(Messages) /\ Len(w) = Len(q) - 1
        /\ \A i \in 1..Len(w) : w[i] = q[i + 1]
    BY <1>4, HeadTailProperties, EmptySeq
  <2>2. DOMAIN w = 1..(Len(q) - 1)
    BY <2>1
  <2> HIDE DEF w
  <2>3. ASSUME NEW i \in Places(w) PROVE i + 1 \in Places(q) /\ i \in Nat
    BY <1>1, <2>1, <2>2, <2>3 DEF Places
  <2>4. f \in Injection(Places(w), Places(q))
    <3>1. f \in [Places(w) -> Places(q)]
      BY <2>3
    <3>2. \A i, j \in Places(w) : f[i] = f[j] => i = j
      BY <2>3
    <3>3. QED
      BY <3>1, <3>2 DEF Injection, IsInjective
  <2>5. QED
    BY <1>2, <2>4, FS_Injection DEF w
<1>5. QED
  BY <1>2, <1>3, <1>4

(* A client that closes never registers again, not even with the loop that   *)
(* waited for the lock while another reconnected.                            *)
THEOREM ClosedForGood == Spec => NoRegisterAfterClose
<1> DEFINE Step == closing => Cardinality(Registrations') <= Cardinality(Registrations)
<1>1. IInv /\ [Next]_vars => [Step]_vars
  <2> SUFFICES ASSUME IInv, [Next]_vars, closing
               PROVE  Cardinality(Registrations') <= Cardinality(Registrations)
    OBVIOUS
  <2>1. /\ Types /\ Course
    BY DEF IInv
  <2>2. Registrations = Places(toServer) /\ Registrations' = Places(toServer')
    BY DEF Registrations, Places
  <2>3. toServer \in Seq(Messages) /\ \A t \in Tasks : saved[t] \in Statuses
    BY <2>1 DEF Types
  <2>4. pc["app"] \in {"closing", "closed", "closefailed"}
    BY <2>1 DEF Course
  <2>5. \/ toServer' = toServer
        \/ \E s \in Statuses : toServer' = toServer \o <<Status(s)>>
        \/ \E r, s \in Statuses : toServer' = toServer \o <<Status(r), Status(s)>>
        \/ \E t \in Tasks : toServer' = toServer \o <<Ping(t)>>
        \/ toServer # <<>> /\ toServer' = Tail(toServer)
    <3>1. CASE Connect \/ AppProgress \/ Close \/ CloseHeartbeat
      BY <2>4, <3>1 DEF Connect, AppProgress, AppRegister, AppRegistered, AppSync, AppSynced,
         AppReady, Close, CloseHeartbeat, At
    <3>2. toServer \o <<>> = toServer
      BY <2>3, ConcatEmptySeq
    <3>3. CASE RecvProgress \/ HbEnds \/ HbFails \/ ServerStart \/ UNCHANGED vars
      BY <3>3 DEF RecvProgress, RecvReply, RecvStart, RecvApplied, HandlerRaises, HbEnds,
         HbFails, HbRaises, HbStatusRaises, ServerStart, vars
    <3>4. CASE RecvRaises
      BY <3>2, <3>4 DEF RecvRaises, Reconnect, Restart, Send
    <3>5. CASE HbProgress
      <4>1. /\ HbSynced /\ saved["hb"] \in Statuses /\ "DEGRADED" \in Statuses
        BY <2>3, <3>5 DEF HbProgress, HbSync, Tasks, Loops, Statuses
      <4>2. QED
        BY <4>1 DEF HbSynced, Send
    <3>6. CASE ServerTurn
      BY <3>6 DEF ServerTurn
    <3>7. ASSUME NEW t \in Loops, ReconnectProgress(t)
          PROVE  \/ toServer' = toServer
                 \/ \E s \in Statuses : toServer' = toServer \o <<Status(s)>>
                 \/ \E r, s \in Statuses : toServer' = toServer \o <<Status(r), Status(s)>>
                 \/ \E u \in Tasks : toServer' = toServer \o <<Ping(u)>>
      <4>1. t \in Tasks /\ saved[t] \in Statuses /\ "READY" \in Statuses
        BY <2>3 DEF Tasks, Statuses
      <4>2. CASE TakeLock(t)
        BY <3>2, <4>2 DEF TakeLock, Restart, Send
      <4>3. CASE Reregistered(t)
        BY <4>1, <4>3 DEF Reregistered, Send
      <4>4. CASE Resynced(t)
        BY <4>1, <4>4 DEF Resynced, Send
      <4>5. CASE ReconnectFails(t)
        BY <4>1, <4>5 DEF ReconnectFails, Send
      <4>6. QED
        BY <3>7, <4>2, <4>3, <4>4, <4>5 DEF ReconnectProgress
    <3>8. QED
      BY <3>1, <3>3, <3>4, <3>5, <3>6, <3>7 DEF Next, CloseProgress, ServerStep
  <2>6. Cardinality(Places(toServer)) \in Nat
    BY <2>3, PlacesCount, FS_CardinalityType
  <2>7. ASSUME NEW q \in Seq(Messages), NEW m \in Messages, m.kind # "REGISTER"
        PROVE  /\ q \o <<m>> \in Seq(Messages) /\ Places(q \o <<m>>) = Places(q)
               /\ \A n \in Messages : q \o <<m, n>> = (q \o <<m>>) \o <<n>>
    <3>1. q \o <<m>> = Append(q, m) /\ Append(q, m) \in Seq(Messages)
      BY <2>7, AppendIsConcat, AppendProperties
    <3>2. QED
      BY <2>7, <3>1, PlacesCount, OneByOne
  <2>8. CASE toServer' = toServer
    BY <2>2, <2>6, <2>8
  <2>9. ASSUME NEW m \in Messages, m.kind # "REGISTER", toServer' = toServer \o <<m>>
        PROVE  Cardinality(Registrations') <= Cardinality(Registrations)
    BY <2>2, <2>3, <2>6, <2>7, <2>9
  <2>10. ASSUME NEW m \in Messages, m.kind # "REGISTER", NEW n \in Messages, n.kind # "REGISTER",
                toServer' = toServer \o <<m, n>>
         PROVE  Cardinality(Registrations') <= Cardinality(Registrations)
    <3>1. PICK q \in Seq(Messages) : q = toServer \o <<m>> /\ Places(q) = Places(toServer)
      BY <2>3, <2>7, <2>10
    <3>2. toServer' = q \o <<n>>
      BY <2>3, <2>7, <2>10, <3>1
    <3>3. Places(toServer') = Places(q)
      BY <2>7, <2>10, <3>2
    <3>4. QED
      BY <2>2, <2>6, <3>1, <3>3
  <2>11. CASE toServer # <<>> /\ toServer' = Tail(toServer)
    BY <2>2, <2>3, <2>11, PlacesCount
  <2>12. CASE \E s \in Statuses : toServer' = toServer \o <<Status(s)>>
    BY <2>9, <2>12, Kinds
  <2>13. CASE \E r, s \in Statuses : toServer' = toServer \o <<Status(r), Status(s)>>
    BY <2>10, <2>13, Kinds
  <2>14. CASE \E t \in Tasks : toServer' = toServer \o <<Ping(t)>>
    BY <2>9, <2>14, Kinds
  <2>15. QED
    BY <2>5, <2>8, <2>11, <2>12, <2>13, <2>14
<1>2. QED
  BY <1>1, SpecIInv, PTL DEF NoRegisterAfterClose, Spec
=============================================================================
