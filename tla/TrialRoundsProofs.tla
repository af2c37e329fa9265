------------------------- MODULE TrialRoundsProofs -------------------------
(***************************************************************************)
(* What a round of trials gives its results and its ACKs to, proved for    *)
(* any number of peers, rounds, repeated messages and silent handlers, and *)
(* any size of the deduplicator.                                           *)
(***************************************************************************)
EXTENDS TrialRounds, SequenceTheorems, FiniteSetTheorems, TLAPS

(* The types, as far as the argument needs them. *)
Types ==
    /\ driver \in {"idle", "starting", "collecting", "done", "raised"}
    /\ round \in 0..MaxRounds
    /\ driver \in {"starting", "collecting"} => round > 0
    /\ due \subseteq Peers /\ pending \subseteq Peers /\ acked \subseteq Peers
    /\ timed \subseteq Peers
    /\ results \in [Peers -> Seq(Trials)]
    /\ toPeer \in [Peers -> Seq(Commands)]
    /\ received \in [Peers -> Seq(Commands)]
    /\ toServer \in [Peers -> Seq(Reports)]
    /\ seen \in [Peers -> Seq(Commands)]
    /\ peer \in [Peers -> {Receiving} \union {Handling(t) : t \in Trials}
                                       \union {Handled(t) : t \in Trials}]
    /\ ran \in [Peers -> SUBSET Trials] /\ reported \in [Peers -> SUBSET Trials]
    /\ repeats \in 0..MaxRepeats /\ silent \in 0..MaxSilent

(* All that was sent to a peer, in the order it was or will be received, and *)
(* what of a sequence of messages comes after the last m.                    *)
Way(p) == received[p] \o toPeer[p]
Later(s, m) == {s[i] : i \in {i \in DOMAIN s : \A j \in i..Len(s) : s[j] # m}}

(* The deduplicator knows the latest messages: it has them in the order they *)
(* were last received in, and whatever it has not, all it has came later.    *)
Latest(ids, s) ==
    /\ Len(ids) <= DedupSize /\ IsInjective(ids)
    /\ ToSet(ids) \subseteq ToSet(s)
    /\ \A j \in DOMAIN ids : \A i \in 1..(j - 1) : ids[j] \in Later(s, ids[i])
    /\ \A m \in ToSet(s) \ ToSet(ids) :
          Len(ids) = DedupSize /\ ToSet(ids) \subseteq Later(s, m)

(* A message that comes again is one of the latest when it does. *)
Near(s, n) ==
    \A k \in n..(Len(s) - 1) :
        s[k + 1] \in ToSet(SubSeq(s, 1, k)) => Recent(SubSeq(s, 1, k), s[k + 1])

(* Trials are numbered as they come, and the state of one ends it. *)
Numbered(p) ==
    \A m \in ToSet(Way(p)) :
        /\ m.trial <= round
        /\ m.kind = "STATE_UPDATE" /\ driver \in {"starting", "collecting"} => m.trial < round

(* A peer has run all trials but the current one, and no trial twice. *)
Course(p) ==
    /\ reported[p] \subseteq ran[p]
    /\ \A t \in ran[p] : t <= round /\ Start(t) \in ToSet(received[p])
    /\ \A t \in 1..(round - 1) : t \in ran[p]
    /\ peer[p] # Receiving => peer[p].trial = round /\ Start(round) \in ToSet(received[p])
    /\ peer[p].at = "handling" => round \notin ran[p]
    /\ peer[p].at = "handled" => round \in ran[p]
    /\ Start(round) \in ToSet(received[p]) => round \in ran[p] \/ peer[p].at = "handling"

(* The result of the trial is on its way, or in the queue, or collected; it  *)
(* is ahead of the ACK, so none is left of an earlier trial.                 *)
IsReport(m) == m.kind = "RESULT_REPORT"
Reporting(p) == \E m \in ToSet(toServer[p]) : IsReport(m)
Ahead(s, r) ==
    \A i \in DOMAIN s : IsReport(s[i]) =>
        \A j \in DOMAIN s : /\ IsReport(s[j]) => j = i
                            /\ j < i => s[j].trial < r

Flow(p) ==
    /\ \A m \in ToSet(toServer[p]) :
          /\ m.trial <= round
          /\ m.kind = "ACK" /\ m.trial = round => round \in ran[p] /\ peer[p] = Receiving
    /\ p \in acked => round \in ran[p] /\ peer[p] = Receiving
    /\ Ahead(toServer[p], round)
    /\ Reporting(p) =>
          /\ \A m \in ToSet(toServer[p]) : IsReport(m) => m = Result(round)
          /\ round \in reported[p] /\ results[p] = <<>> /\ p \notin acked
    /\ results[p] # <<>> => results[p] = <<round>> /\ round \in reported[p]
    /\ round \in reported[p] => \/ Reporting(p) \/ results[p] = <<round>>
                                \/ driver \notin {"starting", "collecting"}
                                \/ driver = "collecting" /\ p \notin due
    /\ driver = "collecting" /\ p \notin due => results[p] = <<>>
    /\ driver = "idle" => results[p] = <<>>

(* The ACK of the trial that comes first has the apply time. *)
Timed(t) == Ack(t, TRUE)
Untimed(t) == Ack(t, FALSE)
Stamped(s, r) ==
    \A i \in DOMAIN s : s[i] = Untimed(r) => \E j \in 1..(i - 1) : s[j] = Timed(r)

Timely(p) ==
    /\ p \in pending => p \notin acked
    /\ p \in acked => p \in timed
    /\ p \in pending =>
          /\ Stamped(toServer[p], round)
          /\ Start(round) \in ToSet(received[p]) /\ peer[p] = Receiving =>
                Timed(round) \in ToSet(toServer[p])

Memory(p) == Latest(seen[p], received[p]) /\ Near(Way(p), Len(received[p]))

PeerInv(p) == Memory(p) /\ Numbered(p) /\ Course(p) /\ Flow(p) /\ Timely(p)

IInv ==
    /\ Types
    /\ driver \in {"idle", "collecting"} => round = 0 \/ acked = Peers
    /\ \A p \in Peers : PeerInv(p)

-----------------------------------------------------------------------------
(* Sequences and the sets of their elements. *)
LEMMA SetOfSeq ==
    ASSUME NEW S, NEW s \in Seq(S)
    PROVE  /\ ToSet(s) \subseteq S /\ DOMAIN s = 1..Len(s)
           /\ \A i \in 1..Len(s) : s[i] \in ToSet(s)
           /\ \A x \in ToSet(s) : \E i \in 1..Len(s) : x = s[i]
           /\ \A x : Contains(s, x) <=> x \in ToSet(s)
BY DEF ToSet, Contains

LEMMA SetOfAppend ==
    ASSUME NEW S, NEW s \in Seq(S), NEW e \in S
    PROVE  ToSet(Append(s, e)) = ToSet(s) \union {e}
<1>1. /\ Append(s, e) \in Seq(S) /\ Len(Append(s, e)) = Len(s) + 1 /\ Len(s) \in Nat
      /\ \A i \in 1..Len(s) : Append(s, e)[i] = s[i]
      /\ Append(s, e)[Len(s) + 1] = e
  BY AppendProperties
<1>2. 1..(Len(s) + 1) = (1..Len(s)) \union {Len(s) + 1}
  BY <1>1
<1>3. DOMAIN s = 1..Len(s) /\ DOMAIN Append(s, e) = (1..Len(s)) \union {Len(s) + 1}
  BY <1>1, <1>2, SetOfSeq
<1> HIDE DEF Append
<1>4. QED
  BY <1>1, <1>3 DEF ToSet

LEMMA SetOfConcat ==
    ASSUME NEW S, NEW s \in Seq(S), NEW t \in Seq(S)
    PROVE  ToSet(s \o t) = ToSet(s) \union ToSet(t)
<1>1. Range(s \o t) = Range(s) \union Range(t)
  BY RangeConcatenation
<1>2. QED
  BY <1>1 DEF Range, ToSet

LEMMA SetOfTail ==
    ASSUME NEW S, NEW s \in Seq(S), s # <<>>
    PROVE  /\ Head(s) \in ToSet(s) /\ Tail(s) \in Seq(S)
           /\ ToSet(s) = {Head(s)} \union ToSet(Tail(s))
<1>1. /\ Len(s) \in Nat \ {0} /\ Head(s) = s[1] /\ Tail(s) \in Seq(S)
      /\ Len(Tail(s)) = Len(s) - 1
      /\ \A i \in 1..Len(Tail(s)) : Tail(s)[i] = s[i + 1]
  BY HeadTailProperties, EmptySeq
<1>2. DOMAIN s = 1..Len(s) /\ DOMAIN Tail(s) = 1..(Len(s) - 1)
  BY <1>1, SetOfSeq
<1>3. ToSet(Tail(s)) \subseteq ToSet(s) /\ Head(s) \in ToSet(s)
  BY <1>1, <1>2 DEF ToSet
<1>4. ASSUME NEW x \in ToSet(s), x # Head(s) PROVE x \in ToSet(Tail(s))
  <2>1. PICK i \in 1..Len(s) : x = s[i]
    BY <1>2, <1>4 DEF ToSet
  <2>2. i - 1 \in 1..Len(Tail(s)) /\ Tail(s)[i - 1] = x
    BY <1>1, <1>4, <2>1
  <2>3. QED
    BY <1>1, <1>2, <2>2 DEF ToSet
<1>5. QED
  BY <1>1, <1>3, <1>4

-----------------------------------------------------------------------------
(* What is received last is later than everything else. *)
LEMMA LaterAppend ==
    ASSUME NEW S, NEW s \in Seq(S), NEW e \in S, NEW m, m # e
    PROVE  Later(Append(s, e), m) = Later(s, m) \union {e}
<1> DEFINE a == Append(s, e)
<1>1. /\ a \in Seq(S) /\ Len(a) = Len(s) + 1 /\ Len(s) \in Nat
      /\ \A i \in 1..Len(s) : a[i] = s[i]
      /\ a[Len(s) + 1] = e
  BY AppendProperties
<1>2. DOMAIN s = 1..Len(s) /\ DOMAIN a = 1..(Len(s) + 1)
  BY <1>1, SetOfSeq
<1> HIDE DEF a
<1>3. ASSUME NEW x \in Later(a, m) PROVE x \in Later(s, m) \union {e}
  <2>1. PICK i \in 1..(Len(s) + 1) : x = a[i] /\ \A j \in i..(Len(s) + 1) : a[j] # m
    BY <1>1, <1>2, <1>3 DEF Later
  <2>2. CASE i = Len(s) + 1
    BY <1>1, <2>1, <2>2
  <2>3. CASE i \in 1..Len(s)
    <3>1. x = s[i] /\ \A j \in i..Len(s) : s[j] # m
      BY <1>1, <2>1, <2>3
    <3>2. QED
      BY <1>2, <2>3, <3>1 DEF Later
  <2>4. QED
    BY <1>1, <2>1, <2>2, <2>3
<1>4. ASSUME NEW x \in Later(s, m) PROVE x \in Later(a, m)
  <2>1. PICK i \in 1..Len(s) : x = s[i] /\ \A j \in i..Len(s) : s[j] # m
    BY <1>2, <1>4 DEF Later
  <2>2. x = a[i] /\ \A j \in i..(Len(s) + 1) : a[j] # m
    BY <1>1, <2>1
  <2>3. QED
    BY <1>1, <1>2, <2>1, <2>2 DEF Later
<1>5. e \in Later(a, m)
  <2>1. Len(s) + 1 \in DOMAIN a /\ \A j \in (Len(s) + 1)..Len(a) : a[j] # m
    BY <1>1, <1>2
  <2>2. QED
    BY <1>1, <2>1 DEF Later
<1>6. QED
  BY <1>3, <1>4, <1>5 DEF a

(* A message that is known is one of the latest, and one that is not known   *)
(* and was received has as many later ones as the deduplicator holds.        *)
LEMMA KnownIfRecent ==
    ASSUME NEW S, NEW s \in Seq(S), NEW ids \in Seq(S), Latest(ids, s),
           NEW m \in ToSet(s), Recent(s, m)
    PROVE  m \in ToSet(ids)
<1> SUFFICES ASSUME m \notin ToSet(ids) PROVE FALSE
  OBVIOUS
<1>1. Len(ids) = DedupSize /\ ToSet(ids) \subseteq Later(s, m) /\ IsInjective(ids)
  BY DEF Latest
<1>2. DOMAIN s = 1..Len(s) /\ DOMAIN ids = 1..Len(ids) /\ Len(s) \in Nat /\ Len(ids) \in Nat
  BY SetOfSeq
<1>3. IsFiniteSet(Later(s, m))
  <2>1. Later(s, m) \subseteq ToSet(s)
    BY <1>2 DEF Later, ToSet
  <2>2. IsFiniteSet(ToSet(s))
    <3>1. IsFiniteSet(1..Len(s))
      BY <1>2, FS_Interval
    <3>2. s \in [1..Len(s) -> ToSet(s)] /\ \A x \in ToSet(s) : \E i \in 1..Len(s) : s[i] = x
      BY <1>2, SetOfSeq
    <3>3. QED
      BY <3>1, <3>2, FS_Surjection DEF Surjection
  <2>3. QED
    BY <2>1, <2>2, FS_Subset
<1>4. Cardinality(ToSet(ids)) = DedupSize
  <2>1. ids \in [1..Len(ids) -> ToSet(ids)]
    BY <1>2, SetOfSeq
  <2>2. ids \in Bijection(1..Len(ids), ToSet(ids))
    BY <1>1, <1>2, <2>1, SetOfSeq DEF Bijection, Injection, Surjection, IsInjective
  <2>3. QED
    BY <1>1, <1>2, <2>2, FS_CountingElements DEF ExistsBijection
<1>5. DedupSize <= Cardinality(Later(s, m))
  BY <1>1, <1>3, <1>4, FS_Subset
<1>6. Cardinality(Later(s, m)) < DedupSize
  BY DEF Recent, Later
<1>7. QED
  BY <1>3, <1>5, <1>6, FS_CardinalityType, RoundsAssumption

LEMMA ElementsButOne ==
    ASSUME NEW S, NEW s \in Seq(S), NEW k \in 1..Len(s)
    PROVE  /\ RemoveAt(s, k) \in Seq(S) /\ Len(RemoveAt(s, k)) = Len(s) - 1
           /\ \A i \in 1..(Len(s) - 1) :
                 RemoveAt(s, k)[i] = IF i < k THEN s[i] ELSE s[i + 1]
<1> DEFINE a == SubSeq(s, 1, k - 1)
           b == SubSeq(s, k + 1, Len(s))
<1>1. Len(s) \in Nat /\ \A i \in 1..Len(s) : s[i] \in S
  BY ElementOfSeq, LenProperties
<1>2. a \in Seq(S) /\ Len(a) = k - 1 /\ \A i \in 1..(k - 1) : a[i] = s[i]
  <2>1. k - 1 \in Int /\ 1 \in Int /\ \A i \in 1..(k - 1) : s[i] \in S
    BY <1>1
  <2>2. a \in Seq(S) /\ Len(a) = (IF 1 <= k - 1 THEN k - 1 - 1 + 1 ELSE 0)
        /\ \A i \in 1..(k - 1 - 1 + 1) : a[i] = s[1 + i - 1]
    BY <2>1, SubSeqProperties
  <2> HIDE DEF a
  <2>3. QED
    BY <1>1, <2>2
<1>3. b \in Seq(S) /\ Len(b) = Len(s) - k /\ \A i \in 1..(Len(s) - k) : b[i] = s[k + i]
  <2>1. k + 1 \in Int /\ Len(s) \in Int /\ \A i \in (k + 1)..Len(s) : s[i] \in S
    BY <1>1
  <2>2. b \in Seq(S) /\ Len(b) = (IF k + 1 <= Len(s) THEN Len(s) - (k + 1) + 1 ELSE 0)
        /\ \A i \in 1..(Len(s) - (k + 1) + 1) : b[i] = s[k + 1 + i - 1]
    BY <2>1, SubSeqProperties
  <2> HIDE DEF b
  <2>3. QED
    BY <1>1, <2>2
<1> HIDE DEF a, b
<1>4. /\ a \o b \in Seq(S) /\ Len(a \o b) = Len(s) - 1
      /\ \A i \in 1..(Len(s) - 1) : (a \o b)[i] = IF i <= k - 1 THEN a[i] ELSE b[i - (k - 1)]
  BY <1>1, <1>2, <1>3, ConcatProperties
<1>5. \A i \in 1..(Len(s) - 1) : (a \o b)[i] = IF i < k THEN s[i] ELSE s[i + 1]
  <2>1. SUFFICES ASSUME NEW i \in 1..(Len(s) - 1)
                 PROVE (a \o b)[i] = IF i < k THEN s[i] ELSE s[i + 1]
    OBVIOUS
  <2>2. CASE i < k
    BY <1>1, <1>2, <1>4, <2>2
  <2>3. CASE ~(i < k)
    <3>1. i - (k - 1) \in 1..(Len(s) - k) /\ k + (i - (k - 1)) = i + 1 /\ ~(i <= k - 1)
      BY <1>1, <2>3
    <3>2. QED
      BY <1>3, <1>4, <2>3, <3>1
  <2>4. QED
    BY <2>2, <2>3
<1>6. RemoveAt(s, k) = a \o b
  BY DEF RemoveAt, a, b
<1>7. QED
  BY <1>4, <1>5, <1>6

(* The deduplicator is renewed: one of its ids makes room for the newest.    *)
LEMMA RenewedLatest ==
    ASSUME NEW S, NEW s \in Seq(S), NEW ids \in Seq(S), Latest(ids, s), NEW m \in S,
           NEW new \in Seq(S), NEW k \in 1..Len(ids), Len(new) = Len(ids),
           \A i \in 1..(Len(ids) - 1) : new[i] = IF i < k THEN ids[i] ELSE ids[i + 1],
           new[Len(ids)] = m,
           m \in ToSet(ids) => ids[k] = m,
           m \notin ToSet(ids) => Len(ids) = DedupSize /\ k = 1
    PROVE  Latest(new, Append(s, m))
<1> DEFINE L == Len(ids)
           Was(i) == IF i < k THEN i ELSE i + 1
<1>1. /\ DOMAIN ids = 1..L /\ DOMAIN new = 1..L /\ L \in Nat
      /\ \A i \in 1..L : ids[i] \in ToSet(ids) /\ new[i] \in ToSet(new)
      /\ \A x \in ToSet(new) : \E i \in 1..L : x = new[i]
      /\ \A x \in ToSet(ids) : \E i \in 1..L : x = ids[i]
  BY SetOfSeq
<1>20. L \in Nat /\ k \in 1..L
  BY <1>1
<1>21. \A i \in 1..L : i = L \/ i \in 1..(L - 1)
  BY <1>20
<1>2. \A i \in 1..(L - 1) : Was(i) \in 1..L /\ Was(i) # k /\ new[i] = ids[Was(i)]
  <2>1. SUFFICES ASSUME NEW i \in 1..(L - 1)
                 PROVE  Was(i) \in 1..L /\ Was(i) # k /\ new[i] = ids[Was(i)]
    OBVIOUS
  <2>2. CASE i < k
    BY <1>20, <2>1, <2>2
  <2>3. CASE ~(i < k)
    BY <1>20, <2>1, <2>3
  <2>4. QED
    BY <2>2, <2>3
<1>3. IsInjective(ids) /\ L <= DedupSize /\ ToSet(ids) \subseteq ToSet(s)
  BY DEF Latest
<1>4. \A i \in 1..(L - 1) : new[i] # m
  <2>1. SUFFICES ASSUME NEW i \in 1..(L - 1), new[i] = m PROVE FALSE
    OBVIOUS
  <2>2. ids[Was(i)] = m /\ Was(i) \in 1..L /\ Was(i) # k
    BY <1>2, <2>1
  <2>3. ids[k] = m
    BY <1>1, <2>2
  <2>4. QED
    BY <1>1, <1>3, <2>2, <2>3 DEF IsInjective
<1>5. \A i, j \in 1..(L - 1) : /\ Was(i) = Was(j) => i = j
                               /\ i < j => Was(i) \in 1..(Was(j) - 1)
  BY <1>20
<1>6. IsInjective(new)
  <2>1. SUFFICES ASSUME NEW i \in 1..L, NEW j \in 1..L, new[i] = new[j] PROVE i = j
    BY <1>1 DEF IsInjective
  <2>2. CASE i = L \/ j = L
    BY <1>21, <1>4, <2>1, <2>2
  <2>3. CASE i \in 1..(L - 1) /\ j \in 1..(L - 1)
    <3>1. Was(i) = Was(j)
      <4>1. \A a, b \in 1..L : ids[a] = ids[b] => a = b
        BY <1>1, <1>3 DEF IsInjective
      <4>2. /\ Was(i) \in 1..L /\ Was(j) \in 1..L
            /\ new[i] = ids[Was(i)] /\ new[j] = ids[Was(j)]
        BY <1>2, <2>3
      <4> HIDE DEF Was
      <4>3. QED
        BY <2>1, <4>1, <4>2
    <3>2. QED
      BY <1>5, <2>3, <3>1
  <2>4. QED
    BY <1>21, <2>1, <2>2, <2>3
<1>7. ToSet(new) \subseteq ToSet(ids) \union {m}
  <2>1. SUFFICES ASSUME NEW i \in 1..L PROVE new[i] \in ToSet(ids) \union {m}
    BY <1>1
  <2>2. CASE i = L
    BY <2>2
  <2>3. CASE i \in 1..(L - 1)
    BY <1>1, <1>2, <2>3
  <2>4. QED
    BY <1>21, <2>1, <2>2, <2>3
<1>8. \A x \in ToSet(ids) : x = ids[k] \/ x \in ToSet(new)
  <2>1. SUFFICES ASSUME NEW i \in 1..L, i # k PROVE ids[i] \in ToSet(new)
    BY <1>1
  <2>2. CASE i < k
    <3>1. i \in 1..(L - 1) /\ Was(i) = i
      BY <1>1, <2>2
    <3>2. QED
      BY <1>1, <1>2, <3>1
  <2>3. CASE i > k
    <3>1. i - 1 \in 1..(L - 1) /\ Was(i - 1) = i
      BY <1>1, <2>3
    <3>2. i - 1 \in 1..L
      BY <1>1, <3>1
    <3>3. QED
      BY <1>1, <1>2, <3>1, <3>2
  <2>4. QED
    BY <1>1, <2>1, <2>2, <2>3
<1>9. ToSet(Append(s, m)) = ToSet(s) \union {m}
  BY SetOfAppend
<1>10. \A x : x # m => Later(Append(s, m), x) = Later(s, x) \union {m}
  BY LaterAppend
<1>11. \A j \in 1..L : \A i \in 1..(j - 1) : new[j] \in Later(Append(s, m), new[i])
  <2>1. SUFFICES ASSUME NEW j \in 1..L, NEW i \in 1..(j - 1)
                 PROVE  new[j] \in Later(Append(s, m), new[i])
    OBVIOUS
  <2>2. i \in 1..(L - 1)
    BY <1>20, <2>1
  <2>3. Later(Append(s, m), new[i]) = Later(s, new[i]) \union {m}
    BY <1>4, <1>10, <2>2
  <2>4. CASE j = L
    BY <2>3, <2>4
  <2>5. CASE j # L
    <3>1. j \in 1..(L - 1) /\ i < j
      BY <1>20, <1>21, <2>1, <2>5
    <3>2. Was(i) \in 1..(Was(j) - 1) /\ Was(j) \in 1..L
      BY <1>2, <1>5, <3>1, <2>2
    <3>3. ids[Was(j)] \in Later(s, ids[Was(i)])
      BY <1>1, <3>2 DEF Latest
    <3>4. QED
      BY <1>2, <2>2, <2>3, <3>1, <3>3
  <2>6. QED
    BY <2>4, <2>5
<1>12. \A x \in ToSet(Append(s, m)) \ ToSet(new) :
           L = DedupSize /\ ToSet(new) \subseteq Later(Append(s, m), x)
  <2>1. SUFFICES ASSUME NEW x \in ToSet(s), x # m, x \notin ToSet(new)
                 PROVE  L = DedupSize /\ ToSet(new) \subseteq Later(Append(s, m), x)
    <3>1. L \in 1..L /\ m \in ToSet(new)
      BY <1>1
    <3>2. QED
      BY <1>9, <2>1, <3>1
  <2>2. Later(Append(s, m), x) = Later(s, x) \union {m}
    BY <1>10, <2>1
  <2>3. CASE x \notin ToSet(ids)
    <3>1. L = DedupSize /\ ToSet(ids) \subseteq Later(s, x)
      BY <2>1, <2>3 DEF Latest
    <3>2. QED
      BY <1>7, <2>2, <3>1
  <2>4. CASE x \in ToSet(ids)
    <3>1. x = ids[k]
      BY <1>8, <2>1, <2>4
    <3>2. L = DedupSize /\ k = 1
      BY <2>1, <3>1
    <3>3. \A i \in 1..(L - 1) : Was(i) \in 1..L /\ 1 \in 1..(Was(i) - 1)
      BY <1>1, <3>2
    <3>4. \A i \in 1..(L - 1) : new[i] \in Later(s, x)
      BY <1>1, <1>2, <3>1, <3>2, <3>3 DEF Latest
    <3>5. QED
      BY <1>1, <1>21, <2>2, <3>2, <3>4
  <2>5. QED
    BY <2>3, <2>4
<1>13. ToSet(new) \subseteq ToSet(Append(s, m))
  BY <1>3, <1>7, <1>9
<1> QED
  BY <1>1, <1>3, <1>6, <1>11, <1>12, <1>13 DEF Latest

LEMMA RememberLatest ==
    ASSUME NEW S, NEW s \in Seq(S), NEW ids \in Seq(S), Latest(ids, s), NEW m \in S
    PROVE  Remember(ids, m) \in Seq(S) /\ Latest(Remember(ids, m), Append(s, m))
<1> DEFINE all == Append(ids, m)
<1>1. /\ all \in Seq(S) /\ Len(all) = Len(ids) + 1 /\ Len(ids) \in Nat
      /\ \A i \in 1..Len(ids) : all[i] = ids[i]
      /\ all[Len(ids) + 1] = m
  BY AppendProperties
<1>2. /\ DOMAIN ids = 1..Len(ids)
      /\ Contains(ids, m) <=> m \in ToSet(ids)
  BY SetOfSeq
<1>3. IsInjective(ids) /\ Len(ids) <= DedupSize /\ ToSet(ids) \subseteq ToSet(s)
  BY DEF Latest
<1> HIDE DEF all
<1>4. CASE m \in ToSet(ids)
  <2> DEFINE k == CHOOSE k \in DOMAIN ids : ids[k] = m
  <2>1. k \in 1..Len(ids) /\ ids[k] = m
    <3>1. \E i \in DOMAIN ids : ids[i] = m
      BY <1>4 DEF ToSet
    <3>2. QED
      BY <1>2, <3>1
  <2> HIDE DEF k
  <2>2. k \in 1..Len(all)
    BY <1>1, <2>1
  <2> DEFINE new == RemoveAt(all, k)
  <2>3. /\ new \in Seq(S) /\ Len(new) = Len(ids)
        /\ \A i \in 1..Len(ids) : new[i] = IF i < k THEN all[i] ELSE all[i + 1]
    <3>1. /\ new \in Seq(S) /\ Len(new) = Len(all) - 1
          /\ \A i \in 1..(Len(all) - 1) : new[i] = IF i < k THEN all[i] ELSE all[i + 1]
      BY <1>1, <2>2, ElementsButOne
    <3> HIDE DEF new
    <3>2. Len(all) - 1 = Len(ids)
      BY <1>1
    <3>3. QED
      BY <3>1, <3>2
  <2> HIDE DEF new
  <2>4. \A i \in 1..(Len(ids) - 1) : new[i] = IF i < k THEN ids[i] ELSE ids[i + 1]
    BY <1>1, <2>1, <2>3
  <2>5. new[Len(ids)] = m
    BY <1>1, <2>1, <2>3
  <2>6. Latest(new, Append(s, m))
    BY <1>4, <2>1, <2>3, <2>4, <2>5, RenewedLatest
  <2>7. Remember(ids, m) = new
    BY <1>2, <1>4 DEF Remember, new, k, all
  <2>8. QED
    BY <2>3, <2>6, <2>7
<1>5. CASE m \notin ToSet(ids) /\ Len(all) > DedupSize
  <2> DEFINE new == Tail(all)
  <2>1. all # <<>> /\ Len(ids) = DedupSize /\ 1 \in 1..Len(ids)
    BY <1>1, <1>3, <1>5, RoundsAssumption
  <2>2. /\ new \in Seq(S) /\ Len(new) = Len(ids)
        /\ \A i \in 1..Len(ids) : new[i] = all[i + 1]
    BY <1>1, <2>1, HeadTailProperties
  <2> HIDE DEF new
  <2>3. \A i \in 1..(Len(ids) - 1) : new[i] = IF i < 1 THEN ids[i] ELSE ids[i + 1]
    BY <1>1, <2>2
  <2>4. new[Len(ids)] = m
    BY <1>1, <2>1, <2>2
  <2>5. Latest(new, Append(s, m))
    BY <1>5, <2>1, <2>2, <2>3, <2>4, RenewedLatest
  <2>6. Remember(ids, m) = new
    BY <1>2, <1>5 DEF Remember, new, all
  <2>7. QED
    BY <2>2, <2>5, <2>6
<1>6. CASE m \notin ToSet(ids) /\ ~(Len(all) > DedupSize)
  <2>1. Remember(ids, m) = all
    BY <1>2, <1>6 DEF Remember, all
  <2>2. Len(all) <= DedupSize /\ DedupSize \in Nat
    BY <1>1, <1>6, RoundsAssumption
  <2>3. DOMAIN all = 1..(Len(ids) + 1)
    BY <1>1, SetOfSeq
  <2>4. \A i \in 1..Len(ids) : ids[i] # m
    BY <1>6, SetOfSeq
  <2>5. IsInjective(all)
    BY <1>1, <1>2, <1>3, <2>3, <2>4 DEF IsInjective
  <2>6. ToSet(all) = ToSet(ids) \union {m} /\ ToSet(Append(s, m)) = ToSet(s) \union {m}
    BY SetOfAppend DEF all
  <2>7. \A x : x # m => Later(Append(s, m), x) = Later(s, x) \union {m}
    BY LaterAppend
  <2>8. \A j \in DOMAIN all : \A i \in 1..(j - 1) : all[j] \in Later(Append(s, m), all[i])
    <3>1. SUFFICES ASSUME NEW j \in 1..(Len(ids) + 1), NEW i \in 1..(j - 1)
                   PROVE  all[j] \in Later(Append(s, m), all[i])
      BY <2>3
    <3>2. i \in 1..Len(ids) /\ all[i] = ids[i]
      BY <1>1
    <3>3. Later(Append(s, m), all[i]) = Later(s, ids[i]) \union {m}
      BY <2>4, <2>7, <3>2
    <3>4. CASE j = Len(ids) + 1
      BY <1>1, <3>3, <3>4
    <3>5. CASE j \in 1..Len(ids)
      BY <1>1, <1>2, <3>3, <3>5 DEF Latest
    <3>6. QED
      BY <1>1, <3>4, <3>5
  <2>9. \A x \in ToSet(Append(s, m)) \ ToSet(all) :
            Len(all) = DedupSize /\ ToSet(all) \subseteq Later(Append(s, m), x)
    <3>1. SUFFICES ASSUME NEW x \in ToSet(s) \ ToSet(ids) PROVE FALSE
      BY <2>6
    <3>2. Len(ids) = DedupSize
      BY DEF Latest
    <3>3. QED
      BY <1>1, <2>2, <3>2
  <2>10. Latest(all, Append(s, m))
    BY <1>3, <2>2, <2>5, <2>6, <2>8, <2>9 DEF Latest
  <2>11. QED
    BY <1>1, <2>1, <2>10
<1>7. QED
  BY <1>4, <1>5, <1>6

-----------------------------------------------------------------------------
(* What is on its way to a peer: a message joins it at its end, and the one  *)
(* at the front is received.                                                 *)
LEMMA WaySend ==
    ASSUME NEW S, NEW s \in Seq(S), NEW q \in Seq(S), NEW m \in S
    PROVE  s \o Append(q, m) = Append(s \o q, m)
<1>1. Append(q, m) = q \o <<m>> /\ Append(s \o q, m) = (s \o q) \o <<m>> /\ <<m>> \in Seq(S)
  BY AppendIsConcat, ConcatProperties
<1>2. QED
  BY <1>1, ConcatAssociative

LEMMA WayReceive ==
    ASSUME NEW S, NEW s \in Seq(S), NEW q \in Seq(S), q # <<>>
    PROVE  /\ Append(s, Head(q)) \o Tail(q) = s \o q
           /\ SubSeq(s \o q, 1, Len(s)) = s
           /\ (s \o q)[Len(s) + 1] = Head(q)
           /\ Len(s) < Len(s \o q)
<1> DEFINE h == Head(q)
           t == Tail(q)
           w == s \o q
<1>1. /\ h \in S /\ h = q[1] /\ t \in Seq(S) /\ Len(q) \in Nat \ {0} /\ Len(t) = Len(q) - 1
      /\ \A i \in 1..(Len(q) - 1) : t[i] = q[i + 1]
  BY HeadTailProperties, EmptySeq
<1>2. /\ w \in Seq(S) /\ Len(w) = Len(s) + Len(q) /\ Len(s) \in Nat
      /\ \A i \in 1..(Len(s) + Len(q)) : w[i] = IF i <= Len(s) THEN s[i] ELSE q[i - Len(s)]
  BY ConcatProperties, LenProperties
<1> DEFINE a == Append(s, h)
           v == a \o t
<1>3. /\ a \in Seq(S) /\ Len(a) = Len(s) + 1
      /\ \A i \in 1..Len(s) : a[i] = s[i]
      /\ a[Len(s) + 1] = h
  <2> HIDE DEF h
  <2>1. QED
    BY <1>1, AppendProperties
<1> HIDE DEF h, t, w, a
<1>4. /\ v \in Seq(S) /\ Len(v) = Len(a) + Len(t)
      /\ \A i \in 1..(Len(a) + Len(t)) : v[i] = IF i <= Len(a) THEN a[i] ELSE t[i - Len(a)]
  BY <1>1, <1>3, ConcatProperties
<1> HIDE DEF v
<1>5. Len(v) = Len(w)
  BY <1>1, <1>2, <1>3, <1>4
<1>6. ASSUME NEW i \in 1..Len(v) PROVE v[i] = w[i]
  <2>1. CASE i \in 1..Len(s)
    <3>1. i <= Len(a) /\ i \in 1..(Len(a) + Len(t)) /\ i \in 1..(Len(s) + Len(q)) /\ i <= Len(s)
      BY <1>1, <1>2, <1>3, <2>1
    <3>2. QED
      BY <1>2, <1>3, <1>4, <2>1, <3>1
  <2>2. CASE i = Len(s) + 1
    <3>1. /\ i <= Len(a) /\ i \in 1..(Len(a) + Len(t)) /\ i \in 1..(Len(s) + Len(q))
          /\ ~(i <= Len(s)) /\ i - Len(s) = 1
      BY <1>1, <1>2, <1>3, <2>2
    <3>2. QED
      BY <1>1, <1>2, <1>3, <1>4, <2>2, <3>1
  <2>3. CASE i > Len(s) + 1
    <3>1. i - Len(a) \in 1..(Len(q) - 1) /\ i - Len(a) + 1 = i - Len(s)
      BY <1>1, <1>2, <1>3, <1>4, <1>6, <2>3
    <3>2. v[i] = t[i - Len(a)]
      <4>1. i \in 1..(Len(a) + Len(t)) /\ ~(i <= Len(a))
        BY <1>1, <1>2, <1>3, <1>4, <1>6, <2>3
      <4>2. QED
        BY <1>4, <4>1
    <3>3. w[i] = q[i - Len(s)]
      BY <1>1, <1>2, <1>5, <1>6, <2>3
    <3>4. QED
      BY <1>1, <3>1, <3>2, <3>3
  <2>4. QED
    BY <1>2, <1>6, <2>1, <2>2, <2>3
<1>7. v = w
  BY <1>2, <1>4, <1>5, <1>6, SeqEqual
<1>8. w[Len(s) + 1] = h /\ Len(s) < Len(w)
  BY <1>1, <1>2
<1>9. SubSeq(w, 1, Len(s)) = s
  <2>1. \A i \in 1..Len(s) : w[i] \in S
    BY <1>1, <1>2, ElementOfSeq
  <2>2. /\ SubSeq(w, 1, Len(s)) \in Seq(S)
        /\ Len(SubSeq(w, 1, Len(s))) = IF 1 <= Len(s) THEN Len(s) - 1 + 1 ELSE 0
        /\ \A i \in 1..(Len(s) - 1 + 1) : SubSeq(w, 1, Len(s))[i] = w[1 + i - 1]
    BY <1>2, <2>1, SubSeqProperties
  <2>3. /\ Len(SubSeq(w, 1, Len(s))) = Len(s)
        /\ \A i \in 1..Len(s) : SubSeq(w, 1, Len(s))[i] = s[i]
    BY <1>1, <1>2, <2>2
  <2>4. QED
    BY <2>2, <2>3, SeqEqual
<1>10. QED
  BY <1>7, <1>8, <1>9 DEF v, a, w, h, t

(* A message that joins is none that was sent before, or one of the latest. *)
LEMMA NearGrows ==
    ASSUME NEW S, NEW all \in Seq(S), NEW m \in S, NEW n \in 0..Len(all), Near(all, n),
           m \in ToSet(all) => Recent(all, m)
    PROVE  Near(Append(all, m), n)
<1> DEFINE new == Append(all, m)
<1>1. /\ new \in Seq(S) /\ Len(new) = Len(all) + 1 /\ Len(all) \in Nat
      /\ \A i \in 1..Len(all) : new[i] = all[i]
      /\ new[Len(all) + 1] = m
      /\ \A i \in 1..Len(all) : all[i] \in S
  BY AppendProperties, ElementOfSeq, LenProperties
<1> HIDE DEF new
<1>2. ASSUME NEW k \in n..Len(all) PROVE SubSeq(new, 1, k) = SubSeq(all, 1, k)
  <2>1. k \in Nat /\ k <= Len(all)
    BY <1>1, <1>2
  <2>2. (\A i \in 1..k : new[i] \in S) /\ (\A i \in 1..k : all[i] \in S) /\ k \in Int
    BY <1>1, <2>1
  <2>3. /\ SubSeq(new, 1, k) \in Seq(S)
        /\ Len(SubSeq(new, 1, k)) = IF 1 <= k THEN k - 1 + 1 ELSE 0
        /\ \A i \in 1..(k - 1 + 1) : SubSeq(new, 1, k)[i] = new[1 + i - 1]
    BY <2>2, SubSeqProperties
  <2>4. /\ SubSeq(all, 1, k) \in Seq(S)
        /\ Len(SubSeq(all, 1, k)) = IF 1 <= k THEN k - 1 + 1 ELSE 0
        /\ \A i \in 1..(k - 1 + 1) : SubSeq(all, 1, k)[i] = all[1 + i - 1]
    BY <2>2, SubSeqProperties
  <2>5. \A i \in 1..Len(SubSeq(new, 1, k)) : SubSeq(new, 1, k)[i] = SubSeq(all, 1, k)[i]
    BY <1>1, <2>1, <2>3, <2>4
  <2>6. QED
    BY <2>3, <2>4, <2>5, SeqEqual
<1>3. ASSUME NEW k \in n..Len(all), new[k + 1] \in ToSet(SubSeq(new, 1, k))
      PROVE  Recent(SubSeq(new, 1, k), new[k + 1])
  <2>1. SubSeq(new, 1, k) = SubSeq(all, 1, k)
    BY <1>2, <1>3
  <2>2. CASE k = Len(all)
    <3>1. SubSeq(all, 1, k) = all
      BY <2>2, SubSeqFull
    <3>2. QED
      BY <1>1, <1>3, <2>1, <2>2, <3>1
  <2>3. CASE k # Len(all)
    <3>1. k \in n..(Len(all) - 1) /\ new[k + 1] = all[k + 1]
      BY <1>1, <1>3, <2>3
    <3>2. QED
      BY <1>3, <2>1, <3>1 DEF Near
  <2>4. QED
    BY <2>2, <2>3
<1>4. Len(new) - 1 = Len(all)
  BY <1>1
<1>5. Near(new, n)
  BY <1>3, <1>4 DEF Near
<1>6. QED
  BY <1>5 DEF new

(* The deduplicator knows what it has to know of the next message, and it   *)
(* still does when it received it.                                          *)
LEMMA ReceiveKnows ==
    ASSUME NEW S, NEW s \in Seq(S), NEW q \in Seq(S), q # <<>>, NEW ids \in Seq(S),
           Latest(ids, s), Near(s \o q, Len(s))
    PROVE  /\ Head(q) \in ToSet(s) => Head(q) \in ToSet(ids)
           /\ Remember(ids, Head(q)) \in Seq(S)
           /\ Latest(Remember(ids, Head(q)), Append(s, Head(q)))
           /\ Append(s, Head(q)) \o Tail(q) = s \o q
           /\ Near(Append(s, Head(q)) \o Tail(q), Len(Append(s, Head(q))))
<1>1. /\ Append(s, Head(q)) \o Tail(q) = s \o q
      /\ SubSeq(s \o q, 1, Len(s)) = s
      /\ (s \o q)[Len(s) + 1] = Head(q)
      /\ Len(s) < Len(s \o q)
  BY WayReceive
<1>2. Head(q) \in S /\ Len(s) \in Nat /\ s \o q \in Seq(S)
  BY HeadTailProperties, LenProperties, ConcatProperties
<1>3. Len(s \o q) \in Nat
  BY <1>2, LenProperties
<1>4. Len(Append(s, Head(q))) = Len(s) + 1
  BY <1>2, AppendProperties
<1> PICK w : w = s \o q
  OBVIOUS
<1>5. Near(w, Len(s) + 1)
  <2>1. \A k \in (Len(s) + 1)..(Len(w) - 1) : k \in Len(s)..(Len(w) - 1)
    BY <1>2, <1>3
  <2>2. QED
    BY <2>1 DEF Near
<1>6. Head(q) \in ToSet(s) => Recent(s, Head(q))
  <2>1. Len(s) \in Len(s)..(Len(w) - 1)
    BY <1>1, <1>2, <1>3
  <2>2. w[Len(s) + 1] \in ToSet(SubSeq(w, 1, Len(s))) => Recent(SubSeq(w, 1, Len(s)), w[Len(s) + 1])
    BY <2>1 DEF Near
  <2>3. QED
    BY <1>1, <2>2
<1>7. Head(q) \in ToSet(s) => Head(q) \in ToSet(ids)
  BY <1>6, KnownIfRecent
<1>8. Remember(ids, Head(q)) \in Seq(S) /\ Latest(Remember(ids, Head(q)), Append(s, Head(q)))
  BY <1>2, RememberLatest
<1>9. QED
  BY <1>1, <1>4, <1>5, <1>7, <1>8

-----------------------------------------------------------------------------
(* The messages of a peer: one joins them at their end, and the one at the  *)
(* front is handled.                                                        *)
LEMMA Kinds ==
    /\ \A m \in Commands : /\ m.trial \in Trials
                           /\ \/ m = Start(m.trial) /\ m.kind = "TRIAL_START_AT"
                              \/ m = State(m.trial) /\ m.kind = "STATE_UPDATE"
    /\ \A m \in Reports : /\ m.trial \in Trials
                          /\ \/ m = Result(m.trial) /\ m.kind = "RESULT_REPORT"
                             \/ m = Timed(m.trial) /\ m.kind = "ACK" /\ m.applied = TRUE
                             \/ m = Untimed(m.trial) /\ m.kind = "ACK" /\ m.applied = FALSE
    /\ \A t : /\ Start(t).kind = "TRIAL_START_AT" /\ Start(t).trial = t
              /\ State(t).kind = "STATE_UPDATE" /\ State(t).trial = t
              /\ Result(t).kind = "RESULT_REPORT" /\ Result(t).trial = t
              /\ Timed(t).kind = "ACK" /\ Timed(t).trial = t
              /\ Untimed(t).kind = "ACK" /\ Untimed(t).trial = t
              /\ Timed(t) # Untimed(t)
    /\ \A t \in Trials : /\ Start(t) \in Commands /\ State(t) \in Commands
                         /\ Result(t) \in Reports
                         /\ Timed(t) \in Reports /\ Untimed(t) \in Reports
<1>1. \A t : /\ Start(t).kind = "TRIAL_START_AT" /\ Start(t).trial = t
             /\ State(t).kind = "STATE_UPDATE" /\ State(t).trial = t
             /\ Result(t).kind = "RESULT_REPORT" /\ Result(t).trial = t
             /\ Timed(t).kind = "ACK" /\ Timed(t).trial = t /\ Timed(t).applied = TRUE
             /\ Untimed(t).kind = "ACK" /\ Untimed(t).trial = t /\ Untimed(t).applied = FALSE
  BY DEF Start, State, Result, Timed, Untimed, Ack
<1>2. \A t \in Trials : Start(t) \in Commands /\ State(t) \in Commands /\ Result(t) \in Reports
  BY DEF Commands, Reports
<1>3. \A t \in Trials : Timed(t) \in Reports /\ Untimed(t) \in Reports
  <2>1. ASSUME NEW t \in Trials, NEW b \in BOOLEAN
        PROVE  [kind |-> "ACK", trial |-> t, applied |-> b] \in Reports
    BY DEF Reports, Ack
  <2>2. QED
    BY <2>1 DEF Timed, Untimed, Ack
<1>4. \A m \in Commands : \E t \in Trials : m = Start(t) \/ m = State(t)
  BY DEF Commands
<1>5. \A m \in Reports : \E t \in Trials : m = Result(t) \/ m = Timed(t) \/ m = Untimed(t)
  BY DEF Reports, Timed, Untimed, Ack
<1>6. \A m \in Commands : /\ m.trial \in Trials
                         /\ \/ m = Start(m.trial) /\ m.kind = "TRIAL_START_AT"
                            \/ m = State(m.trial) /\ m.kind = "STATE_UPDATE"
  BY <1>1, <1>4
<1>7. \A m \in Reports : /\ m.trial \in Trials
                        /\ \/ m = Result(m.trial) /\ m.kind = "RESULT_REPORT"
                           \/ m = Timed(m.trial) /\ m.kind = "ACK" /\ m.applied = TRUE
                           \/ m = Untimed(m.trial) /\ m.kind = "ACK" /\ m.applied = FALSE
  BY <1>1, <1>5
<1>8. \A t : Timed(t) # Untimed(t)
  BY <1>1
<1>9. QED
  BY <1>1, <1>2, <1>3, <1>6, <1>7, <1>8

LEMMA AheadAppend ==
    ASSUME NEW s \in Seq(Reports), NEW r, Ahead(s, r), NEW m \in Reports,
           IsReport(m) => \A x \in ToSet(s) : ~IsReport(x) /\ x.trial < r
    PROVE  Ahead(Append(s, m), r)
<1> DEFINE a == Append(s, m)
<1>1. /\ a \in Seq(Reports) /\ Len(a) = Len(s) + 1 /\ Len(s) \in Nat
      /\ \A i \in 1..Len(s) : a[i] = s[i]
      /\ a[Len(s) + 1] = m
  BY AppendProperties
<1>2. /\ DOMAIN s = 1..Len(s) /\ DOMAIN a = 1..(Len(s) + 1)
      /\ \A i \in 1..Len(s) : s[i] \in ToSet(s)
  BY <1>1, SetOfSeq
<1> HIDE DEF a
<1>3. SUFFICES ASSUME NEW i \in 1..(Len(s) + 1), IsReport(a[i]), NEW j \in 1..(Len(s) + 1)
               PROVE  (IsReport(a[j]) => j = i) /\ (j < i => a[j].trial < r)
  BY <1>2 DEF Ahead, a
<1>4. CASE i \in 1..Len(s) /\ j \in 1..Len(s)
  BY <1>1, <1>2, <1>3, <1>4 DEF Ahead
<1>5. CASE i = Len(s) + 1 /\ j \in 1..Len(s)
  BY <1>1, <1>2, <1>3, <1>5
<1>6. CASE i \in 1..Len(s) /\ j = Len(s) + 1
  BY <1>1, <1>2, <1>3, <1>6
<1>7. CASE i = j
  BY <1>1, <1>3, <1>7
<1>8. QED
  BY <1>1, <1>3, <1>4, <1>5, <1>6, <1>7

LEMMA AheadTail ==
    ASSUME NEW s \in Seq(Reports), NEW r, Ahead(s, r), s # <<>>
    PROVE  /\ Ahead(Tail(s), r)
           /\ IsReport(Head(s)) => \A x \in ToSet(Tail(s)) : ~IsReport(x)
           /\ ~(Head(s).trial < r) => \A x \in ToSet(Tail(s)) : ~IsReport(x)
<1> DEFINE t == Tail(s)
<1>1. /\ Len(s) \in Nat \ {0} /\ Head(s) = s[1] /\ t \in Seq(Reports)
      /\ Len(t) = Len(s) - 1
      /\ \A i \in 1..Len(t) : t[i] = s[i + 1]
  BY HeadTailProperties, EmptySeq
<1>2. /\ DOMAIN s = 1..Len(s) /\ DOMAIN t = 1..(Len(s) - 1)
      /\ \A x \in ToSet(t) : \E i \in 1..Len(t) : x = t[i]
  BY <1>1, SetOfSeq
<1> HIDE DEF t
<1>3. ASSUME NEW i \in 1..(Len(s) - 1)
      PROVE i + 1 \in DOMAIN s /\ t[i] = s[i + 1] /\ 1 \in DOMAIN s /\ 1 < i + 1
  BY <1>1, <1>2, <1>3
<1>4. Ahead(t, r)
  <2>1. SUFFICES ASSUME NEW i \in 1..(Len(s) - 1), IsReport(t[i]), NEW j \in 1..(Len(s) - 1)
                 PROVE  (IsReport(t[j]) => j = i) /\ (j < i => t[j].trial < r)
    BY <1>2 DEF Ahead
  <2>2. i + 1 \in DOMAIN s /\ t[i] = s[i + 1] /\ j + 1 \in DOMAIN s /\ t[j] = s[j + 1]
    BY <1>3, <2>1
  <2>3. (j + 1 = i + 1 => j = i) /\ (j < i => j + 1 < i + 1)
    BY <1>1, <2>1
  <2>4. /\ IsReport(s[j + 1]) => j + 1 = i + 1
        /\ j + 1 < i + 1 => s[j + 1].trial < r
    BY <2>1, <2>2 DEF Ahead
  <2>5. QED
    BY <2>2, <2>3, <2>4
<1>5. ASSUME NEW x \in ToSet(t), IsReport(x) PROVE Head(s).trial < r /\ ~IsReport(Head(s))
  <2>1. PICK i \in 1..(Len(s) - 1) : x = t[i]
    BY <1>1, <1>2, <1>5
  <2>2. i + 1 \in DOMAIN s /\ t[i] = s[i + 1] /\ 1 \in DOMAIN s /\ 1 < i + 1 /\ 1 # i + 1
    BY <1>1, <1>3, <2>1
  <2>3. QED
    BY <1>1, <1>5, <2>1, <2>2 DEF Ahead
<1>6. QED
  BY <1>4, <1>5 DEF t

LEMMA StampedAppend ==
    ASSUME NEW s \in Seq(Reports), NEW r, Stamped(s, r), NEW m \in Reports,
           m = Untimed(r) => Timed(r) \in ToSet(s)
    PROVE  Stamped(Append(s, m), r)
<1> DEFINE a == Append(s, m)
<1>1. /\ a \in Seq(Reports) /\ Len(a) = Len(s) + 1 /\ Len(s) \in Nat
      /\ \A i \in 1..Len(s) : a[i] = s[i]
      /\ a[Len(s) + 1] = m
  BY AppendProperties
<1>2. /\ DOMAIN s = 1..Len(s) /\ DOMAIN a = 1..(Len(s) + 1)
      /\ \A x \in ToSet(s) : \E i \in 1..Len(s) : x = s[i]
  BY <1>1, SetOfSeq
<1> HIDE DEF a
<1>3. SUFFICES ASSUME NEW i \in 1..(Len(s) + 1), a[i] = Untimed(r)
               PROVE  \E j \in 1..(i - 1) : a[j] = Timed(r)
  BY <1>2 DEF Stamped, a
<1>4. CASE i \in 1..Len(s)
  <2>1. PICK j \in 1..(i - 1) : s[j] = Timed(r)
    BY <1>1, <1>2, <1>3, <1>4 DEF Stamped
  <2>2. j \in 1..Len(s)
    BY <1>1, <1>4, <2>1
  <2>3. QED
    BY <1>1, <2>1, <2>2
<1>5. CASE i = Len(s) + 1
  <2>1. PICK j \in 1..Len(s) : s[j] = Timed(r)
    BY <1>1, <1>2, <1>3, <1>5
  <2>2. j \in 1..(i - 1)
    BY <1>1, <1>5, <2>1
  <2>3. QED
    BY <1>1, <2>1, <2>2
<1>6. QED
  BY <1>1, <1>3, <1>4, <1>5

LEMMA StampedTail ==
    ASSUME NEW s \in Seq(Reports), NEW r, Stamped(s, r), s # <<>>
    PROVE  /\ Head(s) # Untimed(r)
           /\ Head(s) # Timed(r) => Stamped(Tail(s), r)
<1> DEFINE t == Tail(s)
<1>1. /\ Len(s) \in Nat \ {0} /\ Head(s) = s[1] /\ t \in Seq(Reports)
      /\ Len(t) = Len(s) - 1
      /\ \A i \in 1..Len(t) : t[i] = s[i + 1]
  BY HeadTailProperties, EmptySeq
<1>2. DOMAIN s = 1..Len(s) /\ DOMAIN t = 1..(Len(s) - 1)
  BY <1>1, SetOfSeq
<1> HIDE DEF t
<1>3. Head(s) # Untimed(r)
  <2>1. SUFFICES ASSUME s[1] = Untimed(r) PROVE FALSE
    BY <1>1
  <2>2. PICK j \in 1..(1 - 1) : s[j] = Timed(r)
    BY <1>1, <1>2, <2>1 DEF Stamped
  <2>3. QED
    BY <2>2
<1>4. ASSUME Head(s) # Timed(r), NEW i \in 1..(Len(s) - 1), t[i] = Untimed(r)
      PROVE  \E j \in 1..(i - 1) : t[j] = Timed(r)
  <2>1. i + 1 \in DOMAIN s /\ s[i + 1] = Untimed(r)
    BY <1>1, <1>2, <1>4
  <2>2. PICK j \in 1..(i + 1 - 1) : s[j] = Timed(r)
    BY <2>1 DEF Stamped
  <2>3. j # 1
    BY <1>1, <1>4, <2>2
  <2>4. j - 1 \in 1..(i - 1) /\ j - 1 \in 1..Len(t) /\ j - 1 + 1 = j
    BY <1>1, <1>4, <2>2, <2>3
  <2>5. QED
    BY <1>1, <2>2, <2>4
<1>5. QED
  BY <1>2, <1>3, <1>4 DEF t, Stamped

-----------------------------------------------------------------------------
(* What a part of the invariant does not speak of does not matter to it. *)
Stays == round' = round /\ driver' \in {driver, "done", "raised"}

LEMMA MemoryKept ==
    ASSUME NEW p, Memory(p), received'[p] = received[p], toPeer'[p] = toPeer[p],
           seen'[p] = seen[p]
    PROVE  Memory(p)'
BY DEF Memory, Way

LEMMA NumberedKept ==
    ASSUME NEW p, Numbered(p), Way(p)' = Way(p), Stays
    PROVE  Numbered(p)'
BY DEF Numbered, Stays

LEMMA CourseKept ==
    ASSUME NEW p, Course(p), received'[p] = received[p], peer'[p] = peer[p], ran'[p] = ran[p],
           reported'[p] = reported[p], round' = round
    PROVE  Course(p)'
BY DEF Course

LEMMA FlowKept ==
    ASSUME NEW p, Flow(p), toServer'[p] = toServer[p], peer'[p] = peer[p], ran'[p] = ran[p],
           reported'[p] = reported[p], results'[p] = results[p],
           p \in acked' <=> p \in acked, p \in due' <=> p \in due, Stays
    PROVE  Flow(p)'
<1>1. Reporting(p)' <=> Reporting(p)
  BY DEF Reporting
<1>2. QED
  BY <1>1 DEF Flow, Stays

LEMMA TimelyKept ==
    ASSUME NEW p, Timely(p), toServer'[p] = toServer[p], peer'[p] = peer[p],
           received'[p] = received[p], p \in pending' => p \in pending,
           p \in acked' <=> p \in acked, p \in timed => p \in timed', round' = round
    PROVE  Timely(p)'
BY DEF Timely

(* A step of one peer, or of the server with it, leaves the others alone. *)
Untouched(q) ==
    /\ received'[q] = received[q] /\ toPeer'[q] = toPeer[q] /\ seen'[q] = seen[q]
    /\ toServer'[q] = toServer[q] /\ peer'[q] = peer[q] /\ ran'[q] = ran[q]
    /\ reported'[q] = reported[q] /\ results'[q] = results[q]
    /\ q \in pending' <=> q \in pending
    /\ q \in acked' <=> q \in acked
    /\ q \in timed' <=> q \in timed
    /\ q \in due' <=> q \in due

LEMMA PeerKept ==
    ASSUME NEW q, PeerInv(q), Untouched(q), Stays
    PROVE  PeerInv(q)'
<1>1. Memory(q)' /\ Numbered(q)'
  BY MemoryKept, NumberedKept DEF PeerInv, Untouched, Way
<1>2. Course(q)' /\ Timely(q)'
  BY CourseKept, TimelyKept DEF PeerInv, Untouched, Stays
<1>3. Flow(q)'
  BY FlowKept DEF PeerInv, Untouched
<1>4. QED
  BY <1>1, <1>2, <1>3 DEF PeerInv

LEMMA OthersKept ==
    ASSUME IInv, NEW p \in Peers, PeerInv(p)', Types', Stays, acked \subseteq acked',
           \A q \in Peers \ {p} : Untouched(q)
    PROVE  IInv'
<1>1. \A q \in Peers : PeerInv(q)'
  BY PeerKept DEF IInv
<1>2. driver' \in {"idle", "collecting"} => round' = 0 \/ acked' = Peers
  BY DEF IInv, Stays, Types
<1>3. QED
  BY <1>1, <1>2 DEF IInv

-----------------------------------------------------------------------------
LEMMA InitIInv == Init => IInv
<1> SUFFICES ASSUME Init PROVE IInv
  OBVIOUS
<1> USE DEF Init
<1>1. Types
  <2>1. <<>> \in Seq(Trials) /\ <<>> \in Seq(Commands) /\ <<>> \in Seq(Reports)
    BY EmptySeq
  <2>2. QED
    BY <2>1, RoundsAssumption DEF Types, Trials
<1>2. ASSUME NEW p \in Peers PROVE PeerInv(p)
  <2>1. /\ ToSet(<<>>) = {} /\ DOMAIN <<>> = {} /\ Len(<<>>) = 0 /\ <<>> \o <<>> = <<>>
    BY DEF ToSet
  <2>2. Way(p) = <<>> /\ received[p] = <<>> /\ seen[p] = <<>> /\ toServer[p] = <<>>
    BY <1>2, <2>1 DEF Way
  <2>3. Memory(p)
    BY <2>1, <2>2, RoundsAssumption DEF Memory, Latest, Near, IsInjective
  <2>4. Numbered(p) /\ Reporting(p) = FALSE
    BY <2>1, <2>2 DEF Numbered, Reporting
  <2>5. Course(p)
    BY <1>2, <2>1, <2>2 DEF Course, Receiving
  <2>6. Flow(p) /\ Timely(p)
    BY <1>2, <2>1, <2>2, <2>4 DEF Flow, Timely, Ahead
  <2>7. QED
    BY <2>3, <2>4, <2>5, <2>6 DEF PeerInv
<1>3. QED
  BY <1>1, <1>2 DEF IInv

(* The types are kept by each step. *)
LEMMA TypesStep == IInv /\ [Next]_vars => Types'
<1> SUFFICES ASSUME IInv, [Next]_vars PROVE Types'
  OBVIOUS
<1>1. Types
  BY DEF IInv
<1> USE DEF Types
<1>2. ASSUME NEW m \in Commands, SendAll(m) PROVE toPeer' \in [Peers -> Seq(Commands)]
  <2>1. \A p \in Peers : Append(toPeer[p], m) \in Seq(Commands)
    BY <1>1, <1>2, AppendProperties
  <2>2. QED
    BY <1>2, <2>1 DEF SendAll
<1>3. CASE StartTrial
  <2>1. round + 1 \in Trials
    BY <1>1, <1>3, RoundsAssumption DEF StartTrial, Trials
  <2>2. Start(round + 1) \in Commands
    BY <2>1, Kinds
  <2>3. toPeer' \in [Peers -> Seq(Commands)]
    BY <1>2, <1>3, <2>2 DEF StartTrial
  <2>4. round' \in 0..MaxRounds /\ round' > 0
    BY <1>1, <1>3, <2>1, RoundsAssumption DEF StartTrial, Trials
  <2>5. /\ UNCHANGED <<due, results, toServer, peer, seen, received, ran, reported, repeats,
                       silent>>
        /\ driver' = "starting" /\ pending' = Peers /\ acked' = {} /\ timed' = {}
    BY <1>3 DEF StartTrial
  <2>6. QED
    BY <1>1, <2>3, <2>4, <2>5
<1>4. CASE EndRound
  <2>1. State(round) \in Commands
    BY <1>1, <1>4, Kinds, RoundsAssumption DEF EndRound, Trials
  <2>2. toPeer' \in [Peers -> Seq(Commands)]
    BY <1>2, <1>4, <2>1 DEF EndRound
  <2>3. /\ UNCHANGED <<round, due, pending, acked, timed, results, toServer, peer, seen, received,
                       ran, reported, repeats, silent>>
        /\ driver' = "idle"
    BY <1>4 DEF EndRound, serverVars
  <2>4. QED
    BY <1>1, <2>2, <2>3
<1>5. CASE StartReturns \/ StartTimesOut \/ Finish \/ \E p \in Peers : CollectTimesOut(p)
  <2>1. /\ UNCHANGED <<round, serverVars, toServer, peerVars>>
        /\ due' = due \/ due' = Peers
        /\ driver' \in {"done", "raised"} \/ (driver' = "collecting" /\ driver = "starting")
    BY <1>5 DEF StartReturns, StartTimesOut, Finish, CollectTimesOut
  <2>2. QED
    BY <1>1, <2>1 DEF serverVars, peerVars
<1>6. ASSUME NEW p \in Peers, Collect(p) PROVE Types'
  <2>1. Tail(results[p]) \in Seq(Trials)
    BY <1>1, <1>6, HeadTailProperties DEF Collect
  <2>2. QED
    BY <1>1, <1>6, <2>1 DEF Collect, peerVars
<1>7. ASSUME NEW p \in Peers, Client(p) PROVE Types'
  <2>1. CASE Receive(p)
    <3> DEFINE m == Head(toPeer[p])
    <3>1. m \in Commands /\ Tail(toPeer[p]) \in Seq(Commands)
      BY <1>1, <2>1, HeadTailProperties DEF Receive
    <3>2. m.trial \in Trials /\ Untimed(m.trial) \in Reports
      BY <3>1, Kinds
    <3>3. Remember(seen[p], m) \in Seq(Commands)
      BY <1>1, <3>1, RememberLatest DEF IInv, PeerInv, Memory
    <3>4. Append(received[p], m) \in Seq(Commands) /\ Append(toServer[p], Untimed(m.trial)) \in Seq(Reports)
      BY <1>1, <3>1, <3>2, AppendProperties
    <3> HIDE DEF m
    <3>5. /\ toPeer' = [toPeer EXCEPT ![p] = Tail(@)]
          /\ seen' = [seen EXCEPT ![p] = Remember(seen[p], m)]
          /\ received' = [received EXCEPT ![p] = Append(received[p], m)]
          /\ toServer' = toServer \/ toServer' = [toServer EXCEPT ![p] = Append(toServer[p], Untimed(m.trial))]
          /\ peer' = peer \/ peer' = [peer EXCEPT ![p] = Handling(m.trial)]
          /\ UNCHANGED <<driverVars, serverVars, ran, reported, repeats, silent>>
      BY <2>1 DEF Receive, m, Untimed
    <3>6. peer' \in [Peers -> {Receiving} \union {Handling(t) : t \in Trials}
                                          \union {Handled(t) : t \in Trials}]
      <4>1. CASE peer' = peer
        BY <1>1, <4>1
      <4>2. CASE peer' = [peer EXCEPT ![p] = Handling(m.trial)]
        BY <1>1, <3>2, <4>2
      <4>3. QED
        BY <3>5, <4>1, <4>2
    <3>7. QED
      BY <1>1, <3>1, <3>3, <3>4, <3>5, <3>6 DEF driverVars, serverVars
  <2>2. CASE RunHandler(p)
    <3> DEFINE t == peer[p].trial
    <3>1. t \in Trials
      BY <1>1, <2>2 DEF RunHandler, Receiving, Handling, Handled
    <3>2. Append(toServer[p], Result(t)) \in Seq(Reports)
      BY <1>1, <3>1, Kinds, AppendProperties
    <3>3. /\ peer' = [peer EXCEPT ![p] = Handled(t)]
          /\ ran' = [ran EXCEPT ![p] = @ \union {t}]
          /\ \/ /\ toServer' = [toServer EXCEPT ![p] = Append(toServer[p], Result(t))]
                /\ reported' = [reported EXCEPT ![p] = @ \union {t}] /\ silent' = silent
             \/ /\ UNCHANGED <<toServer, reported>>
                /\ silent < MaxSilent /\ silent' = silent + 1
          /\ UNCHANGED <<driverVars, serverVars, toPeer, seen, received, repeats>>
      BY <2>2 DEF RunHandler
    <3> HIDE DEF t
    <3>4. silent' \in 0..MaxSilent
      BY <1>1, <3>3, RoundsAssumption
    <3>5. toServer' \in [Peers -> Seq(Reports)] /\ reported' \in [Peers -> SUBSET Trials]
      <4>1. CASE UNCHANGED <<toServer, reported>>
        BY <1>1, <4>1
      <4>2. CASE /\ toServer' = [toServer EXCEPT ![p] = Append(toServer[p], Result(t))]
                 /\ reported' = [reported EXCEPT ![p] = @ \union {t}]
        <5>1. toServer' \in [Peers -> Seq(Reports)]
          BY <1>1, <3>2, <4>2
        <5>2. reported' \in [Peers -> SUBSET Trials]
          BY <1>1, <3>1, <4>2
        <5>3. QED
          BY <5>1, <5>2
      <4>3. QED
        BY <3>3, <4>1, <4>2
    <3>6. peer' \in [Peers -> {Receiving} \union {Handling(u) : u \in Trials}
                                          \union {Handled(u) : u \in Trials}]
      BY <1>1, <3>1, <3>3
    <3>7. QED
      BY <1>1, <3>1, <3>3, <3>4, <3>5, <3>6 DEF driverVars, serverVars
  <2>3. CASE SendAck(p)
    <3>1. peer[p].trial \in Trials
      BY <1>1, <2>3 DEF SendAck, Receiving, Handling, Handled
    <3>2. Append(toServer[p], Timed(peer[p].trial)) \in Seq(Reports)
      BY <1>1, <3>1, Kinds, AppendProperties
    <3>3. /\ toServer' = [toServer EXCEPT ![p] = Append(toServer[p], Timed(peer[p].trial))]
          /\ peer' = [peer EXCEPT ![p] = Receiving]
      BY <2>3 DEF SendAck, Timed
    <3>4. QED
      BY <1>1, <2>3, <3>2, <3>3 DEF SendAck, driverVars, serverVars
  <2>4. QED
    BY <1>7, <2>1, <2>2, <2>3 DEF Client
<1>8. ASSUME NEW p \in Peers, ServeLoop(p) PROVE Types'
  <2>1. CASE HandleResult(p)
    <3>1. Head(toServer[p]) \in Reports /\ Tail(toServer[p]) \in Seq(Reports)
      BY <1>1, <2>1, HeadTailProperties DEF HandleResult
    <3>2. Append(results[p], Head(toServer[p]).trial) \in Seq(Trials)
      BY <1>1, <3>1, Kinds, AppendProperties
    <3>3. QED
      BY <1>1, <2>1, <3>1, <3>2 DEF HandleResult, driverVars, peerVars
  <2>2. CASE HandleAck(p)
    <3>1. Tail(toServer[p]) \in Seq(Reports)
      BY <1>1, <2>2, HeadTailProperties DEF HandleAck
    <3>2. pending' \subseteq Peers /\ acked' \subseteq Peers /\ timed' \subseteq Peers
      BY <1>1, <1>8, <2>2 DEF HandleAck, ObserveTiming
    <3>3. QED
      BY <1>1, <2>2, <3>1, <3>2 DEF HandleAck, driverVars, peerVars
  <2>3. CASE Expire(p)
    BY <1>1, <2>3 DEF Expire, driverVars, peerVars
  <2>4. QED
    BY <1>8, <2>1, <2>2, <2>3 DEF ServeLoop
<1>9. ASSUME NEW p \in Peers, Repeat(p) PROVE Types'
  <2>1. PICK m \in ToSet(received[p] \o toPeer[p]) : toPeer' = [toPeer EXCEPT ![p] = Append(@, m)]
    BY <1>9 DEF Repeat
  <2>2. received[p] \o toPeer[p] \in Seq(Commands)
    BY <1>1, ConcatProperties
  <2>3. m \in Commands
    BY <2>1, <2>2, SetOfSeq
  <2>4. Append(toPeer[p], m) \in Seq(Commands)
    BY <1>1, <2>3, AppendProperties
  <2>5. repeats' \in 0..MaxRepeats
    BY <1>1, <1>9, RoundsAssumption DEF Repeat
  <2>6. QED
    BY <1>1, <1>9, <2>1, <2>4, <2>5 DEF Repeat, driverVars, serverVars
<1>10. CASE UNCHANGED vars
  BY <1>1, <1>10 DEF vars, driverVars, serverVars, peerVars
<1>11. QED
  BY <1>3, <1>4, <1>5, <1>6, <1>7, <1>8, <1>9, <1>10 DEF Next, Driver

-----------------------------------------------------------------------------
(* What is known of a peer, in the terms its steps use. *)
LEMMA PeerFacts ==
    ASSUME IInv, NEW p \in Peers
    PROVE  /\ Memory(p) /\ Numbered(p) /\ Course(p) /\ Flow(p) /\ Timely(p)
           /\ received[p] \in Seq(Commands) /\ toPeer[p] \in Seq(Commands)
           /\ seen[p] \in Seq(Commands) /\ toServer[p] \in Seq(Reports)
           /\ results[p] \in Seq(Trials) /\ ran[p] \subseteq Trials
           /\ reported[p] \subseteq Trials /\ round \in Nat /\ Trials \subseteq Nat \ {0}
           /\ peer[p] = Receiving \/ \E t \in Trials : peer[p] = Handling(t) \/ peer[p] = Handled(t)
<1>1. Memory(p) /\ Numbered(p) /\ Course(p) /\ Flow(p) /\ Timely(p)
  BY DEF IInv, PeerInv
<1>2. round \in Nat /\ Trials \subseteq Nat \ {0}
  BY RoundsAssumption DEF IInv, Types, Trials
<1>3. QED
  BY <1>1, <1>2 DEF IInv, Types

LEMMA Places ==
    /\ Receiving.at = "receiving"
    /\ \A t : /\ Handling(t).at = "handling" /\ Handling(t).trial = t
              /\ Handled(t).at = "handled" /\ Handled(t).trial = t
              /\ Handling(t) # Receiving /\ Handled(t) # Receiving
BY DEF Receiving, Handling, Handled

LEMMA ReceiveStep ==
    ASSUME IInv, NEW p \in Peers, Receive(p)
    PROVE  IInv'
<1> DEFINE m == Head(toPeer[p])
<1>1. /\ Memory(p) /\ Numbered(p) /\ Course(p) /\ Flow(p) /\ Timely(p)
      /\ received[p] \in Seq(Commands) /\ toPeer[p] \in Seq(Commands)
      /\ seen[p] \in Seq(Commands) /\ toServer[p] \in Seq(Reports)
      /\ round \in Nat /\ Trials \subseteq Nat \ {0}
  BY PeerFacts
<1>2. /\ peer[p] = Receiving /\ toPeer[p] # <<>>
      /\ toPeer'[p] = Tail(toPeer[p]) /\ seen'[p] = Remember(seen[p], m)
      /\ received'[p] = Append(received[p], m)
      /\ UNCHANGED <<driverVars, serverVars, ran, reported, repeats, silent>>
  BY DEF Receive, IInv, Types
<1>3. \/ m.kind = "STATE_UPDATE" /\ UNCHANGED <<peer, toServer>>
      \/ /\ m.kind = "TRIAL_START_AT" /\ Contains(seen[p], m)
         /\ toServer' = [toServer EXCEPT ![p] = Append(toServer[p], Untimed(m.trial))]
         /\ UNCHANGED peer
      \/ /\ ~(m.kind = "TRIAL_START_AT" /\ Contains(seen[p], m)) /\ m.kind # "STATE_UPDATE"
         /\ peer' = [peer EXCEPT ![p] = Handling(m.trial)]
         /\ UNCHANGED toServer
  BY DEF Receive, Untimed
<1>4. /\ m \in Commands /\ m \in ToSet(toPeer[p])
      /\ m.trial \in Trials
      /\ \/ m = Start(m.trial) /\ m.kind = "TRIAL_START_AT"
         \/ m = State(m.trial) /\ m.kind = "STATE_UPDATE"
  BY <1>1, <1>2, HeadTailProperties, SetOfTail, Kinds
<1>5. /\ m \in ToSet(received[p]) => m \in ToSet(seen[p])
      /\ Memory(p)' /\ Way(p)' = Way(p)
  <2>1. /\ m \in ToSet(received[p]) => m \in ToSet(seen[p])
        /\ Latest(Remember(seen[p], m), Append(received[p], m))
        /\ Append(received[p], m) \o Tail(toPeer[p]) = received[p] \o toPeer[p]
        /\ Near(Append(received[p], m) \o Tail(toPeer[p]), Len(Append(received[p], m)))
    <3>1. /\ Latest(seen[p], received[p])
          /\ Near(received[p] \o toPeer[p], Len(received[p]))
      BY <1>1 DEF Memory, Way
    <3>2. PICK s \in Seq(Commands), q \in Seq(Commands), ids \in Seq(Commands) :
              s = received[p] /\ q = toPeer[p] /\ ids = seen[p]
      BY <1>1
    <3>3. Latest(ids, s) /\ Near(s \o q, Len(s)) /\ q # <<>>
      BY <1>2, <3>1, <3>2
    <3>4. /\ Head(q) \in ToSet(s) => Head(q) \in ToSet(ids)
          /\ Latest(Remember(ids, Head(q)), Append(s, Head(q)))
          /\ Append(s, Head(q)) \o Tail(q) = s \o q
          /\ Near(Append(s, Head(q)) \o Tail(q), Len(Append(s, Head(q))))
      BY <3>2, <3>3, ReceiveKnows
    <3>5. QED
      BY <3>2, <3>4
  <2>2. QED
    BY <1>2, <2>1 DEF Memory, Way
<1>6. Contains(seen[p], m) <=> m \in ToSet(seen[p])
  BY <1>1, SetOfSeq
<1>7. m \in ToSet(seen[p]) => m \in ToSet(received[p])
  BY <1>1 DEF Memory, Latest
<1>8. ToSet(received'[p]) = ToSet(received[p]) \union {m}
  BY <1>1, <1>2, <1>4, SetOfAppend
<1>9. m.trial <= round
  BY <1>1, <1>4, SetOfConcat DEF Numbered, Way
<1>10. Stays /\ acked \subseteq acked' /\ \A q \in Peers \ {p} : Untouched(q)
  <2>1. Stays /\ acked' = acked
    BY <1>2 DEF Stays, driverVars, serverVars
  <2>2. \A q \in Peers \ {p} : /\ received'[q] = received[q] /\ toPeer'[q] = toPeer[q]
                               /\ seen'[q] = seen[q]
    BY DEF Receive, IInv, Types
  <2>3. \A q \in Peers \ {p} : toServer'[q] = toServer[q] /\ peer'[q] = peer[q]
    BY <1>3 DEF IInv, Types
  <2>4. QED
    BY <1>2, <2>1, <2>2, <2>3 DEF Untouched, driverVars, serverVars
<1>11. Types'
  BY TypesStep DEF Next, Client
<1>12. Numbered(p)'
  BY <1>1, <1>5, <1>10, NumberedKept
<1> HIDE DEF m
<1>13. Course(p)' /\ Flow(p)' /\ Timely(p)'
  <2>1. CASE m.kind = "STATE_UPDATE" /\ UNCHANGED <<peer, toServer>>
    <3>1. \A t : Start(t) \in ToSet(received'[p]) <=> Start(t) \in ToSet(received[p])
      BY <1>4, <1>8, <2>1, Kinds
    <3>2. Course(p)' /\ Timely(p)'
      BY <1>1, <1>2, <2>1, <3>1 DEF Course, Timely, driverVars, serverVars
    <3>3. Flow(p)'
      BY <1>1, <1>2, <1>10, <2>1, FlowKept DEF driverVars, serverVars
    <3>4. QED
      BY <3>2, <3>3
  <2>2. CASE /\ m.kind = "TRIAL_START_AT" /\ m \in ToSet(received[p])
             /\ toServer'[p] = Append(toServer[p], Untimed(m.trial))
             /\ peer' = peer
    <3>1. ToSet(received'[p]) = ToSet(received[p]) /\ m = Start(m.trial)
      BY <1>4, <1>8, <2>2
    <3>2. m.trial = round => round \in ran[p]
      BY <1>1, <1>2, <2>2, <3>1, Places DEF Course
    <3>3. Untimed(m.trial) \in Reports /\ ~IsReport(Untimed(m.trial))
          /\ Untimed(m.trial).kind = "ACK" /\ Untimed(m.trial).trial = m.trial
          /\ (Untimed(m.trial) = Untimed(round) => m.trial = round)
      BY <1>4, Kinds DEF IsReport
    <3>4. ToSet(toServer'[p]) = ToSet(toServer[p]) \union {Untimed(m.trial)}
      BY <1>1, <2>2, <3>3, SetOfAppend
    <3>5. Ahead(toServer'[p], round)
      BY <1>1, <2>2, <3>3, AheadAppend DEF Flow
    <3>6. Reporting(p)' <=> Reporting(p)
      BY <3>3, <3>4 DEF Reporting
    <3>7. p \in pending => Stamped(toServer'[p], round)
      <4>1. p \in pending => Stamped(toServer[p], round)
        BY <1>1 DEF Timely
      <4>2. p \in pending /\ m.trial = round => Timed(round) \in ToSet(toServer[p])
        BY <1>1, <1>2, <2>2, <3>1 DEF Timely
      <4>3. QED
        BY <1>1, <2>2, <3>3, <4>1, <4>2, StampedAppend
    <3>8. Course(p)'
      BY <1>1, <1>2, <2>2, <3>1 DEF Course, driverVars
    <3>9. Flow(p)'
      BY <1>1, <1>2, <1>9, <2>2, <3>2, <3>3, <3>4, <3>5, <3>6 DEF Flow, driverVars, serverVars
    <3>10. Timely(p)'
      BY <1>1, <1>2, <2>2, <3>1, <3>4, <3>7 DEF Timely, driverVars, serverVars
    <3>11. QED
      BY <3>8, <3>9, <3>10
  <2>3. CASE /\ m.kind = "TRIAL_START_AT" /\ m \notin ToSet(received[p])
             /\ peer'[p] = Handling(m.trial) /\ toServer' = toServer
    <3>1. m = Start(m.trial) /\ m.trial \notin ran[p]
      BY <1>1, <1>4, <2>3 DEF Course
    <3>2. m.trial = round
      <4>1. m.trial \notin 1..(round - 1)
        BY <1>1, <3>1 DEF Course
      <4>2. PICK t \in Nat \ {0} : t = m.trial
        BY <1>1, <1>4
      <4>3. t <= round /\ ~(t \in 1..(round - 1))
        BY <1>9, <4>1, <4>2
      <4>4. t = round
        BY <1>1, <4>2, <4>3
      <4>5. QED
        BY <4>2, <4>4
    <3>3. ToSet(received'[p]) = ToSet(received[p]) \union {Start(round)} /\ round \notin ran[p]
      BY <1>8, <3>1, <3>2
    <3>4. \A t : Start(t) = Start(round) => t = round
      BY Kinds
    <3>5. Course(p)'
      BY <1>1, <1>2, <2>3, <3>2, <3>3, <3>4, Places DEF Course, driverVars
    <3>6. Reporting(p)' <=> Reporting(p)
      BY <2>3 DEF Reporting
    <3>7. Flow(p)'
      BY <1>1, <1>2, <2>3, <3>3, <3>6 DEF Flow, driverVars, serverVars
    <3>8. Timely(p)'
      BY <1>1, <1>2, <2>3, Places DEF Timely, driverVars, serverVars
    <3>9. QED
      BY <3>5, <3>7, <3>8
  <2>4. QED
    <3>1. CASE m.kind = "STATE_UPDATE"
      BY <1>3, <2>1, <3>1
    <3>2. CASE m.kind = "TRIAL_START_AT" /\ m \in ToSet(received[p])
      BY <1>3, <1>5, <1>6, <2>2, <3>2 DEF IInv, Types
    <3>3. CASE m.kind = "TRIAL_START_AT" /\ m \notin ToSet(received[p])
      BY <1>3, <1>6, <1>7, <2>3, <3>3 DEF IInv, Types
    <3>4. QED
      BY <1>4, <3>1, <3>2, <3>3
<1>14. PeerInv(p)'
  BY <1>5, <1>12, <1>13 DEF PeerInv
<1>15. QED
  BY <1>10, <1>11, <1>14, OthersKept

LEMMA RunHandlerStep ==
    ASSUME IInv, NEW p \in Peers, RunHandler(p)
    PROVE  IInv'
<1> DEFINE t == peer[p].trial
<1>1. /\ Memory(p) /\ Numbered(p) /\ Course(p) /\ Flow(p) /\ Timely(p)
      /\ toServer[p] \in Seq(Reports) /\ round \in Nat
      /\ peer[p] = Receiving \/ \E u \in Trials : peer[p] = Handling(u) \/ peer[p] = Handled(u)
      /\ results[p] \in Seq(Trials) /\ Trials \subseteq Nat \ {0}
  BY PeerFacts
<1>2. /\ peer[p].at = "handling" /\ peer'[p] = Handled(t) /\ ran'[p] = ran[p] \union {t}
      /\ \/ toServer'[p] = Append(toServer[p], Result(t)) /\ reported'[p] = reported[p] \union {t}
         \/ toServer'[p] = toServer[p] /\ reported'[p] = reported[p]
      /\ UNCHANGED <<driverVars, serverVars, toPeer, seen, received, repeats>>
  BY DEF RunHandler, IInv, Types
<1>3. t = round /\ round \in Trials /\ peer[p] # Receiving
  BY <1>1, <1>2, Places DEF Course
<1>4. round \notin ran[p] /\ round \notin reported[p] /\ Start(round) \in ToSet(received[p])
  BY <1>1, <1>2, <1>3 DEF Course
<1>5. /\ \A m \in ToSet(toServer[p]) : ~IsReport(m) /\ m.trial < round
      /\ p \notin acked /\ results[p] = <<>>
  <2>1. ~Reporting(p) /\ p \notin acked /\ results[p] = <<>>
    BY <1>1, <1>4 DEF Flow
  <2>2. ASSUME NEW m \in ToSet(toServer[p]) PROVE m.trial < round /\ ~IsReport(m)
    <3>1. ~IsReport(m)
      BY <2>1 DEF Reporting
    <3>2. m \in Reports
      BY <1>1, SetOfSeq
    <3>3. m.kind = "ACK" /\ m.trial \in Nat
      BY <1>1, <3>1, <3>2, Kinds DEF IsReport
    <3>4. m.trial <= round /\ m.trial # round
      BY <1>1, <1>4, <3>3 DEF Flow
    <3>5. QED
      BY <1>1, <3>1, <3>3, <3>4
  <2>3. QED
    BY <2>1, <2>2
<1>6. Stays /\ acked \subseteq acked' /\ \A q \in Peers \ {p} : Untouched(q)
  <2>1. Stays /\ acked' = acked
    BY <1>2 DEF Stays, driverVars, serverVars
  <2>2. \A q \in Peers \ {p} : /\ toServer'[q] = toServer[q] /\ reported'[q] = reported[q]
                               /\ peer'[q] = peer[q] /\ ran'[q] = ran[q]
    BY DEF RunHandler, IInv, Types
  <2>3. QED
    BY <1>2, <2>1, <2>2 DEF Untouched, driverVars, serverVars
<1> HIDE DEF t
<1>7. Course(p)'
  BY <1>1, <1>2, <1>3, <1>4, Places DEF Course, driverVars
<1>8. Memory(p)' /\ Numbered(p)'
  BY <1>1, <1>2, <1>6, MemoryKept, NumberedKept DEF Way
<1>9. ASSUME toServer'[p] = toServer[p], reported'[p] = reported[p]
      PROVE  Flow(p)' /\ Timely(p)'
  <2>1. Reporting(p)' <=> Reporting(p)
    BY <1>9 DEF Reporting
  <2>2. \A m \in ToSet(toServer[p]) : m.trial # round
    <3>1. ASSUME NEW m \in ToSet(toServer[p]), m.trial = round PROVE FALSE
      BY <1>1, <1>5, <3>1
    <3>2. QED
      BY <3>1
  <2>3. Flow(p)'
    BY <1>1, <1>2, <1>4, <1>5, <1>9, <2>1, <2>2 DEF Flow, driverVars, serverVars
  <2>4. Timely(p)'
    BY <1>1, <1>2, <1>9, Places DEF Timely, driverVars, serverVars
  <2>5. QED
    BY <2>3, <2>4
<1>10. ASSUME toServer'[p] = Append(toServer[p], Result(t)), reported'[p] = reported[p] \union {t}
       PROVE  Flow(p)' /\ Timely(p)'
  <2>1. /\ Result(t) = Result(round) /\ Result(round) \in Reports /\ IsReport(Result(round))
        /\ Result(round).trial = round /\ Result(round).kind # "ACK"
    BY <1>3, Kinds DEF IsReport
  <2>2. ToSet(toServer'[p]) = ToSet(toServer[p]) \union {Result(round)}
    BY <1>1, <1>10, <2>1, SetOfAppend
  <2>3. Ahead(toServer'[p], round)
    BY <1>1, <1>5, <1>10, <2>1, AheadAppend DEF Flow
  <2>4. Reporting(p)'
    BY <2>1, <2>2 DEF Reporting
  <2>5. \A m \in ToSet(toServer'[p]) : /\ m.trial <= round
                                       /\ IsReport(m) => m = Result(round)
                                       /\ m.kind = "ACK" => m.trial # round
    <3>1. ASSUME NEW m \in ToSet(toServer[p])
          PROVE  m.trial <= round /\ m.trial # round /\ ~IsReport(m)
      <4>1. m.trial < round /\ m.trial \in Nat
        BY <1>1, <1>5, SetOfSeq, Kinds
      <4>2. QED
        BY <1>1, <1>5, <4>1
    <3>2. QED
      BY <1>1, <2>1, <2>2, <3>1
  <2>6. Flow(p)'
    BY <1>2, <1>3, <1>5, <1>10, <2>3, <2>4, <2>5 DEF Flow, driverVars, serverVars
  <2>7. p \in pending => Stamped(toServer'[p], round)
    <3>1. Result(round) # Untimed(round)
      BY Kinds
    <3>2. QED
      BY <1>1, <1>10, <2>1, <3>1, StampedAppend DEF Timely
  <2>8. Timely(p)'
    BY <1>1, <1>2, <2>7, Places DEF Timely, driverVars, serverVars
  <2>9. QED
    BY <2>6, <2>8
<1>11. PeerInv(p)'
  BY <1>2, <1>7, <1>8, <1>9, <1>10 DEF PeerInv
<1>12. Types'
  BY TypesStep DEF Next, Client
<1>13. QED
  BY <1>6, <1>11, <1>12, OthersKept

LEMMA SendAckStep ==
    ASSUME IInv, NEW p \in Peers, SendAck(p)
    PROVE  IInv'
<1>1. /\ Memory(p) /\ Numbered(p) /\ Course(p) /\ Flow(p) /\ Timely(p)
      /\ toServer[p] \in Seq(Reports) /\ round \in Nat
      /\ peer[p] = Receiving \/ \E u \in Trials : peer[p] = Handling(u) \/ peer[p] = Handled(u)
      /\ Trials \subseteq Nat \ {0}
  BY PeerFacts
<1>2. /\ peer[p].at = "handled" /\ peer'[p] = Receiving
      /\ toServer'[p] = Append(toServer[p], Timed(peer[p].trial))
      /\ UNCHANGED <<driverVars, serverVars, toPeer, seen, received, ran, reported, repeats,
                     silent>>
  BY DEF SendAck, IInv, Types, Timed
<1>3. /\ peer[p].trial = round /\ round \in Trials /\ peer[p] # Receiving
      /\ round \in ran[p] /\ Start(round) \in ToSet(received[p])
  BY <1>1, <1>2, Places DEF Course
<1>4. /\ Timed(round) \in Reports /\ ~IsReport(Timed(round)) /\ Timed(round).trial = round
      /\ Timed(round) # Untimed(round)
  BY <1>3, Kinds DEF IsReport
<1>5. ToSet(toServer'[p]) = ToSet(toServer[p]) \union {Timed(round)}
  BY <1>1, <1>2, <1>3, <1>4, SetOfAppend
<1>6. Ahead(toServer'[p], round)
  BY <1>1, <1>2, <1>3, <1>4, AheadAppend DEF Flow
<1>7. p \in pending => Stamped(toServer'[p], round)
  BY <1>1, <1>2, <1>3, <1>4, StampedAppend DEF Timely
<1>8. Reporting(p)' <=> Reporting(p)
  BY <1>4, <1>5 DEF Reporting
<1>9. Stays /\ acked \subseteq acked' /\ \A q \in Peers \ {p} : Untouched(q)
  <2>1. Stays /\ acked' = acked
    BY <1>2 DEF Stays, driverVars, serverVars
  <2>2. \A q \in Peers \ {p} : toServer'[q] = toServer[q] /\ peer'[q] = peer[q]
    BY DEF SendAck, IInv, Types
  <2>3. QED
    BY <1>2, <2>1, <2>2 DEF Untouched, driverVars, serverVars
<1>10. Course(p)'
  BY <1>1, <1>2, <1>3, Places DEF Course, driverVars
<1>11. Memory(p)' /\ Numbered(p)'
  BY <1>1, <1>2, <1>9, MemoryKept, NumberedKept DEF Way
<1>12. Flow(p)'
  <2>1. Timed(round).trial <= round
    BY <1>1, <1>4
  <2>2. QED
    BY <1>1, <1>2, <1>3, <1>4, <1>5, <1>6, <1>8, <2>1 DEF Flow, driverVars, serverVars
<1>13. Timely(p)'
  BY <1>1, <1>2, <1>5, <1>7 DEF Timely, driverVars, serverVars
<1>14. PeerInv(p)'
  BY <1>10, <1>11, <1>12, <1>13 DEF PeerInv
<1>15. Types'
  BY TypesStep DEF Next, Client
<1>16. QED
  BY <1>9, <1>14, <1>15, OthersKept

LEMMA RepeatStep ==
    ASSUME IInv, NEW p \in Peers, Repeat(p)
    PROVE  IInv'
<1>1. /\ Memory(p) /\ Numbered(p) /\ Course(p) /\ Flow(p) /\ Timely(p)
      /\ received[p] \in Seq(Commands) /\ toPeer[p] \in Seq(Commands)
  BY PeerFacts
<1>2. PICK m \in ToSet(Way(p)) :
          /\ Recent(Way(p), m)
          /\ toPeer' = [toPeer EXCEPT ![p] = Append(@, m)]
          /\ UNCHANGED <<driverVars, serverVars, toServer, peer, seen, received, ran, reported,
                         silent>>
  BY DEF Repeat, Way
<1>3. Way(p) \in Seq(Commands) /\ m \in Commands /\ Len(received[p]) \in 0..Len(Way(p))
  <2>1. /\ Way(p) \in Seq(Commands) /\ Len(Way(p)) = Len(received[p]) + Len(toPeer[p])
        /\ Len(received[p]) \in Nat /\ Len(toPeer[p]) \in Nat
    BY <1>1, ConcatProperties, LenProperties DEF Way
  <2>2. ToSet(Way(p)) \subseteq Commands
    BY <2>1, SetOfSeq
  <2>3. Len(received[p]) \in 0..Len(Way(p))
    <3>1. \A a, b \in Nat : a \in 0..(a + b)
      OBVIOUS
    <3>2. QED
      BY <2>1, <3>1
  <2>4. QED
    BY <1>2, <2>1, <2>2, <2>3
<1>4. toPeer'[p] = Append(toPeer[p], m) /\ \A q \in Peers \ {p} : toPeer'[q] = toPeer[q]
  BY <1>2 DEF IInv, Types
<1>5. Way(p)' = Append(Way(p), m)
  <2>1. received[p] \o Append(toPeer[p], m) = Append(received[p] \o toPeer[p], m)
    <3>1. \A s, q \in Seq(Commands) : s \o Append(q, m) = Append(s \o q, m)
      BY <1>3, WaySend
    <3>2. QED
      BY <1>1, <3>1
  <2>2. Way(p)' = received[p] \o Append(toPeer[p], m)
    BY <1>2, <1>4 DEF Way
  <2>3. QED
    BY <2>1, <2>2 DEF Way
<1>6. Near(Way(p)', Len(received[p]))
  BY <1>1, <1>2, <1>3, <1>5, NearGrows DEF Memory
<1>7. Memory(p)'
  BY <1>1, <1>2, <1>6 DEF Memory
<1>8. Numbered(p)'
  <2>1. ToSet(Way(p)') = ToSet(Way(p))
    <3>1. ToSet(Append(Way(p), m)) = ToSet(Way(p)) \union {m}
      BY <1>3, SetOfAppend
    <3>2. ToSet(Way(p)') = ToSet(Append(Way(p), m))
      BY <1>5
    <3>3. QED
      BY <1>2, <3>1, <3>2
  <2>2. QED
    BY <1>1, <1>2, <2>1 DEF Numbered, driverVars
<1>9. Stays /\ acked \subseteq acked' /\ \A q \in Peers \ {p} : Untouched(q)
  BY <1>2, <1>4 DEF Stays, Untouched, driverVars, serverVars
<1>10. Course(p)' /\ Flow(p)' /\ Timely(p)'
  BY <1>1, <1>2, <1>9, CourseKept, FlowKept, TimelyKept DEF driverVars, serverVars
<1>11. PeerInv(p)'
  BY <1>7, <1>8, <1>10 DEF PeerInv
<1>12. Types'
  BY TypesStep DEF Next
<1>13. QED
  BY <1>9, <1>11, <1>12, OthersKept

-----------------------------------------------------------------------------
LEMMA HandleResultStep ==
    ASSUME IInv, NEW p \in Peers, HandleResult(p)
    PROVE  IInv'
<1> DEFINE m == Head(toServer[p])
<1>1. /\ Memory(p) /\ Numbered(p) /\ Course(p) /\ Flow(p) /\ Timely(p)
      /\ toServer[p] \in Seq(Reports) /\ results[p] \in Seq(Trials) /\ round \in Nat
      /\ reported[p] \subseteq Trials
  BY PeerFacts
<1>2. /\ toServer[p] # <<>> /\ m.kind = "RESULT_REPORT"
      /\ toServer'[p] = Tail(toServer[p]) /\ results'[p] = Append(results[p], m.trial)
      /\ UNCHANGED <<driverVars, pending, acked, timed, peerVars>>
  BY DEF HandleResult, IInv, Types
<1>3. /\ m \in ToSet(toServer[p]) /\ m \in Reports
      /\ ToSet(toServer[p]) = {m} \union ToSet(Tail(toServer[p]))
  BY <1>1, <1>2, SetOfTail, HeadTailProperties
<1> HIDE DEF m
<1>4. IsReport(m) /\ Reporting(p)
  BY <1>2, <1>3 DEF IsReport, Reporting
<1>5. /\ m.trial = round /\ round \in reported[p] /\ results[p] = <<>> /\ p \notin acked
      /\ m # Timed(round)
  BY <1>1, <1>2, <1>3, <1>4, Kinds DEF Flow
<1>6. results'[p] = <<round>> /\ <<round>> # <<>>
  BY <1>2, <1>5
<1>7. Ahead(toServer'[p], round) /\ \A x \in ToSet(Tail(toServer[p])) : ~IsReport(x)
  <2>1. Ahead(toServer[p], round)
    BY <1>1 DEF Flow
  <2>2. /\ Ahead(Tail(toServer[p]), round)
        /\ IsReport(Head(toServer[p])) => \A x \in ToSet(Tail(toServer[p])) : ~IsReport(x)
    BY <1>1, <1>2, <2>1, AheadTail
  <2>3. QED
    BY <1>2, <1>4, <2>2 DEF m
<1>8. ~Reporting(p)'
  BY <1>2, <1>7 DEF Reporting
<1>9. driver \notin {"idle", "collecting"}
  <2>1. round # 0
    BY <1>1, <1>5, RoundsAssumption DEF Trials
  <2>2. QED
    BY <1>5, <2>1 DEF IInv
<1>10. Flow(p)'
  BY <1>1, <1>2, <1>3, <1>5, <1>6, <1>7, <1>8, <1>9 DEF Flow, driverVars, peerVars
<1>11. Timely(p)'
  <2>1. p \in pending => Stamped(toServer'[p], round)
    <3>1. p \in pending => Stamped(toServer[p], round)
      BY <1>1 DEF Timely
    <3>2. QED
      BY <1>1, <1>2, <1>5, <3>1, StampedTail DEF m
  <2>2. QED
    BY <1>1, <1>2, <1>3, <1>5, <2>1 DEF Timely, driverVars, peerVars
<1>12. Stays /\ acked \subseteq acked' /\ \A q \in Peers \ {p} : Untouched(q)
  <2>1. Stays /\ acked' = acked
    BY <1>2 DEF Stays, driverVars
  <2>2. \A q \in Peers \ {p} : toServer'[q] = toServer[q] /\ results'[q] = results[q]
    BY DEF HandleResult, IInv, Types
  <2>3. QED
    BY <1>2, <2>1, <2>2 DEF Untouched, driverVars, peerVars
<1>13. Memory(p)' /\ Numbered(p)' /\ Course(p)'
  BY <1>1, <1>2, <1>12, MemoryKept, NumberedKept, CourseKept DEF Way, peerVars, driverVars
<1>14. PeerInv(p)'
  BY <1>10, <1>11, <1>13 DEF PeerInv
<1>15. Types'
  BY TypesStep DEF Next, ServeLoop
<1>16. QED
  BY <1>12, <1>14, <1>15, OthersKept

LEMMA HandleAckStep ==
    ASSUME IInv, NEW p \in Peers, HandleAck(p)
    PROVE  IInv'
<1> DEFINE m == Head(toServer[p])
<1>1. /\ Memory(p) /\ Numbered(p) /\ Course(p) /\ Flow(p) /\ Timely(p)
      /\ toServer[p] \in Seq(Reports) /\ round \in Nat
  BY PeerFacts
<1>2. /\ toServer[p] # <<>> /\ m.kind = "ACK"
      /\ toServer'[p] = Tail(toServer[p])
      /\ UNCHANGED <<driverVars, results, peerVars>>
  BY DEF HandleAck, IInv, Types
<1>3. /\ m \in ToSet(toServer[p]) /\ m \in Reports
      /\ ToSet(toServer[p]) = {m} \union ToSet(Tail(toServer[p]))
  BY <1>1, <1>2, SetOfTail, HeadTailProperties
<1>4. \/ m = Timed(m.trial) /\ m.applied = TRUE
      \/ m = Untimed(m.trial) /\ m.applied = FALSE
  BY <1>2, <1>3, Kinds
<1>5. \/ /\ m.trial = round /\ p \in pending /\ m.applied
         /\ pending' = pending \ {p} /\ acked' = acked \union {p} /\ timed' = timed \union {p}
      \/ m.trial = round /\ p \in pending /\ ~m.applied
      \/ ~(m.trial = round /\ p \in pending) /\ UNCHANGED <<pending, acked, timed>>
  BY DEF HandleAck, ObserveTiming
<1> HIDE DEF m
<1>6. p \in pending => m # Untimed(round) /\ (m # Timed(round) => Stamped(Tail(toServer[p]), round))
  <2>1. p \in pending => Stamped(toServer[p], round)
    BY <1>1 DEF Timely
  <2>2. QED
    BY <1>1, <1>2, <2>1, StampedTail DEF m
<1>7. \/ /\ m = Timed(round) /\ m.trial = round /\ p \in pending
         /\ pending' = pending \ {p} /\ acked' = acked \union {p} /\ timed' = timed \union {p}
      \/ (m = Timed(round) => p \notin pending) /\ UNCHANGED <<pending, acked, timed>>
  BY <1>4, <1>5, <1>6, Kinds
<1>8. ~IsReport(m)
  BY <1>2 DEF IsReport
<1>9. Reporting(p)' <=> Reporting(p)
  BY <1>2, <1>3, <1>8 DEF Reporting
<1>10. /\ Ahead(toServer'[p], round)
       /\ m.trial = round => ~Reporting(p)
  <2>1. Ahead(toServer[p], round)
    BY <1>1 DEF Flow
  <2>2. /\ Ahead(Tail(toServer[p]), round)
        /\ ~(m.trial < round) => \A x \in ToSet(Tail(toServer[p])) : ~IsReport(x)
    BY <1>1, <1>2, <2>1, AheadTail DEF m
  <2>3. m.trial = round => ~(m.trial < round)
    BY <1>1
  <2>4. QED
    BY <1>2, <1>3, <1>8, <2>2, <2>3 DEF Reporting
<1>11. m.trial = round => round \in ran[p] /\ peer[p] = Receiving
  BY <1>1, <1>2, <1>3 DEF Flow
<1>12. Flow(p)'
  BY <1>1, <1>2, <1>3, <1>7, <1>9, <1>10, <1>11 DEF Flow, driverVars, peerVars
<1>13. Timely(p)'
  <2>1. CASE m = Timed(round) /\ p \in pending
    BY <1>1, <1>2, <1>7, <2>1 DEF Timely, driverVars, peerVars
  <2>2. CASE (m = Timed(round) => p \notin pending) /\ UNCHANGED <<pending, acked, timed>>
    BY <1>1, <1>2, <1>3, <1>6, <2>2 DEF Timely, driverVars, peerVars
  <2>3. QED
    BY <1>7, <2>1, <2>2
<1>14. Stays /\ acked \subseteq acked' /\ \A q \in Peers \ {p} : Untouched(q)
  <2>1. Stays
    BY <1>2 DEF Stays, driverVars
  <2>2. \A q \in Peers \ {p} : toServer'[q] = toServer[q]
    BY DEF HandleAck, IInv, Types
  <2>3. QED
    BY <1>2, <1>7, <2>1, <2>2 DEF Untouched, driverVars, peerVars
<1>15. Memory(p)' /\ Numbered(p)' /\ Course(p)'
  BY <1>1, <1>2, <1>14, MemoryKept, NumberedKept, CourseKept DEF Way, peerVars, driverVars
<1>16. PeerInv(p)'
  BY <1>12, <1>13, <1>15 DEF PeerInv
<1>17. Types'
  BY TypesStep DEF Next, ServeLoop
<1>18. QED
  BY <1>14, <1>16, <1>17, OthersKept

LEMMA ExpireStep ==
    ASSUME IInv, NEW p \in Peers, Expire(p)
    PROVE  IInv'
<1>1. Memory(p) /\ Numbered(p) /\ Course(p) /\ Flow(p) /\ Timely(p)
  BY PeerFacts
<1>2. /\ pending' = pending \ {p}
      /\ UNCHANGED <<driverVars, acked, timed, results, toServer, peerVars>>
  BY DEF Expire
<1>3. Stays /\ acked \subseteq acked' /\ \A q \in Peers \ {p} : Untouched(q)
  BY <1>2 DEF Stays, Untouched, driverVars, peerVars
<1>4. Memory(p)' /\ Numbered(p)' /\ Course(p)'
  BY <1>1, <1>2, <1>3, MemoryKept, NumberedKept, CourseKept DEF Way, peerVars, driverVars
<1>5. Flow(p)' /\ Timely(p)'
  BY <1>1, <1>2, <1>3, FlowKept, TimelyKept DEF peerVars, driverVars
<1>6. PeerInv(p)'
  BY <1>4, <1>5 DEF PeerInv
<1>7. Types'
  BY TypesStep DEF Next, ServeLoop
<1>8. QED
  BY <1>3, <1>6, <1>7, OthersKept

(* What is collected is all there is: nothing else of the peer can be in its *)
(* queue.                                                                   *)
LEMMA CollectStep ==
    ASSUME IInv, NEW p \in Peers, Collect(p)
    PROVE  IInv'
<1>1. Memory(p) /\ Numbered(p) /\ Course(p) /\ Flow(p) /\ Timely(p)
  BY PeerFacts
<1>2. /\ results[p] # <<>> /\ results'[p] = Tail(results[p]) /\ due' = due \ {p}
      /\ driver = "collecting"
      /\ UNCHANGED <<driver, round, pending, acked, timed, toServer, peerVars>>
  BY DEF Collect, IInv, Types
<1>3. results[p] = <<round>> /\ results'[p] = <<>>
  <2>1. results[p] = <<round>>
    BY <1>1, <1>2 DEF Flow
  <2>2. Tail(<<round>>) = <<>>
    OBVIOUS
  <2>3. QED
    BY <1>2, <2>1, <2>2
<1>4. Reporting(p)' <=> Reporting(p)
  BY <1>2 DEF Reporting
<1>5. Flow(p)'
  BY <1>1, <1>2, <1>3, <1>4 DEF Flow, peerVars
<1>6. Stays /\ acked \subseteq acked' /\ \A q \in Peers \ {p} : Untouched(q)
  <2>1. \A q \in Peers \ {p} : results'[q] = results[q]
    BY DEF Collect, IInv, Types
  <2>2. QED
    BY <1>2, <2>1 DEF Stays, Untouched, peerVars
<1>7. Memory(p)' /\ Numbered(p)' /\ Course(p)' /\ Timely(p)'
  BY <1>1, <1>2, <1>6, MemoryKept, NumberedKept, CourseKept, TimelyKept DEF Way, peerVars
<1>8. PeerInv(p)'
  BY <1>5, <1>7 DEF PeerInv
<1>9. Types'
  BY TypesStep DEF Next, Driver
<1>10. QED
  BY <1>6, <1>8, <1>9, OthersKept

-----------------------------------------------------------------------------
(* The steps of run_benchmark.  What it sends to everybody is new. *)
LEMMA SendNew ==
    ASSUME IInv, NEW p \in Peers, NEW m \in Commands, m \notin ToSet(Way(p)), SendAll(m),
           received' = received, seen' = seen
    PROVE  Memory(p)' /\ ToSet(Way(p)') = ToSet(Way(p)) \union {m}
<1>1. /\ Memory(p) /\ received[p] \in Seq(Commands) /\ toPeer[p] \in Seq(Commands)
  BY PeerFacts
<1>2. toPeer'[p] = Append(toPeer[p], m)
  BY DEF SendAll
<1>3. /\ received[p] \o Append(toPeer[p], m) = Append(received[p] \o toPeer[p], m)
      /\ received[p] \o toPeer[p] \in Seq(Commands)
      /\ Len(received[p]) \in 0..Len(received[p] \o toPeer[p])
  <2>1. ASSUME NEW s \in Seq(Commands), NEW q \in Seq(Commands)
        PROVE  /\ s \o Append(q, m) = Append(s \o q, m) /\ s \o q \in Seq(Commands)
               /\ Len(s) \in 0..Len(s \o q)
    <3>1. /\ s \o q \in Seq(Commands) /\ Len(s \o q) = Len(s) + Len(q)
          /\ Len(s) \in Nat /\ Len(q) \in Nat
      BY <2>1, ConcatProperties, LenProperties
    <3>2. \A a, b \in Nat : a \in 0..(a + b)
      OBVIOUS
    <3>3. Len(s) \in 0..Len(s \o q)
      BY <3>1, <3>2
    <3>4. s \o Append(q, m) = Append(s \o q, m)
      BY <2>1, WaySend
    <3>5. QED
      BY <3>1, <3>3, <3>4
  <2>2. QED
    BY <1>1, <2>1
<1>4. Way(p)' = Append(Way(p), m) /\ Way(p) \in Seq(Commands)
      /\ Len(received[p]) \in 0..Len(Way(p))
  <2>1. Way(p)' = received[p] \o Append(toPeer[p], m)
    BY <1>2 DEF Way
  <2>2. QED
    BY <1>3, <2>1 DEF Way
<1>5. Near(Way(p)', Len(received[p]))
  <2>1. Near(Append(Way(p), m), Len(received[p]))
    BY <1>1, <1>4, NearGrows DEF Memory
  <2>2. QED
    BY <1>4, <2>1
<1>6. Memory(p)'
  BY <1>1, <1>5 DEF Memory
<1>7. ToSet(Way(p)') = ToSet(Way(p)) \union {m}
  <2>1. ToSet(Append(Way(p), m)) = ToSet(Way(p)) \union {m}
    BY <1>4, SetOfAppend
  <2>2. QED
    BY <1>4, <2>1
<1>8. QED
  BY <1>6, <1>7

(* Between two rounds a peer waits for the next command, has run all trials  *)
(* there were, and none of its results is left.                              *)
LEMMA BetweenRounds ==
    ASSUME IInv, driver = "idle", NEW p \in Peers
    PROVE  /\ peer[p] = Receiving /\ ~Reporting(p) /\ results[p] = <<>>
           /\ \A t \in 1..round : t \in ran[p]
           /\ \A t \in ran[p] : t <= round
<1>1. /\ Numbered(p) /\ Course(p) /\ Flow(p) /\ toServer[p] \in Seq(Reports)
      /\ round \in Nat /\ Trials \subseteq Nat \ {0}
      /\ peer[p] = Receiving \/ \E t \in Trials : peer[p] = Handling(t) \/ peer[p] = Handled(t)
  BY PeerFacts
<1>2. results[p] = <<>> /\ \A t \in ran[p] : t <= round
  BY <1>1 DEF Flow, Course
<1>3. CASE round = 0
  <2>1. peer[p] = Receiving
    BY <1>1, <1>3, Places DEF Course
  <2>2. \A m \in ToSet(toServer[p]) : m.trial \in Trials /\ m.trial <= 0
    BY <1>1, <1>3, SetOfSeq, Kinds DEF Flow
  <2>3. ToSet(toServer[p]) = {}
    <3>1. \A t \in Trials : ~(t <= 0)
      BY <1>1
    <3>2. QED
      BY <2>2, <3>1
  <2>4. ~Reporting(p)
    BY <2>3 DEF Reporting
  <2>5. \A t \in 1..round : t \in ran[p]
    BY <1>3
  <2>6. QED
    BY <1>2, <2>1, <2>4, <2>5
<1>4. CASE acked = Peers
  <2>1. round \in ran[p] /\ peer[p] = Receiving /\ ~Reporting(p)
    BY <1>1, <1>4 DEF Flow
  <2>2. ASSUME NEW t \in 1..round PROVE t \in ran[p]
    <3>1. t = round \/ t \in 1..(round - 1)
      BY <1>1, <2>2
    <3>2. QED
      BY <1>1, <2>1, <3>1 DEF Course
  <2>3. QED
    BY <1>2, <2>1, <2>2
<1>5. QED
  BY <1>3, <1>4 DEF IInv

LEMMA StartTrialStep ==
    ASSUME IInv, StartTrial
    PROVE  IInv'
<1>1. /\ driver = "idle" /\ round' = round + 1 /\ driver' = "starting" /\ pending' = Peers
      /\ acked' = {} /\ timed' = {} /\ SendAll(Start(round + 1))
      /\ UNCHANGED <<due, results, toServer, peer, seen, received, ran, reported, repeats,
                     silent>>
  BY DEF StartTrial
<1>2. round \in Nat /\ round + 1 \in Trials
  BY RoundsAssumption DEF IInv, Types, StartTrial, Trials
<1>3. Types'
  BY TypesStep DEF Next, Driver
<1>4. ASSUME NEW p \in Peers PROVE PeerInv(p)'
  <2>1. /\ Memory(p) /\ Numbered(p) /\ Course(p) /\ Flow(p)
        /\ received[p] \in Seq(Commands) /\ toPeer[p] \in Seq(Commands)
        /\ toServer[p] \in Seq(Reports)
    BY PeerFacts
  <2>2. /\ peer[p] = Receiving /\ ~Reporting(p) /\ results[p] = <<>>
        /\ \A t \in 1..round : t \in ran[p]
        /\ \A t \in ran[p] : t <= round
    BY <1>1, BetweenRounds
  <2>3. ToSet(received[p]) \subseteq ToSet(Way(p)) /\ ToSet(Way(p)) \subseteq Commands
    <3>1. Way(p) \in Seq(Commands)
      BY <2>1, ConcatProperties DEF Way
    <3>2. QED
      BY <2>1, <3>1, SetOfConcat, SetOfSeq DEF Way
  <2>4. /\ Start(round + 1) \in Commands /\ Start(round + 1).trial = round + 1
        /\ Start(round + 1).kind # "STATE_UPDATE"
    BY <1>2, Kinds
  <2>5. \A m \in ToSet(Way(p)) : m.trial <= round /\ m.trial \in Nat
    BY <2>1, <2>3, Kinds, PeerFacts DEF Numbered
  <2>6. Start(round + 1) \notin ToSet(Way(p))
    <3>1. ~(round + 1 <= round)
      BY <1>2
    <3>2. QED
      BY <2>4, <2>5, <3>1
  <2>7. Memory(p)' /\ ToSet(Way(p)') = ToSet(Way(p)) \union {Start(round + 1)}
    BY <1>1, <2>4, <2>6, SendNew
  <2>8. Numbered(p)'
    <3>1. ASSUME NEW m \in ToSet(Way(p)) PROVE m.trial <= round + 1 /\ m.trial < round + 1
      BY <1>2, <2>5
    <3>2. round + 1 <= round + 1
      BY <1>2
    <3>3. QED
      BY <1>1, <2>4, <2>7, <3>1, <3>2 DEF Numbered
  <2>9. round + 1 \notin ran[p] /\ round + 1 \notin reported[p]
    <3>1. ~(round + 1 <= round)
      BY <1>2
    <3>2. QED
      BY <2>1, <2>2, <3>1 DEF Course
  <2>10. Course(p)'
    <3>1. \A t \in ran[p] : t <= round' /\ Start(t) \in ToSet(received[p])
      <4>1. ASSUME NEW t \in ran[p] PROVE t <= round'
        BY <1>1, <1>2, <2>2, PeerFacts
      <4>2. QED
        BY <2>1, <4>1 DEF Course
    <3>2. \A t \in 1..(round' - 1) : t \in ran[p]
      BY <1>1, <1>2, <2>2
    <3>3. Start(round') \notin ToSet(received[p]) /\ reported[p] \subseteq ran[p]
      BY <1>1, <2>1, <2>3, <2>6 DEF Course
    <3>4. /\ peer'[p] = Receiving /\ received'[p] = received[p] /\ ran'[p] = ran[p]
          /\ reported'[p] = reported[p]
      BY <1>1, <2>2
    <3>5. QED
      BY <3>1, <3>2, <3>3, <3>4, Places DEF Course
  <2>11. \A m \in ToSet(toServer[p]) : ~IsReport(m) /\ m.trial <= round + 1 /\ m.trial # round + 1
    <3>1. ASSUME NEW m \in ToSet(toServer[p]) PROVE m.trial <= round + 1 /\ m.trial # round + 1
      <4>1. m.trial <= round /\ m.trial \in Nat
        BY <2>1, SetOfSeq, Kinds, PeerFacts DEF Flow
      <4>2. QED
        BY <1>2, <4>1
    <3>2. QED
      BY <2>2, <3>1 DEF Reporting
  <2>12. /\ DOMAIN toServer[p] = 1..Len(toServer[p])
         /\ \A i \in DOMAIN toServer[p] : toServer[p][i] \in ToSet(toServer[p])
    BY <2>1, SetOfSeq
  <2>13. Flow(p)'
    <3>1. ~Reporting(p)'
      BY <1>1, <2>2 DEF Reporting
    <3>2. Ahead(toServer[p], round + 1)
      BY <2>11, <2>12 DEF Ahead
    <3>3. QED
      BY <1>1, <2>2, <2>9, <2>11, <3>1, <3>2 DEF Flow
  <2>14. Timely(p)'
    <3>1. Stamped(toServer[p], round + 1)
      BY <2>11, <2>12, Kinds DEF Stamped
    <3>2. QED
      BY <1>1, <2>3, <2>6, <3>1 DEF Timely
  <2>15. QED
    BY <2>7, <2>8, <2>10, <2>13, <2>14 DEF PeerInv
<1>5. QED
  BY <1>1, <1>3, <1>4 DEF IInv

LEMMA EndRoundStep ==
    ASSUME IInv, EndRound
    PROVE  IInv'
<1>1. /\ driver = "collecting" /\ due = {} /\ driver' = "idle" /\ SendAll(State(round))
      /\ UNCHANGED <<round, due, serverVars, toServer, peer, seen, received, ran, reported,
                     repeats, silent>>
  BY DEF EndRound
<1>2. round \in Nat /\ round \in Trials
  BY <1>1, RoundsAssumption DEF IInv, Types, Trials
<1>3. Types'
  BY TypesStep DEF Next, Driver
<1>4. ASSUME NEW p \in Peers PROVE PeerInv(p)'
  <2>1. Memory(p) /\ Numbered(p) /\ Course(p) /\ Flow(p) /\ Timely(p)
    BY PeerFacts
  <2>2. /\ State(round) \in Commands /\ State(round).trial = round
        /\ State(round).kind = "STATE_UPDATE"
    BY <1>2, Kinds
  <2>3. State(round) \notin ToSet(Way(p))
    <3>1. ~(round < round)
      BY <1>2
    <3>2. QED
      BY <1>1, <2>1, <2>2, <3>1 DEF Numbered
  <2>4. Memory(p)' /\ ToSet(Way(p)') = ToSet(Way(p)) \union {State(round)}
    BY <1>1, <2>2, <2>3, SendNew
  <2>5. Numbered(p)'
    <3>1. round <= round
      BY <1>2
    <3>2. QED
      BY <1>1, <2>1, <2>2, <2>4, <3>1 DEF Numbered
  <2>6. Course(p)' /\ Timely(p)'
    BY <1>1, <2>1, CourseKept, TimelyKept DEF serverVars
  <2>7. Reporting(p)' <=> Reporting(p)
    BY <1>1 DEF Reporting
  <2>8. Flow(p)'
    BY <1>1, <2>1, <2>7 DEF Flow, serverVars
  <2>9. QED
    BY <2>4, <2>5, <2>6, <2>8 DEF PeerInv
<1>5. QED
  BY <1>1, <1>3, <1>4 DEF IInv, serverVars

LEMMA StartReturnsStep ==
    ASSUME IInv, StartReturns
    PROVE  IInv'
<1>1. /\ driver = "starting" /\ acked = Peers /\ driver' = "collecting" /\ due' = Peers
      /\ UNCHANGED <<round, serverVars, toServer, peerVars>>
  BY DEF StartReturns
<1>2. Types'
  BY TypesStep DEF Next, Driver
<1>3. ASSUME NEW p \in Peers PROVE PeerInv(p)'
  <2>1. Memory(p) /\ Numbered(p) /\ Course(p) /\ Flow(p) /\ Timely(p)
    BY PeerFacts
  <2>2. Memory(p)' /\ Course(p)' /\ Timely(p)'
    BY <1>1, <2>1, MemoryKept, CourseKept, TimelyKept DEF serverVars, peerVars
  <2>3. Numbered(p)'
    BY <1>1, <2>1 DEF Numbered, Way, peerVars
  <2>4. Reporting(p)' <=> Reporting(p)
    BY <1>1 DEF Reporting
  <2>5. Flow(p)'
    BY <1>1, <2>1, <2>4 DEF Flow, serverVars, peerVars
  <2>6. QED
    BY <2>2, <2>3, <2>5 DEF PeerInv
<1>4. QED
  BY <1>1, <1>2, <1>3 DEF IInv, serverVars

(* When run_benchmark ends, nothing but its place changes. *)
LEMMA EndStep ==
    ASSUME IInv, Stays, UNCHANGED <<round, due, serverVars, toServer, peerVars>>, Types'
    PROVE  IInv'
<1>1. \A p \in Peers : PeerInv(p)'
  <2>1. \A p \in Peers : Untouched(p)
    BY DEF Untouched, serverVars, peerVars
  <2>2. QED
    BY <2>1, PeerKept DEF IInv
<1>2. driver' \in {"idle", "collecting"} => round' = 0 \/ acked' = Peers
  BY DEF IInv, Stays, Types, serverVars
<1>3. QED
  BY <1>1, <1>2 DEF IInv

LEMMA NextIInv == IInv /\ [Next]_vars => IInv'
<1> SUFFICES ASSUME IInv, [Next]_vars PROVE IInv'
  OBVIOUS
<1>1. Types'
  BY TypesStep
<1>2. CASE StartTrial
  BY <1>2, StartTrialStep
<1>3. CASE StartReturns
  BY <1>3, StartReturnsStep
<1>4. CASE StartTimesOut \/ Finish \/ \E p \in Peers : CollectTimesOut(p)
  BY <1>1, <1>4, EndStep DEF StartTimesOut, Finish, CollectTimesOut, Stays
<1>5. CASE EndRound
  BY <1>5, EndRoundStep
<1>6. ASSUME NEW p \in Peers, Collect(p) PROVE IInv'
  BY <1>6, CollectStep
<1>7. ASSUME NEW p \in Peers, Client(p) PROVE IInv'
  BY <1>7, ReceiveStep, RunHandlerStep, SendAckStep DEF Client
<1>8. ASSUME NEW p \in Peers, ServeLoop(p) PROVE IInv'
  BY <1>8, HandleResultStep, HandleAckStep, ExpireStep DEF ServeLoop
<1>9. ASSUME NEW p \in Peers, Repeat(p) PROVE IInv'
  BY <1>9, RepeatStep
<1>10. CASE UNCHANGED vars
  BY <1>1, <1>10, EndStep DEF vars, driverVars, Stays
<1>11. QED
  BY <1>2, <1>3, <1>4, <1>5, <1>6, <1>7, <1>8, <1>9, <1>10 DEF Next, Driver

-----------------------------------------------------------------------------
(* The invariant: the deduplicator of a peer knows the latest of what was    *)
(* sent to it, so a peer runs each trial once; a result is ahead of the ACK  *)
(* of its trial on its way to the server; and the first of the ACKs of a     *)
(* trial is the one with an apply time.                                      *)
THEOREM SpecIInv == Spec => []IInv
<1>1. Init => IInv
  BY InitIInv
<1>2. IInv /\ [Next]_vars => IInv'
  BY NextIInv
<1>3. QED
  BY <1>1, <1>2, PTL DEF Spec

(* Every variable has its type.  What is not obvious: the deduplicator has   *)
(* no id twice and never more than its size, and no result is reported of a  *)
(* trial that was not run.                                                   *)
THEOREM TypeCorrect == Spec => []TypeOK
<1>1. IInv => TypeOK
  <2> SUFFICES ASSUME IInv PROVE TypeOK
    OBVIOUS
  <2>1. Types
    BY DEF IInv
  <2>2. ASSUME NEW p \in Peers
        PROVE  /\ IsInjective(seen[p]) /\ Len(seen[p]) <= DedupSize
               /\ reported[p] \subseteq ran[p]
    BY PeerFacts DEF Memory, Latest, Course
  <2>3. QED
    BY <2>1, <2>2 DEF Types, TypeOK
<1>2. QED
  BY <1>1, SpecIInv, PTL

(* When start_trial returned, collect(role) can only give the result of the  *)
(* trial that was started, for any number of peers and trials, although a    *)
(* queue of results knows of no trials: a result is sent before the ACK that *)
(* start_trial waits for, on the same way.                                   *)
THEOREM ResultsAreOfTheRound == Spec => []ResultsAreOfRound
<1>1. IInv => ResultsAreOfRound
  <2> SUFFICES ASSUME IInv PROVE ResultsAreOfRound
    OBVIOUS
  <2>1. ASSUME driver = "collecting", NEW p \in due
        PROVE  results[p] = IF round \in reported[p] THEN <<round>> ELSE <<>>
    <3>1. p \in Peers /\ round > 0
      BY <2>1 DEF IInv, Types
    <3>2. Flow(p) /\ round \in Nat
      BY <3>1, PeerFacts
    <3>3. acked = Peers
      BY <2>1, <3>1, <3>2 DEF IInv
    <3>4. ~Reporting(p)
      BY <3>1, <3>2, <3>3 DEF Flow
    <3>5. QED
      BY <2>1, <3>2, <3>4 DEF Flow
  <2>2. ASSUME driver = "idle", NEW p \in Peers PROVE results[p] = <<>>
    BY <2>2, BetweenRounds
  <2>3. QED
    BY <2>1, <2>2 DEF ResultsAreOfRound
<1>2. QED
  BY <1>1, SpecIInv, PTL

(* However often a command is repeated, an ACK without an apply time never   *)
(* counts as the answer to it: whoever acknowledged is timed.                *)
THEOREM AcksAreAlwaysTimed == Spec => []AcksAreTimed
<1>1. IInv => AcksAreTimed
  <2>1. IInv => \A p \in acked : p \in timed
    BY PeerFacts DEF IInv, Types, PeerInv, Timely
  <2>2. QED
    BY <2>1 DEF AcksAreTimed
<1>2. QED
  BY <1>1, SpecIInv, PTL

(* No trial is run twice by a peer, whatever the transport repeats, as long  *)
(* as fewer other messages came in between than the deduplicator holds.      *)
THEOREM NothingRunsTwice == Spec => RunsOnce
<1> DEFINE Step == \A p \in Peers : peer[p].at = "receiving" /\ peer'[p].at = "handling"
                                       => peer'[p].trial \notin ran[p]
<1>1. IInv /\ [Next]_vars => [Step]_vars
  <2> SUFFICES ASSUME IInv, [Next]_vars, NEW p \in Peers, peer[p].at = "receiving",
                      peer'[p].at = "handling", peer'[p].trial \in ran[p]
               PROVE  FALSE
    OBVIOUS
  <2>1. /\ Course(p) /\ Course(p)' /\ round \in Nat
        /\ peer[p] = Receiving \/ \E t \in Trials : peer[p] = Handling(t) \/ peer[p] = Handled(t)
    BY PeerFacts, NextIInv DEF IInv, PeerInv
  <2>2. peer'[p] # Receiving
    BY Places
  <2>3. peer'[p].trial = round' /\ round' \notin ran'[p]
    BY <2>1, <2>2 DEF Course
  <2>4. ran[p] \subseteq ran'[p]
    <3>1. ran' = ran \/ \E q \in Peers : \E t : ran' = [ran EXCEPT ![q] = @ \union {t}]
      BY DEF Next, Driver, Client, ServeLoop, StartTrial, StartReturns, StartTimesOut, Collect,
             CollectTimesOut, EndRound, Finish, Receive, RunHandler, SendAck, Repeat,
             HandleResult, HandleAck, Expire, vars, peerVars
    <3>2. QED
      BY <3>1 DEF IInv, Types
  <2>5. QED
    BY <2>3, <2>4
<1>2. QED
  BY <1>1, SpecIInv, PTL DEF RunsOnce, Spec
=============================================================================
