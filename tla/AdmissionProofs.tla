-------------------------- MODULE AdmissionProofs --------------------------
(***************************************************************************)
(* What clients, doctors and the registry believe of each other, for any   *)
(* ids, setups and configurations and any number of runs and restarts.     *)
(*                                                                         *)
(* An id speaks to the server through a queue and has at most one question *)
(* open, which is the last thing it has said; when it is answered, nothing *)
(* of the id is under way any more, whatever an earlier run had left       *)
(* behind.  All the rest follows from that.                                *)
(*                                                                         *)
(* It begins with the configurations that both sides start from: what one  *)
(* says of a field, for any file, environment and overrides, as the        *)
(* documentation has it: defaults, file, environment and overrides are     *)
(* merged in this order.                                                   *)
(***************************************************************************)
EXTENDS NetworkDoctor, SequenceTheorems, TLAPS

(* The configurations. *)
Given(data, s, f) == s \in DOMAIN data /\ f \in DOMAIN data[s]

(* A merge gives what the override gives and what is left of the base. *)
LEMMA MergeGiven ==
    ASSUME NEW base, NEW override, NEW s, NEW f
    PROVE  Given(DeepMerge(base, override), s, f)
               <=> Given(base, s, f) \/ Given(override, s, f)
<1>1. CASE s \notin DOMAIN override
  BY <1>1 DEF Given, DeepMerge
<1>2. CASE s \in DOMAIN override /\ s \notin DOMAIN base
  BY <1>2 DEF Given, DeepMerge
<1>3. CASE s \in DOMAIN override /\ s \in DOMAIN base
  <2>1. /\ s \in DOMAIN DeepMerge(base, override)
        /\ DeepMerge(base, override)[s] = MergeSection(base[s], override[s])
    BY <1>3 DEF DeepMerge
  <2>2. DOMAIN MergeSection(base[s], override[s]) = DOMAIN base[s] \union DOMAIN override[s]
    BY DEF MergeSection
  <2>3. QED
    BY <1>3, <2>1, <2>2 DEF Given
<1>4. QED
  BY <1>1, <1>2, <1>3

LEMMA MergeValue ==
    ASSUME NEW base, NEW override, NEW s, NEW f,
           Given(base, s, f) \/ Given(override, s, f), f \notin DictFields
    PROVE  DeepMerge(base, override)[s][f]
               = IF Given(override, s, f) THEN override[s][f] ELSE base[s][f]
<1>1. CASE s \notin DOMAIN override
  BY <1>1 DEF Given, DeepMerge
<1>2. CASE s \in DOMAIN override /\ s \notin DOMAIN base
  BY <1>2 DEF Given, DeepMerge
<1>3. CASE s \in DOMAIN override /\ s \in DOMAIN base
  <2>1. DeepMerge(base, override)[s] = MergeSection(base[s], override[s])
    BY <1>3 DEF DeepMerge
  <2>2. f \in DOMAIN base[s] \union DOMAIN override[s]
    BY DEF Given
  <2>3. MergeSection(base[s], override[s])[f]
            = IF f \notin DOMAIN override[s] THEN base[s][f] ELSE override[s][f]
    BY <2>2 DEF MergeSection
  <2>4. QED
    BY <1>3, <2>1, <2>3 DEF Given
<1>4. QED
  BY <1>1, <1>2, <1>3

(* What the four sources say together of a field that is no dictionary. *)
Documented(file, environ, overrides, s, f) ==
    IF Given(overrides, s, f) THEN overrides[s][f]
    ELSE IF Given(environ, s, f) THEN CoerceEnv(f, environ[s][f])
    ELSE IF Given(file, s, f) THEN file[s][f]
    ELSE Defaults[s][f]

(* from_sources merges twice what from_mapping merges once more with the   *)
(* defaults; all the same each field has the value of the last source that *)
(* gives it, which is what the module's documentation says.                *)
THEOREM SourcesInOrder ==
    ASSUME NEW file, NEW environ, NEW overrides,
           NEW s \in DOMAIN Defaults, NEW f \in DOMAIN Defaults[s], f \notin DictFields
    PROVE  FromSources(file, environ, overrides)[s][f]
               = Documented(file, environ, overrides, s, f)
<1> DEFINE base == IF file = Empty THEN Empty ELSE FromMapping(file)
           env == FromEnv(environ)
           low == DeepMerge(base, env)
           high == DeepMerge(low, overrides)
<1>1. Given(Defaults, s, f)
  BY DEF Given
<1>2. \A data : FromMapping(data)[s] = DeepMerge(Defaults, data)[s]
  BY DEF FromMapping
<1>3. \A data : FromMapping(data)[s][f]
                    = IF Given(data, s, f) THEN data[s][f] ELSE Defaults[s][f]
  BY <1>1, <1>2, MergeValue
<1>4. \A data : Given(FromMapping(data), s, f)
  <2>1. SUFFICES ASSUME NEW data PROVE Given(FromMapping(data), s, f)
    OBVIOUS
  <2>2. Given(DeepMerge(Defaults, data), s, f)
    BY <1>1, MergeGiven
  <2>3. s \in DOMAIN FromMapping(data)
    BY DEF FromMapping
  <2>4. QED
    BY <1>2, <2>2, <2>3 DEF Given
<1>5. ~Given(Empty, s, f)
  BY DEF Given, Empty
<1>6. /\ Given(env, s, f) <=> Given(environ, s, f)
      /\ Given(environ, s, f) => env[s][f] = CoerceEnv(f, environ[s][f])
  BY DEF Given, FromEnv
<1>7. /\ Given(low, s, f) <=> Given(base, s, f) \/ Given(environ, s, f)
      /\ Given(environ, s, f) => low[s][f] = CoerceEnv(f, environ[s][f])
      /\ ~Given(environ, s, f) /\ Given(base, s, f) => low[s][f] = base[s][f]
  <2> HIDE DEF base, env
  <2>1. QED
    BY <1>6, MergeGiven, MergeValue
<1>8. /\ Given(high, s, f) <=> Given(low, s, f) \/ Given(overrides, s, f)
      /\ Given(overrides, s, f) => high[s][f] = overrides[s][f]
      /\ ~Given(overrides, s, f) /\ Given(low, s, f) => high[s][f] = low[s][f]
  <2> HIDE DEF low
  <2>1. QED
    BY MergeGiven, MergeValue
<1>9. FromSources(file, environ, overrides) = FromMapping(high)
  BY DEF FromSources, Merged
<1>10. FromSources(file, environ, overrides)[s][f]
           = IF Given(high, s, f) THEN high[s][f] ELSE Defaults[s][f]
  <2> HIDE DEF high
  <2>1. QED
    BY <1>3, <1>9
<1> HIDE DEF low, high, env
<1>11. CASE file = Empty
  <2>1. base = Empty
    BY <1>11
  <2>2. ~Given(base, s, f) /\ ~Given(file, s, f)
    BY <1>5, <1>11, <2>1
  <2>3. QED
    BY <1>7, <1>8, <1>10, <2>2 DEF Documented
<1>12. CASE file # Empty
  <2>1. base = FromMapping(file)
    BY <1>12
  <2>2. /\ Given(base, s, f)
        /\ base[s][f] = IF Given(file, s, f) THEN file[s][f] ELSE Defaults[s][f]
    BY <1>3, <1>4, <2>1
  <2> HIDE DEF base
  <2>3. QED
    BY <1>7, <1>8, <1>10, <2>2 DEF Documented
<1>13. QED
  BY <1>11, <1>12

-----------------------------------------------------------------------------
(* The dictionary. *)
LEMMA MergeDictionary ==
    ASSUME NEW base, NEW override, NEW s, NEW f \in DictFields,
           Given(base, s, f) \/ Given(override, s, f)
    PROVE  DeepMerge(base, override)[s][f]
               = IF ~Given(override, s, f) THEN base[s][f]
                 ELSE IF Given(base, s, f) THEN MergeField(base[s][f], override[s][f])
                 ELSE override[s][f]
<1>1. CASE s \notin DOMAIN override
  BY <1>1 DEF Given, DeepMerge
<1>2. CASE s \in DOMAIN override /\ s \notin DOMAIN base
  BY <1>2 DEF Given, DeepMerge
<1>3. CASE s \in DOMAIN override /\ s \in DOMAIN base
  <2>1. DeepMerge(base, override)[s] = MergeSection(base[s], override[s])
    BY <1>3 DEF DeepMerge
  <2>2. f \in DOMAIN base[s] \union DOMAIN override[s]
    BY DEF Given
  <2>3. MergeSection(base[s], override[s])[f]
            = IF f \notin DOMAIN override[s] THEN base[s][f]
              ELSE IF f \in DOMAIN base[s] THEN MergeField(base[s][f], override[s][f])
              ELSE override[s][f]
    BY <2>2 DEF MergeSection
  <2>4. QED
    BY <1>3, <2>1, <2>3 DEF Given
<1>4. QED
  BY <1>1, <1>2, <1>3

(* The ids that a source gives a secret, and whether what it gives for the  *)
(* secrets is a dictionary.                                                 *)
Tells(data) == Given(data, "security", "shared_secrets")
Secrets(data) == data["security"]["shared_secrets"]
Holders(data) == IF Tells(data) /\ IsDict(Secrets(data)) THEN DOMAIN Secrets(data).items ELSE {}

(* A merge of two sources that say something of the secrets: the ids of both *)
(* if both say it with a dictionary, and what the later one says otherwise.  *)
LEMMA MergeSecrets ==
    ASSUME NEW base, NEW override, Tells(base) \/ Tells(override)
    PROVE  LET merged == DeepMerge(base, override)
               both == Tells(base) /\ IsDict(Secrets(base))
                          /\ Tells(override) /\ IsDict(Secrets(override))
           IN  /\ Tells(merged)
               /\ both => IsDict(Secrets(merged))
                             /\ Holders(merged) = Holders(base) \union Holders(override)
               /\ ~both /\ Tells(override) => Secrets(merged) = Secrets(override)
               /\ ~Tells(override) => Secrets(merged) = Secrets(base)
<1> DEFINE merged == DeepMerge(base, override)
           u == Secrets(base)
           w == Secrets(override)
<1>1. "shared_secrets" \in DictFields
  BY DEF DictFields
<1>2. Tells(merged)
  BY MergeGiven DEF Tells
<1>3. Secrets(merged) = IF ~Tells(override) THEN u
                        ELSE IF Tells(base) THEN MergeField(u, w) ELSE w
  BY <1>1, MergeDictionary DEF Tells, Secrets
<1>4. /\ IsDict(u) /\ IsDict(w) =>
            /\ IsDict(MergeField(u, w))
            /\ DOMAIN MergeField(u, w).items = DOMAIN u.items \union DOMAIN w.items
      /\ ~(IsDict(u) /\ IsDict(w)) => MergeField(u, w) = w
  BY DEF MergeField, IsDict, Dict, Overlay
<1> HIDE DEF merged, u, w
<1>5. ASSUME Tells(base), IsDict(u), Tells(override), IsDict(w)
      PROVE  /\ IsDict(Secrets(merged))
             /\ DOMAIN Secrets(merged).items = DOMAIN u.items \union DOMAIN w.items
  BY <1>3, <1>4, <1>5
<1>6. QED
  BY <1>2, <1>3, <1>4, <1>5 DEF Holders, merged, u, w

(* Of the file and the overrides each id keeps a secret that one of them    *)
(* gives it, an empty dictionary withdraws none, and what is given by a     *)
(* dictionary stays one.  But a source that gives a scalar for the secrets  *)
(* replaces them all, and the environment has no way to give another value: *)
(* a variable for them leaves only what the overrides have.                 *)
THEOREM SecretsAreMerged ==
    ASSUME NEW file, NEW environ, NEW overrides
    PROVE  LET result == FromSources(file, environ, overrides)
               kept == IF Tells(environ) THEN {} ELSE Holders(file)
               scalar(data) == Tells(data) /\ ~IsDict(Secrets(data))
           IN  /\ Tells(result)
               /\ scalar(overrides) => scalar(result)
               /\ Tells(environ) /\ ~Tells(overrides) => scalar(result)
               /\ Tells(overrides) /\ ~scalar(overrides) =>
                     ~scalar(result) /\ Holders(result) = kept \union Holders(overrides)
               /\ ~Tells(overrides) /\ ~Tells(environ) =>
                     (scalar(result) <=> scalar(file)) /\ Holders(result) = Holders(file)
<1> DEFINE base == IF file = Empty THEN Empty ELSE FromMapping(file)
           env == FromEnv(environ)
           low == DeepMerge(base, env)
           high == DeepMerge(low, overrides)
           result == FromSources(file, environ, overrides)
<1>1. Tells(Defaults) /\ IsDict(Secrets(Defaults)) /\ Holders(Defaults) = {}
  BY DEF Tells, Given, Secrets, IsDict, Defaults, Dict, Holders, Empty
<1>2. ASSUME NEW data
      PROVE  /\ Tells(FromMapping(data))
             /\ IsDict(Secrets(FromMapping(data)))
                    <=> (Tells(data) => IsDict(Secrets(data)))
             /\ Holders(FromMapping(data)) = Holders(data)
  <2> DEFINE m == DeepMerge(Defaults, data)
  <2>1. /\ Tells(FromMapping(data)) <=> Tells(m)
        /\ Secrets(FromMapping(data)) = Secrets(m)
    <3>1. "security" \in DOMAIN Defaults
      BY DEF Defaults
    <3>2. /\ "security" \in DOMAIN FromMapping(data) /\ "security" \in DOMAIN m
          /\ FromMapping(data)["security"] = m["security"]
      BY <3>1 DEF FromMapping, DeepMerge
    <3>3. QED
      BY <3>2 DEF Tells, Given, Secrets
  <2>2. Tells(m)
    BY <1>1, MergeSecrets
  <2>3. CASE ~Tells(data)
    <3>1. Secrets(m) = Secrets(Defaults)
      BY <1>1, <2>3, MergeSecrets
    <3>2. QED
      BY <1>1, <2>1, <2>2, <2>3, <3>1 DEF Holders
  <2>4. CASE Tells(data) /\ IsDict(Secrets(data))
    <3>1. IsDict(Secrets(m)) /\ Holders(m) = Holders(Defaults) \union Holders(data)
      BY <1>1, <2>4, MergeSecrets
    <3>2. QED
      BY <1>1, <2>1, <2>2, <2>4, <3>1 DEF Holders
  <2>5. CASE Tells(data) /\ ~IsDict(Secrets(data))
    <3>1. Secrets(m) = Secrets(data)
      BY <1>1, <2>5, MergeSecrets
    <3>2. QED
      BY <2>1, <2>2, <2>5, <3>1 DEF Holders
  <2>6. QED
    BY <2>3, <2>4, <2>5
<1>3. /\ Tells(base) => (~IsDict(Secrets(base)) <=> Tells(file) /\ ~IsDict(Secrets(file)))
      /\ Holders(base) = Holders(file)
      /\ Tells(file) => Tells(base)
  <2>1. ~Tells(Empty)
    BY DEF Tells, Given, Empty
  <2>2. CASE file = Empty
    BY <2>1, <2>2 DEF Holders
  <2>3. CASE file # Empty
    BY <1>2, <2>3
  <2>4. QED
    BY <2>2, <2>3
<1>4. (Tells(env) <=> Tells(environ)) /\ (Tells(env) => ~IsDict(Secrets(env)))
  BY DEF Tells, Given, Secrets, FromEnv, CoerceEnv, DictFields, IsDict, Scalar
<1>5. result = FromMapping(high)
  BY DEF FromSources, Merged
<1> HIDE DEF base, env, result
<1>6. /\ Tells(environ) => Tells(low) /\ ~IsDict(Secrets(low))
      /\ ~Tells(environ) => /\ Tells(low) <=> Tells(base)
                            /\ Tells(base) => Secrets(low) = Secrets(base)
  <2>1. Tells(low) <=> Tells(base) \/ Tells(env)
    BY MergeGiven DEF Tells
  <2>2. Tells(env) => Secrets(low) = Secrets(env)
    BY <1>4, MergeSecrets
  <2>3. Tells(base) /\ ~Tells(env) => Secrets(low) = Secrets(base)
    BY MergeSecrets
  <2>4. QED
    BY <1>4, <2>1, <2>2, <2>3
<1>7. Holders(low) = IF Tells(environ) THEN {} ELSE Holders(file)
  BY <1>3, <1>6 DEF Holders
<1> HIDE DEF low
<1>8. CASE ~Tells(overrides)
  <2>1. (Tells(high) <=> Tells(low)) /\ (Tells(low) => Secrets(high) = Secrets(low))
    BY <1>8, MergeGiven, MergeSecrets DEF Tells
  <2>2. Holders(high) = Holders(low)
    BY <2>1 DEF Holders
  <2> HIDE DEF high
  <2>3. /\ Tells(result) /\ Holders(result) = Holders(high)
        /\ IsDict(Secrets(result)) <=> (Tells(high) => IsDict(Secrets(high)))
    BY <1>2, <1>5
  <2>4. Tells(environ) => ~IsDict(Secrets(result))
    BY <1>6, <2>1, <2>3
  <2>5. ~Tells(environ) => (~IsDict(Secrets(result)) <=> Tells(file) /\ ~IsDict(Secrets(file)))
    BY <1>3, <1>6, <2>1, <2>3
  <2>6. QED
    BY <1>7, <1>8, <2>2, <2>3, <2>4, <2>5 DEF result
<1>9. CASE Tells(overrides) /\ ~IsDict(Secrets(overrides))
  <2>1. Tells(high) /\ Secrets(high) = Secrets(overrides)
    BY <1>9, MergeSecrets
  <2> HIDE DEF high
  <2>2. Tells(result) /\ ~IsDict(Secrets(result))
    BY <1>2, <1>5, <1>9, <2>1
  <2>3. QED
    BY <1>9, <2>2 DEF result
<1>10. CASE Tells(overrides) /\ IsDict(Secrets(overrides))
  <2>1. /\ Tells(high) /\ IsDict(Secrets(high))
        /\ Holders(high) = Holders(low) \union Holders(overrides)
    <3>1. CASE Tells(low) /\ IsDict(Secrets(low))
      BY <1>10, <3>1, MergeSecrets
    <3>2. CASE ~(Tells(low) /\ IsDict(Secrets(low)))
      <4>1. Tells(high) /\ Secrets(high) = Secrets(overrides)
        BY <1>10, <3>2, MergeSecrets
      <4>2. QED
        BY <1>10, <3>2, <4>1 DEF Holders
    <3>3. QED
      BY <3>1, <3>2
  <2> HIDE DEF high
  <2>2. Tells(result) /\ IsDict(Secrets(result)) /\ Holders(result) = Holders(high)
    BY <1>2, <1>5, <2>1
  <2>3. QED
    BY <1>7, <1>10, <2>1, <2>2 DEF result
<1>11. QED
  BY <1>8, <1>9, <1>10

-----------------------------------------------------------------------------
LEMMA SpelledRight ==
    ASSUME NEW data
    PROVE  WellFormed(data)
               <=> \A s \in DOMAIN Defaults : \A f : Given(data, s, f) => f \in DOMAIN Defaults[s]
  BY DEF WellFormed, Given

LEMMA MergeSpelledRight ==
    ASSUME NEW base, NEW override
    PROVE  WellFormed(DeepMerge(base, override)) <=> WellFormed(base) /\ WellFormed(override)
  BY SpelledRight, MergeGiven

(* A configuration is refused exactly if one of its sources has a field     *)
(* that no known section has: the merges neither hide such a field nor make *)
(* one, and a variable of the environment counts as much as the file.       *)
THEOREM MisspellingsAreRefused ==
    ASSUME NEW file, NEW environ, NEW overrides
    PROVE  ~Raises(file, environ, overrides)
               <=> WellFormed(file) /\ WellFormed(environ) /\ WellFormed(overrides)
<1> DEFINE base == IF file = Empty THEN Empty ELSE FromMapping(file)
<1>1. WellFormed(Empty)
  BY DEF WellFormed, Empty
<1>2. WellFormed(FromEnv(environ)) <=> WellFormed(environ)
  BY DEF WellFormed, FromEnv
<1>3. WellFormed(file) => WellFormed(base)
  <2>1. CASE file = Empty
    BY <1>1, <2>1
  <2>2. CASE file # Empty
    <3>1. WellFormed(Defaults)
      BY DEF WellFormed
    <3>2. WellFormed(file) => WellFormed(DeepMerge(Defaults, file))
      BY <3>1, MergeSpelledRight
    <3>3. WellFormed(DeepMerge(Defaults, file)) => WellFormed(FromMapping(file))
      BY DEF WellFormed, FromMapping, DeepMerge
    <3>4. QED
      BY <2>2, <3>2, <3>3
  <2>3. QED
    BY <2>1, <2>2
<1>4. Merged(file, environ, overrides) = DeepMerge(DeepMerge(base, FromEnv(environ)), overrides)
  BY DEF Merged
<1> HIDE DEF base
<1>5. WellFormed(Merged(file, environ, overrides))
          <=> WellFormed(base) /\ WellFormed(environ) /\ WellFormed(overrides)
  BY <1>2, <1>4, MergeSpelledRight
<1>6. QED
  BY <1>3, <1>5 DEF Raises

-----------------------------------------------------------------------------
(* The questions and the messages of an id. *)
Asks == {"REGISTER", "PING"}
Awaiting(kind) == IF kind = "REGISTER" THEN "registering" ELSE "syncing"

IsQueue(q) == \E S : q \in Seq(S)

Fields(message) == DOMAIN message = {"kind", "setup", "status", "live"}

Shapes ==
    /\ DOMAIN entry = Ids /\ DOMAIN phase = Ids /\ DOMAIN setup = Ids /\ DOMAIN answer = Ids
    /\ DOMAIN terms = Ids /\ DOMAIN said = Ids /\ DOMAIN sent = Ids /\ DOMAIN reply = Ids
    /\ \A i \in Ids :
          /\ DOMAIN entry[i] = {"role", "terms", "status"}
          /\ IsQueue(sent[i])
          /\ \A k \in DOMAIN sent[i] : Fields(sent[i][k])

Typed(i) ==
    /\ entry[i].status \in Statuses
    /\ phase[i] \in Phases
    /\ answer[i] \in Verdicts \union {"none"}
    /\ said[i] \subseteq Statuses
    /\ \A k \in DOMAIN sent[i] :
          sent[i][k].kind = "CLIENT_STATUS" => sent[i][k].status \in Statuses
    /\ reply[i].verdict \in Verdicts \union {"none"}

(* A question that is live is the last message; an answer finds none. *)
Exchange(i) ==
    /\ \A k \in DOMAIN sent[i] : sent[i][k].live /\ sent[i][k].kind \in Asks =>
          /\ k = Len(sent[i])
          /\ phase[i] = Awaiting(sent[i][k].kind)
          /\ reply[i] = NoReply
          /\ sent[i][k].kind = "REGISTER" => sent[i][k].setup = setup[i]
    /\ reply[i] # NoReply =>
          /\ sent[i] = <<>>
          /\ reply[i].kind \in Asks
          /\ phase[i] = Awaiting(reply[i].kind)

(* An id was told terms: all that is under way is of this run, and so is   *)
(* what the registry has of it.                                            *)
Agreed(i, told) ==
    /\ told = Negotiated(config, setup[i])
    /\ \A k \in DOMAIN sent[i] :
          /\ sent[i][k].kind = "REGISTER" => sent[i][k].setup = setup[i]
          /\ sent[i][k].kind = "CLIENT_STATUS" => sent[i][k].status \in said[i]
    /\ Known(i) =>
          /\ entry[i].role = setup[i].role
          /\ entry[i].terms = told
          /\ entry[i].status \in {"SYNCED", "READY"} => entry[i].status \in said[i]

Told(i) ==
    /\ answer[i] = "OK" =>
          /\ Agreed(i, terms[i])
          /\ phase[i] \in {"registering", "syncing", "running"}
    /\ reply[i].verdict = "OK" => Agreed(i, reply[i].terms)

IdInv(i) == Typed(i) /\ Exchange(i) /\ Told(i)

-----------------------------------------------------------------------------
(* Queues of any messages. *)
LEMMA QueueAppend ==
    ASSUME NEW q, IsQueue(q), NEW m
    PROVE  /\ IsQueue(Append(q, m))
           /\ Len(q) \in Nat /\ DOMAIN q = 1..Len(q)
           /\ Len(Append(q, m)) = Len(q) + 1
           /\ \A k \in DOMAIN Append(q, m) :
                 \/ k \in DOMAIN q /\ Append(q, m)[k] = q[k]
                 \/ k = Len(q) + 1 /\ Append(q, m)[k] = m
<1>1. PICK S : q \in Seq(S)
  BY DEF IsQueue
<1>2. q \in Seq(S \union {m})
  BY <1>1, SeqMonotonic
<1>3. QED
  BY <1>2, AppendProperties, LenProperties DEF IsQueue

LEMMA QueueTail ==
    ASSUME NEW q, IsQueue(q), q # <<>>
    PROVE  /\ IsQueue(Tail(q))
           /\ Len(q) \in Nat \ {0} /\ DOMAIN q = 1..Len(q)
           /\ Head(q) = q[1]
           /\ Len(Tail(q)) = Len(q) - 1
           /\ Len(q) = 1 => Tail(q) = <<>>
           /\ \A k \in DOMAIN Tail(q) : k + 1 \in DOMAIN q /\ Tail(q)[k] = q[k + 1]
<1>1. PICK S : q \in Seq(S)
  BY DEF IsQueue
<1>2. /\ Tail(q) \in Seq(S)
      /\ Len(q) \in Nat \ {0} /\ DOMAIN q = 1..Len(q)
      /\ Head(q) = q[1]
      /\ Len(Tail(q)) = Len(q) - 1
      /\ \A k \in 1..Len(Tail(q)) : Tail(q)[k] = q[k + 1]
  BY <1>1, HeadTailProperties, EmptySeq, LenProperties
<1>3. DOMAIN Tail(q) = 1..(Len(q) - 1)
  BY <1>2, LenProperties
<1>4. Len(q) = 1 => Tail(q) = <<>>
  <2>1. Tail(q) # <<>> => Len(Tail(q)) # 0
    BY <1>2, EmptySeq, Zenon
  <2>2. QED
    BY <1>2, <2>1
<1>5. QED
  BY <1>2, <1>3, <1>4 DEF IsQueue

LEMMA QueueEmpty ==
    /\ IsQueue(<<>>)
    /\ \A q : IsQueue(q) /\ q = <<>> => DOMAIN q = {} /\ Len(q) = 0
<1>1. <<>> \in Seq({})
  OBVIOUS
<1>2. QED
  BY <1>1 DEF IsQueue

LEMMA QueueOf ==
    ASSUME NEW a, NEW b
    PROVE  /\ IsQueue(<<a>>) /\ Len(<<a>>) = 1
           /\ \A k \in DOMAIN <<a>> : k = 1 /\ <<a>>[k] = a
           /\ IsQueue(<<a, b>>) /\ Len(<<a, b>>) = 2
           /\ \A k \in DOMAIN <<a, b>> : <<a, b>>[k] = a \/ <<a, b>>[k] = b
<1>1. <<a>> \in Seq({a}) /\ <<a, b>> \in Seq({a, b})
  OBVIOUS
<1>2. DOMAIN <<a>> = 1..1 /\ DOMAIN <<a, b>> = 1..2
  OBVIOUS
<1>3. IsQueue(<<a>>) /\ IsQueue(<<a, b>>)
  BY <1>1, Zenon DEF IsQueue
<1>4. QED
  BY <1>2, <1>3

(* The messages of an id are records of the same fields. *)
LEMMA MessageFields ==
    ASSUME NEW kind, NEW s, NEW status
    PROVE  LET m == Message(kind, s, status)
           IN  Fields(m) /\ m.kind = kind /\ m.setup = s /\ m.status = status /\ m.live
  BY DEF Fields, Message

LEMMA QueueAbandoned ==
    ASSUME NEW q, IsQueue(q), \A k \in DOMAIN q : Fields(q[k]), NEW kept \in Abandoned(q)
    PROVE  /\ IsQueue(kept)
           /\ \A k \in DOMAIN kept :
                 /\ Fields(kept[k])
                 /\ k \in DOMAIN q
                 /\ kept[k].live = FALSE
                 /\ kept[k].kind = q[k].kind
                 /\ kept[k].setup = q[k].setup
                 /\ kept[k].status = q[k].status
<1>1. CASE kept = <<>>
  BY <1>1, QueueEmpty
<1>2. CASE kept = [k \in DOMAIN q |-> [q[k] EXCEPT !.live = FALSE]]
  <2>1. PICK S : q \in Seq(S)
    BY DEF IsQueue
  <2> DEFINE T == {kept[k] : k \in DOMAIN q}
  <2>2. Len(q) \in Nat /\ DOMAIN q = 1..Len(q)
    BY <2>1
  <2>3. kept \in [1..Len(q) -> T]
    BY <1>2, <2>2
  <2>4. kept \in Seq(T)
    BY <2>2, <2>3, SeqDef, Zenon
  <2>5. \A k \in DOMAIN kept : k \in DOMAIN q /\ kept[k] = [q[k] EXCEPT !.live = FALSE]
    BY <1>2
  <2>6. QED
    BY <2>4, <2>5 DEF IsQueue, Fields
<1>3. QED
  BY <1>1, <1>2 DEF Abandoned

-----------------------------------------------------------------------------
(* What concerns an id is untouched. *)
Kept(i) ==
    /\ config' = config /\ entry'[i] = entry[i] /\ phase'[i] = phase[i]
    /\ setup'[i] = setup[i] /\ answer'[i] = answer[i] /\ terms'[i] = terms[i]
    /\ said'[i] = said[i] /\ sent'[i] = sent[i] /\ reply'[i] = reply[i]

LEMMA KeptInv ==
    ASSUME NEW i \in Ids, IdInv(i), Kept(i)
    PROVE  IdInv(i)'
  BY DEF IdInv, Typed, Exchange, Told, Agreed, Known, Kept

(* What only one id is touched by leaves the invariant to this id. *)
Alone(i) == Shapes' /\ IdInv(i)' /\ \A j \in Ids \ {i} : Kept(j)

LEMMA ShapesAfter ==
    ASSUME Shapes, NEW i \in Ids, NEW q,
           IsQueue(q), \A k \in DOMAIN q : Fields(q[k]), sent' = [sent EXCEPT ![i] = q],
           DOMAIN entry' = Ids, \A j \in Ids : DOMAIN entry'[j] = {"role", "terms", "status"},
           DOMAIN phase' = Ids, DOMAIN setup' = Ids, DOMAIN answer' = Ids,
           DOMAIN terms' = Ids, DOMAIN said' = Ids, DOMAIN reply' = Ids
    PROVE  Shapes'
<1>1. DOMAIN sent' = Ids /\ \A j \in Ids : sent'[j] = IF j = i THEN q ELSE sent[j]
  BY DEF Shapes
<1>2. QED
  BY <1>1 DEF Shapes

LEMMA StartClientAlone ==
    ASSUME Shapes, NEW i \in Ids, NEW s, StartClient(i, s), IdInv(i)
    PROVE  Alone(i)
<1> DEFINE q == sent[i]
           r == Append(q, Register(s))
<1> USE DEF StartClient, serverVars
<1>1. /\ \A j \in Ids \ {i} : Kept(j)
      /\ sent' = [sent EXCEPT ![i] = r]
      /\ config' = config /\ entry' = entry /\ reply' = reply
      /\ phase'[i] = "registering" /\ setup'[i] = s /\ answer'[i] = "none" /\ said'[i] = {}
  BY DEF Kept, Shapes
<1>2. IsQueue(q) /\ \A k \in DOMAIN q : Fields(q[k])
  BY DEF Shapes
<1>3. Fields(Register(s))
  BY DEF Fields, Register, Message
<1> HIDE DEF q
<1>4. IsQueue(r) /\ \A k \in DOMAIN r : Fields(r[k])
  BY <1>2, <1>3, QueueAppend
<1> USE DEF q
<1>5. sent'[i] = r
  BY <1>1 DEF Shapes
<1>6. Shapes'
  BY <1>1, <1>4, <1>5 DEF Shapes
<1>7. reply[i] = NoReply
  BY DEF IdInv, Exchange, Awaiting
<1>8. Exchange(i)'
  <2>1. \A k \in DOMAIN r : r[k].live /\ r[k].kind \in Asks => k = Len(r) /\ r[k] = Register(s)
    BY <1>2, QueueAppend DEF IdInv, Exchange, Awaiting
  <2>2. QED
    BY <1>1, <1>5, <1>7, <2>1 DEF Exchange, Awaiting, Register, Message
<1>9. Typed(i)'
  <2>1. \A k \in DOMAIN r : r[k].kind = "CLIENT_STATUS" => r[k].status \in Statuses
    BY <1>2, QueueAppend DEF IdInv, Typed, Register, Message
  <2>2. QED
    BY <1>1, <1>5, <2>1 DEF IdInv, Typed, Phases
<1>10. Told(i)'
  BY <1>1, <1>7 DEF Told, NoReply
<1>11. QED
  BY <1>1, <1>6, <1>8, <1>9, <1>10 DEF Alone, IdInv

LEMMA RegisteredAlone ==
    ASSUME Shapes, NEW i \in Ids, Registered(i), IdInv(i)
    PROVE  Alone(i)
<1> USE DEF Registered, serverVars
<1>1. sent[i] = <<>> /\ DOMAIN sent = Ids
  BY DEF IdInv, Exchange, NoReply, Shapes
<1>2. sent' = [sent EXCEPT ![i] = <<Ping>>]
  BY <1>1
<1>3. /\ \A j \in Ids \ {i} : Kept(j)
      /\ config' = config /\ entry' = entry /\ reply'[i] = NoReply /\ sent'[i] = <<Ping>>
      /\ phase'[i] = "syncing" /\ setup'[i] = setup[i] /\ said'[i] = said[i]
      /\ answer'[i] = reply[i].verdict
      /\ reply[i].verdict = "OK" => terms'[i] = reply[i].terms
  BY <1>1, <1>2 DEF Kept, Shapes
<1>4. /\ IsQueue(<<Ping>>) /\ Len(<<Ping>>) = 1
      /\ \A k \in DOMAIN <<Ping>> : k = 1 /\ <<Ping>>[k] = Ping
  BY QueueOf
<1>10. Fields(Ping) /\ Ping.kind = "PING"
  BY MessageFields DEF Ping
<1>5. Shapes'
  <2>1. /\ DOMAIN phase' = Ids /\ DOMAIN setup' = Ids /\ DOMAIN answer' = Ids
        /\ DOMAIN terms' = Ids /\ DOMAIN said' = Ids /\ DOMAIN reply' = Ids
        /\ DOMAIN entry' = Ids /\ \A j \in Ids : DOMAIN entry'[j] = {"role", "terms", "status"}
    BY DEF Shapes
  <2>2. QED
    BY <1>2, <1>4, <1>10, <2>1, ShapesAfter
<1> HIDE DEF Registered
<1>6. Exchange(i)'
  BY <1>3, <1>4, <1>10 DEF Exchange, Awaiting
<1>7. Typed(i)'
  BY <1>3, <1>4, <1>10 DEF IdInv, Typed, Phases, NoReply
<1>8. Told(i)'
  BY <1>3, <1>4, <1>10 DEF IdInv, Told, Agreed, Known, NoReply
<1>9. QED
  BY <1>3, <1>5, <1>6, <1>7, <1>8 DEF Alone, IdInv

LEMMA SyncedAlone ==
    ASSUME Shapes, NEW i \in Ids, Synced(i), IdInv(i)
    PROVE  Alone(i)
<1> DEFINE first == IF i \notin recovering THEN "SYNCED"
                    ELSE IF answer[i] = "OK" THEN "REGISTERED" ELSE "REJECTED"
           q == <<Status(first), Status("READY")>>
<1> USE DEF Synced, serverVars
<1>1. sent[i] = <<>> /\ DOMAIN sent = Ids
  BY DEF IdInv, Exchange, NoReply, Shapes
<1>2. sent' = [sent EXCEPT ![i] = q]
  BY <1>1
<1>3. /\ \A j \in Ids \ {i} : Kept(j)
      /\ config' = config /\ entry' = entry /\ reply'[i] = NoReply /\ sent'[i] = q
      /\ phase'[i] = "running" /\ setup'[i] = setup[i]
      /\ said'[i] = said[i] \union {first, "READY"}
      /\ answer'[i] = answer[i] /\ terms'[i] = terms[i]
  BY <1>1, <1>2 DEF Kept, Shapes
<1>4. /\ IsQueue(q)
      /\ \A k \in DOMAIN q : q[k] = Status(first) \/ q[k] = Status("READY")
  BY QueueOf
<1>5. first \in Statuses
  BY DEF Statuses
<1> HIDE DEF q, first
<1>11. \A k \in DOMAIN q :
           Fields(q[k]) /\ q[k].kind = "CLIENT_STATUS" /\ q[k].status \in {first, "READY"}
  BY <1>4, MessageFields DEF Status
<1>6. Shapes'
  <2>1. /\ DOMAIN phase' = Ids /\ DOMAIN setup' = Ids /\ DOMAIN answer' = Ids
        /\ DOMAIN terms' = Ids /\ DOMAIN said' = Ids /\ DOMAIN reply' = Ids
        /\ DOMAIN entry' = Ids /\ \A j \in Ids : DOMAIN entry'[j] = {"role", "terms", "status"}
    BY DEF Shapes
  <2>2. QED
    BY <1>2, <1>4, <1>11, <2>1, ShapesAfter
<1> HIDE DEF Synced
<1>7. Exchange(i)'
  BY <1>3, <1>11 DEF Exchange, Asks
<1>8. Typed(i)'
  BY <1>3, <1>5, <1>11 DEF IdInv, Typed, Phases, NoReply, Statuses
<1>9. Told(i)'
  BY <1>3, <1>11 DEF IdInv, Told, Agreed, Known, NoReply
<1>10. QED
  BY <1>3, <1>6, <1>7, <1>8, <1>9 DEF Alone, IdInv

LEMMA ReconnectAlone ==
    ASSUME Shapes, NEW i \in Ids, Reconnect(i), IdInv(i)
    PROVE  Alone(i)
<1> USE DEF Reconnect, serverVars
<1>1. PICK kept \in Abandoned(sent[i]) :
          sent' = [sent EXCEPT ![i] = Append(kept, Register(setup[i]))]
  OBVIOUS
<1> DEFINE m == Register(setup[i])
           q == Append(kept, m)
<1>2. /\ \A j \in Ids \ {i} : Kept(j)
      /\ config' = config /\ entry' = entry /\ reply' = reply /\ sent'[i] = q
      /\ phase'[i] = "registering" /\ setup' = setup /\ said' = said
      /\ answer' = answer /\ terms' = terms
  BY <1>1 DEF Kept, Shapes
<1>3. reply[i] = NoReply
  BY DEF IdInv, Exchange, Awaiting
<1>4. /\ IsQueue(kept)
      /\ \A k \in DOMAIN kept :
            /\ Fields(kept[k])
            /\ k \in DOMAIN sent[i]
            /\ kept[k].live = FALSE
            /\ kept[k].kind = sent[i][k].kind
            /\ kept[k].setup = sent[i][k].setup
            /\ kept[k].status = sent[i][k].status
  <2>1. IsQueue(sent[i]) /\ \A k \in DOMAIN sent[i] : Fields(sent[i][k])
    BY DEF Shapes
  <2>2. QED
    BY <1>1, <2>1, QueueAbandoned
<1>5. /\ IsQueue(q)
      /\ \A k \in DOMAIN q : (k \in DOMAIN kept /\ q[k] = kept[k]) \/ (k = Len(q) /\ q[k] = m)
  BY <1>4, QueueAppend
<1>6. Fields(m) /\ m.kind = "REGISTER" /\ m.setup = setup[i]
  BY DEF Fields, Register, Message
<1> HIDE DEF q, m
<1>7. Shapes'
  <2>1. /\ DOMAIN entry' = Ids /\ DOMAIN phase' = Ids /\ DOMAIN setup' = Ids
        /\ DOMAIN answer' = Ids /\ DOMAIN terms' = Ids /\ DOMAIN said' = Ids
        /\ DOMAIN reply' = Ids
        /\ \A j \in Ids : DOMAIN entry'[j] = {"role", "terms", "status"}
    BY <1>2 DEF Shapes
  <2>2. \A k \in DOMAIN q : Fields(q[k])
    BY <1>4, <1>5, <1>6
  <2>3. sent' = [sent EXCEPT ![i] = q]
    BY <1>1 DEF q, m
  <2>4. QED
    BY <1>5, <2>1, <2>2, <2>3, ShapesAfter
<1>8. Exchange(i)'
  BY <1>2, <1>3, <1>4, <1>5, <1>6 DEF Exchange, Awaiting
<1>9. Typed(i)'
  BY <1>2, <1>4, <1>5, <1>6 DEF IdInv, Typed, Phases
<1>10. Told(i)'
  <2>1. reply'[i].verdict # "OK"
    BY <1>2, <1>3 DEF NoReply
  <2>2. ASSUME Agreed(i, terms[i]) PROVE Agreed(i, terms[i])'
    BY <1>2, <1>4, <1>5, <1>6, <2>2 DEF Agreed, Known
  <2>3. QED
    BY <1>2, <2>1, <2>2 DEF IdInv, Told
<1>11. QED
  BY <1>2, <1>7, <1>8, <1>9, <1>10 DEF Alone, IdInv

LEMMA EndAlone ==
    ASSUME Shapes, NEW i \in Ids, End(i), IdInv(i)
    PROVE  Alone(i)
<1> USE DEF End, serverVars
<1>1. PICK kept \in Abandoned(sent[i]) : sent' = [sent EXCEPT ![i] = kept]
  OBVIOUS
<1>2. /\ \A j \in Ids \ {i} : Kept(j)
      /\ config' = config /\ entry' = entry /\ reply'[i] = NoReply /\ sent'[i] = kept
      /\ phase'[i] = "off" /\ said'[i] = {} /\ answer'[i] = "none"
  BY <1>1 DEF Kept, Shapes
<1>3. /\ IsQueue(kept)
      /\ \A k \in DOMAIN kept :
            /\ Fields(kept[k])
            /\ k \in DOMAIN sent[i]
            /\ kept[k].live = FALSE
            /\ kept[k].kind = sent[i][k].kind
            /\ kept[k].setup = sent[i][k].setup
            /\ kept[k].status = sent[i][k].status
  <2>1. IsQueue(sent[i]) /\ \A k \in DOMAIN sent[i] : Fields(sent[i][k])
    BY DEF Shapes
  <2>2. QED
    BY <1>1, <2>1, QueueAbandoned
<1>4. Shapes'
  BY <1>1, <1>2, <1>3 DEF Shapes
<1>5. Exchange(i)' /\ Typed(i)' /\ Told(i)'
  BY <1>2, <1>3 DEF IdInv, Exchange, Typed, Told, Phases, NoReply
<1>6. QED
  BY <1>2, <1>4, <1>5 DEF Alone, IdInv

-----------------------------------------------------------------------------
(* The turns of the serve loop. *)
LEMMA TakeFacts ==
    ASSUME Shapes, NEW i \in Ids, NEW kind, Take(i, kind)
    PROVE  /\ 1 \in DOMAIN sent[i] /\ Head(sent[i]) = sent[i][1] /\ sent[i][1].kind = kind
           /\ IsQueue(Tail(sent[i]))
           /\ sent' = [sent EXCEPT ![i] = Tail(sent[i])]
           /\ sent'[i] = Tail(sent[i])
           /\ Len(sent[i]) = 1 => sent'[i] = <<>>
           /\ Len(sent[i]) \in Nat /\ Len(sent'[i]) = Len(sent[i]) - 1
           /\ \A k \in DOMAIN sent'[i] : /\ k \in Nat
                                         /\ k + 1 \in DOMAIN sent[i]
                                         /\ sent'[i][k] = sent[i][k + 1]
                                         /\ Fields(sent'[i][k])
           /\ \A k \in DOMAIN Tail(sent[i]) : Fields(Tail(sent[i])[k])
<1>1. IsQueue(sent[i]) /\ sent[i] # <<>> /\ \A k \in DOMAIN sent[i] : Fields(sent[i][k])
  BY DEF Shapes, Take
<1>2. sent' = [sent EXCEPT ![i] = Tail(sent[i])] /\ Head(sent[i]).kind = kind
  BY DEF Take
<1>3. sent'[i] = Tail(sent[i])
  BY <1>2 DEF Shapes
<1>4. /\ IsQueue(Tail(sent[i]))
      /\ Len(sent[i]) \in Nat \ {0} /\ DOMAIN sent[i] = 1..Len(sent[i])
      /\ Head(sent[i]) = sent[i][1]
      /\ Len(Tail(sent[i])) = Len(sent[i]) - 1
      /\ Len(sent[i]) = 1 => Tail(sent[i]) = <<>>
      /\ \A k \in DOMAIN Tail(sent[i]) : /\ k + 1 \in DOMAIN sent[i]
                                         /\ Tail(sent[i])[k] = sent[i][k + 1]
  BY <1>1, QueueTail
<1>5. DOMAIN Tail(sent[i]) \subseteq Nat
  BY <1>4 DEF IsQueue
<1>6. \A k \in DOMAIN Tail(sent[i]) : Fields(Tail(sent[i])[k])
  BY <1>1, <1>4
<1>7. 1 \in DOMAIN sent[i] /\ Len(sent[i]) \in Nat
  BY <1>4
<1>8. \A k \in DOMAIN Tail(sent[i]) : k \in Nat
  BY <1>5
<1> DEFINE q == Tail(sent[i])
<1>9. /\ \A k \in DOMAIN q : k + 1 \in DOMAIN sent[i] /\ q[k] = sent[i][k + 1]
      /\ Len(q) = Len(sent[i]) - 1
      /\ Len(sent[i]) = 1 => q = <<>>
      /\ Head(sent[i]) = sent[i][1]
  BY <1>4
<1>10. QED
  <2> HIDE DEF q
  <2>1. sent' = [sent EXCEPT ![i] = q] /\ sent'[i] = q
    BY <1>2, <1>3 DEF q
  <2>2. /\ \A k \in DOMAIN q : Fields(q[k]) /\ k \in Nat
        /\ IsQueue(q)
    BY <1>4, <1>6, <1>8 DEF q
  <2>3. sent[i][1].kind = kind
    BY <1>2, <1>9
  <2>4. QED
    BY <1>7, <1>9, <2>1, <2>2, <2>3 DEF q

(* A question that is live is the only message. *)
LEMMA LiveIsLast ==
    ASSUME Shapes, NEW i \in Ids, IdInv(i), NEW kind \in Asks, Take(i, kind),
           Head(sent[i]).live
    PROVE  /\ sent'[i] = <<>>
           /\ phase[i] = Awaiting(kind)
           /\ reply[i] = NoReply
           /\ kind = "REGISTER" => Head(sent[i]).setup = setup[i]
  BY TakeFacts DEF IdInv, Exchange

LEMMA HandlePingAlone ==
    ASSUME Shapes, NEW i \in Ids, HandlePing(i), IdInv(i)
    PROVE  Alone(i)
<1> DEFINE answered == [kind |-> "PING", verdict |-> "none", terms |-> NoTerms]
<1> USE DEF HandlePing, serverVars, clientVars
<1>1. Take(i, "PING")
  OBVIOUS
<1>2. /\ \A j \in Ids \ {i} : Kept(j)
      /\ config' = config /\ entry' = entry /\ phase' = phase /\ setup' = setup
      /\ answer' = answer /\ terms' = terms /\ said' = said
      /\ DOMAIN reply' = Ids
      /\ reply'[i] = IF Head(sent[i]).live THEN answered ELSE reply[i]
  BY DEF Kept, Shapes, Take, Respond
<1> HIDE DEF HandlePing
<1>3. Shapes'
  BY <1>1, <1>2, TakeFacts, ShapesAfter DEF Shapes
<1>4. Typed(i)'
  BY <1>1, <1>2, TakeFacts DEF IdInv, Typed
<1>5. reply'[i].verdict = "OK" => reply'[i] = reply[i]
  BY <1>2
<1>6. Told(i)'
  BY <1>1, <1>2, <1>5, TakeFacts DEF IdInv, Told, Agreed, Known
<1>7. Exchange(i)'
  <2>1. CASE Head(sent[i]).live
    <3>1. sent'[i] = <<>> /\ phase[i] = "syncing" /\ reply'[i] = answered
      BY <1>1, <1>2, <2>1, LiveIsLast DEF Asks, Awaiting
    <3>2. QED
      BY <1>2, <3>1, QueueEmpty DEF Exchange, Asks, Awaiting
  <2>2. CASE ~Head(sent[i]).live
    <3>1. reply'[i] = reply[i] /\ reply[i] = NoReply
      BY <1>1, <1>2, <2>2, TakeFacts, QueueEmpty DEF IdInv, Exchange, Shapes
    <3>2. QED
      BY <1>1, <1>2, <3>1, TakeFacts DEF IdInv, Exchange
  <2>3. QED
    BY <2>1, <2>2
<1>8. QED
  BY <1>2, <1>3, <1>4, <1>6, <1>7 DEF Alone, IdInv

LEMMA HandlerRaisesAlone ==
    ASSUME Shapes, NEW i \in Ids, HandlerRaises(i), IdInv(i)
    PROVE  Alone(i)
<1> USE DEF HandlerRaises, clientVars
<1>1. Take(i, "REGISTER")
  OBVIOUS
<1>2. /\ \A j \in Ids \ {i} : Kept(j)
      /\ config' = config /\ entry' = entry /\ phase' = phase /\ setup' = setup
      /\ answer' = answer /\ terms' = terms /\ said' = said /\ reply' = reply
  BY DEF Kept, Shapes, Take
<1> HIDE DEF HandlerRaises
<1>3. Shapes'
  <2>1. /\ DOMAIN entry' = Ids /\ DOMAIN phase' = Ids /\ DOMAIN setup' = Ids
        /\ DOMAIN answer' = Ids /\ DOMAIN terms' = Ids /\ DOMAIN said' = Ids
        /\ DOMAIN reply' = Ids
        /\ \A k \in Ids : DOMAIN entry'[k] = {"role", "terms", "status"}
    BY <1>2 DEF Shapes
  <2>2. /\ IsQueue(Tail(sent[i])) /\ \A k \in DOMAIN Tail(sent[i]) : Fields(Tail(sent[i])[k])
        /\ sent' = [sent EXCEPT ![i] = Tail(sent[i])]
    BY <1>1, TakeFacts
  <2>3. QED
    BY <2>1, <2>2, ShapesAfter
<1>4. Typed(i)' /\ Told(i)'
  BY <1>1, <1>2, TakeFacts DEF IdInv, Typed, Told, Agreed, Known
<1>5. reply[i] = NoReply
  BY <1>1, TakeFacts, QueueEmpty DEF IdInv, Exchange, Shapes
<1>6. Exchange(i)'
  BY <1>1, <1>2, <1>5, TakeFacts DEF IdInv, Exchange
<1>7. QED
  BY <1>2, <1>3, <1>4, <1>6 DEF Alone, IdInv

LEMMA HandleStatusAlone ==
    ASSUME Shapes, NEW i \in Ids, HandleStatus(i), IdInv(i)
    PROVE  Alone(i)
<1> DEFINE s == Head(sent[i]).status
<1> USE DEF HandleStatus, clientVars
<1>1. Take(i, "CLIENT_STATUS")
  OBVIOUS
<1>2. /\ \A j \in Ids \ {i} : Kept(j)
      /\ config' = config /\ phase' = phase /\ setup' = setup
      /\ answer' = answer /\ terms' = terms /\ said' = said /\ reply' = reply
      /\ DOMAIN entry' = Ids /\ \A j \in Ids : DOMAIN entry'[j] = {"role", "terms", "status"}
      /\ entry'[i].role = entry[i].role /\ entry'[i].terms = entry[i].terms
      /\ entry'[i].status = IF Known(i) THEN s ELSE entry[i].status
      /\ ~Known(i) => entry'[i] = entry[i]
  BY DEF Kept, Shapes, Take
<1> HIDE DEF HandleStatus
<1>3. Shapes'
  BY <1>1, <1>2, TakeFacts, ShapesAfter DEF Shapes
<1>4. s \in Statuses
  BY <1>1, TakeFacts DEF IdInv, Typed
<1>5. Typed(i)'
  BY <1>1, <1>2, <1>4, TakeFacts DEF IdInv, Typed
<1>6. reply[i] = NoReply
  BY <1>1, TakeFacts, QueueEmpty DEF IdInv, Exchange, Shapes
<1>7. ASSUME Agreed(i, terms[i]) PROVE Agreed(i, terms[i])'
  <2>1. s \in said[i]
    BY <1>1, <1>7, TakeFacts DEF Agreed
  <2>2. Known(i)' => Known(i)
    BY <1>2 DEF Known
  <2>3. QED
    BY <1>1, <1>2, <1>7, <2>1, <2>2, TakeFacts DEF Agreed
<1>8. Told(i)'
  BY <1>2, <1>6, <1>7 DEF IdInv, Told, NoReply
<1>9. Exchange(i)'
  BY <1>1, <1>2, <1>6, TakeFacts DEF IdInv, Exchange
<1>10. QED
  BY <1>2, <1>3, <1>5, <1>8, <1>9 DEF Alone, IdInv

LEMMA HandleRegisterAlone ==
    ASSUME Shapes, NEW i \in Ids, HandleRegister(i), IdInv(i)
    PROVE  Alone(i)
<1> DEFINE s == Head(sent[i]).setup
           taken == entry[i].status # "DISCONNECTED" /\ entry[i].role # s.role
           verdict == Verdict(config, i, s, taken)
           agreed == Negotiated(config, s)
           fresh == [role |-> s.role, terms |-> agreed, status |-> "REGISTERED"]
           answered == [kind |-> "REGISTER", verdict |-> verdict,
                        terms |-> IF verdict = "OK" THEN agreed ELSE NoTerms]
<1> USE DEF HandleRegister, clientVars
<1>1. Take(i, "REGISTER")
  OBVIOUS
<1>2. verdict \in Verdicts
  BY DEF Verdict, Verdicts
<1>3. entry' = IF verdict = "OK" THEN [entry EXCEPT ![i] = fresh] ELSE entry
  BY DEF RegisterOrRefresh
<1>4. reply' = IF Head(sent[i]).live THEN [reply EXCEPT ![i] = answered] ELSE reply
  BY DEF Respond
<1>5. config' = config /\ phase' = phase /\ setup' = setup
      /\ answer' = answer /\ terms' = terms /\ said' = said
  OBVIOUS
<1> HIDE DEF HandleRegister, verdict
<1>6. /\ \A j \in Ids \ {i} : Kept(j)
      /\ DOMAIN entry' = Ids /\ \A j \in Ids : DOMAIN entry'[j] = {"role", "terms", "status"}
      /\ DOMAIN reply' = Ids
      /\ entry'[i] = IF verdict = "OK" THEN fresh ELSE entry[i]
      /\ reply'[i] = IF Head(sent[i]).live THEN answered ELSE reply[i]
  BY <1>1, <1>3, <1>4, <1>5 DEF Kept, Shapes, Take
<1>7. Shapes'
  BY <1>1, <1>5, <1>6, TakeFacts, ShapesAfter DEF Shapes
<1>8. Typed(i)'
  BY <1>1, <1>2, <1>5, <1>6, TakeFacts DEF IdInv, Typed, Statuses
<1>9. reply[i] = NoReply
  BY <1>1, TakeFacts, QueueEmpty DEF IdInv, Exchange, Shapes
<1>10. CASE Head(sent[i]).live
  <2>1. sent'[i] = <<>> /\ phase[i] = "registering" /\ reply'[i] = answered /\ s = setup[i]
    BY <1>1, <1>6, <1>10, LiveIsLast DEF Asks, Awaiting
  <2>2. Exchange(i)'
    BY <1>5, <2>1, QueueEmpty DEF Exchange, Asks, Awaiting
  <2>3. ASSUME NEW t, verdict = "OK", t = agreed PROVE Agreed(i, t)'
    BY <1>5, <1>6, <2>1, <2>3, QueueEmpty DEF Agreed
  <2>4. ASSUME answer[i] = "OK" PROVE Agreed(i, terms[i])'
    BY <1>1, <1>5, <1>6, <2>1, <2>4, QueueEmpty DEF IdInv, Told, Agreed, Known
  <2>5. Told(i)'
    <3>1. answer'[i] = "OK" => phase'[i] \in {"registering", "syncing", "running"}
      BY <1>5 DEF IdInv, Told
    <3>2. reply'[i].verdict = verdict /\ (verdict = "OK" => reply'[i].terms = agreed)
      BY <2>1
    <3>3. reply'[i].verdict = "OK" => Agreed(i, reply[i].terms)'
      <4>1. ASSUME reply'[i].verdict = "OK" PROVE Agreed(i, reply[i].terms)'
        <5>1. PICK t : t = reply'[i].terms
          OBVIOUS
        <5>2. Agreed(i, t)'
          BY <2>3, <3>2, <4>1, <5>1
        <5>3. QED
          BY <5>1, <5>2 DEF Agreed
      <4>2. QED
        BY <4>1
    <3>4. QED
      BY <1>5, <2>4, <3>1, <3>3 DEF Told
  <2>6. QED
    BY <1>6, <1>7, <1>8, <2>2, <2>5 DEF Alone, IdInv
<1>11. CASE ~Head(sent[i]).live
  <2>1. Exchange(i)'
    BY <1>1, <1>5, <1>6, <1>9, <1>11, TakeFacts DEF IdInv, Exchange
  <2>2. ASSUME Agreed(i, terms[i]) PROVE Agreed(i, terms[i])'
    <3>1. s = setup[i]
      BY <1>1, <2>2, TakeFacts DEF Agreed
    <3>2. QED
      BY <1>1, <1>5, <1>6, <2>2, <3>1, TakeFacts DEF Agreed, Known
  <2>3. Told(i)'
    BY <1>5, <1>6, <1>9, <1>11, <2>2 DEF IdInv, Told, NoReply
  <2>4. QED
    BY <1>6, <1>7, <1>8, <2>1, <2>3 DEF Alone, IdInv
<1>12. QED
  BY <1>10, <1>11

LEMMA HealthScanAlone ==
    ASSUME Shapes, NEW i \in Ids, HealthScan(i), IdInv(i)
    PROVE  Alone(i)
<1>1. PICK status \in {"DEGRADED", "DISCONNECTED"} :
          entry' = [entry EXCEPT ![i].status = status]
  BY DEF HealthScan
<1>2. Known(i) /\ UNCHANGED <<config, clientVars, netVars>>
  BY DEF HealthScan
<1>3. /\ \A j \in Ids \ {i} : Kept(j)
      /\ Shapes'
      /\ entry'[i].role = entry[i].role /\ entry'[i].terms = entry[i].terms
      /\ entry'[i].status = status
  BY <1>1, <1>2 DEF Kept, Shapes, clientVars, netVars
<1>4. QED
  BY <1>1, <1>2, <1>3
  DEF Alone, IdInv, Typed, Exchange, Told, Agreed, Known, Statuses, clientVars, netVars

-----------------------------------------------------------------------------
(* What is true of a doctor besides. *)
DoctorShapes == DOMAIN probe = Doctors /\ DOMAIN report = Doctors

DoctorTyped(d) ==
    /\ DOMAIN probe[d] = {"config", "site", "packages", "target", "pings", "lost"}
    /\ DOMAIN report[d] = {"visible", "match", "reachable", "handshake"}
    /\ probe[d].pings \in (IF phase[d] \in Busy THEN 1..5 ELSE {0})
    /\ report[d].handshake \in {"none", "ok", "failed"}

(* The server knows it as a doctor, and nobody has its id with another role. *)
AsDoctor(d) ==
    /\ \A k \in DOMAIN sent[d] :
          sent[d][k].kind = "REGISTER" => sent[d][k].setup.role = "doctor"
    /\ Known(d) => entry[d].role = "doctor"

(* The versions were compared with the one the probe registers with. *)
Matched(d) ==
    /\ phase[d] \in {"off", "resolving"} => report[d].match = "unknown"
    /\ phase[d] \in {"resolving", "checking"} =>
          /\ probe[d].config \in DoctorConfigs
          /\ setup[d].version = probe[d].config.protocol.version
    /\ report[d].match = "yes" /\ phase[d] # "raised" =>
          AsText(config.protocol.version) = setup[d].version

(* What it was told is what the server makes of its setup; a server whose   *)
(* version is a number tells nobody anything.                               *)
Answers(d) ==
    /\ reply[d].kind = "REGISTER" =>
          /\ reply[d].verdict = "OK" <=> Admits(config, d, setup[d])
          /\ config.protocol.version.kind # "number"
    /\ phase[d] = "syncing" => Admits(config, d, setup[d])
    /\ phase[d] \in {"registering", "syncing"} => report[d].reachable

Reported(d) ==
    IF phase[d] # "reported" THEN report[d].handshake = "none"
    ELSE /\ report[d].handshake = "ok" => Admits(config, d, setup[d])
         /\ report[d].handshake = "failed" =>
               ~Admits(config, d, setup[d]) /\ config.protocol.version.kind # "number"
         /\ ~report[d].reachable =>
               report[d].handshake = "none" /\ probe[d].target.host \notin Loopback

DoctorInv(d) == DoctorTyped(d) /\ AsDoctor(d) /\ Matched(d) /\ Answers(d) /\ Reported(d)

Globals ==
    /\ config \in ServerConfigs
    /\ server \in {"down", "up", "dead"}
    /\ recovering \subseteq Clients

IInv ==
    /\ Globals
    /\ Shapes /\ \A i \in Ids : IdInv(i)
    /\ DoctorShapes /\ \A d \in Doctors : DoctorInv(d)

(* A step of one doctor leaves the others alone, the server included. *)
Solo(d) ==
    /\ Globals' /\ Alone(d) /\ DoctorShapes' /\ DoctorInv(d)'
    /\ \A e \in Doctors \ {d} : probe'[e] = probe[e] /\ report'[e] = report[e]

LEMMA KeptDoctor ==
    ASSUME NEW d \in Doctors, DoctorInv(d), Kept(d),
           probe'[d] = probe[d], report'[d] = report[d]
    PROVE  DoctorInv(d)'
  BY DEF DoctorInv, DoctorTyped, AsDoctor, Matched, Answers, Reported, Known, Kept

LEMMA DoctorsAreIds == \A d \in Doctors : d \in Ids /\ d \notin Clients
  BY AdmissionAssumption DEF Ids

LEMMA AllAfterAlone ==
    ASSUME IInv, NEW i \in Ids, Alone(i)
    PROVE  Shapes' /\ \A j \in Ids : IdInv(j)'
<1>1. \A j \in Ids \ {i} : IdInv(j)'
  BY KeptInv DEF IInv, Alone
<1>2. QED
  BY <1>1 DEF Alone

LEMMA SoloInv ==
    ASSUME IInv, NEW d \in Doctors, Solo(d)
    PROVE  IInv'
<1>1. d \in Ids
  BY DoctorsAreIds
<1>2. Shapes' /\ \A j \in Ids : IdInv(j)'
  BY <1>1, AllAfterAlone DEF Solo
<1>3. \A e \in Doctors \ {d} : DoctorInv(e)'
  BY KeptDoctor, DoctorsAreIds DEF IInv, Solo, Alone
<1>4. QED
  BY <1>2, <1>3 DEF IInv, Solo

(* A doctor's question that is lost is noted, which touches nothing else. *)
LEMMA OrphanFacts ==
    ASSUME DoctorShapes, Orphan
    PROVE  /\ DOMAIN probe' = Doctors
           /\ \A d \in Doctors : DoctorTyped(d) =>
                 /\ DOMAIN probe'[d] = DOMAIN probe[d]
                 /\ probe'[d].config = probe[d].config /\ probe'[d].pings = probe[d].pings
                 /\ probe'[d].target = probe[d].target
  BY DEF Orphan, DoctorShapes, DoctorTyped

LEMMA OrphanDoctor ==
    ASSUME DoctorShapes, NEW d \in Doctors, DoctorInv(d), Kept(d), Orphan, UNCHANGED report
    PROVE  DoctorInv(d)'
<1>1. /\ DOMAIN probe'[d] = DOMAIN probe[d]
      /\ probe'[d].config = probe[d].config /\ probe'[d].pings = probe[d].pings
      /\ probe'[d].target = probe[d].target
  BY OrphanFacts DEF DoctorInv
<1>2. QED
  BY <1>1 DEF DoctorInv, DoctorTyped, AsDoctor, Matched, Answers, Reported, Known, Kept

(* The turns of the serve loop with a doctor's message. *)
LEMMA HandleDoctor ==
    ASSUME Shapes, DoctorShapes, NEW d \in Doctors, IdInv(d), DoctorInv(d), ServeLoop(d)
    PROVE  DoctorInv(d)'
<1> USE DEF ServeLoop
<1>1. d \in Ids /\ UNCHANGED <<phase, setup, config, report>>
  BY DoctorsAreIds DEF Handle, HandleRegister, HandlerRaises, HandlePing, HandleStatus,
     clientVars, serverVars, doctorVars
<1>9. /\ DOMAIN probe'[d] = DOMAIN probe[d]
      /\ probe'[d].config = probe[d].config /\ probe'[d].pings = probe[d].pings
      /\ probe'[d].target = probe[d].target
  BY OrphanFacts DEF DoctorInv
<1>2. PICK kind \in {"REGISTER", "PING", "CLIENT_STATUS"} : Take(d, kind)
  BY DEF Handle, HandleRegister, HandlerRaises, HandlePing, HandleStatus
<1>3. DoctorTyped(d)' /\ Matched(d)' /\ Reported(d)'
  BY <1>1, <1>9 DEF DoctorInv, DoctorTyped, Matched, Reported
<1>4. \A k \in DOMAIN sent'[d] :
          sent'[d][k].kind = "REGISTER" => sent'[d][k].setup.role = "doctor"
  BY <1>1, <1>2, TakeFacts DEF DoctorInv, AsDoctor
<1>5. CASE HandleRegister(d)
  <2> DEFINE s == Head(sent[d]).setup
             taken == entry[d].status # "DISCONNECTED" /\ entry[d].role # s.role
             verdict == Verdict(config, d, s, taken)
             answered == [kind |-> "REGISTER", verdict |-> verdict,
                          terms |-> IF verdict = "OK" THEN Negotiated(config, s) ELSE NoTerms]
  <2>1. Take(d, "REGISTER")
    BY <1>5 DEF HandleRegister
  <2>2. s.role = "doctor"
    BY <1>1, <2>1, TakeFacts DEF DoctorInv, AsDoctor
  <2>3. ~taken
    <3>1. Known(d) => entry[d].role = "doctor"
      BY DEF DoctorInv, AsDoctor
    <3>2. ~Known(d) => entry[d].status = "DISCONNECTED"
      BY DEF Known, NoEntry
    <3>3. QED
      BY <2>2, <3>1, <3>2
  <2>4. verdict = "OK" <=> Admits(config, d, s)
    BY <2>3 DEF Verdict, Admits
  <2>5. config.protocol.version.kind # "number"
    BY <1>5 DEF HandleRegister, Undecidable, Unparsable
  <2>6. /\ entry' = IF verdict = "OK" THEN [entry EXCEPT ![d] = [role |-> s.role,
                        terms |-> Negotiated(config, s), status |-> "REGISTERED"]] ELSE entry
        /\ reply' = IF Head(sent[d]).live THEN [reply EXCEPT ![d] = answered] ELSE reply
    BY <1>5 DEF HandleRegister, RegisterOrRefresh, Respond
  <2> HIDE DEF verdict
  <2>7. entry'[d] = entry[d] \/ entry'[d].role = "doctor"
    BY <1>1, <2>2, <2>6 DEF Shapes
  <2>8. AsDoctor(d)'
    BY <1>4, <2>7 DEF DoctorInv, AsDoctor, Known
  <2>9. reply'[d] = reply[d] \/ (reply'[d] = answered /\ s = setup[d])
    BY <1>1, <2>1, <2>6, LiveIsLast DEF Shapes, Asks
  <2>10. Answers(d)'
    BY <1>1, <2>4, <2>5, <2>9 DEF DoctorInv, Answers
  <2>11. QED
    BY <1>3, <2>8, <2>10 DEF DoctorInv
<1>6. CASE HandlerRaises(d) \/ HandlePing(d)
  <2>1. entry' = entry
    BY <1>6 DEF HandlerRaises, HandlePing, serverVars
  <2>2. reply'[d] = reply[d] \/ reply'[d].kind = "PING"
    BY <1>1, <1>6 DEF HandlerRaises, HandlePing, Respond, Shapes
  <2>3. QED
    BY <1>1, <1>3, <1>4, <2>1, <2>2 DEF DoctorInv, AsDoctor, Answers, Known
<1>7. CASE HandleStatus(d)
  <2>1. reply' = reply /\ (Known(d) => entry'[d].role = entry[d].role)
        /\ (~Known(d) => entry'[d] = entry[d])
    BY <1>1, <1>7 DEF HandleStatus, Shapes
  <2>2. QED
    BY <1>1, <1>3, <1>4, <2>1 DEF DoctorInv, AsDoctor, Answers, Known
<1>8. QED
  BY <1>5, <1>6, <1>7 DEF Handle

LEMMA ScanDoctor ==
    ASSUME Shapes, NEW d \in Doctors, DoctorInv(d), HealthScan(d), UNCHANGED doctorVars
    PROVE  DoctorInv(d)'
<1>1. /\ d \in Ids /\ Known(d)
      /\ UNCHANGED <<phase, setup, config, probe, report, sent, reply>>
  BY DoctorsAreIds DEF HealthScan, clientVars, netVars, doctorVars
<1>2. entry'[d].role = entry[d].role
  BY <1>1 DEF HealthScan, Shapes
<1>3. QED
  BY <1>1, <1>2 DEF DoctorInv, DoctorTyped, AsDoctor, Matched, Answers, Reported

-----------------------------------------------------------------------------
(* The steps of a doctor.  Its configuration is complete, so that adapting *)
(* it to the target changes the network section only.                      *)
LEMMA ProbeConfigVersion ==
    ASSUME NEW c, Complete(c), NEW network
    PROVE  WithNetwork(c, network).protocol.version = c.protocol.version
<1> DEFINE data == [c EXCEPT !.network = Overlay(@, network)]
<1>1. "protocol" \in DOMAIN Defaults /\ "version" \in DOMAIN Defaults["protocol"]
  BY DEF Defaults
<1>2. data["protocol"] = c["protocol"] /\ DOMAIN data = DOMAIN Defaults
  BY <1>1 DEF Complete
<1>3. Given(data, "protocol", "version")
  BY <1>1, <1>2 DEF Given, Complete
<1> HIDE DEF data
<1>4. DeepMerge(Defaults, data)["protocol"]["version"] = data["protocol"]["version"]
  BY <1>3, MergeValue DEF DictFields
<1>5. FromMapping(data)["protocol"] = DeepMerge(Defaults, data)["protocol"]
  BY <1>1 DEF FromMapping
<1>6. WithNetwork(c, network)["protocol"]["version"] = c["protocol"]["version"]
  BY <1>2, <1>4, <1>5 DEF WithNetwork, data
<1>7. QED
  BY <1>6

LEMMA SamplesBounds ==
    ASSUME NEW c \in DoctorConfigs
    PROVE  Samples(c) \in 1..5
<1> DEFINE n == c.health.benchmark_ping_count
           m == Max({n, 1})
<1>1. n \in Int
  BY DoctorAssumption
<1>2. m \in Int /\ m >= 1
  <2>1. \E x \in {n, 1} : \A y \in {n, 1} : x >= y
    BY <1>1
  <2>2. m \in {n, 1} /\ \A y \in {n, 1} : m >= y
    BY <2>1 DEF Max
  <2>3. QED
    BY <1>1, <2>2
<1> HIDE DEF m
<1>3. Min({m, 5}) \in {m, 5} /\ \A y \in {m, 5} : Min({m, 5}) =< y
  <2>1. \E x \in {m, 5} : \A y \in {m, 5} : x =< y
    BY <1>2
  <2>2. QED
    BY <2>1 DEF Min
<1>4. Samples(c) = Min({m, 5})
  BY DEF Samples, m
<1>5. QED
  BY <1>2, <1>3, <1>4

(* As long as it has not begun to register, an id is not spoken with. *)
LEMMA QuietAlone ==
    ASSUME Shapes, NEW i \in Ids, IdInv(i), NEW p \in Phases,
           phase[i] \notin {"registering", "syncing", "running"},
           phase' = [phase EXCEPT ![i] = p],
           DOMAIN setup' = Ids, \A j \in Ids \ {i} : setup'[j] = setup[j],
           UNCHANGED <<config, entry, answer, terms, said, sent, reply>>
    PROVE  /\ Alone(i)
           /\ reply[i] = NoReply /\ answer[i] # "OK"
<1>1. /\ \A j \in Ids \ {i} : Kept(j)
      /\ Shapes'
      /\ phase'[i] = p
  BY DEF Kept, Shapes
<1>2. reply[i] = NoReply /\ answer[i] # "OK"
  BY DEF IdInv, Exchange, Told, Asks, Awaiting
<1>3. \A k \in DOMAIN sent[i] : ~(sent[i][k].live /\ sent[i][k].kind \in Asks)
  BY DEF IdInv, Exchange, Asks, Awaiting
<1>4. Typed(i)'
  BY <1>1 DEF IdInv, Typed
<1>5. Exchange(i)'
  BY <1>2, <1>3 DEF Exchange
<1>6. Told(i)'
  BY <1>2 DEF Told, NoReply
<1>7. QED
  BY <1>1, <1>2, <1>4, <1>5, <1>6 DEF Alone, IdInv

LEMMA StartDoctorSolo ==
    ASSUME IInv, NEW d \in Doctors, NEW c \in DoctorConfigs, NEW site, NEW packages,
           StartDoctor(d, c, site, packages)
    PROVE  Solo(d)
<1> USE DEF StartDoctor, Move, serverVars, netVars
<1>1. d \in Ids /\ Shapes /\ IdInv(d) /\ DoctorInv(d) /\ DoctorShapes
  BY DoctorsAreIds DEF IInv
<1>9. DOMAIN setup' = Ids /\ \A j \in Ids \ {d} : setup'[j] = setup[j]
  BY <1>1 DEF Shapes
<1>2. Alone(d) /\ reply[d] = NoReply
  BY <1>1, <1>9, QuietAlone DEF Phases
<1>3. /\ phase'[d] = "resolving" /\ setup'[d] = Setup(c, d, "doctor")
      /\ config' = config /\ entry' = entry /\ sent' = sent /\ reply' = reply
      /\ report' = report
  BY <1>1 DEF Shapes
<1>4. /\ probe'[d].config = c /\ probe'[d].pings = Samples(c)
      /\ DOMAIN probe'[d] = {"config", "site", "packages", "target", "pings", "lost"}
      /\ \A e \in Doctors \ {d} : probe'[e] = probe[e]
      /\ DOMAIN probe' = Doctors
  BY <1>1 DEF DoctorShapes, DoctorInv, DoctorTyped
<1>5. DoctorTyped(d)'
  BY <1>1, <1>3, <1>4, SamplesBounds DEF DoctorInv, DoctorTyped, Busy
<1>6. Matched(d)'
  BY <1>1, <1>3, <1>4 DEF DoctorInv, Matched, Setup
<1>7. AsDoctor(d)' /\ Answers(d)' /\ Reported(d)'
  BY <1>1, <1>2, <1>3 DEF DoctorInv, AsDoctor, Answers, Reported, Known, NoReply
<1>8. QED
  BY <1>1, <1>2, <1>3, <1>4, <1>5, <1>6, <1>7
  DEF Solo, IInv, Globals, DoctorShapes, DoctorInv

LEMMA ResolveSolo ==
    ASSUME IInv, NEW d \in Doctors, ResolveRecord(d) \/ ResolveManual(d)
    PROVE  Solo(d)
<1> USE DEF ResolveRecord, ResolveManual, Move, serverVars, netVars
<1>1. d \in Ids /\ Shapes /\ IdInv(d) /\ DoctorInv(d) /\ DoctorShapes
  BY DoctorsAreIds DEF IInv
<1>2. phase[d] = "resolving" /\ phase' = [phase EXCEPT ![d] = "checking"] /\ setup' = setup
  OBVIOUS
<1>3. DOMAIN setup' = Ids /\ \A j \in Ids \ {d} : setup'[j] = setup[j]
  BY <1>1, <1>2 DEF Shapes
<1>4. Alone(d) /\ reply[d] = NoReply
  BY <1>1, <1>2, <1>3, QuietAlone DEF Phases
<1>5. /\ phase'[d] = "checking" /\ config' = config /\ entry' = entry
      /\ sent' = sent /\ reply' = reply
  BY <1>1 DEF Shapes
<1>6. /\ probe'[d].config = probe[d].config /\ probe'[d].pings = probe[d].pings
      /\ DOMAIN probe'[d] = {"config", "site", "packages", "target", "pings", "lost"}
      /\ \A e \in Doctors \ {d} : probe'[e] = probe[e]
      /\ DOMAIN probe' = Doctors
  BY <1>1 DEF DoctorShapes, DoctorInv, DoctorTyped
<1>7. /\ DOMAIN report'[d] = DOMAIN report[d]
      /\ report'[d].handshake = report[d].handshake
      /\ report'[d].match = "yes" =>
            report[d].match = "yes" \/ AsText(config.protocol.version) = setup[d].version
      /\ \A e \in Doctors \ {d} : report'[e] = report[e]
      /\ DOMAIN report' = Doctors
  BY <1>1 DEF DoctorShapes, DoctorInv, DoctorTyped
<1>8. DoctorTyped(d)'
  BY <1>1, <1>2, <1>5, <1>6, <1>7 DEF DoctorInv, DoctorTyped, Busy
<1>9. Matched(d)'
  BY <1>1, <1>2, <1>5, <1>6, <1>7 DEF DoctorInv, Matched
<1>10. AsDoctor(d)' /\ Answers(d)' /\ Reported(d)'
  BY <1>1, <1>2, <1>4, <1>5, <1>7 DEF DoctorInv, AsDoctor, Answers, Reported, Known, NoReply
<1>11. QED
  BY <1>1, <1>4, <1>6, <1>7, <1>8, <1>9, <1>10
  DEF Solo, IInv, Globals, DoctorShapes, DoctorInv

LEMMA DiscoverRaisesSolo ==
    ASSUME IInv, NEW d \in Doctors, DiscoverRaises(d)
    PROVE  Solo(d)
<1> USE DEF DiscoverRaises, Move, Forget, serverVars, netVars
<1>1. d \in Ids /\ Shapes /\ IdInv(d) /\ DoctorInv(d) /\ DoctorShapes
  BY DoctorsAreIds DEF IInv
<1>8. DOMAIN setup' = Ids /\ \A j \in Ids \ {d} : setup'[j] = setup[j]
  BY <1>1 DEF Shapes
<1>2. Alone(d) /\ reply[d] = NoReply
  BY <1>1, <1>8, QuietAlone DEF Phases
<1>3. /\ phase'[d] = "raised" /\ config' = config /\ entry' = entry
      /\ sent' = sent /\ reply' = reply /\ report' = report /\ phase[d] = "resolving"
  BY <1>1 DEF Shapes
<1>4. /\ probe'[d].pings = 0
      /\ DOMAIN probe'[d] = {"config", "site", "packages", "target", "pings", "lost"}
      /\ \A e \in Doctors \ {d} : probe'[e] = probe[e]
      /\ DOMAIN probe' = Doctors
  BY <1>1 DEF DoctorShapes, DoctorInv, DoctorTyped
<1>5. DoctorTyped(d)' /\ Matched(d)'
  BY <1>1, <1>3, <1>4 DEF DoctorInv, DoctorTyped, Matched, Busy
<1>6. AsDoctor(d)' /\ Answers(d)' /\ Reported(d)'
  BY <1>1, <1>2, <1>3 DEF DoctorInv, AsDoctor, Answers, Reported, Known, NoReply
<1>7. QED
  BY <1>1, <1>2, <1>3, <1>4, <1>5, <1>6 DEF Solo, IInv, Globals, DoctorShapes, DoctorInv

LEMMA SkipProbeSolo ==
    ASSUME IInv, NEW d \in Doctors, SkipProbe(d)
    PROVE  Solo(d)
<1> USE DEF SkipProbe, Move, Forget, Note, serverVars, netVars
<1>1. d \in Ids /\ Shapes /\ IdInv(d) /\ DoctorInv(d) /\ DoctorShapes
  BY DoctorsAreIds DEF IInv
<1>2. phase[d] = "checking" /\ phase' = [phase EXCEPT ![d] = "reported"] /\ setup' = setup
  OBVIOUS
<1>3. DOMAIN setup' = Ids /\ \A j \in Ids \ {d} : setup'[j] = setup[j]
  BY <1>1, <1>2 DEF Shapes
<1>4. Alone(d) /\ reply[d] = NoReply
  BY <1>1, <1>2, <1>3, QuietAlone DEF Phases
<1>5. /\ phase'[d] = "reported" /\ config' = config /\ entry' = entry
      /\ sent' = sent /\ reply' = reply
  BY <1>1 DEF Shapes
<1>6. /\ probe'[d].pings = 0 /\ probe'[d].target = probe[d].target
      /\ DOMAIN probe'[d] = {"config", "site", "packages", "target", "pings", "lost"}
      /\ \A e \in Doctors \ {d} : probe'[e] = probe[e]
      /\ DOMAIN probe' = Doctors
  BY <1>1 DEF DoctorShapes, DoctorInv, DoctorTyped
<1>7. /\ DOMAIN report'[d] = DOMAIN report[d]
      /\ report'[d].handshake = report[d].handshake /\ report'[d].match = report[d].match
      /\ report'[d].reachable = Reachable(d)
      /\ \A e \in Doctors \ {d} : report'[e] = report[e]
      /\ DOMAIN report' = Doctors
  BY <1>1 DEF DoctorShapes, DoctorInv, DoctorTyped
<1>8. DoctorTyped(d)'
  BY <1>1, <1>2, <1>5, <1>6, <1>7 DEF DoctorInv, DoctorTyped, Busy
<1>9. Matched(d)'
  BY <1>1, <1>2, <1>5, <1>6, <1>7 DEF DoctorInv, Matched
<1>10. Reported(d)'
  BY <1>1, <1>2, <1>5, <1>6, <1>7 DEF DoctorInv, Reported, Reachable
<1>11. AsDoctor(d)' /\ Answers(d)'
  BY <1>1, <1>4, <1>5 DEF DoctorInv, AsDoctor, Answers, Known, NoReply
<1>12. QED
  BY <1>1, <1>4, <1>6, <1>7, <1>8, <1>9, <1>10, <1>11
  DEF Solo, IInv, Globals, DoctorShapes, DoctorInv

LEMMA ProbeSolo ==
    ASSUME IInv, NEW d \in Doctors, Probe(d)
    PROVE  Solo(d)
<1> DEFINE c == ProbeConfig(d)
           s == Setup(c, d, "doctor")
           m == Register(s)
           q == Append(sent[d], m)
<1> USE DEF Probe, Move, Note, serverVars
<1>1. d \in Ids /\ Shapes /\ IdInv(d) /\ DoctorInv(d) /\ DoctorShapes /\ Globals
  BY DoctorsAreIds DEF IInv
<1>2. phase[d] = "checking"
  OBVIOUS
<1>3. s.role = "doctor" /\ s.version = probe[d].config.protocol.version
  <2>1. probe[d].config \in DoctorConfigs
    BY <1>1, <1>2 DEF DoctorInv, Matched
  <2>2. Complete(probe[d].config)
    BY <2>1, DoctorAssumption
  <2>3. c.protocol.version = probe[d].config.protocol.version
    BY <2>2, ProbeConfigVersion DEF ProbeConfig
  <2>4. QED
    BY <2>3 DEF Setup
<1>4. s.version = setup[d].version
  BY <1>1, <1>2, <1>3 DEF DoctorInv, Matched
<1> HIDE DEF c, s
<1>5. sent' = [sent EXCEPT ![d] = q]
  BY DEF c, s
<1>6. /\ \A j \in Ids \ {d} : Kept(j)
      /\ config' = config /\ entry' = entry /\ reply' = reply /\ sent'[d] = q
      /\ phase'[d] = "registering" /\ setup'[d] = s /\ said' = said /\ answer' = answer
      /\ DOMAIN phase' = Ids /\ DOMAIN setup' = Ids /\ DOMAIN answer' = Ids
      /\ DOMAIN terms' = Ids /\ DOMAIN said' = Ids /\ DOMAIN reply' = Ids
      /\ DOMAIN entry' = Ids /\ \A j \in Ids : DOMAIN entry'[j] = {"role", "terms", "status"}
      /\ server' = server /\ recovering' = recovering
  BY <1>1 DEF Kept, Shapes, c, s
<1>7. /\ probe'[d].config = probe[d].config /\ probe'[d].pings = probe[d].pings
      /\ DOMAIN probe'[d] = {"config", "site", "packages", "target", "pings", "lost"}
      /\ \A e \in Doctors \ {d} : probe'[e] = probe[e]
      /\ DOMAIN probe' = Doctors
      /\ DOMAIN report'[d] = DOMAIN report[d] /\ report'[d].reachable
      /\ report'[d].handshake = report[d].handshake /\ report'[d].match = report[d].match
      /\ \A e \in Doctors \ {d} : report'[e] = report[e]
      /\ DOMAIN report' = Doctors
  BY <1>1 DEF DoctorShapes, DoctorInv, DoctorTyped
<1> HIDE DEF Probe
<1>8. IsQueue(sent[d]) /\ \A k \in DOMAIN sent[d] : Fields(sent[d][k])
  BY <1>1 DEF Shapes
<1>9. Fields(m) /\ m.kind = "REGISTER" /\ m.setup = s
  BY MessageFields DEF Register
<1>10. /\ IsQueue(q)
       /\ \A k \in DOMAIN q : \/ k \in DOMAIN sent[d] /\ q[k] = sent[d][k]
                              \/ k = Len(q) /\ q[k] = m
  <2> HIDE DEF m
  <2>1. QED
    BY <1>8, QueueAppend
<1> HIDE DEF m, q
<1>11. Shapes'
  BY <1>1, <1>5, <1>6, <1>8, <1>9, <1>10, ShapesAfter
<1>12. reply[d] = NoReply /\ answer[d] # "OK"
  BY <1>1, <1>2 DEF IdInv, Exchange, Told, Asks, Awaiting
<1>13. Exchange(d)'
  <2>1. \A k \in DOMAIN sent[d] : ~(sent[d][k].live /\ sent[d][k].kind \in Asks)
    BY <1>1, <1>2 DEF IdInv, Exchange, Asks, Awaiting
  <2>2. QED
    BY <1>6, <1>9, <1>10, <1>12, <2>1 DEF Exchange, Awaiting
<1>14. Typed(d)'
  BY <1>1, <1>6, <1>9, <1>10 DEF IdInv, Typed, Phases
<1>15. Told(d)'
  BY <1>6, <1>12 DEF Told, NoReply
<1>16. DoctorTyped(d)'
  BY <1>1, <1>2, <1>6, <1>7 DEF DoctorInv, DoctorTyped, Busy
<1>17. AsDoctor(d)'
  BY <1>1, <1>3, <1>6, <1>9, <1>10 DEF DoctorInv, AsDoctor, Known
<1>18. Matched(d)'
  BY <1>1, <1>2, <1>4, <1>6, <1>7 DEF DoctorInv, Matched
<1>19. Answers(d)' /\ Reported(d)'
  BY <1>1, <1>2, <1>6, <1>7, <1>12 DEF DoctorInv, Answers, Reported, NoReply
<1>20. QED
  BY <1>1, <1>6, <1>7, <1>11, <1>13, <1>14, <1>15, <1>16, <1>17, <1>18, <1>19
  DEF Solo, Alone, IdInv, Globals, DoctorShapes, DoctorInv

(* The connection is closed: nobody waits for what is under way. *)
Queued(q) ==
    /\ IsQueue(q)
    /\ \A k \in DOMAIN q : /\ Fields(q[k])
                           /\ q[k].kind = "CLIENT_STATUS" => q[k].status \in Statuses

Closed(i, p, kept) ==
    /\ sent' = [sent EXCEPT ![i] = kept] /\ phase' = [phase EXCEPT ![i] = p]
    /\ answer' = [answer EXCEPT ![i] = "none"] /\ terms' = [terms EXCEPT ![i] = NoTerms]
    /\ said' = [said EXCEPT ![i] = {}] /\ reply' = [reply EXCEPT ![i] = NoReply]
    /\ DOMAIN setup' = Ids /\ \A j \in Ids \ {i} : setup'[j] = setup[j]
    /\ config' = config /\ entry' = entry

LEMMA ClosedAlone ==
    ASSUME Shapes, NEW i \in Ids, IdInv(i), NEW q, Queued(q), NEW kept \in Abandoned(q),
           NEW p \in Phases, Closed(i, p, kept)
    PROVE  /\ Alone(i)
           /\ sent'[i] = kept
           /\ \A k \in DOMAIN kept :
                 k \in DOMAIN q /\ kept[k].kind = q[k].kind /\ kept[k].setup = q[k].setup
<1> USE DEF Queued, Closed
<1>1. /\ \A j \in Ids \ {i} : Kept(j)
      /\ reply'[i] = NoReply /\ sent'[i] = kept /\ entry'[i] = entry[i]
      /\ phase'[i] = p /\ said'[i] = {} /\ answer'[i] = "none"
      /\ DOMAIN phase' = Ids /\ DOMAIN setup' = Ids /\ DOMAIN answer' = Ids
      /\ DOMAIN terms' = Ids /\ DOMAIN said' = Ids /\ DOMAIN reply' = Ids
      /\ DOMAIN entry' = Ids /\ \A j \in Ids : DOMAIN entry'[j] = {"role", "terms", "status"}
  BY DEF Kept, Shapes
<1>2. /\ IsQueue(kept)
      /\ \A k \in DOMAIN kept :
            /\ Fields(kept[k])
            /\ k \in DOMAIN q
            /\ kept[k].live = FALSE
            /\ kept[k].kind = q[k].kind
            /\ kept[k].setup = q[k].setup
            /\ kept[k].status = q[k].status
  BY QueueAbandoned
<1>3. Shapes'
  BY <1>1, <1>2, ShapesAfter
<1>4. Exchange(i)' /\ Told(i)'
  BY <1>1, <1>2 DEF Exchange, Told, NoReply
<1>5. Typed(i)'
  BY <1>1, <1>2 DEF IdInv, Typed, NoReply
<1>6. QED
  BY <1>1, <1>2, <1>3, <1>4, <1>5 DEF Alone, IdInv

LEMMA InterruptSolo ==
    ASSUME IInv, NEW d \in Doctors, Interrupt(d)
    PROVE  Solo(d)
<1> USE DEF Interrupt, StopProbe, Forget, serverVars
<1>1. d \in Ids /\ Shapes /\ IdInv(d) /\ DoctorInv(d) /\ DoctorShapes /\ Globals
  BY DoctorsAreIds DEF IInv
<1>2. PICK kept \in Abandoned(sent[d]) : sent' = [sent EXCEPT ![d] = kept]
  OBVIOUS
<1>3. /\ phase'[d] = "raised" /\ config' = config /\ entry' = entry
      /\ reply'[d] = NoReply /\ server' = server /\ recovering' = recovering
      /\ DOMAIN setup' = Ids /\ \A j \in Ids \ {d} : setup'[j] = setup[j]
  BY <1>1 DEF Shapes
<1>4. /\ probe'[d].pings = 0
      /\ DOMAIN probe'[d] = {"config", "site", "packages", "target", "pings", "lost"}
      /\ \A e \in Doctors \ {d} : probe'[e] = probe[e]
      /\ DOMAIN probe' = Doctors
      /\ report'[d] = NoReport
      /\ \A e \in Doctors \ {d} : report'[e] = report[e]
      /\ DOMAIN report' = Doctors
  BY <1>1 DEF DoctorShapes, DoctorInv, DoctorTyped
<1>5. Queued(sent[d])
  BY <1>1 DEF Shapes, IdInv, Typed, Queued
<1>6. /\ Alone(d)
      /\ sent'[d] = kept
      /\ \A k \in DOMAIN kept : /\ k \in DOMAIN sent[d]
                                /\ kept[k].kind = sent[d][k].kind
                                /\ kept[k].setup = sent[d][k].setup
  <2>1. Closed(d, "raised", kept)
    BY <1>2, <1>3 DEF Closed
  <2>2. "raised" \in Phases
    BY DEF Phases
  <2> HIDE DEF Interrupt, StopProbe, Forget, serverVars
  <2>3. QED
    BY <1>1, <1>2, <1>5, <2>1, <2>2, ClosedAlone
<1> HIDE DEF Interrupt
<1>7. DoctorTyped(d)' /\ Matched(d)' /\ Answers(d)' /\ Reported(d)'
  BY <1>3, <1>4 DEF DoctorTyped, Matched, Answers, Reported, Busy, NoReport, NoReply
<1>8. AsDoctor(d)'
  BY <1>1, <1>3, <1>6 DEF DoctorInv, AsDoctor, Known
<1>9. QED
  BY <1>1, <1>3, <1>4, <1>6, <1>7, <1>8 DEF Solo, Globals, DoctorShapes, DoctorInv

(* The probe ends with a handshake that went well or not. *)
LEMMA LeaveSolo ==
    ASSUME IInv, NEW d \in Doctors, NEW handshake \in {"ok", "failed"}, NEW q,
           Leave(d, handshake, q), reply' = [reply EXCEPT ![d] = NoReply],
           UNCHANGED <<serverVars, setup, recovering>>,
           phase[d] \in {"registering", "syncing"},
           IsQueue(q),
           \A k \in DOMAIN q : /\ Fields(q[k])
                               /\ q[k].kind = "CLIENT_STATUS" /\ q[k].status \in Statuses,
           IF handshake = "ok" THEN Admits(config, d, setup[d])
           ELSE ~Admits(config, d, setup[d]) /\ config.protocol.version.kind # "number"
    PROVE  Solo(d)
<1> USE DEF Leave, StopProbe, Forget, Note, serverVars
<1>1. d \in Ids /\ Shapes /\ IdInv(d) /\ DoctorInv(d) /\ DoctorShapes /\ Globals
  BY DoctorsAreIds DEF IInv
<1>2. PICK kept \in Abandoned(q) : sent' = [sent EXCEPT ![d] = kept]
  OBVIOUS
<1>3. /\ phase'[d] = "reported" /\ config' = config /\ entry' = entry
      /\ reply'[d] = NoReply /\ server' = server /\ recovering' = recovering
      /\ DOMAIN setup' = Ids /\ \A j \in Ids : setup'[j] = setup[j]
  BY <1>1 DEF Shapes
<1>4. /\ probe'[d].pings = 0
      /\ DOMAIN probe'[d] = {"config", "site", "packages", "target", "pings", "lost"}
      /\ \A e \in Doctors \ {d} : probe'[e] = probe[e]
      /\ DOMAIN probe' = Doctors
      /\ DOMAIN report'[d] = DOMAIN report[d]
      /\ report'[d].handshake = handshake /\ report'[d].match = report[d].match
      /\ report'[d].reachable = report[d].reachable
      /\ \A e \in Doctors \ {d} : report'[e] = report[e]
      /\ DOMAIN report' = Doctors
  BY <1>1 DEF DoctorShapes, DoctorInv, DoctorTyped
<1>5. /\ Alone(d)
      /\ sent'[d] = kept
      /\ \A k \in DOMAIN kept : k \in DOMAIN q /\ kept[k].kind = q[k].kind
  <2>1. Closed(d, "reported", kept)
    BY <1>2, <1>3 DEF Closed
  <2>2. "reported" \in Phases
    BY DEF Phases
  <2>3. Queued(q)
    BY DEF Queued
  <2> HIDE DEF Leave, StopProbe, Forget, serverVars
  <2>4. QED
    BY <1>1, <1>2, <2>1, <2>2, <2>3, ClosedAlone
<1> HIDE DEF Leave
<1>6. report[d].reachable
  BY <1>1 DEF DoctorInv, Answers
<1>7. DoctorTyped(d)' /\ Answers(d)' /\ Reported(d)'
  BY <1>1, <1>3, <1>4, <1>6 DEF DoctorInv, DoctorTyped, Answers, Reported, Busy, NoReply
<1>8. Matched(d)'
  BY <1>1, <1>3, <1>4 DEF DoctorInv, Matched
<1>9. AsDoctor(d)'
  BY <1>1, <1>3, <1>5 DEF DoctorInv, AsDoctor, Known
<1>10. QED
  BY <1>1, <1>3, <1>4, <1>5, <1>7, <1>8, <1>9 DEF Solo, Globals, DoctorShapes, DoctorInv

LEMMA ProbeRegisteredSolo ==
    ASSUME IInv, NEW d \in Doctors, ProbeRegistered(d)
    PROVE  Solo(d)
<1>1. d \in Ids /\ Shapes /\ IdInv(d) /\ DoctorInv(d) /\ DoctorShapes /\ Globals
  BY DoctorsAreIds DEF IInv
<1>2. /\ phase[d] = "registering" /\ reply[d].kind = "REGISTER"
      /\ reply' = [reply EXCEPT ![d] = NoReply]
      /\ UNCHANGED <<serverVars, setup, recovering>>
  BY DEF ProbeRegistered
<1>3. sent[d] = <<>>
  BY <1>1, <1>2 DEF IdInv, Exchange, NoReply
<1>4. CASE HandshakeOk(reply[d])
  <2>1. /\ phase' = [phase EXCEPT ![d] = "syncing"]
        /\ answer' = [answer EXCEPT ![d] = reply[d].verdict]
        /\ terms' = [terms EXCEPT ![d] = reply[d].terms]
        /\ sent' = [sent EXCEPT ![d] = Append(@, Ping)]
        /\ UNCHANGED <<said, doctorVars>>
    BY <1>4 DEF ProbeRegistered
  <2>2. Registered(d)
    BY <1>2, <1>4, <2>1 DEF Registered, HandshakeOk
  <2>3. Alone(d)
    BY <1>1, <2>2, RegisteredAlone
  <2>4. /\ phase'[d] = "syncing" /\ config' = config /\ server' = server /\ entry' = entry
        /\ setup' = setup /\ recovering' = recovering /\ probe' = probe /\ report' = report
        /\ reply'[d] = NoReply /\ sent'[d] = <<Ping>>
    BY <1>1, <1>2, <1>3, <2>1 DEF Shapes, serverVars, doctorVars
  <2>5. \A k \in DOMAIN sent'[d] : sent'[d][k].kind = "PING"
    BY <2>4, QueueOf, MessageFields DEF Ping
  <2>6. Admits(config, d, setup[d])
    BY <1>1, <1>2, <1>4 DEF HandshakeOk, DoctorInv, Answers
  <2>7. DoctorTyped(d)' /\ Matched(d)'
    BY <1>1, <1>2, <2>4 DEF DoctorInv, DoctorTyped, Matched, Busy
  <2>8. Answers(d)' /\ Reported(d)'
    BY <1>1, <1>2, <2>4, <2>6 DEF DoctorInv, Answers, Reported, NoReply
  <2>9. AsDoctor(d)'
    BY <1>1, <2>4, <2>5 DEF DoctorInv, AsDoctor, Known
  <2>10. QED
    BY <1>1, <2>3, <2>4, <2>7, <2>8, <2>9 DEF Solo, Globals, DoctorShapes, DoctorInv
<1>5. CASE ~HandshakeOk(reply[d])
  <2>1. Leave(d, "failed", sent[d])
    BY <1>5 DEF ProbeRegistered
  <2>2. ~Admits(config, d, setup[d]) /\ config.protocol.version.kind # "number"
    BY <1>1, <1>2, <1>5 DEF HandshakeOk, DoctorInv, Answers
  <2>3. IsQueue(sent[d]) /\ DOMAIN sent[d] = {}
    BY <1>3, QueueEmpty
  <2>4. QED
    BY <1>1, <1>2, <2>1, <2>2, <2>3, LeaveSolo
<1>6. QED
  BY <1>4, <1>5

LEMMA ProbeSyncedSolo ==
    ASSUME IInv, NEW d \in Doctors, ProbeSynced(d)
    PROVE  Solo(d)
<1> DEFINE m == Status("SYNCED")
<1>1. d \in Ids /\ Shapes /\ IdInv(d) /\ DoctorInv(d) /\ DoctorShapes /\ Globals
  BY DoctorsAreIds DEF IInv
<1>2. /\ phase[d] = "syncing" /\ reply[d].kind = "PING"
      /\ reply' = [reply EXCEPT ![d] = NoReply]
      /\ UNCHANGED <<serverVars, setup, recovering>>
  BY DEF ProbeSynced
<1>7. sent[d] = <<>>
  BY <1>1, <1>2 DEF IdInv, Exchange, NoReply
<1>3. Append(sent[d], m) = <<m>>
  <2> HIDE DEF m
  <2>1. QED
    BY <1>7
<1>4. /\ Fields(m) /\ m.kind = "CLIENT_STATUS" /\ m.status = "SYNCED"
      /\ Fields(Ping) /\ Ping.kind = "PING"
      /\ "SYNCED" \in Statuses
  BY MessageFields DEF Status, Ping, Statuses
<1> HIDE DEF m
<1>5. CASE probe[d].pings > 1
  <2> DEFINE q == Append(<<m>>, Ping)
  <2>1. /\ said' = [said EXCEPT ![d] = @ \union {"SYNCED"}]
        /\ sent' = [sent EXCEPT ![d] = q]
        /\ probe' = [probe EXCEPT ![d].pings = @ - 1]
        /\ UNCHANGED <<phase, answer, terms, report>>
    BY <1>3, <1>5 DEF ProbeSynced, m
  <2>2. /\ IsQueue(q) /\ Len(q) = 2
        /\ \A k \in DOMAIN q : (k = 1 /\ q[k] = m) \/ (k = 2 /\ q[k] = Ping)
    <3>1. /\ IsQueue(<<m>>) /\ Len(<<m>>) = 1
          /\ \A k \in DOMAIN <<m>> : k = 1 /\ <<m>>[k] = m
      BY QueueOf
    <3>2. QED
      BY <3>1, QueueAppend
  <2> HIDE DEF q
  <2>3. /\ \A j \in Ids \ {d} : Kept(j)
        /\ config' = config /\ entry' = entry /\ server' = server /\ setup' = setup
        /\ recovering' = recovering /\ phase' = phase /\ answer' = answer /\ terms' = terms
        /\ reply'[d] = NoReply /\ sent'[d] = q /\ said'[d] = said[d] \union {"SYNCED"}
        /\ DOMAIN said' = Ids /\ DOMAIN reply' = Ids
    BY <1>1, <1>2, <2>1 DEF Kept, Shapes, serverVars
  <2>4. \A k \in DOMAIN q : Fields(q[k])
    BY <1>4, <2>2
  <2>5. Shapes'
    <3>1. /\ DOMAIN phase' = Ids /\ DOMAIN setup' = Ids /\ DOMAIN answer' = Ids
          /\ DOMAIN terms' = Ids /\ DOMAIN entry' = Ids
          /\ \A j \in Ids : DOMAIN entry'[j] = {"role", "terms", "status"}
      BY <1>1, <2>3 DEF Shapes
    <3>2. QED
      BY <1>1, <2>1, <2>2, <2>3, <2>4, <3>1, ShapesAfter
  <2>6. Exchange(d)'
    BY <1>2, <1>4, <2>2, <2>3 DEF Exchange, Asks, Awaiting
  <2>7. Typed(d)'
    BY <1>1, <1>4, <2>2, <2>3 DEF IdInv, Typed, NoReply
  <2>8. Told(d)'
    <3>1. ASSUME Agreed(d, terms[d]) PROVE Agreed(d, terms[d])'
      BY <1>4, <2>2, <2>3, <3>1 DEF Agreed, Known
    <3>2. QED
      BY <1>1, <2>3, <3>1 DEF IdInv, Told, NoReply
  <2>9. /\ probe'[d].pings = probe[d].pings - 1 /\ probe'[d].config = probe[d].config
        /\ DOMAIN probe'[d] = {"config", "site", "packages", "target", "pings", "lost"}
        /\ \A e \in Doctors \ {d} : probe'[e] = probe[e]
        /\ DOMAIN probe' = Doctors /\ report' = report
    BY <1>1, <2>1 DEF DoctorShapes, DoctorInv, DoctorTyped
  <2>10. DoctorTyped(d)'
    BY <1>1, <1>2, <1>5, <2>3, <2>9 DEF DoctorInv, DoctorTyped, Busy
  <2>11. AsDoctor(d)'
    BY <1>1, <1>4, <2>2, <2>3 DEF DoctorInv, AsDoctor, Known
  <2>12. Matched(d)' /\ Answers(d)' /\ Reported(d)'
    BY <1>1, <1>2, <2>3, <2>9 DEF DoctorInv, Matched, Answers, Reported, NoReply
  <2>13. QED
    BY <1>1, <2>3, <2>5, <2>6, <2>7, <2>8, <2>9, <2>10, <2>11, <2>12
    DEF Solo, Alone, IdInv, Globals, DoctorShapes, DoctorInv
<1>6. CASE ~(probe[d].pings > 1)
  <2>1. Leave(d, "ok", <<m>>)
    BY <1>3, <1>6 DEF ProbeSynced, m
  <2>2. Admits(config, d, setup[d])
    BY <1>1, <1>2 DEF DoctorInv, Answers
  <2>3. IsQueue(<<m>>) /\ \A k \in DOMAIN <<m>> : <<m>>[k] = m
    BY QueueOf
  <2>4. QED
    BY <1>1, <1>2, <1>4, <2>1, <2>2, <2>3, LeaveSolo
<1>8. QED
  BY <1>5, <1>6

-----------------------------------------------------------------------------
(* The steps of the others. *)
LEMMA KeptAll ==
    ASSUME IInv, Globals', Shapes', DoctorShapes', \A i \in Ids : Kept(i),
           \A d \in Doctors : probe'[d] = probe[d] /\ report'[d] = report[d]
    PROVE  IInv'
<1>1. \A i \in Ids : IdInv(i)'
  BY KeptInv DEF IInv
<1>2. \A d \in Doctors : DoctorInv(d)'
  BY KeptDoctor, DoctorsAreIds DEF IInv
<1>3. QED
  BY <1>1, <1>2 DEF IInv

LEMMA ClientKeepsIInv ==
    ASSUME IInv, NEW i \in Clients, ClientCommand(i), UNCHANGED doctorVars
    PROVE  IInv'
<1>1. i \in Ids /\ Shapes /\ IdInv(i) /\ Globals /\ i \notin Doctors
  BY AdmissionAssumption DEF IInv, Ids
<1>2. Alone(i)
  BY <1>1, StartClientAlone, RegisteredAlone, SyncedAlone, ReconnectAlone, EndAlone
  DEF ClientCommand
<1>3. Globals'
  BY <1>1 DEF Globals, ClientCommand, StartClient, Registered, Synced, Reconnect, End,
     serverVars
<1>4. Shapes' /\ \A j \in Ids : IdInv(j)'
  BY <1>1, <1>2, AllAfterAlone
<1>5. probe' = probe /\ report' = report
  BY DEF doctorVars
<1>6. \A d \in Doctors : DoctorInv(d)'
  BY <1>1, <1>2, <1>5, KeptDoctor, DoctorsAreIds DEF IInv, Alone
<1>7. QED
  BY <1>3, <1>4, <1>5, <1>6 DEF IInv, DoctorShapes

LEMMA ServerKeepsIInv ==
    ASSUME IInv, NEW i \in Ids, ServeLoop(i) \/ (HealthScan(i) /\ UNCHANGED doctorVars)
    PROVE  IInv'
<1>1. Shapes /\ IdInv(i) /\ Globals
  BY DEF IInv
<1>2. Alone(i)
  BY <1>1, HandleRegisterAlone, HandlerRaisesAlone, HandlePingAlone, HandleStatusAlone,
     HealthScanAlone DEF ServeLoop, Handle
<1>3. Globals'
  <2>1. /\ config' = config /\ recovering' = recovering
        /\ server' \in {server, "up", "dead"}
    BY DEF ServeLoop, Handle, HandleRegister, HandlerRaises, HandlePing, HandleStatus,
       HealthScan, Respond, clientVars
  <2>2. QED
    BY <1>1, <2>1 DEF Globals
<1>4. Shapes' /\ \A j \in Ids : IdInv(j)'
  BY <1>2, AllAfterAlone
<1>5. DoctorShapes'
  <2>1. CASE ServeLoop(i)
    BY <2>1, OrphanFacts DEF ServeLoop, IInv, DoctorShapes
  <2>2. CASE UNCHANGED doctorVars
    BY <2>2 DEF IInv, DoctorShapes, doctorVars
  <2>3. QED
    BY <2>1, <2>2
<1>6. \A d \in Doctors \ {i} : DoctorInv(d)'
  <2>1. \A d \in Doctors \ {i} : DoctorInv(d) /\ Kept(d) /\ DoctorShapes
    BY <1>2, DoctorsAreIds DEF IInv, Alone
  <2>2. CASE ServeLoop(i)
    BY <2>1, <2>2, OrphanDoctor DEF ServeLoop
  <2>3. CASE UNCHANGED doctorVars
    BY <2>1, <2>3, KeptDoctor DEF doctorVars
  <2>4. QED
    BY <2>2, <2>3
<1>7. i \in Doctors => DoctorInv(i)'
  BY <1>1, HandleDoctor, ScanDoctor DEF IInv
<1>8. QED
  BY <1>3, <1>4, <1>5, <1>6, <1>7 DEF IInv

LEMMA StopKeepsIInv ==
    ASSUME IInv, ServerStop, Orphan, UNCHANGED report
    PROVE  IInv'
<1>1. PICK lost \in SUBSET Ids :
          sent' = [i \in Ids |-> IF i \in lost THEN <<>> ELSE sent[i]]
  BY DEF ServerStop
<1>2. /\ Globals'
      /\ entry' = [i \in Ids |-> NoEntry]
      /\ UNCHANGED <<config, phase, setup, answer, terms, said, reply, report>>
  BY DEF IInv, Globals, ServerStop, clientVars
<1>3. \A i \in Ids : /\ entry'[i] = NoEntry
                     /\ ~Known(i)'
                     /\ sent'[i] = <<>> \/ sent'[i] = sent[i]
  BY <1>1, <1>2 DEF Known
<1>4. Shapes'
  <2>1. \A i \in Ids : IsQueue(sent'[i]) /\ \A k \in DOMAIN sent'[i] : Fields(sent'[i][k])
    BY <1>3, QueueEmpty DEF IInv, Shapes
  <2>2. DOMAIN sent' = Ids
    BY <1>1
  <2>3. QED
    BY <1>2, <2>1, <2>2 DEF IInv, Shapes, NoEntry
<1>5. \A i \in Ids : IdInv(i)'
  <2>1. SUFFICES ASSUME NEW i \in Ids PROVE IdInv(i)'
    OBVIOUS
  <2>2. IdInv(i) /\ (sent'[i] = sent[i] \/ (DOMAIN sent'[i] = {} /\ sent'[i] = <<>>))
    BY <1>3, QueueEmpty DEF IInv
  <2>3. Typed(i)' /\ Exchange(i)'
    BY <1>2, <1>3, <2>2 DEF IdInv, Typed, Exchange, NoEntry, Statuses
  <2>4. ASSUME NEW t, Agreed(i, t) PROVE Agreed(i, t)'
    BY <1>2, <1>3, <2>2, <2>4 DEF Agreed
  <2>5. answer[i] = "OK" => Agreed(i, terms[i])'
    <3>1. ASSUME answer[i] = "OK" PROVE Agreed(i, terms[i])'
      <4>1. PICK t : t = terms[i]
        OBVIOUS
      <4>2. Agreed(i, t)'
        BY <2>2, <2>4, <3>1, <4>1 DEF IdInv, Told
      <4>3. QED
        BY <1>2, <4>1, <4>2 DEF Agreed
    <3>2. QED
      BY <3>1
  <2>6. reply[i].verdict = "OK" => Agreed(i, reply[i].terms)'
    <3>1. ASSUME reply[i].verdict = "OK" PROVE Agreed(i, reply[i].terms)'
      <4>1. PICK t : t = reply[i].terms
        OBVIOUS
      <4>2. Agreed(i, t)'
        BY <2>2, <2>4, <3>1, <4>1 DEF IdInv, Told
      <4>3. QED
        BY <1>2, <4>1, <4>2 DEF Agreed
    <3>2. QED
      BY <3>1
  <2>7. Told(i)'
    BY <1>2, <2>2, <2>5, <2>6 DEF IdInv, Told
  <2>8. QED
    BY <2>3, <2>7 DEF IdInv
<1>6. DoctorShapes'
  BY <1>2, OrphanFacts DEF IInv, DoctorShapes
<1>7. \A d \in Doctors : DoctorInv(d)'
  <2>1. SUFFICES ASSUME NEW d \in Doctors PROVE DoctorInv(d)'
    OBVIOUS
  <2>2. d \in Ids /\ DoctorInv(d)
    BY DoctorsAreIds DEF IInv
  <2>3. /\ DOMAIN probe'[d] = DOMAIN probe[d]
        /\ probe'[d].config = probe[d].config /\ probe'[d].pings = probe[d].pings
        /\ probe'[d].target = probe[d].target
    BY <2>2, OrphanFacts DEF IInv, DoctorInv
  <2>4. DoctorTyped(d)' /\ Matched(d)' /\ Answers(d)' /\ Reported(d)'
    BY <1>2, <2>2, <2>3 DEF DoctorInv, DoctorTyped, Matched, Answers, Reported
  <2>5. AsDoctor(d)'
    BY <1>3, <2>2, QueueEmpty DEF DoctorInv, AsDoctor
  <2>6. QED
    BY <2>4, <2>5 DEF DoctorInv
<1>8. QED
  BY <1>2, <1>4, <1>5, <1>6, <1>7 DEF IInv

-----------------------------------------------------------------------------
LEMMA InitIInv == Init => IInv
<1> SUFFICES ASSUME Init PROVE IInv
  OBVIOUS
<1> USE DEF Init, AdmissionInit
<1>1. Globals /\ Shapes /\ DoctorShapes
  BY QueueEmpty DEF Globals, Shapes, DoctorShapes, NoEntry
<1>2. \A i \in Ids : IdInv(i)
  BY QueueEmpty DEF IdInv, Typed, Exchange, Told, NoEntry, NoReply, Statuses, Phases
<1>3. \A d \in Doctors : DoctorInv(d)
  BY QueueEmpty, DoctorsAreIds DEF DoctorInv, DoctorTyped, AsDoctor, Matched, Answers,
     Reported, NoEntry, NoReply, NoProbe, NoReport, Busy, Known
<1>4. QED
  BY <1>1, <1>2, <1>3 DEF IInv

LEMMA NextIInv == IInv /\ [Next]_vars => IInv'
<1> SUFFICES ASSUME IInv, [Next]_vars PROVE IInv'
  OBVIOUS
<1>1. CASE \E i \in Clients : ClientCommand(i) /\ UNCHANGED doctorVars
  BY <1>1, ClientKeepsIInv
<1>2. CASE \E d \in Doctors : DoctorStarts(d)
  BY <1>2, StartDoctorSolo, SoloInv DEF DoctorStarts
<1>3. CASE \E d \in Doctors : DoctorRuns(d) \/ Interrupt(d)
  <2>1. PICK d \in Doctors : DoctorRuns(d) \/ Interrupt(d)
    BY <1>3
  <2>2. Solo(d)
    BY <2>1, ResolveSolo, DiscoverRaisesSolo, ProbeSolo, SkipProbeSolo,
       ProbeRegisteredSolo, ProbeSyncedSolo, InterruptSolo DEF DoctorRuns
  <2>3. QED
    BY <2>2, SoloInv
<1>4. CASE \E i \in Ids : ServeLoop(i) \/ (HealthScan(i) /\ UNCHANGED doctorVars)
  BY <1>4, ServerKeepsIInv
<1>5. CASE (ServerStart /\ UNCHANGED doctorVars) \/ UNCHANGED vars
  <2>1. /\ UNCHANGED <<config, entry, recovering, phase, setup, answer, terms, said, sent,
                        reply, probe, report>>
        /\ server' \in {"up", server}
    BY <1>5 DEF ServerStart, vars, admissionVars, doctorVars, serverVars, clientVars, netVars
  <2>2. Globals' /\ Shapes' /\ DoctorShapes'
    BY <2>1 DEF IInv, Globals, Shapes, DoctorShapes
  <2>3. QED
    BY <2>1, <2>2, KeptAll DEF Kept
<1>6. CASE ServerStop /\ Orphan /\ UNCHANGED report
  BY <1>6, StopKeepsIInv
<1>7. QED
  BY <1>1, <1>2, <1>3, <1>4, <1>5, <1>6 DEF Next

(* The invariant that carries the rest: each id has at most one question    *)
(* open, and it is the last message it has sent.                            *)
THEOREM SpecIInv == Spec => []IInv
  BY InitIInv, NextIInv, PTL DEF Spec

(* Every variable has its type, in every run of any number of programs. *)
THEOREM TypeCorrect == Spec => []TypeOK
<1>1. IInv => TypeOK
  BY DEF IInv, Globals, IdInv, Typed, DoctorInv, DoctorTyped, TypeOK
<1>2. QED
  BY <1>1, SpecIInv, PTL

(* Whatever setups its id was run with before, whatever was lost with a     *)
(* connection or a server and whatever is late: what an admitted client was *)
(* told (register) is what the registry holds of it (register_or_refresh).  *)
THEOREM TermsAlwaysAgree == Spec => []TermsAgree
<1>1. IInv => TermsAgree
  BY DEF IInv, IdInv, Told, Agreed, TermsAgree
<1>2. QED
  BY <1>1, SpecIInv, PTL

(* The barrier never takes the READY of an earlier run of the same id for   *)
(* that of the client that was admitted since.                              *)
THEOREM ReadyIsNeverStale == Spec => []ReadyIsOfThisRun
<1>1. IInv => ReadyIsOfThisRun
  BY DEF IInv, IdInv, Told, Agreed, ReadyIsOfThisRun
<1>2. QED
  BY <1>1, SpecIInv, PTL

(* The report of a doctor is the verdict of the server's handler, for any   *)
(* configurations of the two and any course of events between them.  The    *)
(* versions are those that parse_protocol_version makes sense of or raises  *)
(* on: a server whose version is another text refuses everybody, those      *)
(* whose version is the same text included.                                 *)
THEOREM ReportsAreTrue ==
    ASSUME \A c \in ServerConfigs : c.protocol.version.kind \in {"text", "number"}
    PROVE  Spec => []ReportIsTrue
<1>1. IInv => ReportIsTrue
  <2>1. SUFFICES ASSUME IInv, NEW d \in Doctors, phase[d] = "reported"
                 PROVE  LET r == report[d]
                            admitted == Admits(config, d, setup[d])
                        IN  /\ r.handshake = "ok" => admitted
                            /\ r.handshake = "failed" => ~admitted
                            /\ r.handshake = "failed" /\ r.match = "yes"
                                  => config.security.require_secret
                            /\ ~r.reachable => /\ r.handshake = "none"
                                               /\ probe[d].target.host \notin Loopback
    BY DEF ReportIsTrue
  <2>2. Reported(d) /\ Matched(d)
    BY <2>1 DEF IInv, DoctorInv
  <2>3. config.protocol.version.kind \in {"text", "number"}
    BY <2>1 DEF IInv, Globals
  <2>4. ASSUME report[d].handshake = "failed", report[d].match = "yes"
        PROVE  config.security.require_secret
    <3>1. config.protocol.version = setup[d].version
      BY <2>1, <2>2, <2>4 DEF Matched, Reported, AsText
    <3>2. Compatible(config.protocol.version, setup[d].version)
      BY <2>1, <2>2, <2>3, <2>4, <3>1 DEF Compatible, Reported
    <3>3. QED
      BY <2>1, <2>2, <2>4, <3>2 DEF Reported, Admits, Authentic
  <2>5. QED
    BY <2>1, <2>2, <2>4 DEF Reported
<1>2. QED
  BY <1>1, SpecIInv, PTL
=============================================================================
