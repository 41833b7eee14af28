--------------------------- MODULE SenderKeysProofs ---------------------------
(***************************************************************************)
(* Theorems about SenderKeys, for every set of members and all limits.     *)
(* GroupInv is inductive; the theorems follow from it.                     *)
(***************************************************************************)
EXTENDS SenderKeys, FiniteSetTheorems, TLAPS

SkippedKeys == UNION {[D -> ChainKey] : D \in SUBSET Nat}

State == [distributionId : Chains, chainKey : ChainKey, iteration : Nat,
          skippedMessageKeys : SkippedKeys]

Distribution == [distributionId : Chains, iteration : Nat, chainKey : ChainKey,
                 identityKey : Nat]

KeyOf(chain, step) == [chain |-> chain, step |-> step]

(* A state that stands for its chain and stores no more keys than allowed. *)
GoodState(state) ==
    /\ state \in State
    /\ AgreesWithChain(state)
    /\ IsFiniteSet(DOMAIN state.skippedMessageKeys)
    /\ Cardinality(DOMAIN state.skippedMessageKeys) <= MAX_SKIPPED_KEYS_STORED

HoldsOnce(states) ==
    \A i, j \in 1 .. Len(states) :
        states[i].distributionId = states[j].distributionId => i = j

(* A record of good states of the chains there are, each held once.        *)
GoodRecord(states, chains) ==
    /\ states \in Seq(State)
    /\ Len(states) <= MAX_SENDER_KEY_STATES
    /\ \A i \in 1 .. Len(states) :
        GoodState(states[i]) /\ states[i].distributionId <= chains
    /\ HoldsOnce(states)

(* The key of a message, or of a distribution message, is the one of its   *)
(* chain and iteration.                                                    *)
GoodMessage(message) ==
    /\ message \in Message
    /\ message.key = KeyOf(message.distributionId, message.iteration)

GoodSkdm(skdm) ==
    /\ skdm \in Distribution
    /\ skdm.chainKey = KeyOf(skdm.distributionId, skdm.iteration)

SenderTypeOK ==
    /\ identity \in Nat
    /\ created \in 0 .. MaxChains
    /\ GoodRecord(own, created)
    /\ IsFiniteSet(sent)
    /\ \A message \in sent : GoodMessage(message) /\ message.distributionId <= created
    /\ \A skdm \in skdms : GoodSkdm(skdm) /\ skdm.distributionId <= created

(* What the sender has sent is behind the iteration at which it stands.    *)
BehindOwn ==
    \A message \in sent : \A i \in 1 .. Len(own) :
        own[i].distributionId = message.distributionId
        => message.iteration < own[i].iteration

SenderInv ==
    /\ SenderTypeOK
    /\ BehindOwn
    /\ OneMessagePerKey

MemberTypeOK(m) ==
    /\ pinned[m] \in Nat \cup {NotPinned}
    /\ GoodRecord(record[m], created)
    /\ delivered[m] \subseteq sent
    /\ skipped[m] \subseteq Chains \X Nat
    /\ IsFiniteSet(skipped[m])
    /\ joined[m] \in [Chains -> Nat \cup {NotJoined}]
    /\ overtaken[m] \in BOOLEAN

(* A message that m has opened is behind the chain m holds, and its key is *)
(* gone, unless m has given the chain up.                                  *)
SpentInv(m) ==
    /\ \A message \in delivered[m] :
        message.distributionId \notin retired[m] =>
            \E i \in 1 .. Len(record[m]) :
                /\ record[m][i].distributionId = message.distributionId
                /\ message.iteration < record[m][i].iteration
                /\ message.iteration \notin DOMAIN record[m][i].skippedMessageKeys
    /\ \A message \in repeated[m] : message.distributionId \in retired[m]

(* Every iteration since m took the chain in is stored, opened, or has had *)
(* to make way.                                                            *)
LaterSkipped(m, chain, n) == {s \in skipped[m] : s[1] = chain /\ s[2] > n}

Accounted(m, state, n) ==
    \/ n \in DOMAIN state.skippedMessageKeys
    \/ \E message \in delivered[m] :
          message.distributionId = state.distributionId /\ message.iteration = n
    \/ Cardinality(LaterSkipped(m, state.distributionId, n)) >= MAX_SKIPPED_KEYS_STORED

ChainInv(m, state) ==
    /\ joined[m][state.distributionId] \in 0 .. state.iteration
    /\ \A n \in DOMAIN state.skippedMessageKeys : <<state.distributionId, n>> \in skipped[m]
    /\ \A n \in joined[m][state.distributionId] .. state.iteration - 1 :
          Accounted(m, state, n)
    /\ m \in misfiled =>
          /\ state.iteration = joined[m][state.distributionId]
          /\ DOMAIN state.skippedMessageKeys = {}

(* Chains taken in in order: a chain that is gone was evicted for          *)
(* MAX_SENDER_KEY_STATES later ones.                                       *)
OrderInv(m) ==
    ~overtaken[m] =>
        /\ \A i, j \in 1 .. Len(record[m]) :
              i <= j => record[m][j].distributionId - record[m][i].distributionId >= j - i
        /\ RecentChainKept(m)

MemberInv(m) ==
    /\ MemberTypeOK(m)
    /\ SpentInv(m)
    /\ \A i \in 1 .. Len(record[m]) : ChainInv(m, record[m][i])
    /\ OrderInv(m)

(* The variables of the members are indexed by them.                       *)
Arrays ==
    /\ DOMAIN pinned = Members /\ DOMAIN record = Members
    /\ DOMAIN delivered = Members /\ DOMAIN repeated = Members
    /\ DOMAIN skipped = Members /\ DOMAIN joined = Members
    /\ DOMAIN retired = Members /\ DOMAIN overtaken = Members
    /\ pinned = [m \in Members |-> pinned[m]]
    /\ delivered = [m \in Members |-> delivered[m]]

GroupInv ==
    /\ SenderInv
    /\ Arrays
    /\ misfiled \subseteq Members
    /\ \A m \in Members : MemberInv(m)

-----------------------------------------------------------------------------
(* Lemmas about the operators on states and records.                       *)

(* What EvictOldest keeps is within the cap, and what it lets go has as    *)
(* many later keys.                                                        *)
LEMMA EvictOldestKeepsNewest ==
    ASSUME NEW keys, DOMAIN keys \subseteq Nat, IsFiniteSet(DOMAIN keys)
    PROVE  /\ DOMAIN EvictOldest(keys) \subseteq DOMAIN keys
           /\ \A i \in DOMAIN EvictOldest(keys) : EvictOldest(keys)[i] = keys[i]
           /\ IsFiniteSet(DOMAIN EvictOldest(keys))
           /\ Cardinality(DOMAIN EvictOldest(keys)) <= MAX_SKIPPED_KEYS_STORED
           /\ \A n \in DOMAIN keys \ DOMAIN EvictOldest(keys) :
                 Cardinality({k \in DOMAIN keys : k > n}) >= MAX_SKIPPED_KEYS_STORED
PROOF
  <1>. DEFINE D == DOMAIN keys
              Later(j) == {k \in D : k > j}
              E == {j \in D : Cardinality(Later(j)) < MAX_SKIPPED_KEYS_STORED}
              f == [j \in E |-> Cardinality(Later(j))]
              T == 0 .. MAX_SKIPPED_KEYS_STORED - 1
  <1>1. DOMAIN EvictOldest(keys) = E /\ \A i \in E : EvictOldest(keys)[i] = keys[i]
    BY DEF EvictOldest
  <1>2. \A j \in D : IsFiniteSet(Later(j)) /\ Cardinality(Later(j)) \in Nat
    BY FS_Subset, FS_CardinalityType
  <1>3. MAX_SKIPPED_KEYS_STORED \in Nat
    BY SenderKeysAssumption
  <1>4. f \in [E -> T]
    BY <1>2, <1>3
  <1>5. \A i, j \in E : i < j => f[j] < f[i]
    <2>. SUFFICES ASSUME NEW i \in E, NEW j \in E, i < j PROVE f[j] < f[i]
      OBVIOUS
    <2>1. Later(j) \in SUBSET Later(i)
      OBVIOUS
    <2>2. j \in Later(i) /\ j \notin Later(j)
      OBVIOUS
    <2>3. /\ Cardinality(Later(j)) <= Cardinality(Later(i))
          /\ Cardinality(Later(i)) = Cardinality(Later(j)) => Later(i) = Later(j)
      BY <2>1, <1>2, FS_Subset
    <2>. QED BY <2>2, <2>3, <1>2
  <1>6. f \in Injection(E, T)
    BY <1>4, <1>5, SMTT(30) DEF Injection, IsInjective
  <1>7. IsFiniteSet(T) /\ Cardinality(T) = MAX_SKIPPED_KEYS_STORED
    BY <1>3, FS_Interval
  <1>8. IsFiniteSet(E) /\ Cardinality(E) <= MAX_SKIPPED_KEYS_STORED
    BY <1>6, <1>7, FS_Injection
  <1>9. \A n \in D \ E : Cardinality(Later(n)) >= MAX_SKIPPED_KEYS_STORED
    BY <1>2, <1>3
  <1>. QED BY <1>1, <1>8, <1>9
(* A record holds a chain once, so Find has one answer.                    *)
LEMMA FindFinds ==
    ASSUME NEW states, states \in Seq(State), HoldsOnce(states),
           NEW i \in 1 .. Len(states)
    PROVE  Find(states, states[i].distributionId) = i
PROOF
  <1>. DEFINE P(k) == /\ states[k].distributionId = states[i].distributionId
                      /\ \A j \in 1 .. k - 1 :
                            states[j].distributionId # states[i].distributionId
  <1>1. DOMAIN states = 1 .. Len(states) /\ Len(states) \in Nat
    OBVIOUS
  <1>2. \A k \in DOMAIN states : P(k) => k = i
    BY <1>1 DEF HoldsOnce
  <1>3. P(i)
    BY <1>1 DEF HoldsOnce
  <1>4. Find(states, states[i].distributionId) = CHOOSE k \in DOMAIN states : P(k)
    BY DEF Find
  <1>. QED BY <1>1, <1>2, <1>3, <1>4

(* Add appends, and takes the first chain away once there are too many.    *)
LEMMA AddShape ==
    ASSUME NEW states \in Seq(State), Len(states) <= MAX_SENDER_KEY_STATES,
           NEW state \in State
    PROVE  /\ Add(states, state) \in Seq(State)
           /\ \E d \in {0, 1} :
                /\ d = 1 => Len(states) = MAX_SENDER_KEY_STATES
                /\ Len(Add(states, state)) = Len(states) + 1 - d
                /\ Len(Add(states, state)) \in 1 .. MAX_SENDER_KEY_STATES
                /\ Add(states, state)[Len(states) + 1 - d] = state
                /\ \A i \in 1 .. Len(states) - d : Add(states, state)[i] = states[i + d]
PROOF
  <1>. DEFINE longer == Append(states, state)
  <1>1. /\ longer \in Seq(State) /\ longer # <<>>
        /\ Len(states) \in Nat
        /\ Len(longer) = Len(states) + 1
        /\ \A i \in 1 .. Len(states) : longer[i] = states[i]
        /\ longer[Len(states) + 1] = state
    <2>1. Len(<<>>) = 0
      OBVIOUS
    <2>. QED BY <2>1
  <1>2. MAX_SENDER_KEY_STATES \in Nat \ {0}
    BY SenderKeysAssumption
  <1>3. CASE Len(longer) <= MAX_SENDER_KEY_STATES
    <2>1. Add(states, state) = longer
      BY <1>3 DEF Add
    <2>. HIDE DEF longer
    <2>2. \A i \in 1 .. Len(states) - 0 : Add(states, state)[i] = states[i + 0]
      BY <2>1, <1>1
    <2>. QED BY <2>1, <2>2, <1>1, <1>2, <1>3
  <1>4. CASE ~(Len(longer) <= MAX_SENDER_KEY_STATES)
    <2>1. Add(states, state) = Tail(longer)
      BY <1>4 DEF Add
    <2>. HIDE DEF longer
    <2>2. /\ Tail(longer) \in Seq(State)
          /\ Len(Tail(longer)) = Len(longer) - 1
          /\ \A i \in 1 .. Len(longer) - 1 : Tail(longer)[i] = longer[i + 1]
      BY <1>1
    <2>3. Len(states) = MAX_SENDER_KEY_STATES
      BY <1>1, <1>2, <1>4
    <2>4. \A i \in 1 .. Len(states) - 1 : Tail(longer)[i] = states[i + 1]
      BY <1>1, <2>2
    <2>5. Tail(longer)[Len(states) + 1 - 1] = state
      BY <1>1, <1>2, <2>2, <2>3
    <2>. QED BY <2>1, <2>2, <2>3, <2>4, <2>5, <1>1, <1>2
  <1>. QED BY <1>3, <1>4

(* The bounds are numbers.                                                 *)
LEMMA Limits ==
    /\ MaxChains \in Nat /\ Chains \subseteq Nat \ {0}
    /\ MAX_SENDER_KEY_STATES \in Nat \ {0} /\ MAX_SKIPPED_KEYS_STORED \in Nat
  BY SenderKeysAssumption DEF Chains

(* The parts of a good state that its type gives.                          *)
LEMMA StateParts ==
    ASSUME NEW state, state \in State
    PROVE  /\ DOMAIN state.skippedMessageKeys \subseteq Nat
           /\ \A i \in DOMAIN state.skippedMessageKeys :
                 state.skippedMessageKeys[i] \in ChainKey
           /\ state.iteration \in Nat /\ state.distributionId \in Chains
           /\ state.chainKey \in ChainKey
  BY DEF State, SkippedKeys
(* A late message takes its key out of the skipped ones.                   *)
LEMMA TakenKey ==
    ASSUME NEW state, GoodState(state), NEW n \in Nat
    PROVE  LET after == TakeSkippedKey(state, n)
           IN  /\ GoodState(after)
               /\ after.distributionId = state.distributionId
               /\ after.iteration = state.iteration
               /\ DOMAIN after.skippedMessageKeys = DOMAIN state.skippedMessageKeys \ {n}
PROOF
  <1>. DEFINE old == state.skippedMessageKeys
              keys == [i \in DOMAIN old \ {n} |-> old[i]]
              after == TakeSkippedKey(state, n)
  <1>1. after = [state EXCEPT !.skippedMessageKeys = keys]
    BY DEF TakeSkippedKey
  <1>2. state \in State /\ AgreesWithChain(state)
    BY DEF GoodState
  <1>3. /\ DOMAIN keys = DOMAIN old \ {n} /\ \A i \in DOMAIN keys : keys[i] = old[i]
        /\ DOMAIN keys \in SUBSET DOMAIN old
    OBVIOUS
  <1>4. keys \in SkippedKeys
    <2>1. keys \in [DOMAIN keys -> ChainKey] /\ DOMAIN keys \in SUBSET Nat
      BY <1>2, <1>3, StateParts
    <2>. QED BY <2>1 DEF SkippedKeys
  <1>. HIDE DEF keys
  <1>5. /\ after \in State
        /\ after.distributionId = state.distributionId
        /\ after.iteration = state.iteration
        /\ after.chainKey = state.chainKey
        /\ after.skippedMessageKeys = keys
    BY <1>1, <1>2, <1>4 DEF State
  <1>6. AgreesWithChain(after)
    BY <1>2, <1>3, <1>5 DEF AgreesWithChain
  <1>7. /\ IsFiniteSet(DOMAIN keys)
        /\ Cardinality(DOMAIN keys) <= MAX_SKIPPED_KEYS_STORED
    <2>1. /\ IsFiniteSet(DOMAIN old) /\ IsFiniteSet(DOMAIN keys)
          /\ Cardinality(DOMAIN keys) <= Cardinality(DOMAIN old)
          /\ Cardinality(DOMAIN old) <= MAX_SKIPPED_KEYS_STORED
      BY <1>3, FS_Subset DEF GoodState
    <2>2. Cardinality(DOMAIN old) \in Nat /\ Cardinality(DOMAIN keys) \in Nat
      BY <2>1, FS_CardinalityType
    <2>. QED BY <2>1, <2>2, SenderKeysAssumption
  <1>. QED BY <1>3, <1>5, <1>6, <1>7 DEF GoodState

(* A message at or ahead of a chain moves it past its iteration and leaves *)
(* the keys of the gap, as far as they fit.                                *)
LEMMA SkippedAhead ==
    ASSUME NEW state, GoodState(state), NEW n \in Nat, n >= state.iteration
    PROVE  LET after == Advance(SkipTo(state, n))
               keys == DOMAIN state.skippedMessageKeys \cup Gap(state, n)
           IN  /\ GoodState(after)
               /\ after.distributionId = state.distributionId
               /\ after.iteration = n + 1
               /\ DOMAIN after.skippedMessageKeys \subseteq keys
               /\ n \notin DOMAIN after.skippedMessageKeys
               /\ \A k \in keys \ DOMAIN after.skippedMessageKeys :
                     Cardinality({l \in keys : l > k}) >= MAX_SKIPPED_KEYS_STORED
PROOF
  <1>. DEFINE c == state.distributionId
              old == state.skippedMessageKeys
              gap == Gap(state, n)
              D == DOMAIN old \cup gap
              merged == [i \in D |->
                           IF i \in DOMAIN old THEN old[i]
                           ELSE NextChainKey(state.chainKey, i - state.iteration)]
              keys == EvictOldest(merged)
              ahead == SkipTo(state, n)
              after == Advance(ahead)
  <1>1. state \in State /\ AgreesWithChain(state) /\ IsFiniteSet(DOMAIN old)
    BY DEF GoodState
  <1>2. /\ state.iteration \in Nat /\ c \in Chains
        /\ DOMAIN old \subseteq Nat
    BY <1>1, StateParts
  <1>3. /\ state.chainKey = KeyOf(c, state.iteration)
        /\ \A i \in DOMAIN old : i < state.iteration /\ old[i] = KeyOf(c, i)
    BY <1>1 DEF AgreesWithChain, KeyOf
  <1>4. \A i \in Nat : KeyOf(c, i) \in ChainKey
    BY <1>2 DEF KeyOf, ChainKey, Chains
  <1>5. \A i, d \in Nat : NextChainKey(KeyOf(c, i), d) = KeyOf(c, i + d)
    BY DEF NextChainKey, KeyOf
  <1>6. ahead = [state EXCEPT !.chainKey = NextChainKey(state.chainKey, n - state.iteration),
                              !.iteration = n, !.skippedMessageKeys = keys]
    BY DEF SkipTo
  <1>7. gap = state.iteration .. n - 1
    BY DEF Gap
  <1>. HIDE DEF c, old, gap
  <1>8. IsFiniteSet(gap)
    BY <1>2, <1>7, FS_Interval
  <1>9. IsFiniteSet(D)
    BY <1>1, <1>8, FS_Union
  <1>10. D \subseteq Nat /\ \A i \in D : i < n
    BY <1>2, <1>3, <1>7
  <1>11. DOMAIN merged = D /\ \A i \in D : merged[i] = KeyOf(c, i)
    <2>1. DOMAIN merged = D
      OBVIOUS
    <2>2. ASSUME NEW i \in gap PROVE NextChainKey(state.chainKey, i - state.iteration) = KeyOf(c, i)
      <3>1. i - state.iteration \in Nat /\ state.iteration + (i - state.iteration) = i
        BY <1>2, <1>7
      <3>. QED BY <3>1, <1>2, <1>3, <1>5
    <2>. QED BY <1>3, <2>1, <2>2
  <1>. HIDE DEF D, merged
  <1>12. /\ DOMAIN keys \subseteq D
         /\ \A i \in DOMAIN keys : keys[i] = KeyOf(c, i)
         /\ IsFiniteSet(DOMAIN keys)
         /\ Cardinality(DOMAIN keys) <= MAX_SKIPPED_KEYS_STORED
         /\ \A k \in D \ DOMAIN keys :
               Cardinality({l \in D : l > k}) >= MAX_SKIPPED_KEYS_STORED
    <2>1. IsFiniteSet(DOMAIN merged) /\ DOMAIN merged \subseteq Nat
      BY <1>9, <1>10, <1>11
    <2>2. /\ DOMAIN keys \subseteq DOMAIN merged
          /\ \A i \in DOMAIN keys : keys[i] = merged[i]
          /\ IsFiniteSet(DOMAIN keys)
          /\ Cardinality(DOMAIN keys) <= MAX_SKIPPED_KEYS_STORED
          /\ \A k \in DOMAIN merged \ DOMAIN keys :
                Cardinality({l \in DOMAIN merged : l > k}) >= MAX_SKIPPED_KEYS_STORED
      BY <2>1, EvictOldestKeepsNewest
    <2>3. \A k \in D : {l \in DOMAIN merged : l > k} = {l \in D : l > k}
      BY <1>11
    <2>. QED BY <1>11, <2>2, <2>3
  <1>13. keys \in SkippedKeys
    <2>1. keys = [i \in DOMAIN keys |-> keys[i]]
      BY DEF EvictOldest
    <2>2. \A i \in DOMAIN keys : keys[i] \in ChainKey
      BY <1>4, <1>10, <1>12
    <2>3. keys \in [DOMAIN keys -> ChainKey] /\ DOMAIN keys \in SUBSET Nat
      BY <2>1, <2>2, <1>10, <1>12
    <2>. QED BY <2>3 DEF SkippedKeys
  <1>. HIDE DEF keys
  <1>14. NextChainKey(state.chainKey, n - state.iteration) = KeyOf(c, n)
    <2>1. n - state.iteration \in Nat /\ state.iteration + (n - state.iteration) = n
      BY <1>2
    <2>. QED BY <2>1, <1>2, <1>3, <1>5
  <1>15. /\ ahead \in State
         /\ ahead.distributionId = c
         /\ ahead.iteration = n
         /\ ahead.chainKey = KeyOf(c, n)
         /\ ahead.skippedMessageKeys = keys
    BY <1>1, <1>4, <1>6, <1>13, <1>14 DEF State, c
  <1>. HIDE DEF ahead
  <1>16. /\ after \in State
         /\ after.distributionId = c
         /\ after.iteration = n + 1
         /\ after.chainKey = KeyOf(c, n + 1)
         /\ after.skippedMessageKeys = keys
    <2>1. NextChainKey(KeyOf(c, n), 1) = KeyOf(c, n + 1)
      BY <1>5
    <2>3. after = [ahead EXCEPT !.chainKey = KeyOf(c, n + 1), !.iteration = n + 1]
      BY <1>15, <2>1 DEF Advance
    <2>2. KeyOf(c, n + 1) \in ChainKey /\ n + 1 \in Nat
      BY <1>4
    <2>. QED BY <1>15, <2>2, <2>3 DEF State
  <1>. HIDE DEF after
  <1>17. AgreesWithChain(after)
    <2>1. \A i \in D : i < n + 1
      BY <1>10
    <2>2. \A i \in DOMAIN keys : i < n + 1 /\ keys[i] = KeyOf(c, i)
      BY <1>12, <2>1
    <2>. QED BY <1>16, <2>2 DEF AgreesWithChain, KeyOf
  <1>18. GoodState(after)
    BY <1>12, <1>16, <1>17 DEF GoodState
  <1>19. n \notin DOMAIN keys
    BY <1>10, <1>12
  <1>20. DOMAIN after.skippedMessageKeys = DOMAIN keys
    BY <1>16
  <1>. QED BY <1>12, <1>16, <1>18, <1>19, <1>20 DEF after, ahead, D, old, gap, c
(* A message that opens moves its chain past it and takes its key away.    *)
LEMMA StateAfterOpening ==
    ASSUME NEW state, GoodState(state), NEW message, GoodMessage(message),
           message.distributionId = state.distributionId,
           KeyFor(state, message) = message.key
    PROVE  LET after == StateAfter(state, message)
               keys == DOMAIN state.skippedMessageKeys \cup Gap(state, message.iteration)
           IN  /\ GoodState(after)
               /\ after.distributionId = state.distributionId
               /\ after.iteration >= state.iteration
               /\ after.iteration > message.iteration
               /\ message.iteration \notin DOMAIN after.skippedMessageKeys
               /\ DOMAIN after.skippedMessageKeys \subseteq keys
               /\ \A n \in keys \ DOMAIN after.skippedMessageKeys :
                     \/ n = message.iteration
                     \/ Cardinality({l \in keys : l > n}) >= MAX_SKIPPED_KEYS_STORED
               /\ state.iteration .. after.iteration - 1 \subseteq keys \cup {message.iteration}
               /\ \/ message.iteration >= state.iteration
                  \/ message.iteration \in DOMAIN state.skippedMessageKeys
PROOF
  <1>. DEFINE n == message.iteration
              after == StateAfter(state, message)
              keys == DOMAIN state.skippedMessageKeys \cup Gap(state, n)
  <1>1. state \in State /\ n \in Nat /\ state.iteration \in Nat
        /\ message.key.chain \in Chains
    BY StateParts DEF GoodState, GoodMessage, Message, KeyOf
  <1>2. CASE IsLate(state, message)
    <2>1. n < state.iteration
      BY <1>2 DEF IsLate
    <2>2. n \in DOMAIN state.skippedMessageKeys
      <3>1. message.key # NoKey
        BY <1>1 DEF NoKey, Chains
      <3>. QED BY <1>2, <3>1 DEF KeyFor
    <2>3. after = TakeSkippedKey(state, n)
      BY <1>2 DEF StateAfter
    <2>4. /\ GoodState(after)
          /\ after.distributionId = state.distributionId
          /\ after.iteration = state.iteration
          /\ DOMAIN after.skippedMessageKeys = DOMAIN state.skippedMessageKeys \ {n}
      BY <1>1, <2>3, TakenKey, SMTT(30)
    <2>5. Gap(state, n) = {} /\ state.iteration .. state.iteration - 1 = {}
      BY <1>1, <2>1 DEF Gap
    <2>. QED BY <1>1, <2>1, <2>2, <2>4, <2>5
  <1>3. CASE ~IsLate(state, message)
    <2>1. n >= state.iteration
      BY <1>1, <1>3 DEF IsLate
    <2>2. after = Advance(SkipTo(state, n))
      BY <1>3 DEF StateAfter
    <2>3. /\ GoodState(after)
          /\ after.distributionId = state.distributionId
          /\ after.iteration = n + 1
          /\ DOMAIN after.skippedMessageKeys \subseteq keys
          /\ n \notin DOMAIN after.skippedMessageKeys
          /\ \A k \in keys \ DOMAIN after.skippedMessageKeys :
                Cardinality({l \in keys : l > k}) >= MAX_SKIPPED_KEYS_STORED
      BY <1>1, <2>1, <2>2, SkippedAhead, ZenonT(30)
    <2>4. after.iteration = n + 1
      BY <2>3
    <2>5. after.iteration >= state.iteration /\ after.iteration > n
      BY <1>1, <2>1, <2>3
    <2>6. state.iteration .. after.iteration - 1 \subseteq keys \cup {n}
      <3>1. after.iteration - 1 = n
        BY <1>1, <2>4
      <3>2. state.iteration .. n \subseteq keys \cup {n}
        BY <1>1, <2>1 DEF Gap
      <3>. QED BY <3>1, <3>2
    <2>. QED BY <2>1, <2>3, <2>5, <2>6
  <1>. QED BY <1>2, <1>3

(* What a distribution message says makes a good state.                    *)
LEMMA NewStateGood ==
    ASSUME NEW c \in Chains, NEW n \in Nat
    PROVE  LET state == SenderKeyState(c, KeyOf(c, n), n)
           IN  /\ GoodState(state)
               /\ state.distributionId = c /\ state.iteration = n
               /\ DOMAIN state.skippedMessageKeys = {}
PROOF
  <1>. DEFINE state == SenderKeyState(c, KeyOf(c, n), n)
  <1>1. NoSkippedKeys \in SkippedKeys /\ DOMAIN NoSkippedKeys = {}
    <2>1. NoSkippedKeys \in [{} -> ChainKey] /\ {} \in SUBSET Nat
      BY DEF NoSkippedKeys
    <2>. QED BY <2>1 DEF SkippedKeys
  <1>2. KeyOf(c, n) \in ChainKey
    BY DEF KeyOf, ChainKey, Chains
  <1>3. /\ state \in State
        /\ state.distributionId = c /\ state.iteration = n
        /\ state.chainKey = KeyOf(c, n)
        /\ state.skippedMessageKeys = NoSkippedKeys
    BY <1>1, <1>2 DEF SenderKeyState, State
  <1>4. AgreesWithChain(state)
    BY <1>1, <1>3 DEF AgreesWithChain, KeyOf
  <1>. QED BY <1>1, <1>3, <1>4, FS_EmptySet, SenderKeysAssumption DEF GoodState
(* A chain that a record does not hold yet is added to it.                 *)
LEMMA GoodRecordAdd ==
    ASSUME NEW chains \in Nat, NEW bound \in Nat, chains <= bound,
           NEW states, GoodRecord(states, chains),
           NEW state, GoodState(state), state.distributionId <= bound,
           ~Tracks(states, state.distributionId)
    PROVE  GoodRecord(Add(states, state), bound)
PROOF
  <1>. DEFINE new == Add(states, state)
  <1>1. states \in Seq(State) /\ Len(states) \in Nat /\ DOMAIN states = 1 .. Len(states)
        /\ Len(states) <= MAX_SENDER_KEY_STATES /\ state \in State
    BY DEF GoodRecord, GoodState
  <1>2. PICK d \in {0, 1} :
          /\ Len(new) = Len(states) + 1 - d
          /\ Len(new) \in 1 .. MAX_SENDER_KEY_STATES
          /\ new[Len(states) + 1 - d] = state
          /\ \A i \in 1 .. Len(states) - d : new[i] = states[i + d]
    BY <1>1, AddShape
  <1>3. new \in Seq(State)
    BY <1>1, AddShape
  <1>. HIDE DEF new
  <1>4. ASSUME NEW i \in 1 .. Len(new)
        PROVE  \/ i = Len(new) /\ new[i] = state
               \/ i < Len(new) /\ i + d \in 1 .. Len(states) /\ new[i] = states[i + d]
    BY <1>1, <1>2
  <1>5. Len(new) <= MAX_SENDER_KEY_STATES
    BY <1>2, SenderKeysAssumption
  <1>6. \A i \in 1 .. Len(states) : states[i].distributionId # state.distributionId
    BY <1>1 DEF Tracks
  <1>7. \A i \in 1 .. Len(states) :
          GoodState(states[i]) /\ states[i].distributionId \in Int
          /\ states[i].distributionId <= chains
    BY StateParts DEF GoodRecord, GoodState, Chains
  <1>8. ASSUME NEW i \in 1 .. Len(new)
        PROVE  GoodState(new[i]) /\ new[i].distributionId <= bound
    BY <1>4, <1>7, SMTT(30)
  <1>9. HoldsOnce(new)
    <2>. SUFFICES ASSUME NEW i \in 1 .. Len(new), NEW j \in 1 .. Len(new),
                         new[i].distributionId = new[j].distributionId
                  PROVE  i = j
      BY DEF HoldsOnce
    <2>1. HoldsOnce(states)
      BY DEF GoodRecord
    <2>2. CASE i < Len(new) /\ j < Len(new)
      <3>1. i + d \in 1 .. Len(states) /\ j + d \in 1 .. Len(states)
            /\ new[i] = states[i + d] /\ new[j] = states[j + d]
        BY <1>4, <2>2
      <3>2. i + d = j + d
        BY <2>1, <3>1 DEF HoldsOnce
      <3>. QED BY <3>2
    <2>3. CASE i = Len(new) /\ j = Len(new)
      BY <2>3
    <2>. QED BY <1>4, <1>6, <2>2, <2>3
  <1>. QED BY <1>3, <1>5, <1>8, <1>9 DEF GoodRecord, new

(* As many keys as are stored of a chain have been skipped.                *)
LEMMA KeysCounted ==
    ASSUME NEW c, NEW A, NEW B, IsFiniteSet(B), \A l \in A : <<c, l>> \in B
    PROVE  Cardinality(A) <= Cardinality(B)
PROOF
  <1>. DEFINE f == [l \in A |-> <<c, l>>]
  <1>1. f \in [A -> B]
    OBVIOUS
  <1>2. \A x, y \in A : f[x] = f[y] => x = y
    OBVIOUS
  <1>3. f \in Injection(A, B)
    BY <1>1, <1>2 DEF Injection, IsInjective
  <1>. QED BY <1>3, FS_Injection

-----------------------------------------------------------------------------
(* Frames.                                                                 *)

(* A member keeps its invariant while the sender goes on.                  *)
LEMMA MemberUntouched ==
    ASSUME NEW m \in Members, MemberInv(m), SenderTypeOK,
           created' \in Nat, created <= created', sent \subseteq sent',
           misfiled' = misfiled,
           pinned'[m] = pinned[m], record'[m] = record[m],
           delivered'[m] = delivered[m], repeated'[m] = repeated[m],
           skipped'[m] = skipped[m], joined'[m] = joined[m],
           retired'[m] = retired[m], overtaken'[m] = overtaken[m]
    PROVE  MemberInv(m)'
PROOF
  <1>1. created \in Nat
    BY DEF SenderTypeOK
  <1>2. GoodRecord(record[m], created')
    <2>1. \A i \in 1 .. Len(record[m]) : record[m][i].distributionId \in Int
      BY StateParts DEF MemberInv, MemberTypeOK, GoodRecord, GoodState, Chains
    <2>. QED BY <1>1, <2>1 DEF MemberInv, MemberTypeOK, GoodRecord
  <1>3. MemberTypeOK(m)'
    BY <1>2 DEF MemberInv, MemberTypeOK
  <1>4. SpentInv(m)'
    BY DEF MemberInv, SpentInv
  <1>5. (\A i \in 1 .. Len(record[m]) : ChainInv(m, record[m][i]))'
    <2>1. \A state : ChainInv(m, state) <=> ChainInv(m, state)'
      <3>. SUFFICES ASSUME NEW state PROVE ChainInv(m, state) <=> ChainInv(m, state)'
        OBVIOUS
      <3>1. \A c, n : LaterSkipped(m, c, n)' = LaterSkipped(m, c, n)
        BY DEF LaterSkipped
      <3>2. \A n : Accounted(m, state, n)' <=> Accounted(m, state, n)
        BY <3>1 DEF Accounted
      <3>. QED BY <3>2 DEF ChainInv
    <2>. QED BY <2>1 DEF MemberInv
  <1>6. OrderInv(m)'
    <2>1. ASSUME NEW c \in Chains, created' - c < MAX_SENDER_KEY_STATES
          PROVE  created - c < MAX_SENDER_KEY_STATES
      BY <1>1, <2>1, Limits
    <2>2. RecentChainKept(m) => RecentChainKept(m)'
      BY <2>1 DEF RecentChainKept
    <2>. QED BY <2>2 DEF MemberInv, OrderInv
  <1>. QED BY <1>3, <1>4, <1>5, <1>6 DEF MemberInv

(* The sender's operations leave the members alone.                        *)
LEMMA SenderStep ==
    ASSUME GroupInv, SenderInv', created <= created', sent \subseteq sent',
           UNCHANGED <<memberVars, historyVars>>
    PROVE  GroupInv'
PROOF
  <1>1. created' \in Nat
    BY DEF SenderInv, SenderTypeOK
  <1>2. ASSUME NEW m \in Members PROVE MemberInv(m)'
    BY <1>1, MemberUntouched DEF GroupInv, SenderInv, memberVars, historyVars
  <1>3. Arrays' /\ misfiled' \subseteq Members
    BY DEF GroupInv, Arrays, memberVars, historyVars
  <1>. QED BY <1>2, <1>3 DEF GroupInv

(* A member's operations leave the sender and the other members alone.     *)
LEMMA MemberStep ==
    ASSUME GroupInv, NEW m \in Members, MemberInv(m)', Arrays',
           UNCHANGED <<senderVars, misfiled>>,
           \A n \in Members \ {m} :
               /\ pinned'[n] = pinned[n] /\ record'[n] = record[n]
               /\ delivered'[n] = delivered[n] /\ repeated'[n] = repeated[n]
               /\ skipped'[n] = skipped[n] /\ joined'[n] = joined[n]
               /\ retired'[n] = retired[n] /\ overtaken'[n] = overtaken[n]
    PROVE  GroupInv'
PROOF
  <1>1. created \in Nat /\ created' = created /\ sent' = sent
    BY DEF GroupInv, SenderInv, SenderTypeOK, senderVars
  <1>2. ASSUME NEW n \in Members \ {m} PROVE MemberInv(n)'
    BY <1>1, MemberUntouched DEF GroupInv, SenderInv
  <1>3. SenderInv'
    BY DEF GroupInv, SenderInv, SenderTypeOK, BehindOwn, OneMessagePerKey, senderVars
  <1>. QED BY <1>2, <1>3 DEF GroupInv
-----------------------------------------------------------------------------
(* The sender.                                                             *)

(* Nothing is sent, held or opened at first.                               *)
LEMMA InitGroupInv == Init => GroupInv
PROOF
  <1>. SUFFICES ASSUME Init PROVE GroupInv
    OBVIOUS
  <1>1. GoodRecord(<<>>, 0)
    <2>1. <<>> \in Seq(State) /\ Len(<<>>) = 0
      OBVIOUS
    <2>. QED BY <2>1, Limits DEF GoodRecord, HoldsOnce
  <1>2. SenderInv
    BY <1>1, Limits, FS_EmptySet
       DEF Init, SenderInv, SenderTypeOK, BehindOwn, OneMessagePerKey
  <1>3. Arrays /\ misfiled \subseteq Members
    BY DEF Init, Arrays
  <1>4. ASSUME NEW m \in Members PROVE MemberInv(m)
    <2>1. /\ pinned[m] = NotPinned /\ record[m] = <<>> /\ delivered[m] = {}
          /\ repeated[m] = {} /\ skipped[m] = {} /\ retired[m] = {}
          /\ joined[m] = [c \in Chains |-> NotJoined] /\ overtaken[m] = FALSE
          /\ created = 0
      BY DEF Init
    <2>2. 1 .. Len(record[m]) = {}
      BY <2>1
    <2>3. MemberTypeOK(m)
      BY <1>1, <2>1, FS_EmptySet DEF MemberTypeOK
    <2>4. SpentInv(m)
      BY <2>1 DEF SpentInv
    <2>5. OrderInv(m)
      BY <2>1, <2>2 DEF OrderInv, RecentChainKept
    <2>. QED BY <2>2, <2>3, <2>4, <2>5 DEF MemberInv
  <1>. QED BY <1>2, <1>3, <1>4 DEF GroupInv

(* A chain that is created is new: no message is of it yet.                *)
LEMMA NewChain ==
    ASSUME SenderInv, created < MaxChains, created' = created + 1
    PROVE  LET state == Create(created')
           IN  /\ GoodState(state)
               /\ state.distributionId = created'
               /\ state = SenderKeyState(created', KeyOf(created', 0), 0)
               /\ created' \in Chains /\ created' \in Nat
               /\ created \in Nat /\ created <= created'
               /\ \A message \in sent : message.distributionId # created'
               /\ \A i \in 1 .. Len(own) : own[i].distributionId # created'
               /\ ~Tracks(own, created')
PROOF
  <1>1. created \in Nat /\ created' \in Chains /\ created' \in Nat /\ created <= created'
    BY Limits DEF SenderInv, SenderTypeOK, Chains
  <1>2. Create(created') = SenderKeyState(created', KeyOf(created', 0), 0)
    BY DEF Create, KeyOf
  <1>3. \A message \in sent : message.distributionId # created'
    <2>1. \A message \in sent : message.distributionId \in Nat
      BY Limits DEF SenderInv, SenderTypeOK, GoodMessage, Message
    <2>. QED BY <1>1, <2>1 DEF SenderInv, SenderTypeOK
  <1>4. \A i \in 1 .. Len(own) : own[i].distributionId # created'
    <2>1. \A i \in 1 .. Len(own) :
            own[i].distributionId \in Nat /\ own[i].distributionId <= created
      BY StateParts, Limits DEF SenderInv, SenderTypeOK, GoodRecord, GoodState
    <2>. QED BY <1>1, <2>1
  <1>5. ~Tracks(own, created')
    BY <1>4 DEF Tracks, SenderInv, SenderTypeOK, GoodRecord
  <1>6. 0 \in Nat
    OBVIOUS
  <1>. QED BY <1>1, <1>2, <1>3, <1>4, <1>5, <1>6, NewStateGood

(* Setting up replaces the record by one new chain.                        *)
LEMMA SetupStep == ASSUME GroupInv, SetupSenderKey PROVE GroupInv'
PROOF
  <1>. DEFINE state == Create(created')
  <1>1. SenderInv
    BY DEF GroupInv
  <1>2. created < MaxChains /\ created' = created + 1 /\ own' = <<state>>
        /\ UNCHANGED <<identity, sent, skdms, memberVars, historyVars>>
    BY DEF SetupSenderKey
  <1>3. /\ GoodState(state)
        /\ state.distributionId = created'
        /\ created' \in Chains /\ created' \in Nat
        /\ created \in Nat /\ created <= created'
        /\ \A message \in sent : message.distributionId # created'
    BY <1>1, <1>2, NewChain
  <1>. HIDE DEF state
  <1>4. GoodRecord(own', created')
    <2>1. own' \in Seq(State) /\ Len(own') = 1 /\ own'[1] = state
      BY <1>2, <1>3 DEF GoodState
    <2>. QED BY <1>3, <2>1, Limits DEF GoodRecord, HoldsOnce
  <1>5. SenderTypeOK'
    <2>1. \A message \in sent : message.distributionId \in Nat
      BY <1>1, Limits DEF SenderInv, SenderTypeOK, GoodMessage, Message
    <2>2. \A skdm \in skdms : skdm.distributionId \in Nat
      BY <1>1, Limits DEF SenderInv, SenderTypeOK, GoodSkdm, Distribution
    <2>3. created' \in 0 .. MaxChains
      BY <1>3 DEF Chains
    <2>. QED BY <1>1, <1>2, <1>3, <1>4, <2>1, <2>2, <2>3 DEF SenderInv, SenderTypeOK
  <1>6. BehindOwn'
    <2>1. Len(own') = 1 /\ own'[1] = state
      BY <1>2
    <2>. QED BY <1>2, <1>3, <2>1 DEF BehindOwn
  <1>7. OneMessagePerKey'
    BY <1>1, <1>2 DEF SenderInv, OneMessagePerKey
  <1>. QED BY <1>2, <1>3, <1>5, <1>6, <1>7, SenderStep DEF SenderInv

(* What is issued says where a chain stands.                               *)
LEMMA SkdmOfState ==
    ASSUME NEW state, GoodState(state), SenderTypeOK
    PROVE  GoodSkdm(Skdm(state)) /\ Skdm(state).distributionId = state.distributionId
PROOF
  <1>1. state \in State /\ AgreesWithChain(state)
    BY DEF GoodState
  <1>2. /\ state.iteration \in Nat /\ state.distributionId \in Chains
        /\ state.chainKey \in ChainKey
        /\ state.chainKey = KeyOf(state.distributionId, state.iteration)
    BY <1>1, StateParts DEF AgreesWithChain, KeyOf
  <1>. QED BY <1>2 DEF GoodSkdm, Skdm, Distribution, SenderTypeOK

(* The current chain is the last of the record.                            *)
LEMMA CurrentGood ==
    ASSUME SenderInv, own # <<>>
    PROVE  /\ Len(own) \in 1 .. Len(own) /\ Len(own) \in Nat
           /\ Current(own) = own[Len(own)]
           /\ GoodState(Current(own)) /\ Current(own).distributionId <= created
PROOF
  <1>1. own \in Seq(State)
    BY DEF SenderInv, SenderTypeOK, GoodRecord
  <1>2. Len(own) \in 1 .. Len(own) /\ Len(own) \in Nat
    BY <1>1
  <1>. QED BY <1>2 DEF SenderInv, SenderTypeOK, GoodRecord, Current

(* Issuing a distribution message changes nothing else.                    *)
LEMMA DistributionStep == ASSUME GroupInv, GetSenderKeyDistribution PROVE GroupInv'
PROOF
  <1>1. SenderInv
    BY DEF GroupInv
  <1>2. /\ own # <<>> /\ skdms' = skdms \cup {Skdm(Current(own))}
        /\ UNCHANGED <<identity, own, created, sent, memberVars, historyVars>>
    BY DEF GetSenderKeyDistribution, Issue
  <1>3. GoodState(Current(own)) /\ Current(own).distributionId <= created
    BY <1>1, <1>2, CurrentGood
  <1>4. GoodSkdm(Skdm(Current(own))) /\ Skdm(Current(own)).distributionId <= created
    BY <1>1, <1>3, SkdmOfState DEF SenderInv
  <1>5. SenderTypeOK'
    BY <1>1, <1>2, <1>4 DEF SenderInv, SenderTypeOK
  <1>6. BehindOwn' /\ OneMessagePerKey'
    BY <1>1, <1>2 DEF SenderInv, BehindOwn, OneMessagePerKey
  <1>7. created <= created'
    BY <1>1, <1>2 DEF SenderInv, SenderTypeOK
  <1>. QED BY <1>2, <1>5, <1>6, <1>7, SenderStep DEF SenderInv
(* Where the chains of a record that one is added to come from.            *)
LEMMA AddedFrom ==
    ASSUME NEW chains, NEW states, GoodRecord(states, chains),
           NEW state, GoodState(state)
    PROVE  \E d \in {0, 1} :
             /\ d = 1 => Len(states) = MAX_SENDER_KEY_STATES
             /\ Len(Add(states, state)) = Len(states) + 1 - d
             /\ Len(Add(states, state)) \in Nat \ {0}
             /\ Add(states, state)[Len(Add(states, state))] = state
             /\ \A i \in 1 .. Len(Add(states, state)) :
                   \/ i = Len(Add(states, state))
                   \/ /\ i < Len(Add(states, state))
                      /\ i + d \in 1 .. Len(states)
                      /\ Add(states, state)[i] = states[i + d]
             /\ \A i \in 1 .. Len(states) :
                   \/ i = 1 /\ d = 1
                   \/ /\ i - d \in 1 .. Len(Add(states, state))
                      /\ Add(states, state)[i - d] = states[i]
PROOF
  <1>. DEFINE new == Add(states, state)
  <1>1. states \in Seq(State) /\ Len(states) \in Nat
        /\ Len(states) <= MAX_SENDER_KEY_STATES /\ state \in State
    BY DEF GoodRecord, GoodState
  <1>2. PICK d \in {0, 1} :
          /\ d = 1 => Len(states) = MAX_SENDER_KEY_STATES
          /\ Len(new) = Len(states) + 1 - d
          /\ Len(new) \in 1 .. MAX_SENDER_KEY_STATES
          /\ new[Len(states) + 1 - d] = state
          /\ \A i \in 1 .. Len(states) - d : new[i] = states[i + d]
    BY <1>1, AddShape
  <1>. HIDE DEF new
  <1>3. Len(new) \in Nat \ {0} /\ new[Len(new)] = state
    BY <1>1, <1>2
  <1>4. ASSUME NEW i \in 1 .. Len(new)
        PROVE  \/ i = Len(new)
               \/ i < Len(new) /\ i + d \in 1 .. Len(states) /\ new[i] = states[i + d]
    BY <1>1, <1>2
  <1>5. ASSUME NEW i \in 1 .. Len(states)
        PROVE  \/ i = 1 /\ d = 1
               \/ i - d \in 1 .. Len(new) /\ new[i - d] = states[i]
    <2>1. CASE i = 1 /\ d = 1
      BY <2>1
    <2>2. CASE ~(i = 1 /\ d = 1)
      <3>1. i - d \in 1 .. Len(states) - d /\ (i - d) + d = i
        BY <1>1, <2>2
      <3>2. new[i - d] = states[i] /\ i - d \in 1 .. Len(new)
        BY <1>1, <1>2, <3>1
      <3>. QED BY <3>2
    <2>. QED BY <2>1, <2>2
  <1>. QED BY <1>2, <1>3, <1>4, <1>5 DEF new

(* One chain of a record moves on.                                         *)
LEMMA GoodRecordReplace ==
    ASSUME NEW chains, NEW states, GoodRecord(states, chains),
           NEW k \in 1 .. Len(states), NEW state, GoodState(state),
           state.distributionId = states[k].distributionId
    PROVE  LET new == [states EXCEPT ![k] = state]
           IN  /\ GoodRecord(new, chains)
               /\ Len(new) = Len(states) /\ Len(new) \in Nat
               /\ new[k] = state
               /\ \A i \in 1 .. Len(states) :
                     /\ i # k => new[i] = states[i]
                     /\ new[i].distributionId = states[i].distributionId
PROOF
  <1>. DEFINE new == [states EXCEPT ![k] = state]
  <1>1. states \in Seq(State) /\ state \in State
    BY DEF GoodRecord, GoodState
  <1>2. /\ new \in Seq(State) /\ Len(new) = Len(states) /\ Len(new) \in Nat
        /\ new[k] = state
        /\ \A i \in 1 .. Len(states) : i # k => new[i] = states[i]
    BY <1>1
  <1>. HIDE DEF new
  <1>3. \A i \in 1 .. Len(states) : new[i].distributionId = states[i].distributionId
    BY <1>2
  <1>4. GoodRecord(new, chains)
    BY <1>2, <1>3 DEF GoodRecord, HoldsOnce
  <1>. QED BY <1>2, <1>3, <1>4 DEF new

(* Advancing a chain keeps its skipped keys.                               *)
LEMMA AdvancedState ==
    ASSUME NEW state, GoodState(state)
    PROVE  /\ GoodState(Advance(state))
           /\ Advance(state).distributionId = state.distributionId
           /\ Advance(state).iteration = state.iteration + 1
PROOF
  <1>. DEFINE c == state.distributionId
              after == Advance(state)
  <1>1. state \in State /\ AgreesWithChain(state)
    BY DEF GoodState
  <1>2. /\ state.iteration \in Nat /\ c \in Chains
        /\ state.chainKey = KeyOf(c, state.iteration)
        /\ DOMAIN state.skippedMessageKeys \subseteq Nat
    BY <1>1, StateParts DEF AgreesWithChain, KeyOf
  <1>3. NextChainKey(state.chainKey, 1) = KeyOf(c, state.iteration + 1)
    BY <1>2 DEF NextChainKey, KeyOf
  <1>4. KeyOf(c, state.iteration + 1) \in ChainKey
    BY <1>2 DEF KeyOf, ChainKey, Chains
  <1>5. after = [state EXCEPT !.chainKey = KeyOf(c, state.iteration + 1),
                              !.iteration = state.iteration + 1]
    BY <1>3 DEF Advance
  <1>. HIDE DEF after
  <1>6. /\ after \in State
        /\ after.distributionId = c
        /\ after.iteration = state.iteration + 1
        /\ after.chainKey = KeyOf(c, state.iteration + 1)
        /\ after.skippedMessageKeys = state.skippedMessageKeys
    <2>1. state \in State /\ state.iteration + 1 \in Nat
      BY <1>1, <1>2
    <2>. QED BY <1>4, <1>5, <2>1 DEF State
  <1>7. AgreesWithChain(after)
    <2>1. \A i \in DOMAIN state.skippedMessageKeys : i < state.iteration
      BY <1>1 DEF AgreesWithChain
    <2>2. \A i \in DOMAIN state.skippedMessageKeys : i < state.iteration + 1
      BY <1>2, <2>1
    <2>. QED BY <1>1, <1>6, <2>2 DEF AgreesWithChain, KeyOf
  <1>8. GoodState(after)
    BY <1>6, <1>7 DEF GoodState
  <1>. QED BY <1>6, <1>8 DEF after

(* Rotating adds a new chain.                                              *)
LEMMA RotateStep == ASSUME GroupInv, RotateSenderKey PROVE GroupInv'
PROOF
  <1>. DEFINE state == Create(created')
              new == Add(own, state)
  <1>1. SenderInv
    BY DEF GroupInv
  <1>2. /\ created < MaxChains /\ created' = created + 1
        /\ own' = new /\ skdms' = skdms \cup {Skdm(state)}
        /\ UNCHANGED <<identity, sent, memberVars, historyVars>>
    BY DEF RotateSenderKey, Issue
  <1>3. /\ GoodState(state)
        /\ state.distributionId = created'
        /\ created' \in Chains /\ created' \in Nat
        /\ created \in Nat /\ created <= created'
        /\ \A message \in sent : message.distributionId # created'
        /\ ~Tracks(own, created')
    BY <1>1, <1>2, NewChain
  <1>4. GoodRecord(own, created)
    BY <1>1 DEF SenderInv, SenderTypeOK
  <1>5. GoodSkdm(Skdm(state)) /\ Skdm(state).distributionId = created'
    BY <1>1, <1>3, SkdmOfState DEF SenderInv
  <1>. HIDE DEF state
  <1>6. GoodRecord(new, created')
    BY <1>3, <1>4, GoodRecordAdd
  <1>7. \A i \in 1 .. Len(new) :
          \/ new[i] = state
          \/ \E j \in 1 .. Len(own) : new[i] = own[j]
    <2>1. PICK d \in {0, 1} :
            /\ new[Len(new)] = state
            /\ \A i \in 1 .. Len(new) :
                  \/ i = Len(new)
                  \/ i + d \in 1 .. Len(own) /\ new[i] = own[i + d]
      <3>1. GoodState(state)
        BY <1>3
      <3>. QED BY <1>4, <3>1, AddedFrom
    <2>. HIDE DEF new
    <2>. QED BY <2>1
  <1>. HIDE DEF new
  <1>8. SenderTypeOK'
    <2>1. \A message \in sent : message.distributionId \in Nat
      BY <1>1, Limits DEF SenderInv, SenderTypeOK, GoodMessage, Message
    <2>2. \A skdm \in skdms : skdm.distributionId \in Nat
      BY <1>1, Limits DEF SenderInv, SenderTypeOK, GoodSkdm, Distribution
    <2>3. created' \in 0 .. MaxChains
      BY <1>3 DEF Chains
    <2>4. \A message \in sent : message.distributionId <= created'
      BY <1>1, <1>3, <2>1 DEF SenderInv, SenderTypeOK
    <2>5. \A skdm \in skdms' : GoodSkdm(skdm) /\ skdm.distributionId <= created'
      BY <1>1, <1>2, <1>3, <1>5, <2>2 DEF SenderInv, SenderTypeOK
    <2>. QED BY <1>1, <1>2, <1>6, <2>3, <2>4, <2>5 DEF SenderInv, SenderTypeOK
  <1>9. BehindOwn'
    BY <1>1, <1>2, <1>3, <1>7 DEF SenderInv, BehindOwn
  <1>10. OneMessagePerKey'
    BY <1>1, <1>2 DEF SenderInv, OneMessagePerKey
  <1>. QED BY <1>2, <1>3, <1>8, <1>9, <1>10, SenderStep DEF SenderInv

(* Encrypting uses the key the chain stands at and moves it on, so that no *)
(* message before or after has the same.                                   *)
LEMMA EncryptStep == ASSUME GroupInv, EncryptGroupMessage PROVE GroupInv'
PROOF
  <1>. DEFINE n == Len(own)
              state == Current(own)
              message == GroupMessage(state)
              after == Advance(state)
  <1>1. SenderInv /\ SenderTypeOK /\ GoodRecord(own, created)
    BY DEF GroupInv, SenderInv, SenderTypeOK
  <1>2. /\ own # <<>> /\ sent' = sent \cup {message}
        /\ own' = [own EXCEPT ![n] = Advance(@)]
        /\ UNCHANGED <<identity, created, skdms, memberVars, historyVars>>
    BY DEF EncryptGroupMessage
  <1>3. /\ n \in 1 .. Len(own) /\ state = own[n]
        /\ GoodState(state) /\ state.distributionId <= created
    BY <1>1, <1>2, CurrentGood
  <1>4. /\ GoodState(after)
        /\ after.distributionId = state.distributionId
        /\ after.iteration = state.iteration + 1
    BY <1>3, AdvancedState
  <1>5. own' = [own EXCEPT ![n] = after]
    BY <1>2, <1>3
  <1>6. /\ message.distributionId = state.distributionId
        /\ message.iteration = state.iteration
        /\ message.key = KeyOf(state.distributionId, state.iteration)
        /\ GoodMessage(message)
    <2>1. state \in State /\ AgreesWithChain(state)
      BY <1>3 DEF GoodState
    <2>2. /\ state.iteration \in Nat /\ state.distributionId \in Chains
          /\ state.chainKey \in ChainKey
          /\ state.chainKey = KeyOf(state.distributionId, state.iteration)
      BY <2>1, StateParts DEF AgreesWithChain, KeyOf
    <2>3. Cardinality(sent) + 1 \in Nat
      BY <1>1, FS_CardinalityType DEF SenderTypeOK
    <2>. QED BY <2>2, <2>3 DEF GroupMessage, GoodMessage, Message
  <1>7. state.iteration \in Nat
    BY <1>3, StateParts DEF GoodState
  <1>. HIDE DEF state, message, after, n
  <1>8. /\ GoodRecord(own', created)
        /\ Len(own') = Len(own) /\ own'[n] = after
        /\ \A i \in 1 .. Len(own) : i # n => own'[i] = own[i]
    <2>1. after.distributionId = own[n].distributionId
      BY <1>3, <1>4
    <2>2. GoodRecord([own EXCEPT ![n] = after], created)
      BY <1>1, <1>3, <1>4, <2>1, GoodRecordReplace
    <2>. QED BY <1>1, <1>3, <1>5, <2>2 DEF GoodRecord
  <1>9. SenderTypeOK'
    <2>1. IsFiniteSet(sent')
      BY <1>1, <1>2, FS_AddElement DEF SenderTypeOK
    <2>2. \A x \in sent' : GoodMessage(x) /\ x.distributionId <= created
      BY <1>1, <1>2, <1>3, <1>6 DEF SenderTypeOK
    <2>. QED BY <1>1, <1>2, <1>8, <2>1, <2>2 DEF SenderTypeOK
  <1>10. \A x \in sent : x.distributionId = state.distributionId
                            => x.iteration < state.iteration
    BY <1>1, <1>3 DEF SenderInv, BehindOwn
  <1>11. \A x \in sent : x.iteration \in Nat
    BY <1>1 DEF SenderTypeOK, GoodMessage, Message
  <1>12. BehindOwn'
    <2>. SUFFICES ASSUME NEW x \in sent', NEW i \in 1 .. Len(own),
                         own'[i].distributionId = x.distributionId
                  PROVE  x.iteration < own'[i].iteration
      BY <1>8 DEF BehindOwn
    <2>1. CASE i = n
      BY <1>2, <1>4, <1>6, <1>7, <1>8, <1>10, <1>11, <2>1
    <2>2. CASE i # n /\ x \in sent
      BY <1>1, <1>8, <2>2 DEF SenderInv, BehindOwn
    <2>3. CASE i # n /\ x = message
      BY <1>1, <1>3, <1>6, <1>8, <2>3 DEF GoodRecord, HoldsOnce
    <2>. QED BY <1>2, <2>1, <2>2, <2>3
  <1>13. OneMessagePerKey'
    <2>1. ASSUME NEW x \in sent, x.key = message.key PROVE FALSE
      <3>1. x.key = KeyOf(x.distributionId, x.iteration)
        BY <1>1 DEF SenderTypeOK, GoodMessage
      <3>2. x.distributionId = state.distributionId /\ x.iteration = state.iteration
        BY <1>6, <2>1, <3>1 DEF KeyOf
      <3>. QED BY <1>7, <1>10, <3>2
    <2>. QED BY <1>1, <1>2, <2>1 DEF SenderInv, OneMessagePerKey
  <1>14. created <= created' /\ sent \subseteq sent'
    BY <1>1, <1>2 DEF SenderTypeOK
  <1>. QED BY <1>2, <1>9, <1>12, <1>13, <1>14, SenderStep DEF SenderInv

(* A sender that reloads draws a new identity and has no record.           *)
LEMMA ReloadSenderStep == ASSUME GroupInv, ReloadSender PROVE GroupInv'
PROOF
  <1>1. SenderInv
    BY DEF GroupInv
  <1>2. /\ identity' = identity + 1 /\ own' = <<>>
        /\ UNCHANGED <<created, sent, skdms, memberVars, historyVars>>
    BY DEF ReloadSender
  <1>3. own' \in Seq(State) /\ Len(own') = 0 /\ 1 .. Len(own') = {}
    BY <1>2
  <1>4. GoodRecord(own', created)
    BY <1>3, Limits DEF GoodRecord, HoldsOnce
  <1>5. SenderTypeOK'
    BY <1>1, <1>2, <1>4 DEF SenderInv, SenderTypeOK
  <1>6. BehindOwn' /\ OneMessagePerKey'
    BY <1>1, <1>2, <1>3 DEF SenderInv, BehindOwn, OneMessagePerKey
  <1>7. created <= created'
    BY <1>1, <1>2 DEF SenderInv, SenderTypeOK
  <1>. QED BY <1>2, <1>5, <1>6, <1>7, SenderStep DEF SenderInv
-----------------------------------------------------------------------------
(* The members.                                                            *)

(* Types of what a member holds, and the parts of the invariant that its   *)
(* operations start from.                                                  *)
LEMMA MemberFacts ==
    ASSUME GroupInv, NEW m \in Members
    PROVE  /\ MemberTypeOK(m) /\ SpentInv(m) /\ OrderInv(m)
           /\ \A i \in 1 .. Len(record[m]) : ChainInv(m, record[m][i])
           /\ GoodRecord(record[m], created)
           /\ record[m] \in Seq(State)
           /\ Len(record[m]) \in Nat /\ DOMAIN record[m] = 1 .. Len(record[m])
           /\ HoldsOnce(record[m])
           /\ \A i \in 1 .. Len(record[m]) :
                 /\ GoodState(record[m][i])
                 /\ record[m][i].distributionId \in Chains
                 /\ record[m][i].distributionId <= created
                 /\ record[m][i].iteration \in Nat
           /\ created \in Nat
           /\ SenderTypeOK /\ OneMessagePerKey /\ Arrays /\ misfiled \subseteq Members
PROOF
  <1>1. MemberInv(m) /\ SenderTypeOK /\ OneMessagePerKey /\ Arrays
        /\ misfiled \subseteq Members /\ created \in Nat
    BY DEF GroupInv, SenderInv, SenderTypeOK
  <1>2. GoodRecord(record[m], created)
    BY <1>1 DEF MemberInv, MemberTypeOK
  <1>3. record[m] \in Seq(State)
    BY <1>2 DEF GoodRecord
  <1>4. Len(record[m]) \in Nat /\ DOMAIN record[m] = 1 .. Len(record[m])
    BY <1>3
  <1>5. ASSUME NEW i \in 1 .. Len(record[m])
        PROVE  /\ GoodState(record[m][i])
               /\ record[m][i].distributionId \in Chains
               /\ record[m][i].distributionId <= created
               /\ record[m][i].iteration \in Nat
    BY <1>2, StateParts DEF GoodRecord, GoodState
  <1>6. HoldsOnce(record[m])
    BY <1>2 DEF GoodRecord
  <1>. QED BY <1>1, <1>2, <1>3, <1>4, <1>5, <1>6 DEF MemberInv

(* A member that reloads has given up all its chains.                      *)
LEMMA ReloadMemberStep ==
    ASSUME GroupInv, NEW m \in Members, ReloadMember(m) PROVE GroupInv'
PROOF
  <1>1. /\ MemberTypeOK(m) /\ SpentInv(m) /\ Arrays
        /\ DOMAIN record[m] = 1 .. Len(record[m])
    BY MemberFacts
  <1>2. /\ record' = [record EXCEPT ![m] = <<>>]
        /\ pinned' = [pinned EXCEPT ![m] = NotPinned]
        /\ joined' = [joined EXCEPT ![m] = [c \in Chains |-> NotJoined]]
        /\ retired' = [retired EXCEPT ![m] = @ \cup Held(record[m])]
        /\ overtaken' = [overtaken EXCEPT ![m] = FALSE]
        /\ UNCHANGED <<senderVars, misfiled, delivered, repeated, skipped>>
    BY DEF ReloadMember
  <1>3. /\ record'[m] = <<>> /\ pinned'[m] = NotPinned
        /\ joined'[m] = [c \in Chains |-> NotJoined]
        /\ retired'[m] = retired[m] \cup Held(record[m])
        /\ overtaken'[m] = FALSE
    BY <1>1, <1>2 DEF Arrays
  <1>4. Arrays'
    BY <1>1, <1>2 DEF Arrays
  <1>5. created' = created /\ created \in Nat /\ sent' = sent
    BY <1>2, MemberFacts DEF senderVars
  <1>6. <<>> \in Seq(State) /\ Len(<<>>) = 0 /\ 1 .. 0 = {}
    OBVIOUS
  <1>7. GoodRecord(<<>>, created)
    BY <1>6, Limits DEF GoodRecord, HoldsOnce
  <1>8. MemberTypeOK(m)'
    BY <1>1, <1>2, <1>3, <1>5, <1>7 DEF MemberTypeOK
  <1>9. SpentInv(m)'
    <2>1. \A message \in delivered[m] :
            message.distributionId \in retired[m] \cup Held(record[m])
      BY <1>1 DEF SpentInv, Held
    <2>. QED BY <1>1, <1>2, <1>3, <2>1 DEF SpentInv
  <1>10. OrderInv(m)'
    BY <1>3, <1>6 DEF OrderInv, RecentChainKept
  <1>11. MemberInv(m)'
    BY <1>3, <1>6, <1>8, <1>9, <1>10 DEF MemberInv
  <1>. QED BY <1>1, <1>2, <1>4, <1>11, MemberStep DEF Arrays

(* What is ignored pins an identity at most.                               *)
LEMMA IgnoreStep ==
    ASSUME GroupInv, NEW m \in Members, NEW skdm \in skdms,
           Pin(m, skdm), IgnoreDistribution(m, skdm),
           UNCHANGED <<senderVars, misfiled, reloads, delivered, repeated, skipped>>
    PROVE  GroupInv'
PROOF
  <1>1. /\ MemberInv(m) /\ MemberTypeOK(m) /\ Arrays /\ GoodSkdm(skdm)
    BY MemberFacts DEF GroupInv, SenderTypeOK
  <1>2. pinned' = [pinned EXCEPT ![m] = TrustedIdentity(m, skdm)]
        /\ UNCHANGED <<senderVars, misfiled, delivered, repeated, skipped>>
        /\ UNCHANGED <<record, joined, retired, overtaken>>
    BY DEF Pin, IgnoreDistribution
  <1>3. TrustedIdentity(m, skdm) \in Nat
    BY <1>1 DEF TrustedIdentity, MemberTypeOK, GoodSkdm, Distribution
  <1>4. Arrays'
    BY <1>1, <1>2 DEF Arrays
  <1>5. MemberTypeOK(m)'
    BY <1>1, <1>2, <1>3 DEF MemberTypeOK, Arrays, senderVars
  <1>6. SpentInv(m)' /\ OrderInv(m)'
    BY <1>1, <1>2 DEF MemberInv, SpentInv, OrderInv, RecentChainKept, senderVars
  <1>7. (\A i \in 1 .. Len(record[m]) : ChainInv(m, record[m][i]))'
    <2>1. \A state : ChainInv(m, state) => ChainInv(m, state)'
      BY <1>2 DEF ChainInv, Accounted, LaterSkipped
    <2>. QED BY <1>1, <1>2, <2>1 DEF MemberInv
  <1>8. MemberInv(m)'
    BY <1>5, <1>6, <1>7 DEF MemberInv
  <1>. QED BY <1>1, <1>2, <1>4, <1>8, MemberStep DEF Arrays

(* A message that is refused changes nothing.                              *)
LEMMA RefuseStep ==
    ASSUME GroupInv, NEW m \in Members, NEW message \in sent,
           RefuseGroupMessage(m, message),
           UNCHANGED <<senderVars, pinned, misfiled, reloads, joined, retired, overtaken>>
    PROVE  GroupInv'
PROOF
  <1>1. created <= created'
    BY DEF GroupInv, SenderInv, SenderTypeOK, senderVars
  <1>2. SenderInv'
    BY DEF GroupInv, SenderInv, SenderTypeOK, BehindOwn, OneMessagePerKey, senderVars
  <1>. QED BY <1>1, <1>2, SenderStep DEF RefuseGroupMessage, memberVars, historyVars, senderVars
(* A chain is taken in: the one evicted for it counts as given up, and,    *)
(* while chains come in order, is as many chains behind as a record holds. *)
LEMMA AcceptStep ==
    ASSUME GroupInv, NEW m \in Members, NEW skdm \in skdms,
           Pin(m, skdm), AcceptDistribution(m, skdm),
           UNCHANGED <<senderVars, misfiled, reloads, delivered, repeated, skipped>>
    PROVE  GroupInv'
PROOF
  <1>. DEFINE c == skdm.distributionId
              state == SenderKeyState(c, skdm.chainKey, skdm.iteration)
              old == record[m]
              new == Add(old, state)
  <1>1. /\ MemberTypeOK(m) /\ SpentInv(m) /\ OrderInv(m) /\ Arrays
        /\ GoodRecord(old, created) /\ HoldsOnce(old)
        /\ Len(old) \in Nat /\ DOMAIN old = 1 .. Len(old)
        /\ \A i \in 1 .. Len(old) :
              /\ GoodState(old[i])
              /\ old[i].distributionId \in Chains /\ old[i].distributionId <= created
              /\ old[i].iteration \in Nat
        /\ created \in Nat /\ SenderTypeOK
    BY MemberFacts
  <1>2. \A i \in 1 .. Len(old) : ChainInv(m, old[i])
    BY MemberFacts
  <1>3. /\ ~Tracks(old, c)
        /\ record' = [record EXCEPT ![m] = new]
        /\ joined' = [joined EXCEPT ![m][c] = skdm.iteration]
        /\ retired' = [retired EXCEPT ![m] = @ \cup (Held(old) \ Held(new))]
        /\ overtaken' = [overtaken EXCEPT ![m] = @ \/ \E x \in Chains :
                            x > c /\ joined[m][x] # NotJoined]
        /\ pinned' = [pinned EXCEPT ![m] = TrustedIdentity(m, skdm)]
        /\ UNCHANGED <<senderVars, misfiled, delivered, repeated, skipped>>
    BY DEF AcceptDistribution, IsKnownChain, Pin
  <1>4. /\ c \in Chains /\ c <= created /\ skdm.iteration \in Nat
        /\ skdm.identityKey \in Nat /\ skdm.chainKey = KeyOf(c, skdm.iteration)
    BY <1>1 DEF SenderTypeOK, GoodSkdm, Distribution
  <1>5. /\ GoodState(state)
        /\ state.distributionId = c /\ state.iteration = skdm.iteration
        /\ DOMAIN state.skippedMessageKeys = {}
    BY <1>4, NewStateGood
  <1>6. \A i \in 1 .. Len(old) : old[i].distributionId # c
    BY <1>1, <1>3 DEF Tracks
  <1>7. c \in Nat
    BY <1>4, Limits
  <1>. HIDE DEF state, c
  <1>8. GoodRecord(new, created)
    BY <1>1, <1>3, <1>4, <1>5, GoodRecordAdd
  <1>9. PICK d \in {0, 1} :
          /\ d = 1 => Len(old) = MAX_SENDER_KEY_STATES
          /\ Len(new) = Len(old) + 1 - d
          /\ Len(new) \in Nat \ {0}
          /\ new[Len(new)] = state
          /\ \A i \in 1 .. Len(new) :
                \/ i = Len(new)
                \/ i < Len(new) /\ i + d \in 1 .. Len(old) /\ new[i] = old[i + d]
          /\ \A i \in 1 .. Len(old) :
                \/ i = 1 /\ d = 1
                \/ i - d \in 1 .. Len(new) /\ new[i - d] = old[i]
    BY <1>1, <1>5, AddedFrom
  <1>10. DOMAIN new = 1 .. Len(new)
    <2>1. new \in Seq(State)
      BY <1>8 DEF GoodRecord
    <2>. QED BY <2>1
  <1>. HIDE DEF new
  <1>11. /\ record'[m] = new
         /\ joined'[m] = [joined[m] EXCEPT ![c] = skdm.iteration]
         /\ retired'[m] = retired[m] \cup (Held(old) \ Held(new))
         /\ overtaken'[m] = (overtaken[m] \/ \E x \in Chains :
                                x > c /\ joined[m][x] # NotJoined)
         /\ pinned'[m] = TrustedIdentity(m, skdm)
         /\ created' = created /\ sent' = sent
    BY <1>1, <1>3 DEF Arrays, senderVars
  <1>12. Arrays'
    BY <1>1, <1>3 DEF Arrays
  <1>13. /\ joined'[m] \in [Chains -> Nat \cup {NotJoined}]
         /\ joined'[m][c] = skdm.iteration
         /\ \A x \in Chains \ {c} : joined'[m][x] = joined[m][x]
    BY <1>1, <1>4, <1>11 DEF MemberTypeOK
  <1>14. TrustedIdentity(m, skdm) \in Nat
    BY <1>1, <1>4 DEF TrustedIdentity, MemberTypeOK
  <1>15. MemberTypeOK(m)'
    BY <1>1, <1>3, <1>8, <1>11, <1>13, <1>14 DEF MemberTypeOK
  <1>16. SpentInv(m)'
    <2>1. ASSUME NEW message \in delivered[m], message.distributionId \notin retired'[m]
          PROVE  \E i \in 1 .. Len(new) :
                    /\ new[i].distributionId = message.distributionId
                    /\ message.iteration < new[i].iteration
                    /\ message.iteration \notin DOMAIN new[i].skippedMessageKeys
      <3>1. PICK i \in 1 .. Len(old) :
              /\ old[i].distributionId = message.distributionId
              /\ message.iteration < old[i].iteration
              /\ message.iteration \notin DOMAIN old[i].skippedMessageKeys
        BY <1>1, <1>11, <2>1 DEF SpentInv
      <3>2. old[i].distributionId \in Held(new)
        <4>1. old[i].distributionId \in Held(old)
          BY <1>1 DEF Held
        <4>. QED BY <1>11, <2>1, <3>1, <4>1
      <3>3. PICK j \in 1 .. Len(new) : new[j].distributionId = old[i].distributionId
        BY <1>10, <3>2 DEF Held
      <3>4. j # Len(new)
        BY <1>5, <1>6, <1>9, <3>3
      <3>5. j + d \in 1 .. Len(old) /\ new[j] = old[j + d]
        BY <1>9, <3>4
      <3>6. j + d = i
        BY <1>1, <3>3, <3>5 DEF HoldsOnce
      <3>. QED BY <3>1, <3>5, <3>6
    <2>2. \A message \in repeated[m] : message.distributionId \in retired'[m]
      BY <1>1, <1>11 DEF SpentInv
    <2>. QED BY <1>3, <1>11, <2>1, <2>2 DEF SpentInv
  <1>17. (\A i \in 1 .. Len(record[m]) : ChainInv(m, record[m][i]))'
    <2>. SUFFICES ASSUME NEW i \in 1 .. Len(new), NEW held, held = new[i]
                  PROVE  ChainInv(m, held)'
      BY <1>11
    <2>1. CASE i = Len(new)
      <3>1. held = state /\ joined'[m][c] = state.iteration
            /\ state.iteration \in Nat /\ misfiled' = misfiled
        BY <1>3, <1>4, <1>5, <1>9, <1>13, <2>1
      <3>2. state.iteration .. state.iteration - 1 = {}
        BY <3>1
      <3>3. state.iteration \in 0 .. state.iteration
        BY <3>1
      <3>. QED BY <1>5, <3>1, <3>2, <3>3 DEF ChainInv
    <2>2. CASE i # Len(new)
      <3>1. i + d \in 1 .. Len(old) /\ new[i] = old[i + d]
        BY <1>9, <2>2
      <3>2. ChainInv(m, held) /\ held.distributionId \in Chains \ {c}
        BY <1>1, <1>2, <1>6, <3>1
      <3>3. joined'[m][held.distributionId] = joined[m][held.distributionId]
        BY <1>13, <3>2
      <3>4. \A n : Accounted(m, held, n)' <=> Accounted(m, held, n)
        BY <1>3 DEF Accounted, LaterSkipped
      <3>. QED BY <1>3, <3>2, <3>3, <3>4 DEF ChainInv
    <2>. QED BY <2>1, <2>2
  <1>18. OrderInv(m)'
    <2>. SUFFICES ASSUME ~overtaken'[m]
                  PROVE  /\ \A i, j \in 1 .. Len(new) : i <= j =>
                              new[j].distributionId - new[i].distributionId >= j - i
                         /\ RecentChainKept(m)'
      BY <1>11 DEF OrderInv
    <2>1. /\ ~overtaken[m]
          /\ \A x \in Chains : x > c => joined[m][x] = NotJoined
          /\ \A i, j \in 1 .. Len(old) : i <= j =>
                old[j].distributionId - old[i].distributionId >= j - i
          /\ RecentChainKept(m)
      BY <1>1, <1>11 DEF OrderInv
    <2>2. ASSUME NEW i \in 1 .. Len(old) PROVE old[i].distributionId < c
      <3>1. joined[m][old[i].distributionId] # NotJoined
        BY <1>1, <1>2 DEF ChainInv, NotJoined
      <3>2. ~(old[i].distributionId > c) /\ old[i].distributionId # c
        BY <1>1, <1>6, <2>1, <3>1
      <3>3. old[i].distributionId \in Nat
        BY <1>1, Limits
      <3>. QED BY <1>7, <3>2, <3>3
    <2>3. ASSUME NEW i \in 1 .. Len(old)
          PROVE  c - old[i].distributionId >= Len(old) + 1 - i
      <3>1. Len(old) \in 1 .. Len(old) /\ i <= Len(old)
        BY <1>1
      <3>2. old[Len(old)].distributionId - old[i].distributionId >= Len(old) - i
        BY <2>1, <3>1
      <3>3. old[Len(old)].distributionId < c
        BY <2>2, <3>1
      <3>4. old[Len(old)].distributionId \in Nat /\ old[i].distributionId \in Nat
        BY <1>1, <3>1, Limits
      <3>5. Len(old) \in Nat /\ i \in Nat
        BY <1>1
      <3>6. \A first, last, next, length, at \in Nat :
              last - first >= length - at /\ last < next => next - first >= length + 1 - at
        OBVIOUS
      <3>. QED BY <1>7, <3>2, <3>3, <3>4, <3>5, <3>6
    <2>4. ASSUME NEW i \in 1 .. Len(new), NEW j \in 1 .. Len(new), i <= j
          PROVE  new[j].distributionId - new[i].distributionId >= j - i
      <3>1. CASE j # Len(new)
        <4>1. /\ i + d \in 1 .. Len(old) /\ new[i] = old[i + d]
              /\ j + d \in 1 .. Len(old) /\ new[j] = old[j + d]
          BY <1>9, <2>4, <3>1
        <4>2. new[j].distributionId - new[i].distributionId >= (j + d) - (i + d)
          BY <2>1, <2>4, <4>1
        <4>. QED BY <4>2
      <3>2. CASE j = Len(new) /\ i # Len(new)
        <4>1. i + d \in 1 .. Len(old) /\ new[i] = old[i + d] /\ new[j] = state
          BY <1>9, <3>2
        <4>2. c - new[i].distributionId >= Len(old) + 1 - (i + d)
          BY <2>3, <4>1
        <4>3. Len(old) + 1 - (i + d) = j - i
          BY <1>1, <1>9, <3>2
        <4>. QED BY <1>5, <4>1, <4>2, <4>3
      <3>3. CASE j = Len(new) /\ i = Len(new)
        BY <1>5, <1>7, <1>9, <3>3
      <3>. QED BY <3>1, <3>2, <3>3
    <2>5. ASSUME NEW x \in Chains, joined'[m][x] # NotJoined,
                 created - x < MAX_SENDER_KEY_STATES
          PROVE  Tracks(new, x)
      <3>1. CASE x = c
        BY <1>5, <1>9, <1>10, <3>1 DEF Tracks
      <3>2. CASE x # c
        <4>1. PICK i \in 1 .. Len(old) : old[i].distributionId = x
          BY <1>1, <1>13, <2>1, <2>5, <3>2 DEF RecentChainKept, Tracks
        <4>2. ~(i = 1 /\ d = 1)
          <5>. SUFFICES ASSUME i = 1, d = 1 PROVE FALSE
            OBVIOUS
          <5>1. c - x >= MAX_SENDER_KEY_STATES
            <6>1. c - x >= Len(old) + 1 - 1
              BY <2>3, <4>1
            <6>2. Len(old) = MAX_SENDER_KEY_STATES
              BY <1>9
            <6>. QED BY <6>1, <6>2, Limits
          <5>. QED BY <1>1, <1>4, <1>7, <2>5, <5>1, Limits
        <4>3. i - d \in 1 .. Len(new) /\ new[i - d] = old[i]
          BY <1>9, <4>2
        <4>. QED BY <1>10, <4>1, <4>3 DEF Tracks
      <3>. QED BY <3>1, <3>2
    <2>6. RecentChainKept(m)'
      BY <1>11, <2>5 DEF RecentChainKept
    <2>. QED BY <2>4, <2>6
  <1>19. MemberInv(m)'
    BY <1>15, <1>16, <1>17, <1>18 DEF MemberInv
  <1>. QED BY <1>1, <1>3, <1>12, <1>19, MemberStep DEF Arrays
(* A message is opened: its key is gone, what was skipped for it is stored *)
(* or has had to make way, and it had not been opened before.              *)
LEMMA OpenStep ==
    ASSUME GroupInv, NEW m \in Members, NEW message \in sent,
           OpenGroupMessage(m, message),
           UNCHANGED <<senderVars, pinned, misfiled, reloads, joined, retired, overtaken>>
    PROVE  GroupInv'
PROOF
  <1>. DEFINE c == message.distributionId
              n == message.iteration
              old == record[m]
              k == Find(old, c)
              state == old[k]
              gap == Gap(state, n)
              after == StateAfter(state, message)
              new == [old EXCEPT ![k] = after]
              keys == DOMAIN state.skippedMessageKeys \cup gap
  <1>1. /\ MemberTypeOK(m) /\ SpentInv(m) /\ OrderInv(m) /\ Arrays
        /\ GoodRecord(old, created) /\ HoldsOnce(old)
        /\ old \in Seq(State)
        /\ Len(old) \in Nat /\ DOMAIN old = 1 .. Len(old)
        /\ created \in Nat /\ SenderTypeOK
    BY MemberFacts
  <1>2. \A i \in 1 .. Len(old) :
           /\ ChainInv(m, old[i]) /\ GoodState(old[i])
           /\ old[i].distributionId \in Chains /\ old[i].iteration \in Nat
    BY MemberFacts
  <1>3. /\ Tracks(old, c)
        /\ KeyFor(state, message) = message.key
        /\ m \notin misfiled
        /\ record' = [record EXCEPT ![m][k] = StateAfter(@, message)]
        /\ delivered' = [delivered EXCEPT ![m] = @ \cup {message}]
        /\ repeated' = [repeated EXCEPT ![m] = @ \cup ({message} \cap delivered[m])]
        /\ skipped' = [skipped EXCEPT ![m] = @ \cup {<<c, i>> : i \in gap}]
        /\ UNCHANGED <<senderVars, pinned, misfiled, joined, retired, overtaken>>
    BY DEF OpenGroupMessage, Opens, Persist, StateFor
  <1>4. k \in 1 .. Len(old) /\ state.distributionId = c
    <2>1. PICK i \in 1 .. Len(old) : old[i].distributionId = c
      BY <1>1, <1>3 DEF Tracks
    <2>2. k = i
      BY <1>1, <2>1, FindFinds
    <2>. QED BY <2>1, <2>2
  <1>. HIDE DEF k, state
  <1>5. GoodMessage(message) /\ n \in Nat /\ c \in Chains
    BY <1>1 DEF SenderTypeOK, GoodMessage, Message
  <1>6. GoodState(state) /\ ChainInv(m, state) /\ state.iteration \in Nat
        /\ KeyFor(state, message) = message.key
    BY <1>2, <1>3, <1>4 DEF state
  <1>7. /\ GoodState(after)
        /\ after.distributionId = c
        /\ after.iteration >= state.iteration /\ after.iteration > n
        /\ n \notin DOMAIN after.skippedMessageKeys
        /\ DOMAIN after.skippedMessageKeys \subseteq keys
        /\ \A x \in keys \ DOMAIN after.skippedMessageKeys :
              \/ x = n
              \/ Cardinality({l \in keys : l > x}) >= MAX_SKIPPED_KEYS_STORED
        /\ state.iteration .. after.iteration - 1 \subseteq keys \cup {n}
        /\ n >= state.iteration \/ n \in DOMAIN state.skippedMessageKeys
    BY <1>4, <1>5, <1>6, StateAfterOpening, ZenonT(30)
  <1>8. /\ gap \subseteq Nat /\ IsFiniteSet(gap)
        /\ \A i \in gap : i >= state.iteration
        /\ DOMAIN state.skippedMessageKeys \subseteq Nat /\ IsFiniteSet(keys)
    <2>1. gap = state.iteration .. n - 1
      BY DEF Gap
    <2>2. IsFiniteSet(gap)
      <3>1. state.iteration \in Int /\ n - 1 \in Int
        BY <1>5, <1>6
      <3>. QED BY <2>1, <3>1, FS_Interval
    <2>3. IsFiniteSet(DOMAIN state.skippedMessageKeys)
          /\ DOMAIN state.skippedMessageKeys \subseteq Nat
      BY <1>6, StateParts DEF GoodState
    <2>4. IsFiniteSet(keys)
      BY <2>2, <2>3, FS_Union
    <2>. QED BY <1>5, <1>6, <2>1, <2>2, <2>3, <2>4
  <1>9. after.iteration \in Nat
    BY <1>7, StateParts DEF GoodState
  <1>. HIDE DEF after, gap, c, n
  <1>10. /\ record'[m] = new
         /\ delivered'[m] = delivered[m] \cup {message}
         /\ repeated'[m] = repeated[m] \cup ({message} \cap delivered[m])
         /\ skipped'[m] = skipped[m] \cup {<<c, i>> : i \in gap}
         /\ pinned'[m] = pinned[m] /\ joined'[m] = joined[m]
         /\ retired'[m] = retired[m] /\ overtaken'[m] = overtaken[m]
         /\ created' = created /\ sent' = sent /\ misfiled' = misfiled
    BY <1>1, <1>3 DEF Arrays, after, state, senderVars
  <1>11. Arrays'
    BY <1>1, <1>3 DEF Arrays
  <1>12. /\ GoodRecord(new, created)
         /\ Len(new) = Len(old) /\ Len(new) \in Nat
         /\ new[k] = after
         /\ \A i \in 1 .. Len(old) :
               /\ i # k => new[i] = old[i]
               /\ new[i].distributionId = old[i].distributionId
    <2>1. after.distributionId = old[k].distributionId
      BY <1>4, <1>7 DEF state
    <2>. QED BY <1>1, <1>4, <1>7, <2>1, GoodRecordReplace
  <1>. HIDE DEF new
  <1>13. /\ IsFiniteSet(skipped'[m]) /\ skipped'[m] \subseteq Chains \X Nat
         /\ skipped[m] \subseteq skipped'[m]
         /\ \A i \in gap : <<c, i>> \in skipped'[m]
    <2>1. IsFiniteSet({c} \X gap)
      BY <1>8, FS_Singleton, FS_Product
    <2>2. {<<c, i>> : i \in gap} \in SUBSET ({c} \X gap)
      OBVIOUS
    <2>3. IsFiniteSet({<<c, i>> : i \in gap})
      BY <2>1, <2>2, FS_Subset
    <2>4. IsFiniteSet(skipped'[m])
      <3>1. IsFiniteSet(skipped[m])
        BY <1>1 DEF MemberTypeOK
      <3>2. PICK more : more = {<<c, i>> : i \in gap}
        OBVIOUS
      <3>3. skipped'[m] = skipped[m] \cup more /\ IsFiniteSet(more)
        BY <1>10, <2>3, <3>2
      <3>. QED BY <3>1, <3>3, FS_Union
    <2>. QED BY <1>1, <1>5, <1>8, <1>10, <2>4 DEF MemberTypeOK
  <1>14. MemberTypeOK(m)'
    BY <1>1, <1>10, <1>12, <1>13 DEF MemberTypeOK
  <1>15. \A i \in 1 .. Len(old) : i # k => old[i].distributionId # c
    BY <1>1, <1>4 DEF HoldsOnce, state
  <1>16. SpentInv(m)'
    <2>1. ASSUME NEW x \in delivered'[m], x.distributionId \notin retired[m]
          PROVE  \E i \in 1 .. Len(new) :
                    /\ new[i].distributionId = x.distributionId
                    /\ x.iteration < new[i].iteration
                    /\ x.iteration \notin DOMAIN new[i].skippedMessageKeys
      <3>1. CASE x = message
        BY <1>4, <1>7, <1>12, <3>1 DEF c, n
      <3>2. CASE x \in delivered[m]
        <4>1. PICK i \in 1 .. Len(old) :
                /\ old[i].distributionId = x.distributionId
                /\ x.iteration < old[i].iteration
                /\ x.iteration \notin DOMAIN old[i].skippedMessageKeys
          BY <1>1, <2>1, <3>2 DEF SpentInv
        <4>2. CASE i # k
          BY <1>12, <4>1, <4>2
        <4>3. CASE i = k
          <5>1. /\ x.iteration < state.iteration
                /\ x.iteration \notin DOMAIN state.skippedMessageKeys
            BY <4>1, <4>3 DEF state
          <5>2. x.iteration \in Nat
            BY <1>1, <3>2 DEF MemberTypeOK, SenderTypeOK, GoodMessage, Message
          <5>3. x.iteration < after.iteration
            BY <1>6, <1>7, <1>9, <5>1, <5>2
          <5>4. x.iteration \notin DOMAIN after.skippedMessageKeys
            BY <1>6, <1>7, <1>8, <5>1, <5>2
          <5>. QED BY <1>4, <1>12, <4>1, <4>3, <5>3, <5>4
        <4>. QED BY <4>2, <4>3
      <3>. QED BY <1>10, <2>1, <3>1, <3>2
    <2>2. ASSUME message \in delivered[m], c \notin retired[m] PROVE FALSE
      <3>1. PICK i \in 1 .. Len(old) :
              /\ old[i].distributionId = c
              /\ n < old[i].iteration
              /\ n \notin DOMAIN old[i].skippedMessageKeys
        BY <1>1, <2>2 DEF SpentInv, c, n
      <3>2. i = k
        BY <1>15, <3>1
      <3>3. n < state.iteration /\ n \notin DOMAIN state.skippedMessageKeys
        BY <3>1, <3>2 DEF state
      <3>. QED BY <1>5, <1>6, <1>7, <3>3
    <2>3. \A x \in repeated'[m] : x.distributionId \in retired[m]
      BY <1>1, <1>10, <2>2 DEF SpentInv, c
    <2>. QED BY <1>10, <2>1, <2>3 DEF SpentInv
  <1>17. \A x, y : Accounted(m, x, y) => Accounted(m, x, y)'
    <2>. SUFFICES ASSUME NEW x, NEW y, Accounted(m, x, y)
                  PROVE  Accounted(m, x, y)'
      OBVIOUS
    <2>1. /\ Cardinality(LaterSkipped(m, x.distributionId, y))
              <= Cardinality(LaterSkipped(m, x.distributionId, y)')
          /\ Cardinality(LaterSkipped(m, x.distributionId, y)) \in Nat
          /\ Cardinality(LaterSkipped(m, x.distributionId, y)') \in Nat
      <3>1. /\ LaterSkipped(m, x.distributionId, y) \in SUBSET skipped[m]
            /\ LaterSkipped(m, x.distributionId, y)' \in SUBSET skipped'[m]
        BY DEF LaterSkipped
      <3>2. /\ Cardinality(LaterSkipped(m, x.distributionId, y)) \in Nat
            /\ Cardinality(LaterSkipped(m, x.distributionId, y)') \in Nat
        BY <1>1, <1>13, <3>1, FS_Subset, FS_CardinalityType DEF MemberTypeOK
      <3>3. LaterSkipped(m, x.distributionId, y)
              \in SUBSET LaterSkipped(m, x.distributionId, y)'
        BY <1>13 DEF LaterSkipped
      <3>4. IsFiniteSet(LaterSkipped(m, x.distributionId, y)')
        BY <1>13, <3>1, FS_Subset
      <3>. QED BY <3>2, <3>3, <3>4, FS_Subset
    <2>. QED BY <1>10, <2>1, Limits DEF Accounted
  <1>18. (\A i \in 1 .. Len(record[m]) : ChainInv(m, record[m][i]))'
    <2>. SUFFICES ASSUME NEW i \in 1 .. Len(old), NEW held, held = new[i]
                  PROVE  ChainInv(m, held)'
      BY <1>10, <1>12
    <2>1. CASE i # k
      <3>1. ChainInv(m, held)
        BY <1>2, <1>12, <2>1
      <3>. QED BY <1>10, <1>13, <1>17, <3>1 DEF ChainInv
    <2>2. CASE i = k
      <3>1. held = after /\ held.distributionId = c
        BY <1>7, <1>12, <2>2
      <3>2. joined'[m][c] \in 0 .. held.iteration
        <4>1. joined[m][c] \in 0 .. state.iteration
          BY <1>4, <1>6 DEF ChainInv
        <4>. QED BY <1>6, <1>7, <1>9, <1>10, <3>1, <4>1
      <3>3. \A x \in keys : <<c, x>> \in skipped'[m]
        BY <1>4, <1>6, <1>13 DEF ChainInv
      <3>4. ASSUME NEW x \in joined'[m][c] .. held.iteration - 1
            PROVE  Accounted(m, held, x)'
        <4>1. x \in Nat /\ x <= held.iteration - 1
          BY <1>9, <3>1, <3>2
        <4>2. ASSUME x \in keys \cup {n} PROVE Accounted(m, held, x)'
          <5>1. CASE x = n
            BY <1>10, <3>1, <5>1 DEF Accounted, c, n
          <5>2. CASE x \in DOMAIN held.skippedMessageKeys
            BY <5>2 DEF Accounted
          <5>3. CASE x # n /\ x \notin DOMAIN held.skippedMessageKeys
            <6>1. Cardinality({l \in keys : l > x}) >= MAX_SKIPPED_KEYS_STORED
              BY <1>7, <3>1, <4>2, <5>3
            <6>2. Cardinality({l \in keys : l > x})
                    <= Cardinality(LaterSkipped(m, c, x)')
              <7>1. IsFiniteSet(LaterSkipped(m, c, x)')
                <8>1. LaterSkipped(m, c, x)' \in SUBSET skipped'[m]
                  BY DEF LaterSkipped
                <8>. QED BY <1>13, <8>1, FS_Subset
              <7>2. \A l \in {j \in keys : j > x} : <<c, l>> \in LaterSkipped(m, c, x)'
                BY <3>3 DEF LaterSkipped, c
              <7>. QED BY <7>1, <7>2, KeysCounted
            <6>3. /\ Cardinality({l \in keys : l > x}) \in Nat
                  /\ Cardinality(LaterSkipped(m, c, x)') \in Nat
              <7>1. /\ {l \in keys : l > x} \in SUBSET keys
                    /\ LaterSkipped(m, c, x)' \in SUBSET skipped'[m]
                BY DEF LaterSkipped
              <7>. QED BY <1>8, <1>13, <7>1, FS_Subset, FS_CardinalityType
            <6>4. Cardinality(LaterSkipped(m, c, x)') >= MAX_SKIPPED_KEYS_STORED
              BY <6>1, <6>2, <6>3, Limits
            <6>. QED BY <3>1, <6>4 DEF Accounted
          <5>. QED BY <5>1, <5>2, <5>3
        <4>3. CASE x < state.iteration
          <5>1. x \in joined[m][c] .. state.iteration - 1
            BY <1>6, <1>10, <3>2, <4>1, <4>3
          <5>2. Accounted(m, state, x)
            BY <1>4, <1>6, <5>1 DEF ChainInv
          <5>3. CASE x \in DOMAIN state.skippedMessageKeys
            BY <4>2, <5>3
          <5>4. CASE x \notin DOMAIN state.skippedMessageKeys
            BY <1>4, <1>17, <3>1, <5>2, <5>4 DEF Accounted
          <5>. QED BY <5>3, <5>4
        <4>4. CASE ~(x < state.iteration)
          <5>1. x \in state.iteration .. after.iteration - 1
            BY <1>6, <1>9, <3>1, <4>1, <4>4
          <5>. QED BY <1>7, <4>2, <5>1
        <4>. QED BY <4>3, <4>4
      <3>5. \A x \in DOMAIN held.skippedMessageKeys : <<c, x>> \in skipped'[m]
        BY <1>7, <3>1, <3>3
      <3>. QED BY <1>3, <1>10, <3>1, <3>2, <3>4, <3>5 DEF ChainInv
    <2>. QED BY <2>1, <2>2
  <1>19. OrderInv(m)'
    <2>1. \A x : Tracks(old, x) => Tracks(new, x)
      <3>1. DOMAIN new = 1 .. Len(new)
        BY <1>12 DEF GoodRecord
      <3>. QED BY <1>1, <1>12, <3>1 DEF Tracks
    <2>2. RecentChainKept(m) => RecentChainKept(m)'
      BY <1>10, <2>1 DEF RecentChainKept
    <2>. QED BY <1>1, <1>10, <1>12, <2>2 DEF OrderInv
  <1>20. MemberInv(m)'
    BY <1>14, <1>16, <1>18, <1>19 DEF MemberInv
  <1>. QED BY <1>1, <1>3, <1>11, <1>20, MemberStep DEF Arrays
-----------------------------------------------------------------------------
(* GroupInv is inductive.                                                  *)
LEMMA NextGroupInv == GroupInv /\ [Next]_vars => GroupInv'
PROOF
  <1>. SUFFICES ASSUME GroupInv, [Next]_vars PROVE GroupInv'
    OBVIOUS
  <1>1. CASE SetupSenderKey
    BY <1>1, SetupStep
  <1>2. CASE GetSenderKeyDistribution
    BY <1>2, DistributionStep
  <1>3. CASE RotateSenderKey
    BY <1>3, RotateStep
  <1>4. CASE EncryptGroupMessage
    BY <1>4, EncryptStep
  <1>5. CASE ReloadSender
    BY <1>5, ReloadSenderStep
  <1>6. ASSUME NEW m \in Members, ProcessSenderKeyDistribution(m) PROVE GroupInv'
    BY <1>6, AcceptStep, IgnoreStep DEF ProcessSenderKeyDistribution
  <1>7. ASSUME NEW m \in Members, DecryptGroupMessage(m) PROVE GroupInv'
    BY <1>7, OpenStep, RefuseStep DEF DecryptGroupMessage
  <1>8. ASSUME NEW m \in Members, ReloadMember(m) PROVE GroupInv'
    BY <1>8, ReloadMemberStep
  <1>9. CASE UNCHANGED vars
    <2>1. SenderInv' /\ created <= created'
      BY <1>9 DEF GroupInv, SenderInv, SenderTypeOK, BehindOwn, OneMessagePerKey,
                  vars, senderVars
    <2>. QED BY <1>9, <2>1, SenderStep DEF vars, senderVars, memberVars, historyVars
  <1>. QED BY <1>1, <1>2, <1>3, <1>4, <1>5, <1>6, <1>7, <1>8, <1>9 DEF Next

(* For all members, limits and bounds: the sender's record, what it has    *)
(* sent and what the members hold fit together in every reachable state.   *)
THEOREM GroupInvariant == Spec => []GroupInv
  <1>1. Init => GroupInv
    BY InitGroupInv
  <1>2. GroupInv /\ [Next]_vars => GroupInv'
    BY NextGroupInv
  <1>. QED BY <1>1, <1>2, PTL DEF Spec

(* Types, at most MAX_SENDER_KEY_STATES chains in a record and at most     *)
(* MAX_SKIPPED_KEYS_STORED keys in a chain (sender-key-record.ts:42-48,    *)
(* sender-key-state.ts:69-72).                                             *)
THEOREM GroupTypeCorrect == Spec => []TypeOK
PROOF
  <1>1. GroupInv => TypeOK
    <2>. SUFFICES ASSUME GroupInv PROVE TypeOK
      OBVIOUS
    <2>1. \A states : GoodRecord(states, created) => IsRecord(states)
      BY StateParts DEF GoodRecord, GoodState, IsRecord, IsState
    <2>2. IsRecord(own) /\ identity \in Nat /\ created \in 0 .. MaxChains
      BY <2>1 DEF GroupInv, SenderInv, SenderTypeOK
    <2>3. sent \subseteq Message /\ \A skdm \in skdms : skdm.chainKey \in ChainKey
      BY DEF GroupInv, SenderInv, SenderTypeOK, GoodMessage, GoodSkdm, Distribution
    <2>4. \A m \in Members :
            /\ IsRecord(record[m])
            /\ pinned[m] \in Nat \cup {NotPinned}
            /\ delivered[m] \subseteq sent
      BY <2>1 DEF GroupInv, MemberInv, MemberTypeOK
    <2>5. /\ pinned = [m \in Members |-> pinned[m]]
          /\ delivered = [m \in Members |-> delivered[m]]
      BY DEF GroupInv, Arrays
    <2>6. /\ pinned \in [Members -> Nat \cup {NotPinned}]
          /\ delivered \in [Members -> SUBSET sent]
      BY <2>4, <2>5
    <2>. QED BY <2>2, <2>3, <2>4, <2>6 DEF TypeOK
  <1>. QED BY <1>1, GroupInvariant, PTL

(* What a member stores for an iteration of a chain is that key of that    *)
(* chain, and a record holds a chain once (sender-key-state.ts:47-81,      *)
(* group-cipher.ts:180-182).                                               *)
THEOREM StoredKeysAreOfTheChain == Spec => []ChainsAgree
PROOF
  <1>1. GroupInv => ChainsAgree
    <2>. SUFFICES ASSUME GroupInv, NEW m \in Members
                  PROVE  /\ \A i \in DOMAIN record[m] : AgreesWithChain(record[m][i])
                         /\ \A i, j \in DOMAIN record[m] :
                               record[m][i].distributionId = record[m][j].distributionId
                               => i = j
      BY DEF ChainsAgree
    <2>1. /\ DOMAIN record[m] = 1 .. Len(record[m]) /\ HoldsOnce(record[m])
          /\ \A i \in 1 .. Len(record[m]) : GoodState(record[m][i])
      BY MemberFacts
    <2>. QED BY <2>1 DEF GoodState, HoldsOnce
  <1>. QED BY <1>1, GroupInvariant, PTL

(* Forward secrecy: the keys of opened messages are gone (signal/README.md *)
(* :70-74), unless a chain was given up and taken in again.                *)
THEOREM OpenedKeysAreGone == Spec => []SpentKeysGone
PROOF
  <1>1. GroupInv => SpentKeysGone
    <2>. SUFFICES ASSUME GroupInv, NEW m \in Members, NEW message \in delivered[m],
                         NEW i \in DOMAIN record[m],
                         record[m][i].distributionId = message.distributionId,
                         message.distributionId \notin retired[m]
                  PROVE  /\ message.iteration < record[m][i].iteration
                         /\ message.iteration \notin DOMAIN record[m][i].skippedMessageKeys
      BY DEF SpentKeysGone
    <2>1. /\ DOMAIN record[m] = 1 .. Len(record[m]) /\ HoldsOnce(record[m])
          /\ SpentInv(m)
      BY MemberFacts
    <2>2. PICK j \in 1 .. Len(record[m]) :
            /\ record[m][j].distributionId = message.distributionId
            /\ message.iteration < record[m][j].iteration
            /\ message.iteration \notin DOMAIN record[m][j].skippedMessageKeys
      BY <2>1 DEF SpentInv
    <2>3. i = j
      BY <2>1, <2>2 DEF HoldsOnce
    <2>. QED BY <2>2, <2>3
  <1>. QED BY <1>1, GroupInvariant, PTL

(* However messages arrive, a member opens none twice, unless it gave the  *)
(* chain up and took it in again (sender-key-state.ts:20-24).              *)
THEOREM MessagesOpenOnce == Spec => []AtMostOnce
PROOF
  <1>1. GroupInv => AtMostOnce
    BY DEF GroupInv, MemberInv, SpentInv, AtMostOnce
  <1>. QED BY <1>1, GroupInvariant, PTL

(* No two group messages are encrypted with one key, across rotations and  *)
(* reloads (signal/README.md:61-62).                                       *)
THEOREM KeysEncryptOneMessage == Spec => []OneMessagePerKey
PROOF
  <1>1. GroupInv => OneMessagePerKey
    BY DEF GroupInv, SenderInv
  <1>. QED BY <1>1, GroupInvariant, PTL

(* Where no message opens every chain is as it was taken in                *)
(* (group-cipher.ts:90-97).                                                *)
THEOREM FailuresChangeNothing == Spec => []FailureLeavesChains
PROOF
  <1>1. GroupInv => FailureLeavesChains
    <2>. SUFFICES ASSUME GroupInv, NEW m \in misfiled, NEW i \in DOMAIN record[m]
                  PROVE  /\ record[m][i].iteration = joined[m][record[m][i].distributionId]
                         /\ DOMAIN record[m][i].skippedMessageKeys = {}
      BY DEF FailureLeavesChains
    <2>1. m \in Members
      BY DEF GroupInv
    <2>2. DOMAIN record[m] = 1 .. Len(record[m]) /\ ChainInv(m, record[m][i])
      BY <2>1, MemberFacts
    <2>. QED BY <2>2 DEF ChainInv
  <1>. QED BY <1>1, GroupInvariant, PTL

(* Chains taken in in order are evicted oldest first, never before         *)
(* MAX_SENDER_KEY_STATES later ones exist (sender-key-record.ts:4-9).      *)
THEOREM OldestChainsGoFirst == Spec => []RecentChainsKeptInOrder
PROOF
  <1>1. GroupInv => RecentChainsKeptInOrder
    BY DEF GroupInv, MemberInv, OrderInv, RecentChainsKeptInOrder
  <1>. QED BY <1>1, GroupInvariant, PTL

(* A late message of a chain that is held can be opened, unless it is too  *)
(* far ahead or its key had to make way for later ones                     *)
(* (sender-key-state.ts:57-60).                                            *)
THEOREM LateMessagesOpen == Spec => []Decryptable
PROOF
  <1>1. GroupInv => Decryptable
    <2>. SUFFICES ASSUME GroupInv, NEW m \in Members \ misfiled,
                         NEW message \in sent \ delivered[m],
                         Tracks(record[m], message.distributionId),
                         message.iteration >= joined[m][message.distributionId],
                         message.iteration - StateFor(m, message).iteration
                            <= MAX_GROUP_SKIP,
                         message.iteration < StateFor(m, message).iteration
                            => ~MadeWay(m, message)
                  PROVE  Opens(m, message)
      BY DEF Decryptable
    <2>. DEFINE c == message.distributionId
                n == message.iteration
                k == Find(record[m], c)
                state == record[m][k]
    <2>1. /\ DOMAIN record[m] = 1 .. Len(record[m]) /\ HoldsOnce(record[m])
          /\ record[m] \in Seq(State)
          /\ SenderTypeOK /\ OneMessagePerKey /\ MemberTypeOK(m)
          /\ \A i \in 1 .. Len(record[m]) :
                ChainInv(m, record[m][i]) /\ GoodState(record[m][i])
      BY MemberFacts
    <2>2. k \in 1 .. Len(record[m]) /\ state.distributionId = c
      <3>1. PICK i \in 1 .. Len(record[m]) : record[m][i].distributionId = c
        BY <2>1 DEF Tracks
      <3>2. k = i
        BY <2>1, <3>1, FindFinds
      <3>. QED BY <3>1, <3>2
    <2>3. ChainInv(m, state) /\ GoodState(state) /\ StateFor(m, message) = state
      BY <2>1, <2>2 DEF StateFor
    <2>. HIDE DEF k, state
    <2>4. /\ GoodMessage(message) /\ n \in Nat /\ state.iteration \in Nat
          /\ message.key = KeyOf(c, n)
      BY <2>1, <2>3, StateParts DEF SenderTypeOK, GoodMessage, GoodState, Message
    <2>5. /\ state.chainKey = KeyOf(c, state.iteration)
          /\ \A i \in DOMAIN state.skippedMessageKeys :
                state.skippedMessageKeys[i] = KeyOf(c, i)
      BY <2>2, <2>3 DEF GoodState, AgreesWithChain, KeyOf
    <2>6. KeyFor(state, message) = message.key
      <3>1. CASE IsLate(state, message)
        <4>1. n < state.iteration /\ ~MadeWay(m, message)
          BY <2>3, <3>1 DEF IsLate
        <4>2. n \in joined[m][c] .. state.iteration - 1
          <5>1. joined[m][c] \in 0 .. state.iteration
            BY <2>2, <2>3 DEF ChainInv
          <5>. QED BY <2>4, <4>1, <5>1
        <4>3. Accounted(m, state, n)
          BY <2>2, <2>3, <4>2 DEF ChainInv
        <4>4. ~(Cardinality(LaterSkipped(m, c, n)) >= MAX_SKIPPED_KEYS_STORED)
          BY <4>1 DEF MadeWay, LaterSkipped
        <4>5. ASSUME NEW x \in delivered[m], x.distributionId = c, x.iteration = n
              PROVE  FALSE
          <5>1. x \in sent /\ x.key = message.key
            BY <2>1, <2>4, <4>5 DEF MemberTypeOK, SenderTypeOK, GoodMessage
          <5>2. x = message
            BY <2>1, <5>1 DEF OneMessagePerKey
          <5>. QED BY <5>2
        <4>6. n \in DOMAIN state.skippedMessageKeys
          BY <2>2, <4>3, <4>4, <4>5 DEF Accounted
        <4>. QED BY <2>4, <2>5, <3>1, <4>6 DEF KeyFor
      <3>2. CASE ~IsLate(state, message)
        <4>1. n >= state.iteration
          BY <2>4, <3>2 DEF IsLate
        <4>2. ~TooManySkipped(state, message)
          <5>1. n - state.iteration <= MAX_GROUP_SKIP
            BY <2>3
          <5>. QED BY <2>4, <5>1, SenderKeysAssumption DEF TooManySkipped
        <4>3. KeyFor(state, message) = NextChainKey(state.chainKey, n - state.iteration)
          BY <3>2, <4>2 DEF KeyFor
        <4>4. NextChainKey(KeyOf(c, state.iteration), n - state.iteration) = KeyOf(c, n)
          BY <2>4, <4>1 DEF NextChainKey, KeyOf
        <4>. QED BY <2>4, <2>5, <4>3, <4>4
      <3>. QED BY <3>1, <3>2
    <2>. QED BY <2>3, <2>6 DEF Opens
  <1>. QED BY <1>1, GroupInvariant, PTL

(* Trust on first use: no distribution message replaces a pinned identity  *)
(* (index.ts:216-222).                                                     *)
THEOREM GroupPinsHold == Spec => PinsHold
PROOF
  <1>1. GroupInv /\ [Next]_vars
           => [\A m \in Members : pinned[m] # NotPinned
                 => pinned'[m] = pinned[m] \/ ReloadMember(m)]_vars
    <2>. SUFFICES ASSUME GroupInv, Next, NEW m \in Members, pinned[m] # NotPinned,
                         pinned'[m] # pinned[m]
                  PROVE  ReloadMember(m)
      BY DEF vars, memberVars
    <2>1. DOMAIN pinned = Members
      BY DEF GroupInv, Arrays
    <2>2. ASSUME NEW u \in Members, ProcessSenderKeyDistribution(u) PROVE FALSE
      <3>1. PICK skdm \in skdms : Pin(u, skdm)
        BY <2>2 DEF ProcessSenderKeyDistribution
      <3>. QED BY <2>1, <3>1 DEF Pin, TrustedIdentity
    <2>3. ASSUME NEW u \in Members, ReloadMember(u) PROVE u = m
      BY <2>1, <2>3 DEF ReloadMember
    <2>4. ASSUME NEW u \in Members, DecryptGroupMessage(u) PROVE FALSE
      BY <2>4 DEF DecryptGroupMessage
    <2>5. CASE SetupSenderKey \/ GetSenderKeyDistribution \/ RotateSenderKey
               \/ EncryptGroupMessage \/ ReloadSender
      BY <2>5 DEF SetupSenderKey, GetSenderKeyDistribution, RotateSenderKey,
                  EncryptGroupMessage, ReloadSender, memberVars
    <2>. QED BY <2>2, <2>3, <2>4, <2>5 DEF Next
  <1>. QED BY <1>1, GroupInvariant, PTL DEF Spec, PinsHold
===============================================================================
