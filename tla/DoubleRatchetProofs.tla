------------------------- MODULE DoubleRatchetProofs -------------------------
(***************************************************************************)
(* What the operators of DoubleRatchet do to one ratchet, for every        *)
(* MAX_SKIP, every store cap of at least twice that, and any keys K,       *)
(* secrets S and associated data A: each keeps RatchetInv, and a spent key *)
(* stays spent.                                                            *)
(*                                                                         *)
(* The second half is about a ratchet in step with its peer (InStep): what *)
(* meets it is a message of the chain it receives on, of an older one, or  *)
(* of the one it turns to next.  Encrypting and decrypting keep it in step,*)
(* and a message whose key it has not passed, or has stored, opens.        *)
(***************************************************************************)
EXTENDS DoubleRatchet, SequenceTheorems, TLAPS

-----------------------------------------------------------------------------
(* Sequences of skipped keys.                                              *)

(* Eviction keeps a suffix: the kept keys are keys of the sequence, in the *)
(* same order, and they fit the cap, or fill it when any had to go.        *)
LEMMA EvictOldestKeepsSuffix ==
    ASSUME NEW S, NEW q \in Seq(S)
    PROVE  /\ EvictOldest(q) \in Seq(S)
           /\ Len(EvictOldest(q)) <= MAX_SKIPPED_KEYS_STORED
           /\ Len(EvictOldest(q)) <= Len(q)
           /\ Len(EvictOldest(q)) = Len(q) \/ Len(EvictOldest(q)) = MAX_SKIPPED_KEYS_STORED
           /\ \A i \in 1 .. Len(EvictOldest(q)) :
                EvictOldest(q)[i] = q[i + Len(q) - Len(EvictOldest(q))]
<1>1. Len(q) \in Nat /\ \A i \in 1 .. Len(q) : q[i] \in S
  BY LenProperties, ElementOfSeq
<1>2. CASE Len(q) <= MAX_SKIPPED_KEYS_STORED
  BY <1>1, <1>2 DEF EvictOldest
<1>3. CASE ~(Len(q) <= MAX_SKIPPED_KEYS_STORED)
  <2> DEFINE first == Len(q) - MAX_SKIPPED_KEYS_STORED + 1
             kept == SubSeq(q, first, Len(q))
  <2>1. first \in Int /\ first <= Len(q) + 1 /\ first >= 1
    BY <1>1, <1>3, MaxStoredAssumption
  <2>2. \A i \in first .. Len(q) : q[i] \in S
    BY <1>1, <2>1
  <2>3. /\ kept \in Seq(S)
        /\ Len(kept) = IF first <= Len(q) THEN Len(q) - first + 1 ELSE 0
        /\ \A i \in 1 .. Len(q) - first + 1 : kept[i] = q[first + i - 1]
    <3> HIDE DEF first
    <3> QED  BY <1>1, <2>1, <2>2, SubSeqProperties
  <2>4. EvictOldest(q) = kept
    BY <1>3 DEF EvictOldest
  <2>5. Len(kept) = MAX_SKIPPED_KEYS_STORED
    <3> HIDE DEF kept
    <3> QED  BY <1>1, <1>3, <2>1, <2>3, MaxStoredAssumption
  <2>6. \A i \in 1 .. Len(kept) : kept[i] = q[i + Len(q) - Len(kept)]
    <3> SUFFICES ASSUME NEW i \in 1 .. Len(kept)
                 PROVE  kept[i] = q[i + Len(q) - Len(kept)]
      OBVIOUS
    <3>1. first + i - 1 = i + Len(q) - Len(kept) /\ i \in 1 .. Len(q) - first + 1
      <4> HIDE DEF kept
      <4> QED  BY <1>1, <2>5, MaxStoredAssumption
    <3> HIDE DEF first, kept
    <3> QED  BY <2>3, <3>1
  <2>7. Len(kept) <= MAX_SKIPPED_KEYS_STORED /\ Len(kept) <= Len(q)
    BY <1>1, <1>3, <2>5, MaxStoredAssumption
  <2> HIDE DEF first, kept
  <2> QED  BY <2>3, <2>4, <2>5, <2>6, <2>7
<1> QED  BY <1>2, <1>3

(* Removing one key leaves every other key, in order.                      *)
LEMMA RemoveAtKeepsOthers ==
    ASSUME NEW S, NEW q \in Seq(S), NEW n \in 1 .. Len(q)
    PROVE  /\ RemoveAt(q, n) \in Seq(S)
           /\ Len(RemoveAt(q, n)) = Len(q) - 1
           /\ \A i \in 1 .. Len(q) - 1 :
                RemoveAt(q, n)[i] = IF i < n THEN q[i] ELSE q[i + 1]
<1> DEFINE before == SubSeq(q, 1, n - 1)
           after == SubSeq(q, n + 1, Len(q))
<1>1. Len(q) \in Nat /\ \A i \in 1 .. Len(q) : q[i] \in S
  BY LenProperties, ElementOfSeq
<1>2. /\ before \in Seq(S)
      /\ Len(before) = n - 1
      /\ \A i \in 1 .. n - 1 : before[i] = q[i]
  <2>1. /\ before \in Seq(S)
        /\ Len(before) = IF 1 <= n - 1 THEN n - 1 - 1 + 1 ELSE 0
        /\ \A i \in 1 .. n - 1 - 1 + 1 : before[i] = q[1 + i - 1]
    BY <1>1, SubSeqProperties
  <2> QED  BY <1>1, <2>1
<1>3. /\ after \in Seq(S)
      /\ Len(after) = Len(q) - n
      /\ \A i \in 1 .. Len(q) - n : after[i] = q[n + i]
  <2>1. /\ after \in Seq(S)
        /\ Len(after) = IF n + 1 <= Len(q) THEN Len(q) - (n + 1) + 1 ELSE 0
        /\ \A i \in 1 .. Len(q) - (n + 1) + 1 : after[i] = q[n + 1 + i - 1]
    BY <1>1, SubSeqProperties
  <2> QED  BY <1>1, <2>1
<1>4. RemoveAt(q, n) = before \o after
  BY DEF RemoveAt
<1> HIDE DEF before, after
<1>5. /\ before \o after \in Seq(S)
      /\ Len(before \o after) = Len(before) + Len(after)
      /\ \A i \in 1 .. Len(before) + Len(after) : (before \o after)[i] =
            IF i <= Len(before) THEN before[i] ELSE after[i - Len(before)]
  BY <1>2, <1>3, ConcatProperties
<1>6. ASSUME NEW i \in 1 .. Len(q) - 1
      PROVE  (before \o after)[i] = IF i < n THEN q[i] ELSE q[i + 1]
  <2>1. CASE i < n
    <3>1. i <= Len(before) /\ i \in 1 .. Len(before) + Len(after) /\ i \in 1 .. n - 1
      BY <1>1, <1>2, <1>3, <2>1
    <3> QED  BY <1>2, <1>5, <2>1, <3>1
  <2>2. CASE ~(i < n)
    <3>1. /\ i - Len(before) \in 1 .. Len(q) - n
          /\ n + (i - Len(before)) = i + 1
          /\ i \in 1 .. Len(before) + Len(after)
          /\ ~(i <= Len(before))
      BY <1>1, <1>2, <1>3, <2>2
    <3>2. (before \o after)[i] = after[i - Len(before)]
      BY <1>5, <3>1
    <3>3. after[i - Len(before)] = q[n + (i - Len(before))]
      BY <1>3, <3>1
    <3> QED  BY <2>2, <3>1, <3>2, <3>3
  <2> QED  BY <2>1, <2>2
<1>7. Len(before) + Len(after) = Len(q) - 1
  BY <1>1, <1>2, <1>3
<1> QED  BY <1>4, <1>5, <1>6, <1>7

-----------------------------------------------------------------------------
(* One ratchet.                                                            *)

(* The secrets include the DH of any two keys.                             *)
ClosedUnderDh(K, S) == \A a, b \in K : Dh(a, b) \in S

(* A party's ratchet, typed, within the cap and well formed.               *)
GoodRatchet(s, parity, K, S, A) ==
    /\ s \in RatchetStates(K, S, A)
    /\ Len(s.skippedMessageKeys) <= MAX_SKIPPED_KEYS_STORED
    /\ RatchetInv(s, parity)

(* From s to t no key comes back: what s had spent or sent with, t has too.*)
Follows(s, t, S) ==
    /\ \A k \in ChainKeys(S) : Spent(s, k) => Spent(t, k)
    /\ \A k \in ChainKeys(S) :
        Before(k, s.sendingChainKey) => Before(k, t.sendingChainKey)

(* A chain that follows a follower of another follows that other.          *)
LEMMA FollowsTransitive ==
    ASSUME NEW S, NEW s, NEW t, NEW u, Follows(s, t, S), Follows(t, u, S)
    PROVE  Follows(s, u, S)
BY DEF Follows

(* From s to t the store only grows at its end: a key leaves it to make    *)
(* way, and the keys that come in come after every key the chain has passed*)
Ages(s, t, S) ==
    /\ Len(s.skippedMessageKeys) <= Len(t.skippedMessageKeys)
    /\ StoredKeys(s) \ StoredKeys(t) \subseteq MadeWay(s, t)
    /\ \A k \in ChainKeys(S) :
        Before(k, s.receivingChainKey) =>
            /\ Before(k, t.receivingChainKey)
            /\ \A new \in StoredKeys(t) \ StoredKeys(s) : Before(k, new)

(* No key comes before itself.                                             *)
LEMMA BeforeIrreflexive ==
    ASSUME NEW S, NEW k \in ChainKeys(S)
    PROVE  ~Before(k, k)
<1>1. k.step \in Nat /\ Len(k.root) \in Nat
  BY LenProperties DEF ChainKeys
<1> QED  BY <1>1 DEF Before

(* One more secret turns an even length into an odd one and back.          *)
LEMMA ParityFlips ==
    \A n \in Nat, parity \in {0, 1} : (n + 1) % 2 = parity => n % 2 # parity
OBVIOUS

(* Two more secrets keep the parity of a length.                           *)
LEMMA ParityRepeats ==
    \A n \in Nat : (n + 2) % 2 = n % 2
OBVIOUS

(* Stored keys are chain keys.                                             *)
LEMMA StoredKeyType ==
    ASSUME NEW K, NEW S, NEW A,
           NEW s \in RatchetStates(K, S, A), NEW i \in 1 .. Len(s.skippedMessageKeys)
    PROVE  s.skippedMessageKeys[i].key \in ChainKeys(S)
<1>1. s.skippedMessageKeys \in Seq(SkippedKeys(K, S))
  BY DEF RatchetStates
<1>2. s.skippedMessageKeys[i] \in SkippedKeys(K, S)
  BY <1>1, ElementOfSeq
<1> QED  BY <1>2 DEF SkippedKeys

(* Stored keys come before the receiving chain, and no key is stored twice.*)
LEMMA StoredKeysSorted ==
    ASSUME NEW K, NEW S, NEW A, NEW parity, NEW s \in RatchetStates(K, S, A),
           RatchetInv(s, parity)
    PROVE  /\ \A k \in StoredKeys(s) :
                k \in ChainKeys(S) /\ Before(k, s.receivingChainKey)
           /\ \A i, j \in 1 .. Len(s.skippedMessageKeys) :
                i # j => s.skippedMessageKeys[i].key # s.skippedMessageKeys[j].key
<1> DEFINE stored == s.skippedMessageKeys
<1>1. Len(stored) \in Nat
  BY DEF RatchetStates
<1>2. \A i \in 1 .. Len(stored) : stored[i].key \in ChainKeys(S)
  BY StoredKeyType
<1>3. /\ \A i \in 1 .. Len(stored) : Before(stored[i].key, s.receivingChainKey)
      /\ \A i, j \in 1 .. Len(stored) : i < j => Before(stored[i].key, stored[j].key)
  BY DEF RatchetInv
<1>4. \A k \in StoredKeys(s) : k \in ChainKeys(S) /\ Before(k, s.receivingChainKey)
  BY <1>2, <1>3 DEF StoredKeys
<1>5. ASSUME NEW i \in 1 .. Len(stored), NEW j \in 1 .. Len(stored), i # j,
             stored[i].key = stored[j].key
      PROVE  FALSE
  <2>1. i < j \/ j < i
    BY <1>1, <1>5
  <2> HIDE DEF stored
  <2> QED  BY <1>2, <1>3, <1>5, <2>1, BeforeIrreflexive
<1> QED  BY <1>4, <1>5

(* Two stretches of ageing in a row are one.                               *)
LEMMA AgesTransitive ==
    ASSUME NEW K, NEW S, NEW A, NEW parity, NEW s, NEW t, NEW u,
           GoodRatchet(s, parity, K, S, A), GoodRatchet(u, parity, K, S, A),
           t \in RatchetStates(K, S, A), Ages(s, t, S), Ages(t, u, S)
    PROVE  Ages(s, u, S)
<1>1. /\ Len(s.skippedMessageKeys) \in Nat
      /\ Len(t.skippedMessageKeys) \in Nat
      /\ Len(u.skippedMessageKeys) \in Nat
      /\ Len(u.skippedMessageKeys) <= MAX_SKIPPED_KEYS_STORED
  BY DEF GoodRatchet, RatchetStates
<1>2. Len(s.skippedMessageKeys) <= Len(u.skippedMessageKeys)
  BY <1>1 DEF Ages
<1>3. ASSUME NEW k \in ChainKeys(S), Before(k, s.receivingChainKey)
      PROVE  /\ Before(k, u.receivingChainKey)
             /\ \A new \in StoredKeys(u) \ StoredKeys(s) : Before(k, new)
  BY <1>3 DEF Ages
<1>4. \A k \in StoredKeys(s) : k \in ChainKeys(S) /\ Before(k, s.receivingChainKey)
  BY StoredKeysSorted DEF GoodRatchet
<1>5. ASSUME NEW k \in StoredKeys(s) \ StoredKeys(u)
      PROVE  k \in MadeWay(s, u)
  <2>1. CASE k \in StoredKeys(t)
    <3>1. k \in MadeWay(t, u)
      BY <1>5, <2>1 DEF Ages
    <3> QED  BY <1>5, <3>1 DEF MadeWay
  <2>2. CASE k \notin StoredKeys(t)
    <3>1. k \in MadeWay(s, t)
      BY <1>5, <2>2 DEF Ages
    <3>2. Len(u.skippedMessageKeys) = MAX_SKIPPED_KEYS_STORED
      <4>1. Len(t.skippedMessageKeys) = MAX_SKIPPED_KEYS_STORED
        BY <3>1 DEF MadeWay
      <4> QED  BY <1>1, <4>1, MaxStoredAssumption DEF Ages
    <3>3. ASSUME NEW kept \in StoredKeys(u)
          PROVE  Before(k, kept)
      <4>1. CASE kept \in StoredKeys(t)
        BY <3>1, <4>1 DEF MadeWay
      <4>2. CASE kept \notin StoredKeys(t)
        <5>1. k \in ChainKeys(S) /\ Before(k, t.receivingChainKey)
          BY <1>4, <1>5 DEF Ages
        <5> QED  BY <4>2, <5>1 DEF Ages
      <4> QED  BY <4>1, <4>2
    <3> QED  BY <1>5, <3>2, <3>3 DEF MadeWay
  <2> QED  BY <2>1, <2>2
<1> QED  BY <1>2, <1>3, <1>5 DEF Ages

(* The keys laid down for a gap are the next steps of the receiving chain. *)
LEMMA GapKeys ==
    ASSUME NEW K, NEW S, NEW A,
           NEW s \in RatchetStates(K, S, A), NEW until \in Nat, s.receiveMessageNumber < until
    PROVE  /\ SkippedInGap(s, until) \in Seq(SkippedKeys(K, S))
           /\ Len(SkippedInGap(s, until)) = until - s.receiveMessageNumber
           /\ \A i \in 1 .. until - s.receiveMessageNumber :
                SkippedInGap(s, until)[i].key =
                    [root |-> s.receivingChainKey.root,
                     step |-> s.receivingChainKey.step + i - 1]
<1> DEFINE gap == until - s.receiveMessageNumber
           chain == s.receivingChainKey
           entry(i) == [publicKey |-> s.receivingRatchetKey,
                        messageNumber |-> s.receiveMessageNumber + i - 1,
                        key |-> [chain EXCEPT !.step = @ + i - 1]]
<1>1. gap \in Nat /\ chain \in ChainKeys(S)
  BY DEF RatchetStates
<1>2. ASSUME NEW i \in 1 .. gap
      PROVE  /\ entry(i) \in SkippedKeys(K, S)
             /\ entry(i).key = [root |-> chain.root, step |-> chain.step + i - 1]
  <2>1. [chain EXCEPT !.step = @ + i - 1] = [root |-> chain.root, step |-> chain.step + i - 1]
    BY <1>1 DEF ChainKeys
  <2>2. /\ chain.step + i - 1 \in Nat
        /\ s.receiveMessageNumber + i - 1 \in Nat
    BY <1>1, SMTT(30) DEF ChainKeys, RatchetStates
  <2> QED  BY <1>1, <2>1, <2>2 DEF SkippedKeys, ChainKeys, RatchetStates
<1>3. SkippedInGap(s, until) = [i \in 1 .. gap |-> entry(i)]
  BY DEF SkippedInGap
<1> HIDE DEF gap, entry
<1>4. [i \in 1 .. gap |-> entry(i)] \in [1 .. gap -> SkippedKeys(K, S)]
  BY <1>2
<1>5. /\ [i \in 1 .. gap |-> entry(i)] \in Seq(SkippedKeys(K, S))
      /\ Len([i \in 1 .. gap |-> entry(i)]) = gap
  BY <1>1, <1>4
<1> QED  BY <1>2, <1>3, <1>5 DEF gap

(* Skipping to a message number files the keys of the gap and moves the    *)
(* receiving chain past them.                                              *)
LEMMA SkipKeepsRatchetGood ==
    ASSUME NEW K, NEW S, NEW A,
           NEW parity \in {0, 1}, NEW s, GoodRatchet(s, parity, K, S, A), NEW until \in Nat
    PROVE  LET t == SkipReceivingMessageKeys(s, until)
           IN  /\ GoodRatchet(t, parity, K, S, A)
               /\ Follows(s, t, S)
               /\ Ages(s, t, S)
               /\ t.rootKey = s.rootKey
               /\ t.sendingChainKey = s.sendingChainKey
<1> DEFINE t == SkipReceivingMessageKeys(s, until)
           chain == s.receivingChainKey
           gap == until - s.receiveMessageNumber
           stored == s.skippedMessageKeys
           entries == SkippedInGap(s, until)
           all == stored \o entries
           kept == EvictOldest(all)
<1>1. CASE chain = NoChain \/ until <= s.receiveMessageNumber
  <2>1. t = s
    BY <1>1 DEF SkipReceivingMessageKeys
  <2>2. Len(stored) <= Len(stored)
    BY DEF GoodRatchet, RatchetStates
  <2>3. Ages(s, t, S)
    BY <2>1, <2>2 DEF Ages
  <2> HIDE DEF t
  <2> QED  BY <2>1, <2>3 DEF Follows, t
<1>2. CASE ~(chain = NoChain \/ until <= s.receiveMessageNumber)
  <2>1. /\ s \in RatchetStates(K, S, A)
        /\ RatchetInv(s, parity)
        /\ chain \in ChainKeys(S)
        /\ stored \in Seq(SkippedKeys(K, S))
        /\ Len(stored) \in Nat
        /\ s.receiveMessageNumber < until
        /\ gap \in Nat /\ gap > 0
        /\ Len(s.rootKey) \in Nat
        /\ \A i \in 1 .. Len(stored) : stored[i].key \in ChainKeys(S)
    <3>1. s \in RatchetStates(K, S, A) /\ RatchetInv(s, parity)
      BY DEF GoodRatchet
    <3>2. \A i \in 1 .. Len(stored) : stored[i] \in SkippedKeys(K, S)
      BY <3>1, ElementOfSeq DEF RatchetStates
    <3> QED  BY <1>2, <3>1, <3>2 DEF RatchetStates, SkippedKeys
  <2>2. /\ t.skippedMessageKeys = kept
        /\ t.receivingChainKey = [root |-> chain.root, step |-> chain.step + gap]
        /\ t.rootKey = s.rootKey
        /\ t.sendingChainKey = s.sendingChainKey
        /\ t = [s EXCEPT !.skippedMessageKeys = kept,
                         !.receivingChainKey = [root |-> chain.root, step |-> chain.step + gap],
                         !.receiveMessageNumber = until]
    <3>1. t = [s EXCEPT !.skippedMessageKeys = kept,
                        !.receivingChainKey.step = @ + until - s.receiveMessageNumber,
                        !.receiveMessageNumber = until]
      BY <1>2 DEF SkipReceivingMessageKeys
    <3>2. [chain EXCEPT !.step = @ + until - s.receiveMessageNumber]
              = [root |-> chain.root, step |-> chain.step + gap]
      BY <2>1 DEF ChainKeys, RatchetStates
    <3> HIDE DEF kept, t
    <3> QED  BY <2>1, <3>1, <3>2 DEF RatchetStates
  <2>3. /\ entries \in Seq(SkippedKeys(K, S))
        /\ Len(entries) = gap
        /\ \A i \in 1 .. gap : entries[i].key = [root |-> chain.root, step |-> chain.step + i - 1]
    BY <2>1, GapKeys
  <2>4. /\ all \in Seq(SkippedKeys(K, S))
        /\ Len(all) = Len(stored) + gap
        /\ \A i \in 1 .. Len(stored) + gap :
              all[i] = IF i <= Len(stored) THEN stored[i] ELSE entries[i - Len(stored)]
    <3> HIDE DEF stored, entries, gap
    <3> QED  BY <2>1, <2>3, ConcatProperties
  <2>5. /\ kept \in Seq(SkippedKeys(K, S))
        /\ Len(kept) \in Nat
        /\ Len(kept) <= MAX_SKIPPED_KEYS_STORED
        /\ Len(kept) <= Len(all)
        /\ Len(kept) = Len(all) \/ Len(kept) = MAX_SKIPPED_KEYS_STORED
        /\ \A i \in 1 .. Len(kept) : kept[i] = all[i + Len(all) - Len(kept)]
    <3> HIDE DEF all
    <3> QED  BY <2>4, EvictOldestKeepsSuffix, LenProperties
  <2> HIDE DEF kept, all, entries, t
  <2>6. chain.root \in Seq(S) /\ chain.step \in Nat /\ Len(chain.root) \in Nat
    BY <2>1, LenProperties DEF ChainKeys
  <2>7. ASSUME NEW i \in 1 .. Len(all)
        PROVE  /\ Before(all[i].key, t.receivingChainKey)
               /\ Len(all[i].key.root) % 2 # parity
               /\ i > Len(stored) => /\ all[i].key.root = chain.root
                                    /\ all[i].key.step = chain.step + (i - Len(stored)) - 1
               /\ i <= Len(stored) => Before(all[i].key, chain)
    <3>1. CASE i <= Len(stored)
      <4>1. all[i] = stored[i] /\ i \in 1 .. Len(stored)
        BY <2>1, <2>4, <3>1
      <4>2. Before(stored[i].key, chain) /\ Len(stored[i].key.root) % 2 # parity
        BY <2>1, <4>1 DEF RatchetInv
      <4>3. stored[i].key \in ChainKeys(S)
        BY <2>1, <4>1
      <4>4. Before(stored[i].key, t.receivingChainKey)
        BY <2>1, <2>2, <2>6, <4>2, <4>3, SMTT(30) DEF Before, ChainKeys
      <4>5. ~(i > Len(stored))
        BY <2>1, <3>1, <4>1
      <4> QED  BY <4>1, <4>2, <4>4, <4>5
    <3>2. CASE ~(i <= Len(stored))
      <4>1. /\ all[i] = entries[i - Len(stored)]
            /\ i - Len(stored) \in 1 .. gap
        BY <2>1, <2>4, <3>2
      <4>2. all[i].key = [root |-> chain.root, step |-> chain.step + (i - Len(stored)) - 1]
        BY <2>3, <4>1
      <4>3. Before(all[i].key, t.receivingChainKey)
        <5>1. ASSUME NEW k \in 1 .. gap
              PROVE  chain.step + k - 1 < chain.step + gap
          <6>1. gap \in Nat /\ chain.step \in Nat
            BY <2>1, <2>6
          <6> HIDE DEF chain, gap, stored
          <6> QED  BY <5>1, <6>1
        <5> HIDE DEF chain, gap, stored
        <5>2. chain.step + (i - Len(stored)) - 1 < chain.step + gap
          BY <4>1, <5>1
        <5> QED  BY <2>2, <4>2, <5>2 DEF Before
      <4>4. Len(chain.root) + 1 = Len(s.rootKey) /\ Len(s.rootKey) % 2 = parity
        BY <1>2, <2>1 DEF RatchetInv
      <4>5. Len(chain.root) % 2 # parity
        BY <2>6, <4>4, ParityFlips
      <4>6. all[i].key.root = chain.root /\ all[i].key.step = chain.step + (i - Len(stored)) - 1
        BY <4>2
      <4> QED  BY <3>2, <4>3, <4>5, <4>6
    <3> QED  BY <3>1, <3>2
  <2>8. ASSUME NEW i \in 1 .. Len(all), NEW j \in 1 .. Len(all), i < j
        PROVE  Before(all[i].key, all[j].key)
    <3>1. CASE j <= Len(stored)
      <4>1. /\ all[i] = stored[i] /\ all[j] = stored[j]
            /\ i \in 1 .. Len(stored) /\ j \in 1 .. Len(stored)
        BY <2>1, <2>4, <2>8, <3>1
      <4>2. Before(stored[i].key, stored[j].key)
        BY <2>1, <2>8, <4>1 DEF RatchetInv
      <4> QED  BY <4>1, <4>2
    <3>2. CASE i <= Len(stored) /\ j > Len(stored)
      <4>1. Before(all[i].key, chain)
        BY <2>7, <3>2
      <4>2. /\ all[j].key.root = chain.root
            /\ all[j].key.step = chain.step + (j - Len(stored)) - 1
        BY <2>7, <3>2
      <4>3. /\ all[j].key.step >= chain.step
            /\ all[j].key.step \in Nat
        <5>1. Len(stored) \in Nat /\ j \in Nat /\ chain.step \in Nat
          BY <2>1, <2>4, <2>6
        <5> HIDE DEF chain, stored
        <5> QED  BY <3>2, <4>2, <5>1
      <4>4. all[i].key.step \in Nat
        <5>1. all[i] = stored[i] /\ i \in 1 .. Len(stored)
          BY <2>1, <2>4, <3>2
        <5> QED  BY <2>1, <5>1 DEF ChainKeys
      <4>5. CASE Len(all[i].key.root) < Len(chain.root)
        BY <4>2, <4>5 DEF Before
      <4>6. CASE all[i].key.root = chain.root /\ all[i].key.step < chain.step
        <5>1. all[i].key.step < all[j].key.step
          BY <2>6, <4>3, <4>4, <4>6
        <5> QED  BY <4>2, <4>6, <5>1 DEF Before
      <4> QED  BY <4>1, <4>5, <4>6 DEF Before
    <3>3. CASE i > Len(stored)
      <4>1. j > Len(stored)
        BY <2>1, <2>4, <2>8, <3>3
      <4>2. /\ all[i].key.step = chain.step + (i - Len(stored)) - 1
            /\ all[j].key.step = chain.step + (j - Len(stored)) - 1
            /\ all[i].key.root = all[j].key.root
        BY <2>7, <3>3, <4>1
      <4>3. all[i].key.step < all[j].key.step
        BY <2>1, <2>4, <2>6, <2>8, <4>2
      <4> QED  BY <4>2, <4>3 DEF Before
    <3> QED  BY <2>1, <2>4, <2>8, <3>1, <3>2, <3>3
  <2>9. ASSUME NEW i \in 1 .. Len(kept)
        PROVE  i + Len(all) - Len(kept) \in 1 .. Len(all)
    BY <2>1, <2>4, <2>5
  <2>10. t \in RatchetStates(K, S, A)
    <3>1. [root |-> chain.root, step |-> chain.step + gap] \in ChainKeys(S)
      BY <2>1, <2>6 DEF ChainKeys
    <3> QED  BY <2>1, <2>2, <2>5, <3>1 DEF RatchetStates
  <2>11. RatchetInv(t, parity)
    <3>1. t.sendingChainKey = NoChain \/ t.sendingChainKey.root = t.rootKey
      BY <2>1, <2>2 DEF RatchetInv
    <3>2. Len(t.receivingChainKey.root) + 1 = Len(t.rootKey)
      BY <1>2, <2>1, <2>2 DEF RatchetInv
    <3>3. \A i \in 1 .. Len(kept) :
            Before(kept[i].key, t.receivingChainKey) /\ Len(kept[i].key.root) % 2 # parity
      BY <2>5, <2>7, <2>9
    <3>4. ASSUME NEW i \in 1 .. Len(kept), NEW j \in 1 .. Len(kept), i < j
          PROVE  Before(kept[i].key, kept[j].key)
      <4> DEFINE a == i + Len(all) - Len(kept)
                 b == j + Len(all) - Len(kept)
      <4>1. a \in 1 .. Len(all) /\ b \in 1 .. Len(all) /\ a < b
        BY <2>1, <2>4, <2>5, <2>9, <3>4
      <4>2. kept[i] = all[a] /\ kept[j] = all[b]
        BY <2>5
      <4> HIDE DEF a, b
      <4> QED  BY <2>8, <4>1, <4>2
    <3>5. Len(t.rootKey) >= 1 /\ Len(t.rootKey) % 2 = parity
      BY <2>1, <2>2 DEF RatchetInv
    <3> QED  BY <2>2, <3>1, <3>2, <3>3, <3>4, <3>5 DEF RatchetInv
  <2>12. ASSUME NEW k \in ChainKeys(S), Spent(s, k)
         PROVE  Spent(t, k)
    <3>1. Before(k, chain) /\ k \notin StoredKeys(s)
      BY <2>12 DEF Spent
    <3>2. Before(k, t.receivingChainKey)
      BY <2>1, <2>2, <2>6, <3>1 DEF Before, ChainKeys
    <3>3. ASSUME NEW i \in 1 .. Len(kept)
          PROVE  kept[i].key # k
      <4> DEFINE a == i + Len(all) - Len(kept)
      <4>1. a \in 1 .. Len(all) /\ kept[i] = all[a]
        BY <2>5, <2>9
      <4> HIDE DEF a
      <4>2. CASE a <= Len(stored)
        <5>1. a \in 1 .. Len(stored) /\ all[a] = stored[a]
          BY <2>1, <2>4, <4>1, <4>2
        <5> QED  BY <3>1, <4>1, <5>1 DEF StoredKeys
      <4>3. CASE a > Len(stored)
        <5>1. /\ all[a].key.root = chain.root
              /\ all[a].key.step = chain.step + (a - Len(stored)) - 1
          BY <2>7, <4>1, <4>3
        <5>2. ~(all[a].key.step < chain.step)
          BY <2>1, <2>4, <2>6, <4>1, <4>3, <5>1
        <5> QED  BY <2>6, <3>1, <4>1, <5>1, <5>2 DEF Before
      <4> QED  BY <2>1, <2>4, <4>1, <4>2, <4>3
    <3>4. k \notin StoredKeys(t)
      BY <2>2, <3>3 DEF StoredKeys
    <3> QED  BY <3>2, <3>4 DEF Spent
  <2>13. Follows(s, t, S)
    BY <2>2, <2>12 DEF Follows
  <2>14. ASSUME NEW i \in 1 .. Len(stored), stored[i].key \notin StoredKeys(t)
         PROVE  stored[i].key \in MadeWay(s, t)
    <3> DEFINE gone == Len(all) - Len(kept)
    <3>1. /\ all[i] = stored[i] /\ i \in 1 .. Len(all)
          /\ gone \in Nat
      BY <2>1, <2>4, <2>5
    <3>2. i <= gone
      <4> SUFFICES ASSUME ~(i <= gone) PROVE FALSE
        OBVIOUS
      <4>1. /\ i - gone \in 1 .. Len(kept)
            /\ (i - gone) + Len(all) - Len(kept) = i
        <5>1. Len(all) \in Nat /\ Len(kept) \in Nat
          BY <2>4, <2>5
        <5> HIDE DEF all, kept
        <5> QED  BY <3>1, <5>1
      <4>2. kept[i - gone] = stored[i]
        BY <2>5, <3>1, <4>1
      <4> HIDE DEF gone
      <4> QED  BY <2>2, <2>14, <4>1, <4>2 DEF StoredKeys
    <3>3. Len(kept) = MAX_SKIPPED_KEYS_STORED
      <4>1. i >= 1
        OBVIOUS
      <4>2. Len(kept) # Len(all)
        BY <2>1, <2>4, <2>5, <3>2, <4>1
      <4> QED  BY <2>5, <4>2
    <3>4. ASSUME NEW j \in 1 .. Len(kept)
          PROVE  Before(stored[i].key, kept[j].key)
      <4> DEFINE b == j + Len(all) - Len(kept)
      <4>1. b \in 1 .. Len(all) /\ i < b /\ kept[j] = all[b]
        BY <2>1, <2>4, <2>5, <2>9, <3>2
      <4> HIDE DEF b
      <4> QED  BY <2>8, <3>1, <4>1
    <3>5. \A k \in StoredKeys(t) : Before(stored[i].key, k)
      <4> HIDE DEF stored
      <4> QED  BY <2>2, <3>4 DEF StoredKeys
    <3>6. stored[i].key \in StoredKeys(s)
      BY DEF StoredKeys
    <3> HIDE DEF stored, gone
    <3> QED  BY <2>2, <2>14, <3>3, <3>5, <3>6 DEF MadeWay
  <2>15. StoredKeys(s) \ StoredKeys(t) \subseteq MadeWay(s, t)
    <3> SUFFICES ASSUME NEW k \in StoredKeys(s), k \notin StoredKeys(t)
                 PROVE  k \in MadeWay(s, t)
      OBVIOUS
    <3>1. PICK i \in 1 .. Len(stored) : k = stored[i].key
      BY DEF StoredKeys
    <3> HIDE DEF stored
    <3> QED  BY <2>14, <3>1
  <2>16. ASSUME NEW k \in ChainKeys(S), Before(k, chain),
                NEW i \in 1 .. Len(kept), kept[i].key \notin StoredKeys(s)
         PROVE  Before(k, kept[i].key)
    <3> DEFINE a == i + Len(all) - Len(kept)
    <3>1. a \in 1 .. Len(all) /\ kept[i] = all[a]
      BY <2>5, <2>9
    <3> HIDE DEF a
    <3>2. a > Len(stored)
      <4> SUFFICES ASSUME a <= Len(stored) PROVE FALSE
        BY <2>1, <2>4, <3>1
      <4>1. a \in 1 .. Len(stored) /\ all[a] = stored[a]
        BY <2>1, <2>4, <3>1
      <4> QED  BY <2>16, <3>1, <4>1 DEF StoredKeys
    <3>3. /\ all[a].key.root = chain.root
          /\ all[a].key.step = chain.step + (a - Len(stored)) - 1
      BY <2>7, <3>1, <3>2
    <3>4. all[a].key.step >= chain.step /\ all[a].key.step \in Nat
      <4>1. a - Len(stored) \in Nat /\ a - Len(stored) >= 1
        BY <2>1, <2>4, <3>1, <3>2
      <4> HIDE DEF stored, chain
      <4> QED  BY <2>6, <3>3, <4>1
    <3>5. k.step \in Nat
      BY DEF ChainKeys
    <3>6. CASE Len(k.root) < Len(chain.root)
      BY <3>1, <3>3, <3>6 DEF Before
    <3>7. CASE k.root = chain.root /\ k.step < chain.step
      <4>1. k.step < all[a].key.step
        BY <2>6, <3>4, <3>5, <3>7
      <4> QED  BY <3>1, <3>3, <3>7, <4>1 DEF Before
    <3> QED  BY <2>16, <3>6, <3>7 DEF Before
  <2>17. \A k \in ChainKeys(S) : Before(k, chain) => Before(k, t.receivingChainKey)
    BY <2>1, <2>2, <2>6 DEF Before, ChainKeys
  <2>18. Len(stored) <= Len(kept)
    <3>1. Len(stored) <= MAX_SKIPPED_KEYS_STORED
      BY DEF GoodRatchet
    <3> QED  BY <2>1, <2>4, <2>5, <3>1
  <2>19. ASSUME NEW k \in ChainKeys(S), Before(k, chain)
         PROVE  \A new \in StoredKeys(t) \ StoredKeys(s) : Before(k, new)
    <3> SUFFICES ASSUME NEW new \in StoredKeys(t), new \notin StoredKeys(s)
                 PROVE  Before(k, new)
      OBVIOUS
    <3>1. PICK i \in 1 .. Len(kept) : new = kept[i].key
      BY <2>2 DEF StoredKeys
    <3> QED  BY <2>16, <2>19, <3>1
  <2>20. Ages(s, t, S)
    <3> HIDE DEF stored
    <3>1. Len(s.skippedMessageKeys) <= Len(t.skippedMessageKeys)
      BY <2>2, <2>18 DEF stored
    <3> QED  BY <2>15, <2>17, <2>19, <3>1 DEF Ages
  <2> QED  BY <2>2, <2>5, <2>10, <2>11, <2>13, <2>20 DEF GoodRatchet, t
<1> QED  BY <1>1, <1>2

(* A DH ratchet step starts both chains on roots longer than any before.   *)
LEMMA DhRatchetStepKeepsRatchetGood ==
    ASSUME NEW K, NEW S, NEW A, ClosedUnderDh(K, S),
           NEW parity \in {0, 1}, NEW s, GoodRatchet(s, parity, K, S, A),
           NEW theirs \in K, NEW fresh \in K
    PROVE  LET t == DhRatchetStep(s, theirs, fresh)
           IN  GoodRatchet(t, parity, K, S, A) /\ Follows(s, t, S) /\ Ages(s, t, S)
<1> DEFINE t == DhRatchetStep(s, theirs, fresh)
           receiving == KdfRootKey(s.rootKey, Dh(s.sendingRatchetKey, theirs))
           sending == KdfRootKey(receiving, Dh(fresh, theirs))
           stored == s.skippedMessageKeys
<1>1. /\ s \in RatchetStates(K, S, A)
      /\ RatchetInv(s, parity)
      /\ s.rootKey \in Seq(S)
      /\ Len(s.rootKey) \in Nat
      /\ s.sendingRatchetKey \in K
      /\ Len(stored) <= MAX_SKIPPED_KEYS_STORED
      /\ s.sendingChainKey \in ChainKeys(S) /\ s.receivingChainKey \in ChainKeys(S)
  BY DEF GoodRatchet, RatchetStates
<1>2. receiving \in Seq(S) /\ Len(receiving) = Len(s.rootKey) + 1
  <2>1. Dh(s.sendingRatchetKey, theirs) \in S
    BY <1>1 DEF ClosedUnderDh
  <2> QED  BY <1>1, <2>1, AppendProperties DEF KdfRootKey
<1>3. sending \in Seq(S) /\ Len(sending) = Len(s.rootKey) + 2
  <2>1. Dh(fresh, theirs) \in S
    BY DEF ClosedUnderDh
  <2> HIDE DEF receiving
  <2>2. sending \in Seq(S) /\ Len(sending) = Len(receiving) + 1
    BY <1>2, <2>1, AppendProperties DEF KdfRootKey
  <2> QED  BY <1>1, <1>2, <2>2
<1>4. t = [s EXCEPT !.previousSendingChainLength = s.sendMessageNumber,
                    !.sendMessageNumber = 0,
                    !.receiveMessageNumber = 0,
                    !.receivingRatchetKey = theirs,
                    !.receivingChainKey = [root |-> receiving, step |-> 0],
                    !.sendingRatchetKey = fresh,
                    !.rootKey = sending,
                    !.sendingChainKey = [root |-> sending, step |-> 0]]
  BY DEF DhRatchetStep, FirstChainKey
<1> HIDE DEF t, receiving, sending
<1>5. /\ [root |-> receiving, step |-> 0] \in ChainKeys(S)
      /\ [root |-> sending, step |-> 0] \in ChainKeys(S)
  BY <1>2, <1>3 DEF ChainKeys
<1>6. /\ t \in RatchetStates(K, S, A)
      /\ t.receivingChainKey = [root |-> receiving, step |-> 0]
      /\ t.sendingChainKey = [root |-> sending, step |-> 0]
      /\ t.rootKey = sending
      /\ t.skippedMessageKeys = stored
  BY <1>1, <1>3, <1>4, <1>5 DEF RatchetStates
<1>7. Len(s.receivingChainKey.root) < Len(receiving)
  <2>1. CASE s.receivingChainKey = NoChain
    BY <1>1, <1>2, <2>1, EmptySeq DEF NoChain, RatchetInv
  <2>2. CASE Len(s.receivingChainKey.root) + 1 = Len(s.rootKey)
    <3>1. Len(s.receivingChainKey.root) \in Nat
      BY <1>1 DEF ChainKeys
    <3> QED  BY <1>1, <1>2, <2>2, <3>1
  <2> QED  BY <1>1, <2>1, <2>2 DEF RatchetInv
<1>8. ASSUME NEW k \in ChainKeys(S), Before(k, s.receivingChainKey)
      PROVE  Before(k, t.receivingChainKey)
  <2>1. Len(k.root) \in Nat /\ Len(s.receivingChainKey.root) \in Nat
    BY <1>1 DEF ChainKeys
  <2>2. Len(k.root) <= Len(s.receivingChainKey.root)
    BY <1>8, <2>1 DEF Before
  <2>3. Len(k.root) < Len(receiving)
    BY <1>1, <1>2, <1>7, <2>1, <2>2
  <2> QED  BY <1>6, <2>3 DEF Before
<1>9. ASSUME NEW k \in ChainKeys(S), Before(k, s.sendingChainKey)
      PROVE  Before(k, t.sendingChainKey)
  <2>1. /\ Len(k.root) \in Nat
        /\ Len(s.sendingChainKey.root) \in Nat
        /\ Len(s.sendingChainKey.root) <= Len(s.rootKey)
    BY <1>1, EmptySeq DEF ChainKeys, RatchetInv, NoChain
  <2>2. Len(k.root) <= Len(s.sendingChainKey.root)
    BY <1>9, <2>1 DEF Before
  <2>3. Len(k.root) < Len(sending)
    BY <1>1, <1>3, <2>1, <2>2
  <2> QED  BY <1>6, <2>3 DEF Before
<1>10. Follows(s, t, S)
  BY <1>6, <1>8, <1>9 DEF Follows, Spent, StoredKeys
<1>11. RatchetInv(t, parity)
  <2>1. Len(t.rootKey) >= 1 /\ Len(t.rootKey) % 2 = parity
    <3>1. Len(s.rootKey) >= 1 /\ Len(s.rootKey) % 2 = parity
      BY <1>1 DEF RatchetInv
    <3>2. Len(t.rootKey) = Len(s.rootKey) + 2
      BY <1>3, <1>6
    <3>3. (Len(s.rootKey) + 2) % 2 = Len(s.rootKey) % 2
      BY <1>1, ParityRepeats
    <3>4. Len(s.rootKey) + 2 >= 1
      BY <1>1
    <3> QED  BY <3>1, <3>2, <3>3, <3>4
  <2>2. Len(t.receivingChainKey.root) + 1 = Len(t.rootKey)
    BY <1>1, <1>2, <1>3, <1>6
  <2>3. ASSUME NEW i \in 1 .. Len(stored)
        PROVE  /\ Before(stored[i].key, t.receivingChainKey)
               /\ Len(stored[i].key.root) % 2 # parity
    <3>1. stored[i].key \in ChainKeys(S)
      BY <1>1, StoredKeyType
    <3>2. Before(stored[i].key, s.receivingChainKey) /\ Len(stored[i].key.root) % 2 # parity
      BY <1>1 DEF RatchetInv
    <3> QED  BY <1>8, <3>1, <3>2
  <2>4. \A i, j \in 1 .. Len(stored) : i < j => Before(stored[i].key, stored[j].key)
    BY <1>1 DEF RatchetInv
  <2>5. t.sendingChainKey.root = t.rootKey
    BY <1>6
  <2>6. \A i \in 1 .. Len(t.skippedMessageKeys) :
          /\ Before(t.skippedMessageKeys[i].key, t.receivingChainKey)
          /\ Len(t.skippedMessageKeys[i].key.root) % 2 # parity
    <3> HIDE DEF stored
    <3> QED  BY <1>6, <2>3
  <2>7. \A i, j \in 1 .. Len(t.skippedMessageKeys) :
          i < j => Before(t.skippedMessageKeys[i].key, t.skippedMessageKeys[j].key)
    <3> HIDE DEF stored
    <3> QED  BY <1>6, <2>4
  <2> QED  BY <2>1, <2>2, <2>5, <2>6, <2>7 DEF RatchetInv
<1>12. GoodRatchet(t, parity, K, S, A)
  <2> HIDE DEF stored
  <2> QED  BY <1>1, <1>6, <1>11 DEF GoodRatchet
<1>13. Ages(s, t, S)
  <2>1. Len(s.skippedMessageKeys) <= Len(t.skippedMessageKeys)
    BY <1>1, <1>6 DEF RatchetStates
  <2>2. StoredKeys(t) = StoredKeys(s)
    BY <1>6 DEF StoredKeys
  <2> QED  BY <1>8, <2>1, <2>2 DEF Ages
<1> QED
  <2> USE DEF t
  <2> QED  BY <1>10, <1>12, <1>13

(* What every successful decryption does to the receiver: it uses a key    *)
(* that was not spent and spends it.                                       *)
SpendsKey(s, t, k) == ~Spent(s, k) /\ Spent(t, k)

(* k is the only key that may have left the store.                         *)
LosesAtMost(s, t, k) == StoredKeys(s) \ StoredKeys(t) \subseteq {k}

(* Opening with a stored key leaves a good ratchet.                        *)
LEMMA DecryptSkippedKeepsRatchetGood ==
    ASSUME NEW K, NEW S, NEW A,
           NEW parity \in {0, 1}, NEW s, GoodRatchet(s, parity, K, S, A),
           NEW m \in Messages(K, S, A), SkippedAt(s, m.header) # {}
    PROVE  LET r == DecryptSkipped(s, m)
           IN  r.ok => /\ GoodRatchet(r.state, parity, K, S, A)
                       /\ Follows(s, r.state, S)
                       /\ SpendsKey(s, r.state, m.seal.key)
                       /\ LosesAtMost(s, r.state, m.seal.key)
<1> DEFINE stored == s.skippedMessageKeys
           n == CHOOSE j \in SkippedAt(s, m.header) : TRUE
           rest == RemoveAt(stored, n)
           t == [s EXCEPT !.skippedMessageKeys = rest]
           r == DecryptSkipped(s, m)
<1> SUFFICES ASSUME r.ok
             PROVE  /\ GoodRatchet(r.state, parity, K, S, A)
                    /\ Follows(s, r.state, S)
                    /\ SpendsKey(s, r.state, m.seal.key)
                    /\ LosesAtMost(s, r.state, m.seal.key)
  OBVIOUS
<1>1. n \in 1 .. Len(stored)
  <2>1. n \in SkippedAt(s, m.header)
    OBVIOUS
  <2> QED  BY <2>1 DEF SkippedAt
<1>2. Opens(s, m, stored[n].key) /\ r.state = t
  BY DEF DecryptSkipped
<1> HIDE DEF r, n
<1>3. m.seal.key = stored[n].key
  BY <1>2 DEF Opens
<1>4. /\ s \in RatchetStates(K, S, A)
      /\ RatchetInv(s, parity)
      /\ stored \in Seq(SkippedKeys(K, S))
      /\ Len(stored) \in Nat
      /\ Len(stored) <= MAX_SKIPPED_KEYS_STORED
  BY DEF GoodRatchet, RatchetStates
<1>5. /\ rest \in Seq(SkippedKeys(K, S))
      /\ Len(rest) = Len(stored) - 1
      /\ \A i \in 1 .. Len(stored) - 1 :
            rest[i] = IF i < n THEN stored[i] ELSE stored[i + 1]
  <2> HIDE DEF stored
  <2> QED  BY <1>1, <1>4, RemoveAtKeepsOthers
<1> HIDE DEF rest, t
<1>6. /\ t \in RatchetStates(K, S, A)
      /\ t.skippedMessageKeys = rest
      /\ t.receivingChainKey = s.receivingChainKey
      /\ t.sendingChainKey = s.sendingChainKey
      /\ t.rootKey = s.rootKey
  BY <1>4, <1>5 DEF t, RatchetStates
<1>7. \A i \in 1 .. Len(rest) :
        \E j \in 1 .. Len(stored) : j # n /\ rest[i] = stored[j]
  <2> SUFFICES ASSUME NEW i \in 1 .. Len(rest)
               PROVE  \E j \in 1 .. Len(stored) : j # n /\ rest[i] = stored[j]
    OBVIOUS
  <2>1. i \in 1 .. Len(stored) - 1 /\ i \in 1 .. Len(stored) /\ i + 1 \in 1 .. Len(stored)
    BY <1>4, <1>5
  <2>2. CASE i < n
    <3>1. i # n /\ rest[i] = stored[i]
      BY <1>1, <1>5, <2>1, <2>2
    <3> QED  BY <2>1, <3>1
  <2>3. CASE ~(i < n)
    <3>1. i + 1 # n
      BY <1>1, <2>1, <2>3
    <3>2. rest[i] = stored[i + 1]
      BY <1>5, <2>1, <2>3
    <3> QED  BY <2>1, <3>1, <3>2
  <2> QED  BY <2>2, <2>3
<1>8. RatchetInv(t, parity)
  <2>1. \A i \in 1 .. Len(rest) :
          Before(rest[i].key, s.receivingChainKey) /\ Len(rest[i].key.root) % 2 # parity
    <3> HIDE DEF stored
    <3> QED  BY <1>4, <1>7 DEF RatchetInv, stored
  <2>2. ASSUME NEW i \in 1 .. Len(rest), NEW j \in 1 .. Len(rest), i < j
        PROVE  Before(rest[i].key, rest[j].key)
    <3> DEFINE a == IF i < n THEN i ELSE i + 1
               b == IF j < n THEN j ELSE j + 1
    <3>1. i \in 1 .. Len(stored) - 1 /\ j \in 1 .. Len(stored) - 1
      BY <1>4, <1>5
    <3>2. rest[i] = stored[a] /\ rest[j] = stored[b]
      BY <1>5, <3>1
    <3>3. a \in 1 .. Len(stored) /\ b \in 1 .. Len(stored) /\ a < b
      BY <1>1, <1>4, <2>2, <3>1
    <3> HIDE DEF a, b
    <3> QED  BY <1>4, <3>2, <3>3 DEF RatchetInv
  <2> QED  BY <1>4, <1>6, <2>1, <2>2 DEF RatchetInv
<1>9. StoredKeys(t) \subseteq StoredKeys(s) /\ stored[n].key \in StoredKeys(s)
  BY <1>1, <1>6, <1>7 DEF StoredKeys
<1>10. stored[n].key \notin StoredKeys(t)
  <2> SUFFICES ASSUME NEW i \in 1 .. Len(rest), rest[i].key = stored[n].key
               PROVE  FALSE
    BY <1>6 DEF StoredKeys
  <2>1. \A i2, j2 \in 1 .. Len(stored) : i2 # j2 => stored[i2].key # stored[j2].key
    BY <1>4, StoredKeysSorted
  <2> QED  BY <1>1, <1>7, <2>1
<1>11. Before(stored[n].key, s.receivingChainKey)
  BY <1>1, <1>4 DEF RatchetInv
<1>12. Follows(s, t, S)
  BY <1>6, <1>9 DEF Follows, Spent
<1>13. SpendsKey(s, t, m.seal.key)
  BY <1>3, <1>6, <1>9, <1>10, <1>11 DEF SpendsKey, Spent
<1>14. GoodRatchet(t, parity, K, S, A)
  <2>1. Len(rest) <= MAX_SKIPPED_KEYS_STORED
    BY <1>4, <1>5, MaxStoredAssumption
  <2> QED  BY <1>6, <1>8, <2>1 DEF GoodRatchet
<1>15. ASSUME NEW j \in 1 .. Len(stored), j # n
       PROVE  stored[j].key \in StoredKeys(t)
  <2> DEFINE i == IF j < n THEN j ELSE j - 1
  <2>1. i \in 1 .. Len(rest) /\ rest[i] = stored[j]
    <3>1. CASE j < n
      BY <1>1, <1>4, <1>5, <1>15, <3>1
    <3>2. CASE ~(j < n)
      BY <1>1, <1>4, <1>5, <1>15, <3>2
    <3> QED  BY <3>1, <3>2
  <2> HIDE DEF i, stored
  <2> QED  BY <1>6, <2>1 DEF StoredKeys
<1>16. LosesAtMost(s, t, m.seal.key)
  BY <1>3, <1>15 DEF StoredKeys, LosesAtMost
<1> QED  BY <1>2, <1>12, <1>13, <1>14, <1>16

(* A key that two states in a row have not brought back is spent once.     *)
LEMMA SpendsKeyAfter ==
    ASSUME NEW S, NEW s, NEW t, NEW u, NEW k \in ChainKeys(S), Follows(s, t, S), SpendsKey(t, u, k)
    PROVE  SpendsKey(s, u, k)
BY DEF Follows, SpendsKey

(* Opening on the receiving chain leaves a good ratchet.                   *)
LEMMA DecryptOnChainKeepsRatchetGood ==
    ASSUME NEW K, NEW S, NEW A,
           NEW parity \in {0, 1}, NEW s, GoodRatchet(s, parity, K, S, A),
           NEW m \in Messages(K, S, A)
    PROVE  LET r == DecryptOnChain(s, m)
           IN  r.ok => /\ GoodRatchet(r.state, parity, K, S, A)
                       /\ Follows(s, r.state, S)
                       /\ Ages(s, r.state, S)
                       /\ SpendsKey(s, r.state, m.seal.key)
<1> DEFINE r == DecryptOnChain(s, m)
           t == SkipReceivingMessageKeys(s, m.header.messageNumber)
           key == t.receivingChainKey
           u == [t EXCEPT !.receivingChainKey = NextChainKey(@),
                          !.receiveMessageNumber = @ + 1]
<1> SUFFICES ASSUME r.ok
             PROVE  /\ GoodRatchet(r.state, parity, K, S, A)
                    /\ Follows(s, r.state, S)
                    /\ Ages(s, r.state, S)
                    /\ SpendsKey(s, r.state, m.seal.key)
  OBVIOUS
<1>1. key # NoChain /\ Opens(t, m, key) /\ r.state = u
  BY DEF DecryptOnChain
<1> HIDE DEF r
<1>2. m.header.messageNumber \in Nat /\ m.seal.key \in ChainKeys(S)
  BY DEF Messages, MessageHeaders
<1>3. GoodRatchet(t, parity, K, S, A) /\ Follows(s, t, S) /\ Ages(s, t, S)
  <2> DEFINE until == m.header.messageNumber
  <2>1. until \in Nat
    BY <1>2
  <2> HIDE DEF until
  <2>2. LET x == SkipReceivingMessageKeys(s, until)
        IN  GoodRatchet(x, parity, K, S, A) /\ Follows(s, x, S) /\ Ages(s, x, S)
    BY <2>1, SkipKeepsRatchetGood
  <2> QED  BY <2>2 DEF until
<1> HIDE DEF t
<1>4. /\ t \in RatchetStates(K, S, A)
      /\ RatchetInv(t, parity)
      /\ key \in ChainKeys(S)
      /\ Len(t.skippedMessageKeys) <= MAX_SKIPPED_KEYS_STORED
  BY <1>3 DEF GoodRatchet, RatchetStates
<1>5. m.seal.key = key
  BY <1>1 DEF Opens
<1>6. NextChainKey(key) = [root |-> key.root, step |-> key.step + 1]
  BY <1>4 DEF NextChainKey, ChainKeys
<1>7. /\ key.root \in Seq(S) /\ key.step \in Nat /\ Len(key.root) \in Nat
      /\ NextChainKey(key) \in ChainKeys(S)
  BY <1>4, <1>6 DEF ChainKeys
<1>8. /\ u \in RatchetStates(K, S, A)
      /\ u.receivingChainKey = NextChainKey(key)
      /\ u.skippedMessageKeys = t.skippedMessageKeys
      /\ u.sendingChainKey = t.sendingChainKey
      /\ u.rootKey = t.rootKey
  <2>1. u = [t EXCEPT !.receivingChainKey = NextChainKey(key),
                      !.receiveMessageNumber = t.receiveMessageNumber + 1]
    OBVIOUS
  <2>2. t.receiveMessageNumber + 1 \in Nat
    BY <1>4 DEF RatchetStates
  <2> HIDE DEF key, u
  <2> QED  BY <1>4, <1>7, <2>1, <2>2 DEF RatchetStates
<1> HIDE DEF u
<1>9. \A k \in ChainKeys(S) : Before(k, key) => Before(k, NextChainKey(key))
  BY <1>6, <1>7 DEF Before, ChainKeys
<1>10. Follows(t, u, S)
  BY <1>8, <1>9 DEF Follows, Spent, StoredKeys
<1>11. SpendsKey(t, u, key)
  <2>1. ~Before(key, key)
    BY <1>7 DEF Before
  <2>2. Before(key, NextChainKey(key))
    BY <1>6, <1>7 DEF Before
  <2>3. key \notin StoredKeys(u)
    <3> SUFFICES ASSUME NEW i \in 1 .. Len(t.skippedMessageKeys),
                        t.skippedMessageKeys[i].key = key
                 PROVE  FALSE
      BY <1>8 DEF StoredKeys
    <3>1. Before(t.skippedMessageKeys[i].key, t.receivingChainKey)
      BY <1>4 DEF RatchetInv
    <3> QED  BY <2>1, <3>1
  <2> QED  BY <1>8, <2>1, <2>2, <2>3 DEF SpendsKey, Spent
<1>12. RatchetInv(u, parity)
  <2>1. Len(u.rootKey) >= 1 /\ Len(u.rootKey) % 2 = parity
    BY <1>4, <1>8 DEF RatchetInv
  <2>2. u.sendingChainKey = NoChain \/ u.sendingChainKey.root = u.rootKey
    BY <1>4, <1>8 DEF RatchetInv
  <2>3. Len(u.receivingChainKey.root) + 1 = Len(u.rootKey)
    <3>1. Len(key.root) + 1 = Len(t.rootKey)
      BY <1>1, <1>4 DEF RatchetInv
    <3> QED  BY <1>6, <1>8, <3>1
  <2>4. ASSUME NEW i \in 1 .. Len(u.skippedMessageKeys)
        PROVE  /\ Before(u.skippedMessageKeys[i].key, u.receivingChainKey)
               /\ Len(u.skippedMessageKeys[i].key.root) % 2 # parity
    <3>1. u.skippedMessageKeys[i].key \in ChainKeys(S)
      BY <1>8, StoredKeyType
    <3>2. /\ Before(u.skippedMessageKeys[i].key, key)
          /\ Len(u.skippedMessageKeys[i].key.root) % 2 # parity
      BY <1>4, <1>8 DEF RatchetInv
    <3> QED  BY <1>8, <1>9, <3>1, <3>2
  <2>5. \A i, j \in 1 .. Len(u.skippedMessageKeys) :
          i < j => Before(u.skippedMessageKeys[i].key, u.skippedMessageKeys[j].key)
    BY <1>4, <1>8 DEF RatchetInv
  <2> QED  BY <2>1, <2>2, <2>3, <2>4, <2>5 DEF RatchetInv
<1>13. GoodRatchet(u, parity, K, S, A)
  BY <1>4, <1>8, <1>12 DEF GoodRatchet
<1>14. Follows(s, u, S)
  BY <1>3, <1>10, FollowsTransitive
<1>15. SpendsKey(s, u, m.seal.key)
  BY <1>3, <1>4, <1>5, <1>11, SpendsKeyAfter
<1>16. Ages(t, u, S)
  <2>1. Len(t.skippedMessageKeys) <= Len(u.skippedMessageKeys)
    BY <1>4, <1>8 DEF RatchetStates
  <2>2. StoredKeys(u) = StoredKeys(t)
    BY <1>8 DEF StoredKeys
  <2> QED  BY <1>8, <1>9, <2>1, <2>2 DEF Ages
<1>17. Ages(s, u, S)
  BY <1>3, <1>4, <1>13, <1>16, AgesTransitive
<1> QED  BY <1>1, <1>13, <1>14, <1>15, <1>17

(* Closing the old receiving chain and turning leaves a good ratchet.      *)
LEMMA TurnedKeepsRatchetGood ==
    ASSUME NEW K, NEW S, NEW A, ClosedUnderDh(K, S),
           NEW parity \in {0, 1}, NEW s, GoodRatchet(s, parity, K, S, A),
           NEW m \in Messages(K, S, A), NEW fresh \in K
    PROVE  LET t == Turned(s, m.header, fresh)
           IN  GoodRatchet(t, parity, K, S, A) /\ Follows(s, t, S) /\ Ages(s, t, S)
<1> DEFINE turned == Turned(s, m.header, fresh)
<1>1. /\ m.header.previousChainLength \in Nat
      /\ m.header.publicKey \in K
  BY DEF Messages, MessageHeaders
<1>2. GoodRatchet(turned, parity, K, S, A) /\ Follows(s, turned, S) /\ Ages(s, turned, S)
  <2>1. CASE IsNewRatchetKey(s, m.header)
    <3> DEFINE closed == SkipReceivingMessageKeys(s, m.header.previousChainLength)
               stepped == DhRatchetStep(closed, m.header.publicKey, fresh)
    <3>1. GoodRatchet(closed, parity, K, S, A) /\ Follows(s, closed, S) /\ Ages(s, closed, S)
      <4> DEFINE until == m.header.previousChainLength
      <4>1. until \in Nat
        BY <1>1
      <4> HIDE DEF until
      <4>2. LET x == SkipReceivingMessageKeys(s, until)
            IN  GoodRatchet(x, parity, K, S, A) /\ Follows(s, x, S) /\ Ages(s, x, S)
        BY <4>1, SkipKeepsRatchetGood
      <4> QED  BY <4>2 DEF until
    <3>2. /\ GoodRatchet(stepped, parity, K, S, A)
          /\ Follows(closed, stepped, S) /\ Ages(closed, stepped, S)
      <4> HIDE DEF closed
      <4> QED  BY <1>1, <3>1, DhRatchetStepKeepsRatchetGood
    <3>3. turned = stepped
      BY <2>1 DEF Turned
    <3> HIDE DEF closed, stepped, turned
    <3>4. closed \in RatchetStates(K, S, A)
      BY <3>1 DEF GoodRatchet
    <3>5. Ages(s, stepped, S)
      BY <3>1, <3>2, <3>4, AgesTransitive
    <3> QED  BY <3>1, <3>2, <3>3, <3>5, FollowsTransitive
  <2>2. CASE ~IsNewRatchetKey(s, m.header)
    <3>1. turned = s
      BY <2>2 DEF Turned
    <3>2. Len(s.skippedMessageKeys) <= Len(s.skippedMessageKeys)
      BY DEF GoodRatchet, RatchetStates
    <3> QED  BY <3>1, <3>2 DEF Follows, Ages
  <2> QED  BY <2>1, <2>2
<1> QED  BY <1>2

(* A decryption either leaves the ratchet as it was or spends exactly the  *)
(* key of the message, which had not been spent before.  Any other key that*)
(* leaves the store had to make way.                                       *)
LEMMA RatchetDecryptKeepsRatchetGood ==
    ASSUME NEW K, NEW S, NEW A, ClosedUnderDh(K, S),
           NEW parity \in {0, 1}, NEW s, GoodRatchet(s, parity, K, S, A),
           NEW m \in Messages(K, S, A), NEW fresh \in K
    PROVE  LET r == RatchetDecrypt(s, m, fresh)
           IN  /\ ~r.ok => r.state = s
               /\ r.ok => /\ GoodRatchet(r.state, parity, K, S, A)
                          /\ Follows(s, r.state, S)
                          /\ SpendsKey(s, r.state, m.seal.key)
                          /\ \A k \in StoredKeys(s) \ StoredKeys(r.state) :
                                k = m.seal.key \/ k \in MadeWay(s, r.state)
<1> DEFINE inner == DecryptInternal(s, m, fresh)
           turned == Turned(s, m.header, fresh)
<1>1. /\ m.header.previousChainLength \in Nat
      /\ m.header.publicKey \in K
      /\ m.seal.key \in ChainKeys(S)
  BY DEF Messages, MessageHeaders
<1>2. GoodRatchet(turned, parity, K, S, A) /\ Follows(s, turned, S) /\ Ages(s, turned, S)
  BY TurnedKeepsRatchetGood
<1>3. inner.ok => /\ GoodRatchet(inner.state, parity, K, S, A)
                  /\ Follows(s, inner.state, S)
                  /\ SpendsKey(s, inner.state, m.seal.key)
                  /\ \A k \in StoredKeys(s) \ StoredKeys(inner.state) :
                        k = m.seal.key \/ k \in MadeWay(s, inner.state)
  <2>1. CASE SkippedAt(s, m.header) # {}
    <3>1. inner = DecryptSkipped(s, m)
      BY <2>1 DEF DecryptInternal
    <3> HIDE DEF inner
    <3>2. inner.ok => /\ GoodRatchet(inner.state, parity, K, S, A)
                      /\ Follows(s, inner.state, S)
                      /\ SpendsKey(s, inner.state, m.seal.key)
                      /\ LosesAtMost(s, inner.state, m.seal.key)
      BY <2>1, <3>1, DecryptSkippedKeepsRatchetGood
    <3> QED  BY <3>2 DEF LosesAtMost
  <2>2. CASE /\ SkippedAt(s, m.header) = {}
             /\ IsNewRatchetKey(s, m.header)
             /\ TooManySkipped(s, m.header.previousChainLength)
    BY <2>2 DEF DecryptInternal
  <2>3. CASE /\ SkippedAt(s, m.header) = {}
             /\ ~(/\ IsNewRatchetKey(s, m.header)
                  /\ TooManySkipped(s, m.header.previousChainLength))
    <3>1. inner = DecryptOnChain(turned, m)
      BY <2>3 DEF DecryptInternal
    <3> HIDE DEF inner, turned
    <3>2. inner.ok => /\ GoodRatchet(inner.state, parity, K, S, A)
                      /\ Follows(turned, inner.state, S)
                      /\ Ages(turned, inner.state, S)
                      /\ SpendsKey(turned, inner.state, m.seal.key)
      BY <1>2, <3>1, DecryptOnChainKeepsRatchetGood
    <3>3. turned \in RatchetStates(K, S, A)
      BY <1>2 DEF GoodRatchet
    <3>4. inner.ok => Ages(s, inner.state, S)
      BY <1>2, <3>2, <3>3, AgesTransitive
    <3>5. inner.ok => \A k \in StoredKeys(s) \ StoredKeys(inner.state) :
                         k \in MadeWay(s, inner.state)
      BY <3>4 DEF Ages
    <3> QED  BY <1>1, <1>2, <3>2, <3>5, FollowsTransitive, SpendsKeyAfter
  <2> QED  BY <2>1, <2>2, <2>3
<1>4. RatchetDecrypt(s, m, fresh) = IF inner.ok THEN inner ELSE [ok |-> FALSE, state |-> s]
  BY DEF RatchetDecrypt
<1> HIDE DEF inner
<1> QED  BY <1>3, <1>4

(* Encrypting uses the sending chain's key and moves the chain past it.    *)
LEMMA EncryptKeepsRatchetGood ==
    ASSUME NEW K, NEW S, NEW A,
           NEW parity \in {0, 1}, NEW s, GoodRatchet(s, parity, K, S, A), CanEncrypt(s)
    PROVE  LET t == AfterEncrypt(s)
           IN  /\ GoodRatchet(t, parity, K, S, A)
               /\ Follows(s, t, S)
               /\ Before(s.sendingChainKey, t.sendingChainKey)
               /\ ~Before(s.sendingChainKey, s.sendingChainKey)
               /\ s.sendingChainKey.root = s.rootKey
<1> DEFINE key == s.sendingChainKey
           t == AfterEncrypt(s)
<1>1. /\ s \in RatchetStates(K, S, A)
      /\ RatchetInv(s, parity)
      /\ key \in ChainKeys(S)
      /\ Len(s.skippedMessageKeys) <= MAX_SKIPPED_KEYS_STORED
  BY DEF GoodRatchet, RatchetStates
<1>2. NextChainKey(key) = [root |-> key.root, step |-> key.step + 1]
  BY <1>1 DEF NextChainKey, ChainKeys
<1>3. /\ key.root \in Seq(S) /\ key.step \in Nat /\ Len(key.root) \in Nat
      /\ NextChainKey(key) \in ChainKeys(S)
  BY <1>1, <1>2 DEF ChainKeys
<1>4. /\ t \in RatchetStates(K, S, A)
      /\ t.sendingChainKey = NextChainKey(key)
      /\ t.receivingChainKey = s.receivingChainKey
      /\ t.skippedMessageKeys = s.skippedMessageKeys
      /\ t.rootKey = s.rootKey
  <2>1. t = [s EXCEPT !.sendingChainKey = NextChainKey(key),
                      !.sendMessageNumber = s.sendMessageNumber + 1]
    BY DEF AfterEncrypt
  <2>2. s.sendMessageNumber + 1 \in Nat
    BY <1>1 DEF RatchetStates
  <2> HIDE DEF key, t
  <2> QED  BY <1>1, <1>3, <2>1, <2>2 DEF RatchetStates
<1> HIDE DEF t
<1>5. \A k \in ChainKeys(S) : Before(k, key) => Before(k, NextChainKey(key))
  BY <1>2, <1>3 DEF Before, ChainKeys
<1>6. Before(key, NextChainKey(key)) /\ ~Before(key, key)
  BY <1>2, <1>3 DEF Before
<1>7. key.root = s.rootKey
  BY <1>1 DEF RatchetInv, CanEncrypt
<1>8. RatchetInv(t, parity)
  <2>1. t.sendingChainKey.root = t.rootKey
    BY <1>2, <1>4, <1>7
  <2> QED  BY <1>1, <1>4, <2>1 DEF RatchetInv
<1>9. Follows(s, t, S)
  BY <1>4, <1>5 DEF Follows, Spent, StoredKeys
<1>10. GoodRatchet(t, parity, K, S, A)
  BY <1>1, <1>4, <1>8 DEF GoodRatchet
<1> QED  BY <1>4, <1>6, <1>7, <1>9, <1>10 DEF t

-----------------------------------------------------------------------------
(* What a ratchet was started from.                                        *)

(* secret is the first element of the ratchet's root key and of the root of*)
(* every key it holds.                                                     *)
Derived(s, secret) ==
    /\ s.rootKey[1] = secret
    /\ s.receivingChainKey = NoChain \/ s.receivingChainKey.root[1] = secret
    /\ \A i \in 1 .. Len(s.skippedMessageKeys) :
        s.skippedMessageKeys[i].key.root[1] = secret

(* Skipping leaves a ratchet with keys of the same session.                *)
LEMMA SkipKeepsDerived ==
    ASSUME NEW K, NEW S, NEW A, NEW s \in RatchetStates(K, S, A), NEW until \in Nat,
           NEW secret, Derived(s, secret)
    PROVE  LET t == SkipReceivingMessageKeys(s, until)
           IN  /\ Derived(t, secret)
               /\ t.sendingChainKey = s.sendingChainKey
               /\ t.receivingChainKey = NoChain => s.receivingChainKey = NoChain
<1> DEFINE t == SkipReceivingMessageKeys(s, until)
           chain == s.receivingChainKey
           gap == until - s.receiveMessageNumber
           stored == s.skippedMessageKeys
           entries == SkippedInGap(s, until)
           all == stored \o entries
           kept == EvictOldest(all)
<1>1. CASE chain = NoChain \/ until <= s.receiveMessageNumber
  <2>1. t = s
    BY <1>1 DEF SkipReceivingMessageKeys
  <2> QED  BY <2>1
<1>2. CASE ~(chain = NoChain \/ until <= s.receiveMessageNumber)
  <2>1. /\ chain \in ChainKeys(S)
        /\ stored \in Seq(SkippedKeys(K, S)) /\ Len(stored) \in Nat
        /\ s.receiveMessageNumber \in Nat /\ s.receiveMessageNumber < until
        /\ gap \in Nat /\ gap > 0
    BY <1>2 DEF RatchetStates
  <2>2. /\ t.skippedMessageKeys = kept
        /\ t.receivingChainKey = [root |-> chain.root, step |-> chain.step + gap]
        /\ t.rootKey = s.rootKey
        /\ t.sendingChainKey = s.sendingChainKey
    <3>1. t = [s EXCEPT !.skippedMessageKeys = kept,
                        !.receivingChainKey.step = @ + until - s.receiveMessageNumber,
                        !.receiveMessageNumber = until]
      BY <1>2 DEF SkipReceivingMessageKeys
    <3>2. [chain EXCEPT !.step = @ + until - s.receiveMessageNumber]
              = [root |-> chain.root, step |-> chain.step + gap]
      BY <2>1 DEF ChainKeys
    <3> HIDE DEF kept, t
    <3> QED  BY <2>1, <3>1, <3>2 DEF RatchetStates
  <2>3. /\ entries \in Seq(SkippedKeys(K, S)) /\ Len(entries) = gap
        /\ \A i \in 1 .. gap : entries[i].key = [root |-> chain.root, step |-> chain.step + i - 1]
    BY <2>1, GapKeys
  <2>4. chain.root[1] = secret /\ chain # NoChain
    BY <1>2 DEF Derived
  <2>5. \A i \in 1 .. gap : entries[i].key.root[1] = secret
    <3> SUFFICES ASSUME NEW i \in 1 .. gap PROVE entries[i].key.root[1] = secret
      OBVIOUS
    <3>1. entries[i].key = [root |-> chain.root, step |-> chain.step + i - 1]
      BY <2>3
    <3> HIDE DEF entries, chain, gap
    <3>2. entries[i].key.root = chain.root
      BY <3>1
    <3> QED  BY <2>4, <3>2
  <2>6. /\ all \in Seq(SkippedKeys(K, S)) /\ Len(all) = Len(stored) + gap
        /\ \A i \in 1 .. Len(stored) + gap :
              all[i] = IF i <= Len(stored) THEN stored[i] ELSE entries[i - Len(stored)]
    <3> HIDE DEF stored, entries, gap
    <3> QED  BY <2>1, <2>3, ConcatProperties
  <2>7. /\ Len(kept) \in Nat /\ Len(kept) <= Len(all)
        /\ \A i \in 1 .. Len(kept) : kept[i] = all[i + Len(all) - Len(kept)]
    <3> HIDE DEF all
    <3> QED  BY <2>6, EvictOldestKeepsSuffix, LenProperties
  <2>8. \A i \in 1 .. Len(stored) : stored[i].key.root[1] = secret
    BY DEF Derived
  <2> HIDE DEF kept, all, entries, t, gap, stored
  <2>9. ASSUME NEW i \in 1 .. Len(all) PROVE all[i].key.root[1] = secret
    <3>1. CASE i <= Len(stored)
      BY <2>1, <2>6, <2>8, <3>1
    <3>2. CASE ~(i <= Len(stored))
      <4>1. i - Len(stored) \in 1 .. gap
        BY <2>1, <2>6, <3>2
      <4>2. all[i] = entries[i - Len(stored)]
        BY <2>6, <3>2
      <4> QED  BY <2>5, <4>1, <4>2
    <3> QED  BY <3>1, <3>2
  <2>10. \A i \in 1 .. Len(kept) : i + Len(all) - Len(kept) \in 1 .. Len(all)
    BY <2>1, <2>6, <2>7
  <2>11. \A i \in 1 .. Len(kept) : kept[i].key.root[1] = secret
    BY <2>7, <2>9, <2>10
  <2>12. t.rootKey[1] = secret /\ t.receivingChainKey.root[1] = secret
    BY <2>2, <2>4 DEF Derived
  <2>13. Derived(t, secret)
    BY <2>2, <2>11, <2>12 DEF Derived
  <2>14. t.receivingChainKey = NoChain => chain.root = <<>>
    BY <2>2 DEF NoChain
  <2>15. chain.root = <<>> => chain.step # 0
    <3>1. chain = [root |-> chain.root, step |-> chain.step]
      BY <2>1 DEF ChainKeys
    <3> QED  BY <2>4, <3>1 DEF NoChain
  <2>16. t.receivingChainKey # NoChain
    <3>1. chain.step + gap # 0
      BY <2>1 DEF ChainKeys
    <3> QED  BY <2>2, <3>1 DEF NoChain
  <2> QED  BY <2>2, <2>13, <2>16 DEF t
<1> QED  BY <1>1, <1>2

(* One more secret leaves the first one where it is.                       *)
LEMMA FirstSecret ==
    ASSUME NEW S, NEW r \in Seq(S), Len(r) >= 1, NEW x \in S
    PROVE  Append(r, x)[1] = r[1] /\ Append(r, x) # <<>>
<1>1. Len(r) \in Nat /\ 1 \in 1 .. Len(r)
  BY LenProperties
<1>2. Len(Append(r, x)) = Len(r) + 1 /\ Append(r, x)[1] = r[1]
  BY <1>1, AppendProperties
<1> QED  BY <1>1, <1>2, EmptySeq

(* Turning the ratchet leaves it in its session, able to send.             *)
LEMMA DhRatchetStepKeepsDerived ==
    ASSUME NEW K, NEW S, NEW A, ClosedUnderDh(K, S),
           NEW s \in RatchetStates(K, S, A), Len(s.rootKey) >= 1,
           NEW theirs \in K, NEW fresh \in K, NEW secret, Derived(s, secret)
    PROVE  LET t == DhRatchetStep(s, theirs, fresh)
           IN  Derived(t, secret) /\ CanEncrypt(t)
<1> DEFINE t == DhRatchetStep(s, theirs, fresh)
           d1 == Dh(s.sendingRatchetKey, theirs)
           d2 == Dh(fresh, theirs)
           receiving == Append(s.rootKey, d1)
           sending == Append(receiving, d2)
<1>1. s.rootKey \in Seq(S) /\ s.sendingRatchetKey \in K /\ Len(s.rootKey) \in Nat
  BY DEF RatchetStates
<1>2. d1 \in S /\ d2 \in S
  BY <1>1 DEF ClosedUnderDh
<1> HIDE DEF d1, d2
<1>3. /\ receiving \in Seq(S) /\ Len(receiving) = Len(s.rootKey) + 1
      /\ receiving[1] = s.rootKey[1]
  BY <1>1, <1>2, FirstSecret, AppendProperties
<1>4. Len(receiving) >= 1
  BY <1>1, <1>3
<1>5. sending[1] = s.rootKey[1] /\ sending # <<>>
  <2> HIDE DEF receiving
  <2> QED  BY <1>2, <1>3, <1>4, FirstSecret
<1>6. t = [s EXCEPT !.previousSendingChainLength = s.sendMessageNumber,
                    !.sendMessageNumber = 0,
                    !.receiveMessageNumber = 0,
                    !.receivingRatchetKey = theirs,
                    !.receivingChainKey = [root |-> receiving, step |-> 0],
                    !.sendingRatchetKey = fresh,
                    !.rootKey = sending,
                    !.sendingChainKey = [root |-> sending, step |-> 0]]
  BY DEF DhRatchetStep, FirstChainKey, KdfRootKey, d1, d2
<1> HIDE DEF t, receiving, sending
<1>7. /\ t.rootKey = sending
      /\ t.receivingChainKey = [root |-> receiving, step |-> 0]
      /\ t.sendingChainKey = [root |-> sending, step |-> 0]
      /\ t.skippedMessageKeys = s.skippedMessageKeys
  BY <1>6 DEF RatchetStates
<1>8. CanEncrypt(t)
  BY <1>5, <1>7 DEF CanEncrypt, NoChain
<1>9. Derived(t, secret)
  BY <1>3, <1>5, <1>7 DEF Derived
<1> QED  BY <1>8, <1>9 DEF t

(* A decryption leaves the ratchet in its session and opens no message of  *)
(* another.  A ratchet that can send still can, and one that has neither   *)
(* sent nor received can once it has.                                      *)
LEMMA DecryptKeepsDerived ==
    ASSUME NEW K, NEW S, NEW A, ClosedUnderDh(K, S),
           NEW parity \in {0, 1}, NEW s, GoodRatchet(s, parity, K, S, A),
           NEW m \in Messages(K, S, A), NEW fresh \in K, NEW secret, Derived(s, secret),
           CanEncrypt(s) \/ (/\ s.receivingRatchetKey # m.header.publicKey
                             /\ s.skippedMessageKeys = <<>>)
    PROVE  LET r == RatchetDecrypt(s, m, fresh)
           IN  r.ok => /\ Derived(r.state, secret)
                       /\ m.seal.key.root[1] = secret
                       /\ CanEncrypt(r.state)
<1> DEFINE inner == DecryptInternal(s, m, fresh)
           turned == Turned(s, m.header, fresh)
           n == CHOOSE j \in SkippedAt(s, m.header) : TRUE
           stored == s.skippedMessageKeys
<1>1. /\ m.header.previousChainLength \in Nat /\ m.header.messageNumber \in Nat
      /\ m.header.publicKey \in K
  BY DEF Messages, MessageHeaders
<1>2. /\ s \in RatchetStates(K, S, A) /\ Len(s.rootKey) >= 1
      /\ stored \in Seq(SkippedKeys(K, S)) /\ Len(stored) \in Nat
  BY DEF GoodRatchet, RatchetInv, RatchetStates
<1> SUFFICES ASSUME inner.ok
             PROVE  /\ Derived(inner.state, secret)
                    /\ m.seal.key.root[1] = secret
                    /\ CanEncrypt(inner.state)
  BY DEF RatchetDecrypt
<1>3. CASE SkippedAt(s, m.header) # {}
  <2>1. n \in SkippedAt(s, m.header)
    BY <1>3
  <2>2. n \in 1 .. Len(stored)
    BY <2>1 DEF SkippedAt
  <2>3. inner = DecryptSkipped(s, m)
    BY <1>3 DEF DecryptInternal
  <2>4. /\ Opens(s, m, stored[n].key)
        /\ inner.state = [s EXCEPT !.skippedMessageKeys = RemoveAt(stored, n)]
    BY <2>3 DEF DecryptSkipped
  <2> HIDE DEF inner, n
  <2>5. m.seal.key.root[1] = secret
    BY <2>2, <2>4 DEF Opens, Derived
  <2>6. /\ Len(RemoveAt(stored, n)) = Len(stored) - 1
        /\ \A i \in 1 .. Len(stored) - 1 :
              RemoveAt(stored, n)[i] = IF i < n THEN stored[i] ELSE stored[i + 1]
    <3> HIDE DEF stored
    <3> QED  BY <1>2, <2>2, RemoveAtKeepsOthers
  <2>7. \A i \in 1 .. Len(stored) : stored[i].key.root[1] = secret
    BY DEF Derived
  <2>8. \A i \in 1 .. Len(stored) - 1 : RemoveAt(stored, n)[i].key.root[1] = secret
    <3> SUFFICES ASSUME NEW i \in 1 .. Len(stored) - 1
                 PROVE  RemoveAt(stored, n)[i].key.root[1] = secret
      OBVIOUS
    <3>1. i \in 1 .. Len(stored) /\ i + 1 \in 1 .. Len(stored)
      BY <1>2
    <3> HIDE DEF stored
    <3> QED  BY <2>6, <2>7, <3>1
  <2>9. /\ inner.state.skippedMessageKeys = RemoveAt(stored, n)
        /\ inner.state.rootKey = s.rootKey
        /\ inner.state.receivingChainKey = s.receivingChainKey
        /\ inner.state.sendingChainKey = s.sendingChainKey
    BY <1>2, <2>4 DEF RatchetStates
  <2>10. Derived(inner.state, secret)
    BY <2>6, <2>8, <2>9 DEF Derived
  <2>11. CanEncrypt(s)
    BY <1>2, <2>2, EmptySeq
  <2> QED  BY <2>5, <2>9, <2>10, <2>11 DEF CanEncrypt
<1>4. CASE SkippedAt(s, m.header) = {}
  <2>1. inner = DecryptOnChain(turned, m)
    BY <1>4 DEF DecryptInternal
  <2>2. GoodRatchet(turned, parity, K, S, A)
    BY <1>1, TurnedKeepsRatchetGood
  <2>3. Derived(turned, secret) /\ CanEncrypt(turned)
    <3>1. CASE IsNewRatchetKey(s, m.header)
      <4> DEFINE closed == SkipReceivingMessageKeys(s, m.header.previousChainLength)
      <4>1. turned = DhRatchetStep(closed, m.header.publicKey, fresh)
        BY <3>1 DEF Turned
      <4> HIDE DEF turned
      <4>2. GoodRatchet(closed, parity, K, S, A) /\ Derived(closed, secret)
        <5> HIDE DEF closed
        <5> QED  BY <1>1, <1>2, SkipKeepsRatchetGood, SkipKeepsDerived DEF closed
      <4>3. closed \in RatchetStates(K, S, A) /\ Len(closed.rootKey) >= 1
        <5> HIDE DEF closed
        <5> QED  BY <4>2 DEF GoodRatchet, RatchetInv
      <4> HIDE DEF closed
      <4> QED  BY <1>1, <4>1, <4>2, <4>3, DhRatchetStepKeepsDerived
    <3>2. CASE ~IsNewRatchetKey(s, m.header)
      BY <3>2 DEF Turned, IsNewRatchetKey
    <3> QED  BY <3>1, <3>2
  <2> DEFINE skipped == SkipReceivingMessageKeys(turned, m.header.messageNumber)
             key == skipped.receivingChainKey
  <2>4. /\ key # NoChain /\ Opens(skipped, m, key)
        /\ inner.state = [skipped EXCEPT !.receivingChainKey = NextChainKey(key),
                                         !.receiveMessageNumber = @ + 1]
    BY <2>1 DEF DecryptOnChain
  <2> HIDE DEF inner, turned
  <2>5. /\ skipped \in RatchetStates(K, S, A)
        /\ Derived(skipped, secret)
        /\ skipped.sendingChainKey = turned.sendingChainKey
    <3>1. GoodRatchet(skipped, parity, K, S, A)
      <4> HIDE DEF skipped
      <4> QED  BY <1>1, <2>2, SkipKeepsRatchetGood DEF skipped
    <3>2. turned \in RatchetStates(K, S, A)
      BY <2>2 DEF GoodRatchet
    <3>3. Derived(skipped, secret) /\ skipped.sendingChainKey = turned.sendingChainKey
      <4> HIDE DEF skipped
      <4> QED  BY <1>1, <2>3, <3>2, SkipKeepsDerived DEF skipped
    <3> HIDE DEF skipped
    <3> QED  BY <3>1, <3>3 DEF GoodRatchet
  <2> HIDE DEF skipped
  <2>6. key \in ChainKeys(S)
    BY <2>5 DEF RatchetStates
  <2>7. key.root[1] = secret
    BY <2>4, <2>5 DEF Derived
  <2>8. NextChainKey(key).root = key.root
    BY <2>6 DEF NextChainKey, ChainKeys
  <2>9. m.seal.key.root[1] = secret
    BY <2>4, <2>7 DEF Opens
  <2>10. /\ inner.state.receivingChainKey = NextChainKey(key)
         /\ inner.state.rootKey = skipped.rootKey
         /\ inner.state.skippedMessageKeys = skipped.skippedMessageKeys
         /\ inner.state.sendingChainKey = skipped.sendingChainKey
    BY <2>4, <2>5 DEF RatchetStates
  <2>11. Derived(inner.state, secret)
    BY <2>5, <2>7, <2>8, <2>10 DEF Derived
  <2>12. CanEncrypt(inner.state)
    BY <2>3, <2>5, <2>10 DEF CanEncrypt
  <2> QED  BY <2>9, <2>11, <2>12
<1> QED  BY <1>3, <1>4

(* The ratchet of an initiator can send at once.                           *)
LEMMA InitAliceGood ==
    ASSUME NEW K, NEW S, NEW A, ClosedUnderDh(K, S), NEW secret \in S,
           NEW ours \in K, NEW theirs \in K, NEW a \in A
    PROVE  LET s == InitAlice(secret, ours, theirs, a)
           IN  GoodRatchet(s, 0, K, S, A) /\ Derived(s, secret) /\ CanEncrypt(s)
<1> DEFINE d == Dh(ours, theirs)
           root == Append(<<secret>>, d)
           s == InitAlice(secret, ours, theirs, a)
<1>1. d \in S
  BY DEF ClosedUnderDh
<1> HIDE DEF d
<1>2. <<secret>> \in Seq(S) /\ Len(<<secret>>) = 1 /\ <<secret>>[1] = secret
  OBVIOUS
<1>3. root \in Seq(S) /\ Len(root) = 2 /\ root[1] = secret /\ root # <<>>
  BY <1>1, <1>2, AppendProperties, FirstSecret
<1>4. NoChain \in ChainKeys(S)
  BY EmptySeq DEF NoChain, ChainKeys
<1>5. [root |-> root, step |-> 0] \in ChainKeys(S)
  <2> HIDE DEF root
  <2> QED  BY <1>3 DEF ChainKeys
<1>6. /\ s \in RatchetStates(K, S, A)
      /\ s.rootKey = root /\ s.skippedMessageKeys = <<>>
      /\ s.sendingChainKey = [root |-> root, step |-> 0]
      /\ s.receivingChainKey = NoChain
  <2>1. s = [rootKey |-> root, sendingRatchetKey |-> ours, receivingRatchetKey |-> theirs,
             sendingChainKey |-> [root |-> root, step |-> 0], receivingChainKey |-> NoChain,
             sendMessageNumber |-> 0, receiveMessageNumber |-> 0,
             previousSendingChainLength |-> 0, skippedMessageKeys |-> <<>>,
             associatedData |-> a]
    BY DEF InitAlice, KdfRootKey, FirstChainKey, d
  <2> HIDE DEF root, s
  <2> QED  BY <1>3, <1>4, <1>5, <2>1 DEF RatchetStates
<1> HIDE DEF s, root
<1>7. Len(s.skippedMessageKeys) = 0
  BY <1>6
<1>8. RatchetInv(s, 0)
  <2>1. Len(s.rootKey) >= 1 /\ Len(s.rootKey) % 2 = 0
    <3>1. Len(s.rootKey) = 2
      BY <1>3, <1>6
    <3>2. 2 >= 1 /\ 2 % 2 = 0
      OBVIOUS
    <3> QED  BY <3>1, <3>2
  <2>2. s.sendingChainKey.root = s.rootKey
    BY <1>6
  <2> QED  BY <1>6, <1>7, <2>1, <2>2 DEF RatchetInv
<1>9. GoodRatchet(s, 0, K, S, A)
  BY <1>6, <1>7, <1>8, MaxStoredAssumption DEF GoodRatchet
<1>10. Derived(s, secret)
  BY <1>3, <1>6, <1>7 DEF Derived
<1>11. CanEncrypt(s)
  BY <1>3, <1>6 DEF CanEncrypt, NoChain
<1> QED  BY <1>9, <1>10, <1>11 DEF s

(* The ratchet of a responder waits for the initiator's key.               *)
LEMMA InitBobGood ==
    ASSUME NEW K, NEW S, NEW A, NEW secret \in S, NEW ours \in K, NEW a \in A
    PROVE  LET s == InitBob(secret, ours, a)
           IN  /\ GoodRatchet(s, 1, K, S, A) /\ Derived(s, secret)
               /\ s.receivingRatchetKey = NoKey /\ s.skippedMessageKeys = <<>>
<1> DEFINE s == InitBob(secret, ours, a)
<1>1. <<secret>> \in Seq(S) /\ Len(<<secret>>) = 1 /\ <<secret>>[1] = secret
  OBVIOUS
<1>2. NoChain \in ChainKeys(S)
  BY EmptySeq DEF NoChain, ChainKeys
<1>3. /\ s \in RatchetStates(K, S, A)
      /\ s.rootKey = <<secret>> /\ s.skippedMessageKeys = <<>>
      /\ s.sendingChainKey = NoChain /\ s.receivingChainKey = NoChain
      /\ s.receivingRatchetKey = NoKey
  BY <1>1, <1>2 DEF InitBob, RatchetStates
<1> HIDE DEF s
<1>4. Len(s.skippedMessageKeys) = 0
  BY <1>3
<1>5. RatchetInv(s, 1)
  BY <1>1, <1>3, <1>4 DEF RatchetInv
<1>6. GoodRatchet(s, 1, K, S, A)
  BY <1>3, <1>4, <1>5, MaxStoredAssumption DEF GoodRatchet
<1>7. Derived(s, secret)
  BY <1>1, <1>3, <1>4 DEF Derived
<1> QED  BY <1>3, <1>6, <1>7 DEF s

(* A message is sealed in the session of the ratchet that sends it.        *)
LEMMA EncryptKeepsDerived ==
    ASSUME NEW K, NEW S, NEW A, NEW parity \in {0, 1},
           NEW s, GoodRatchet(s, parity, K, S, A), CanEncrypt(s),
           NEW secret, Derived(s, secret), NEW plaintext \in Nat
    PROVE  LET t == AfterEncrypt(s)
               m == EncryptedMessage(s, plaintext)
           IN  /\ Derived(t, secret) /\ CanEncrypt(t)
               /\ m \in Messages(K, S, A)
               /\ m.seal.plaintext = plaintext
               /\ m.seal.key = s.sendingChainKey
               /\ m.seal.key.root[1] = secret
<1> DEFINE t == AfterEncrypt(s)
           m == EncryptedMessage(s, plaintext)
           key == s.sendingChainKey
<1>1. /\ s \in RatchetStates(K, S, A) /\ key \in ChainKeys(S)
      /\ key # NoChain /\ key.root = s.rootKey /\ Len(s.rootKey) >= 1
  BY DEF GoodRatchet, RatchetStates, RatchetInv, CanEncrypt
<1>2. /\ t.rootKey = s.rootKey /\ t.receivingChainKey = s.receivingChainKey
      /\ t.skippedMessageKeys = s.skippedMessageKeys
      /\ t.sendingChainKey.root = s.rootKey
  <2>1. NextChainKey(key).root = key.root
    BY <1>1 DEF NextChainKey, ChainKeys
  <2>2. t = [s EXCEPT !.sendingChainKey = NextChainKey(key),
                      !.sendMessageNumber = s.sendMessageNumber + 1]
    BY DEF AfterEncrypt
  <2> HIDE DEF t, key
  <2> QED  BY <1>1, <2>1, <2>2 DEF RatchetStates
<1> HIDE DEF t
<1>3. Derived(t, secret)
  BY <1>2 DEF Derived
<1>4. CanEncrypt(t)
  <2>1. s.rootKey # <<>>
    BY <1>1, EmptySeq
  <2> QED  BY <1>2, <2>1 DEF CanEncrypt, NoChain
<1>5. HeaderOf(s) \in MessageHeaders(K) /\ s.associatedData \in A
  BY <1>1 DEF HeaderOf, MessageHeaders, RatchetStates
<1>6. /\ m \in Messages(K, S, A) /\ m.seal.plaintext = plaintext /\ m.seal.key = key
  <2> HIDE DEF key
  <2> QED  BY <1>1, <1>5 DEF EncryptedMessage, Messages, key
<1>7. key.root[1] = secret
  BY <1>1 DEF Derived
<1> HIDE DEF m, key
<1>8. m.seal.key.root[1] = secret
  BY <1>6, <1>7
<1> QED  BY <1>3, <1>4, <1>6, <1>8 DEF t, m, key

-----------------------------------------------------------------------------
(* Two ratchets in step.                                                   *)

(* The first N ratchet keys are keys, no two of them the same.             *)
DistinctKeys(ks, N, K) ==
    /\ \A i \in 1 .. N : ks[i] \in K
    /\ \A i, j \in 1 .. N : ks[i] = ks[j] => i = j

(* Roots are sequences of secrets, each one secret longer than the last.   *)
LEMMA RootFacts ==
    ASSUME NEW K, NEW S, ClosedUnderDh(K, S), NEW secret \in S, NEW ks, NEW n \in Nat \ {0},
           \A i \in 1 .. n : ks[i] \in K
    PROVE  /\ RootAt(secret, ks, n) \in Seq(S)
           /\ Len(RootAt(secret, ks, n)) = n
           /\ \A k \in K : ks[n + 1] = k =>
                 Append(RootAt(secret, ks, n), Dh(k, ks[n])) = RootAt(secret, ks, n + 1)
<1>1. \A i \in 1 .. n : (IF i = 1 THEN secret ELSE Dh(ks[i], ks[i - 1])) \in S
  BY DEF ClosedUnderDh
<1>2. RootAt(secret, ks, n) \in [1 .. n -> S]
  BY <1>1 DEF RootAt
<1>3. /\ RootAt(secret, ks, n) \in Seq(S)
      /\ Len(RootAt(secret, ks, n)) = n
  BY <1>2, SeqDef, LenProperties
<1>4. ASSUME NEW k \in K, ks[n + 1] = k
      PROVE  Append(RootAt(secret, ks, n), Dh(k, ks[n])) = RootAt(secret, ks, n + 1)
  <2>1. /\ Dh(k, ks[n]) \in S
        /\ \A i \in 1 .. n + 1 : (IF i = 1 THEN secret ELSE Dh(ks[i], ks[i - 1])) \in S
    <3>1. ks[n] \in K
      OBVIOUS
    <3>2. Dh(k, ks[n]) \in S
      BY <3>1 DEF ClosedUnderDh
    <3>. QED BY <1>1, <1>4, <3>2
  <2>2. RootAt(secret, ks, n + 1) \in [1 .. n + 1 -> S]
    BY <2>1 DEF RootAt
  <2>3. /\ RootAt(secret, ks, n + 1) \in Seq(S)
        /\ Len(RootAt(secret, ks, n + 1)) = n + 1
    BY <2>2, SeqDef, LenProperties
  <2>4. /\ Append(RootAt(secret, ks, n), Dh(k, ks[n])) \in Seq(S)
        /\ Len(Append(RootAt(secret, ks, n), Dh(k, ks[n]))) = n + 1
    BY <1>3, <2>1, AppendProperties
  <2>5. ASSUME NEW i \in 1 .. n + 1
        PROVE  Append(RootAt(secret, ks, n), Dh(k, ks[n]))[i] = RootAt(secret, ks, n + 1)[i]
    <3>1. CASE i = n + 1
      <4>1. Append(RootAt(secret, ks, n), Dh(k, ks[n]))[i] = Dh(k, ks[n])
        BY <1>3, <2>1, <3>1, AppendProperties
      <4>2. RootAt(secret, ks, n + 1)[i] = Dh(ks[n + 1], ks[n])
        BY <3>1 DEF RootAt
      <4>. QED BY <1>4, <4>1, <4>2
    <3>2. CASE i \in 1 .. n
      <4>1. Append(RootAt(secret, ks, n), Dh(k, ks[n]))[i] = RootAt(secret, ks, n)[i]
        BY <1>3, <2>1, <3>2, AppendProperties
      <4>. QED BY <3>2, <4>1 DEF RootAt
    <3>3. i = n + 1 \/ i \in 1 .. n
      OBVIOUS
    <3>. QED BY <3>1, <3>2, <3>3
  <2>. QED BY <2>3, <2>4, <2>5, SeqEqual
<1>. QED BY <1>3, <1>4

(* A chain has the length of its root.                                     *)
LEMMA ChainFacts ==
    ASSUME NEW K, NEW S, ClosedUnderDh(K, S), NEW secret \in S, NEW ks,
           NEW n \in Nat \ {0}, \A x \in 1 .. n : ks[x] \in K, NEW i
    PROVE  /\ Len(ChainAt(secret, ks, n, i).root) = n
           /\ ChainAt(secret, ks, n, i).step = i
           /\ ChainAt(secret, ks, n, i) # NoChain
           /\ i \in Nat => ChainAt(secret, ks, n, i) \in ChainKeys(S)
<1>1. RootAt(secret, ks, n) \in Seq(S) /\ Len(RootAt(secret, ks, n)) = n
  BY RootFacts
<1>2. Len(NoChain.root) = 0
  BY DEF NoChain
<1>. QED BY <1>1, <1>2 DEF ChainAt, ChainKeys

(* Chains of different roots or at different steps are different.          *)
LEMMA ChainTells ==
    ASSUME NEW K, NEW S, ClosedUnderDh(K, S), NEW secret \in S, NEW ks, NEW N \in Nat,
           NEW n \in 1 .. N, NEW k \in 1 .. N, NEW i, NEW j,
           \A x \in 1 .. N : ks[x] \in K
    PROVE  ChainAt(secret, ks, n, i) = ChainAt(secret, ks, k, j) <=> n = k /\ i = j
<1>1. /\ n \in Nat \ {0} /\ k \in Nat \ {0}
      /\ \A x \in 1 .. n : ks[x] \in K
      /\ \A x \in 1 .. k : ks[x] \in K
  OBVIOUS
<1>2. /\ Len(ChainAt(secret, ks, n, i).root) = n
      /\ Len(ChainAt(secret, ks, k, j).root) = k
      /\ ChainAt(secret, ks, n, i).step = i
      /\ ChainAt(secret, ks, k, j).step = j
  BY <1>1, ChainFacts
<1>. QED BY <1>2

(* The last c keys stored: the ones that eviction takes last.              *)
Recent(s, c) ==
    {s.skippedMessageKeys[i].key :
        i \in {j \in 1 .. Len(s.skippedMessageKeys) : j + c > Len(s.skippedMessageKeys)}}

(* Skipping moves along the chain of the root it is on.  The keys of the   *)
(* gap are the last ones stored, and as many before them stay as the cap   *)
(* leaves room for.                                                        *)
LEMMA SkipKeepsInStep ==
    ASSUME NEW K, NEW S, NEW A, ClosedUnderDh(K, S), NEW secret \in S, NEW ks,
           NEW s \in RatchetStates(K, S, A), Len(s.rootKey) >= 1, InStep(s, secret, ks),
           NEW until \in Nat, NEW c \in Nat,
           ~TooManySkipped(s, until), c + MAX_SKIP <= MAX_SKIPPED_KEYS_STORED
    PROVE  LET t == SkipReceivingMessageKeys(s, until)
               n == Len(s.rootKey)
           IN  /\ t \in RatchetStates(K, S, A)
               /\ InStep(t, secret, ks)
               /\ t.rootKey = s.rootKey
               /\ t.sendingChainKey = s.sendingChainKey
               /\ HeaderOf(t) = HeaderOf(s)
               /\ t.associatedData = s.associatedData
               /\ n >= 3 => t.receiveMessageNumber =
                              IF s.receiveMessageNumber < until THEN until
                                                                ELSE s.receiveMessageNumber
               /\ n >= 3 => \A step \in s.receiveMessageNumber .. until - 1 :
                              ChainAt(secret, ks, n - 1, step) \in Recent(t, MAX_SKIP)
               /\ Recent(s, c) \subseteq StoredKeys(t)
<1> DEFINE t == SkipReceivingMessageKeys(s, until)
           n == Len(s.rootKey)
           stored == s.skippedMessageKeys
           entries == SkippedInGap(s, until)
           gap == until - s.receiveMessageNumber
           all == stored \o entries
           kept == EvictOldest(all)
           chain == s.receivingChainKey
<1>1. /\ stored \in Seq(SkippedKeys(K, S)) /\ Len(stored) \in Nat
      /\ s.receiveMessageNumber \in Nat
      /\ n \in Nat \ {0} /\ s.rootKey \in Seq(S)
      /\ chain \in ChainKeys(S)
  BY LenProperties DEF RatchetStates
<1>5. /\ s.rootKey = RootAt(secret, ks, n)
      /\ s.sendingRatchetKey = ks[n]
      /\ n # 1 => s.receivingRatchetKey = ks[n - 1]
      /\ n <= 2 => chain = NoChain
      /\ ~(n <= 2) => chain = ChainAt(secret, ks, n - 1, s.receiveMessageNumber)
      /\ \A i \in 1 .. Len(stored) :
            \E k \in 2 .. n - 1 :
               /\ stored[i].publicKey = ks[k]
               /\ stored[i].key = ChainAt(secret, ks, k, stored[i].messageNumber)
  BY DEF InStep
<1>6. n = Len(s.rootKey)
  OBVIOUS
<1>7. gap = until - s.receiveMessageNumber
  OBVIOUS
<1>2. Recent(s, c) \subseteq StoredKeys(s)
  BY DEF Recent, StoredKeys
<1>. HIDE DEF n, gap
<1>3. CASE n <= 2 \/ until <= s.receiveMessageNumber
  <2>2. t = s
    BY <1>3, <1>5 DEF SkipReceivingMessageKeys
  <2>3. \A step \in s.receiveMessageNumber .. until - 1 : n < 3
    BY <1>1, <1>3
  <2>. QED BY <1>1, <1>2, <1>3, <1>6, <2>2, <2>3
<1>4. CASE n >= 3 /\ s.receiveMessageNumber < until
  <2>. USE <1>4
  <2>1. chain = ChainAt(secret, ks, n - 1, s.receiveMessageNumber)
    BY <1>1, <1>5
  <2>2. /\ chain.root = RootAt(secret, ks, n - 1) /\ chain.step = s.receiveMessageNumber
    BY <2>1 DEF ChainAt
  <2>3. s.receivingRatchetKey = ks[n - 1]
    <3>1. n # 1
      BY <1>1
    <3>. QED BY <1>5, <3>1
  <2>4. /\ entries \in Seq(SkippedKeys(K, S)) /\ Len(entries) = gap
        /\ gap \in Nat /\ gap <= MAX_SKIP
        /\ \A i \in 1 .. gap : entries[i].key =
              [root |-> chain.root, step |-> chain.step + i - 1]
    <3>1. /\ entries \in Seq(SkippedKeys(K, S)) /\ Len(entries) = gap
          /\ \A i \in 1 .. gap : entries[i].key =
              [root |-> chain.root, step |-> chain.step + i - 1]
      BY <1>1, <1>7, GapKeys
    <3>2. gap \in Nat /\ gap <= MAX_SKIP
      BY <1>1, <1>7, MaxSkipAssumption DEF TooManySkipped
    <3>. QED BY <3>1, <3>2
  <2>5. \A i \in 1 .. gap :
          /\ entries[i].publicKey = ks[n - 1]
          /\ entries[i].messageNumber = s.receiveMessageNumber + i - 1
          /\ entries[i].key = ChainAt(secret, ks, n - 1, entries[i].messageNumber)
    <3>1. \A i \in 1 .. gap :
            /\ entries[i].publicKey = s.receivingRatchetKey
            /\ entries[i].messageNumber = s.receiveMessageNumber + i - 1
      BY <1>7 DEF SkippedInGap
    <3>. QED BY <1>1, <2>2, <2>3, <2>4, <3>1 DEF ChainAt
  <2>. HIDE DEF stored, entries, all, kept
  <2>6. /\ all \in Seq(SkippedKeys(K, S)) /\ Len(all) = Len(stored) + gap
        /\ \A i \in 1 .. Len(stored) + gap :
              all[i] = IF i <= Len(stored) THEN stored[i] ELSE entries[i - Len(stored)]
    <3>1. /\ all \in Seq(SkippedKeys(K, S)) /\ Len(all) = Len(stored) + Len(entries)
          /\ \A i \in 1 .. Len(stored) + Len(entries) :
                all[i] = IF i <= Len(stored) THEN stored[i] ELSE entries[i - Len(stored)]
      <4>1. all = stored \o entries
        BY DEF all
      <4>2. stored \in Seq(SkippedKeys(K, S)) /\ entries \in Seq(SkippedKeys(K, S))
        BY <1>1, <2>4
      <4>. QED BY <4>1, <4>2, ConcatProperties
    <3>. QED BY <2>4, <3>1
  <2>7. /\ kept \in Seq(SkippedKeys(K, S)) /\ Len(kept) \in Nat
        /\ Len(kept) <= Len(all)
        /\ \A i \in 1 .. Len(kept) : kept[i] = all[i + Len(all) - Len(kept)]
    <3>1. kept \in Seq(SkippedKeys(K, S))
          /\ Len(kept) <= Len(all)
          /\ \A i \in 1 .. Len(kept) : kept[i] = all[i + Len(all) - Len(kept)]
      BY <2>6, EvictOldestKeepsSuffix DEF kept
    <3>. QED BY <3>1, LenProperties
  <2>8. Len(kept) = Len(all) \/ Len(kept) = MAX_SKIPPED_KEYS_STORED
    <3>1. CASE Len(all) <= MAX_SKIPPED_KEYS_STORED
      BY <3>1 DEF EvictOldest, kept
    <3>2. CASE ~(Len(all) <= MAX_SKIPPED_KEYS_STORED)
      <4> DEFINE first == Len(all) - MAX_SKIPPED_KEYS_STORED + 1
      <4>1. first \in 1 .. Len(all) + 1 /\ Len(all) \in Nat
        BY <1>1, <2>4, <2>6, <3>2, MaxStoredAssumption
      <4>2. \A i \in first .. Len(all) : all[i] \in SkippedKeys(K, S)
        BY <2>6, <4>1, ElementOfSeq
      <4>3. Len(SubSeq(all, first, Len(all))) =
              IF first <= Len(all) THEN Len(all) - first + 1 ELSE 0
        BY <4>1, <4>2, SubSeqProperties
      <4>4. kept = SubSeq(all, first, Len(all))
        BY <3>2 DEF EvictOldest, kept
      <4>. QED BY <4>1, <4>3, <4>4, MaxStoredAssumption
    <3>. QED BY <3>1, <3>2
  <2>9. t = [s EXCEPT !.skippedMessageKeys = kept,
                      !.receivingChainKey = ChainAt(secret, ks, n - 1, until),
                      !.receiveMessageNumber = until]
    <3>1. chain # NoChain
      <4>1. Len(NoChain.root) = 0
        BY DEF NoChain
      <4>2. DOMAIN chain.root = 1 .. n - 1
        BY <2>2 DEF RootAt
      <4>3. chain.root # <<>>
        BY <1>1, <4>2
      <4>. QED BY <4>3 DEF NoChain
    <3>2. t = [s EXCEPT !.skippedMessageKeys = kept,
                        !.receivingChainKey.step = @ + until - s.receiveMessageNumber,
                        !.receiveMessageNumber = until]
      BY <1>1, <3>1 DEF SkipReceivingMessageKeys, kept, all, stored, entries
    <3>3. [chain EXCEPT !.step = @ + until - s.receiveMessageNumber]
            = ChainAt(secret, ks, n - 1, until)
      BY <1>1, <2>1 DEF ChainAt
    <3>. QED BY <3>2, <3>3 DEF RatchetStates
  <2>10. /\ t.skippedMessageKeys = kept
         /\ t.receivingChainKey = ChainAt(secret, ks, n - 1, until)
         /\ t.receiveMessageNumber = until
         /\ t.rootKey = s.rootKey /\ t.sendingChainKey = s.sendingChainKey
         /\ HeaderOf(t) = HeaderOf(s) /\ t.associatedData = s.associatedData
         /\ t.sendingRatchetKey = s.sendingRatchetKey
         /\ t.receivingRatchetKey = s.receivingRatchetKey
         /\ t.sendMessageNumber = s.sendMessageNumber
         /\ t \in RatchetStates(K, S, A)
    <3>1. ChainAt(secret, ks, n - 1, until) \in ChainKeys(S)
      BY <1>1, <2>2 DEF ChainAt, ChainKeys
    <3>. QED BY <2>7, <2>9, <3>1 DEF RatchetStates, HeaderOf
  <2>11. ASSUME NEW i \in 1 .. Len(kept)
         PROVE  \E k \in 2 .. n - 1 :
                   /\ kept[i].publicKey = ks[k]
                   /\ kept[i].key = ChainAt(secret, ks, k, kept[i].messageNumber)
    <3> DEFINE j == i + Len(all) - Len(kept)
    <3>1. j \in 1 .. Len(stored) + gap /\ kept[i] = all[j]
      BY <1>1, <2>4, <2>6, <2>7
    <3>2. CASE j <= Len(stored)
      <4>1. kept[i] = stored[j] /\ j \in 1 .. Len(stored)
        BY <1>1, <2>6, <3>1, <3>2
      <4>. QED BY <1>5, <4>1
    <3>3. CASE ~(j <= Len(stored))
      <4> HIDE DEF j
      <4>3. j - Len(stored) \in 1 .. gap
        BY <1>1, <2>4, <3>1, <3>3
      <4>4. all[j] = entries[j - Len(stored)]
        BY <2>6, <3>1, <3>3
      <4>1. kept[i] = entries[j - Len(stored)] /\ j - Len(stored) \in 1 .. gap
        BY <3>1, <4>3, <4>4
      <4>2. n - 1 \in 2 .. n - 1
        BY <1>1
      <4>. QED BY <2>5, <4>1, <4>2
    <3>. QED BY <3>2, <3>3
  <2>12. InStep(t, secret, ks)
    BY <1>6, <2>10, <2>11, InStep(s, secret, ks) DEF InStep
  <2>13. ASSUME NEW step \in s.receiveMessageNumber .. until - 1
         PROVE  ChainAt(secret, ks, n - 1, step) \in Recent(t, MAX_SKIP)
    <3> DEFINE i == step - s.receiveMessageNumber + 1
               j == Len(stored) + i - (Len(all) - Len(kept))
    <3>4. i \in 1 .. gap
      BY <1>1, <1>7
    <3>5. i + s.receiveMessageNumber - 1 = step
      BY <1>1
    <3> HIDE DEF i
    <3>1. i \in 1 .. gap /\ Len(stored) + i \in 1 .. Len(stored) + gap
      BY <1>1, <2>4, <3>4
    <3>2. j \in 1 .. Len(kept) /\ j + MAX_SKIP > Len(kept)
          /\ j + Len(all) - Len(kept) = Len(stored) + i
      BY <1>1, <2>4, <2>6, <2>7, <2>8, <3>1, MaxSkipAssumption, MaxStoredAssumption
    <3> HIDE DEF j
    <3>3. kept[j] = entries[i]
      <4>1. kept[j] = all[Len(stored) + i]
        BY <2>7, <3>2
      <4>2. ~(Len(stored) + i <= Len(stored)) /\ (Len(stored) + i) - Len(stored) = i
        BY <1>1, <2>4, <3>1
      <4>. QED BY <2>6, <3>1, <4>1, <4>2
    <3>6. entries[i].key = ChainAt(secret, ks, n - 1, step)
      <4>1. s.receiveMessageNumber + i - 1 = step
        BY <1>1, <2>4, <3>1, <3>5
      <4>. QED BY <2>5, <3>1, <4>1
    <3>. QED BY <2>10, <3>2, <3>3, <3>6 DEF Recent
  <2>14. ASSUME NEW i \in 1 .. Len(stored), i + c > Len(stored)
         PROVE  stored[i].key \in StoredKeys(t)
    <3> DEFINE j == i - (Len(all) - Len(kept))
    <3>1. j \in 1 .. Len(kept) /\ j + Len(all) - Len(kept) = i
          /\ i \in 1 .. Len(stored) + gap
      BY <1>1, <2>4, <2>6, <2>7, <2>8, <2>14, MaxSkipAssumption, MaxStoredAssumption
    <3>2. kept[j] = stored[i]
      <4>1. kept[j] = all[i]
        BY <2>7, <3>1
      <4>. QED BY <2>6, <3>1, <4>1
    <3>. QED BY <2>10, <3>1, <3>2 DEF StoredKeys
  <2>15. Recent(s, c) \subseteq StoredKeys(t)
    BY <2>14 DEF Recent, stored
  <2>. QED BY <1>6, <2>10, <2>12, <2>13, <2>15
<1>. QED BY <1>1, <1>3, <1>4, <1>6

(* The next ratchet key of the other party takes a ratchet one turn on.    *)
LEMMA TurnKeepsInStep ==
    ASSUME NEW K, NEW S, NEW A, ClosedUnderDh(K, S), NEW secret \in S, NEW ks, NoKey \notin K,
           NEW s \in RatchetStates(K, S, A), Len(s.rootKey) >= 1, InStep(s, secret, ks),
           DistinctKeys(ks, Len(s.rootKey) + 2, K),
           NEW header \in MessageHeaders(K), header.publicKey = ks[Len(s.rootKey) + 1],
           ~TooManySkipped(s, header.previousChainLength)
    PROVE  LET n == Len(s.rootKey)
               t == Turned(s, header, ks[n + 2])
           IN  /\ IsNewRatchetKey(s, header)
               /\ t \in RatchetStates(K, S, A)
               /\ Len(t.rootKey) = n + 2
               /\ InStep(t, secret, ks)
               /\ t.receiveMessageNumber = 0
               /\ t.sendMessageNumber = 0
               /\ t.previousSendingChainLength = s.sendMessageNumber
               /\ t.associatedData = s.associatedData
               /\ n >= 3 => \A step \in s.receiveMessageNumber .. header.previousChainLength - 1 :
                              ChainAt(secret, ks, n - 1, step) \in Recent(t, MAX_SKIP)
<1> DEFINE n == Len(s.rootKey)
           prev == header.previousChainLength
           u == SkipReceivingMessageKeys(s, prev)
           theirs == ks[n + 1]
           fresh == ks[n + 2]
           t == Turned(s, header, fresh)
           receiving == KdfRootKey(u.rootKey, Dh(u.sendingRatchetKey, theirs))
           sending == KdfRootKey(receiving, Dh(fresh, theirs))
<1>1. /\ n \in Nat \ {0} /\ s.rootKey \in Seq(S)
      /\ prev \in Nat
      /\ \A i \in 1 .. n + 2 : ks[i] \in K
      /\ \A i, j \in 1 .. n + 2 : ks[i] = ks[j] => i = j
  BY LenProperties DEF RatchetStates, MessageHeaders, DistinctKeys
<1>2. /\ u \in RatchetStates(K, S, A)
      /\ InStep(u, secret, ks)
      /\ u.rootKey = s.rootKey
      /\ HeaderOf(u) = HeaderOf(s)
      /\ u.associatedData = s.associatedData
      /\ n >= 3 => \A step \in s.receiveMessageNumber .. prev - 1 :
                     ChainAt(secret, ks, n - 1, step) \in Recent(u, MAX_SKIP)
  <2>1. /\ 0 \in Nat /\ 0 + MAX_SKIP <= MAX_SKIPPED_KEYS_STORED
        /\ ~TooManySkipped(s, prev)
    BY MaxSkipAssumption, MaxStoredAssumption
  <2>. QED BY <1>1, <2>1, SkipKeepsInStep
<1>3. IsNewRatchetKey(s, header)
  <2>1. s.receivingRatchetKey = IF n = 1 THEN NoKey ELSE ks[n - 1]
    BY DEF InStep
  <2>. HIDE DEF n
  <2>2. n + 1 \in 1 .. n + 2 /\ (n # 1 => n - 1 \in 1 .. n + 2) /\ n - 1 # n + 1
    BY <1>1
  <2>3. ks[n + 1] \in K /\ (n # 1 => ks[n - 1] # ks[n + 1])
    BY <1>1, <2>2
  <2>. QED BY <2>1, <2>3 DEF IsNewRatchetKey, n
<1>4. t = DhRatchetStep(u, theirs, fresh)
  BY <1>3 DEF Turned
<1>. HIDE DEF u
<1>5. /\ u.rootKey = RootAt(secret, ks, n)
      /\ u.sendingRatchetKey = ks[n]
      /\ \A i \in 1 .. Len(u.skippedMessageKeys) :
            \E k \in 2 .. n - 1 :
               /\ u.skippedMessageKeys[i].publicKey = ks[k]
               /\ u.skippedMessageKeys[i].key =
                     ChainAt(secret, ks, k, u.skippedMessageKeys[i].messageNumber)
  <2>1. n = Len(u.rootKey)
    BY <1>2
  <2>. QED BY <1>2, <2>1 DEF InStep
<1>6. u.sendMessageNumber = s.sendMessageNumber /\ u.sendMessageNumber \in Nat
  BY <1>2 DEF HeaderOf, RatchetStates
<1>. HIDE DEF n
<1>7. /\ receiving = RootAt(secret, ks, n + 1)
      /\ receiving \in Seq(S) /\ Len(receiving) = n + 1
  <2>1. \A i \in 1 .. n : ks[i] \in K
    BY <1>1
  <2>2. /\ \A i \in 1 .. n + 1 : ks[i] \in K
        /\ theirs \in K /\ n + 1 \in Nat \ {0}
    BY <1>1
  <2>3. \A k \in K : ks[n + 1] = k =>
          Append(RootAt(secret, ks, n), Dh(k, ks[n])) = RootAt(secret, ks, n + 1)
    <3>1. n \in Nat \ {0}
      BY <1>1
    <3>. QED BY <2>1, <3>1, RootFacts
  <2>4. Dh(u.sendingRatchetKey, theirs) = Dh(theirs, ks[n])
    BY <1>5 DEF Dh
  <2>5. receiving = RootAt(secret, ks, n + 1)
    BY <1>5, <2>2, <2>3, <2>4 DEF KdfRootKey
  <2>. QED BY <2>2, <2>5, RootFacts
<1>8. /\ sending = RootAt(secret, ks, n + 2)
      /\ sending \in Seq(S) /\ Len(sending) = n + 2
  <2>1. \A i \in 1 .. n + 1 : ks[i] \in K
    BY <1>1
  <2>2. /\ fresh \in K /\ n + 1 \in Nat \ {0} /\ n + 2 \in Nat \ {0} /\ (n + 1) + 1 = n + 2
    BY <1>1
  <2>3. \A k \in K : ks[(n + 1) + 1] = k =>
          Append(RootAt(secret, ks, n + 1), Dh(k, ks[n + 1])) = RootAt(secret, ks, (n + 1) + 1)
    BY <2>1, <2>2, RootFacts
  <2>5. sending = RootAt(secret, ks, n + 2)
    BY <1>7, <2>2, <2>3 DEF KdfRootKey
  <2>. QED BY <1>1, <2>2, <2>5, RootFacts
<1>9. t = [u EXCEPT !.previousSendingChainLength = u.sendMessageNumber,
                    !.sendMessageNumber = 0,
                    !.receiveMessageNumber = 0,
                    !.receivingRatchetKey = theirs,
                    !.receivingChainKey = ChainAt(secret, ks, n + 1, 0),
                    !.sendingRatchetKey = fresh,
                    !.rootKey = sending,
                    !.sendingChainKey = ChainAt(secret, ks, n + 2, 0)]
  BY <1>4, <1>7, <1>8 DEF DhRatchetStep, FirstChainKey, ChainAt
<1>. HIDE DEF t
<1>10. /\ t.previousSendingChainLength = u.sendMessageNumber
       /\ t.sendMessageNumber = 0 /\ t.receiveMessageNumber = 0
       /\ t.receivingRatchetKey = theirs /\ t.sendingRatchetKey = fresh
       /\ t.receivingChainKey = ChainAt(secret, ks, n + 1, 0)
       /\ t.sendingChainKey = ChainAt(secret, ks, n + 2, 0)
       /\ t.rootKey = sending
       /\ t.skippedMessageKeys = u.skippedMessageKeys
       /\ t.associatedData = u.associatedData
       /\ t \in RatchetStates(K, S, A)
  <2>1. /\ ChainAt(secret, ks, n + 1, 0) \in ChainKeys(S)
        /\ ChainAt(secret, ks, n + 2, 0) \in ChainKeys(S)
    BY <1>7, <1>8 DEF ChainAt, ChainKeys
  <2>2. theirs \in K /\ fresh \in K
    BY <1>1
  <2>. HIDE DEF theirs, fresh, sending
  <2>. QED BY <1>2, <1>6, <1>8, <1>9, <2>1, <2>2 DEF RatchetStates
<1>11. InStep(t, secret, ks)
  <2>1. Len(t.rootKey) = n + 2
    BY <1>8, <1>10
  <2>2. /\ (n + 2) - 1 = n + 1 /\ ~(n + 2 <= 2) /\ n + 2 # 1
        /\ \A k \in 2 .. n - 1 : k \in 2 .. n + 1
    BY <1>1
  <2>3. \A i \in 1 .. Len(t.skippedMessageKeys) :
            \E k \in 2 .. n + 1 :
               /\ t.skippedMessageKeys[i].publicKey = ks[k]
               /\ t.skippedMessageKeys[i].key =
                     ChainAt(secret, ks, k, t.skippedMessageKeys[i].messageNumber)
    BY <1>5, <1>10, <2>2
  <2>4. /\ t.rootKey = RootAt(secret, ks, n + 2)
        /\ t.sendingRatchetKey = ks[n + 2]
        /\ t.receivingRatchetKey = ks[n + 1]
        /\ t.sendingChainKey = ChainAt(secret, ks, n + 2, t.sendMessageNumber)
        /\ t.receivingChainKey = ChainAt(secret, ks, n + 1, t.receiveMessageNumber)
    BY <1>8, <1>10
  <2>. HIDE DEF sending
  <2>5. \A x : x = n + 2 => x - 1 = n + 1 /\ ~(x <= 2) /\ x # 1
    BY <1>1
  <2>. QED BY <2>1, <2>3, <2>4, <2>5 DEF InStep
<1>12. Recent(t, MAX_SKIP) = Recent(u, MAX_SKIP)
  BY <1>10 DEF Recent
<1>. QED BY <1>2, <1>3, <1>6, <1>8, <1>10, <1>11, <1>12 DEF n, t

(* A message of the chain being received, not yet passed and not too far   *)
(* ahead, is opened: the keys before it are stored, and those that were    *)
(* stored last are kept.                                                   *)
LEMMA ChainOpensInStep ==
    ASSUME NEW K, NEW S, NEW A, ClosedUnderDh(K, S), NEW secret \in S, NEW ks,
           NEW s \in RatchetStates(K, S, A), Len(s.rootKey) >= 3, InStep(s, secret, ks),
           NEW m \in Messages(K, S, A), SealedAt(m, secret, ks, Len(s.rootKey) - 1),
           m.seal.associatedData = s.associatedData,
           s.receiveMessageNumber <= m.header.messageNumber,
           ~TooManySkipped(s, m.header.messageNumber)
    PROVE  LET r == DecryptOnChain(s, m)
               n == Len(s.rootKey)
           IN  /\ r.ok
               /\ r.state \in RatchetStates(K, S, A)
               /\ InStep(r.state, secret, ks)
               /\ r.state.rootKey = s.rootKey
               /\ r.state.sendingChainKey = s.sendingChainKey
               /\ HeaderOf(r.state) = HeaderOf(s)
               /\ r.state.associatedData = s.associatedData
               /\ r.state.receiveMessageNumber = m.header.messageNumber + 1
               /\ \A step \in s.receiveMessageNumber .. m.header.messageNumber - 1 :
                     ChainAt(secret, ks, n - 1, step) \in StoredKeys(r.state)
               /\ Recent(s, MAX_SKIP) \subseteq StoredKeys(r.state)
<1> DEFINE n == Len(s.rootKey)
           number == m.header.messageNumber
           t == SkipReceivingMessageKeys(s, number)
           key == t.receivingChainKey
           v == [t EXCEPT !.receivingChainKey = NextChainKey(@),
                          !.receiveMessageNumber = @ + 1]
<1>1. /\ n \in Nat /\ n >= 3 /\ s.rootKey \in Seq(S)
      /\ number \in Nat /\ s.receiveMessageNumber \in Nat
  BY LenProperties DEF RatchetStates, Messages, MessageHeaders
<1>2. /\ t \in RatchetStates(K, S, A)
      /\ InStep(t, secret, ks)
      /\ t.rootKey = s.rootKey
      /\ t.sendingChainKey = s.sendingChainKey
      /\ HeaderOf(t) = HeaderOf(s)
      /\ t.associatedData = s.associatedData
      /\ t.receiveMessageNumber = number
      /\ \A step \in s.receiveMessageNumber .. number - 1 :
            ChainAt(secret, ks, n - 1, step) \in Recent(t, MAX_SKIP)
      /\ Recent(s, MAX_SKIP) \subseteq StoredKeys(t)
  <2>1. MAX_SKIP \in Nat /\ MAX_SKIP + MAX_SKIP <= MAX_SKIPPED_KEYS_STORED
    BY MaxSkipAssumption, MaxStoredAssumption
  <2>2. Len(s.rootKey) >= 1
    BY <1>1
  <2>4. ~TooManySkipped(s, number)
    OBVIOUS
  <2>5. /\ t \in RatchetStates(K, S, A)
        /\ InStep(t, secret, ks)
        /\ t.rootKey = s.rootKey
        /\ t.sendingChainKey = s.sendingChainKey
        /\ HeaderOf(t) = HeaderOf(s)
        /\ t.associatedData = s.associatedData
        /\ n >= 3 => t.receiveMessageNumber =
                       IF s.receiveMessageNumber < number THEN number
                                                          ELSE s.receiveMessageNumber
        /\ n >= 3 => \A step \in s.receiveMessageNumber .. number - 1 :
                       ChainAt(secret, ks, n - 1, step) \in Recent(t, MAX_SKIP)
        /\ Recent(s, MAX_SKIP) \subseteq StoredKeys(t)
    <3>. HIDE DEF number
    <3>. QED BY <1>1, <2>1, <2>2, <2>4, SkipKeepsInStep
  <2>3. /\ t.receiveMessageNumber = IF s.receiveMessageNumber < number THEN number
                                                            ELSE s.receiveMessageNumber
        /\ t \in RatchetStates(K, S, A)
        /\ InStep(t, secret, ks)
        /\ t.rootKey = s.rootKey
        /\ t.sendingChainKey = s.sendingChainKey
        /\ HeaderOf(t) = HeaderOf(s)
        /\ t.associatedData = s.associatedData
        /\ \A step \in s.receiveMessageNumber .. number - 1 :
            ChainAt(secret, ks, n - 1, step) \in Recent(t, MAX_SKIP)
        /\ Recent(s, MAX_SKIP) \subseteq StoredKeys(t)
    BY <1>1, <2>5
  <2>. HIDE DEF t
  <2>. QED BY <1>1, <2>3
<1>. HIDE DEF t
<1>3. Len(t.rootKey) = n
  BY <1>2
<1>. HIDE DEF n
<1>4. /\ t.rootKey = RootAt(secret, ks, n)
      /\ t.sendingRatchetKey = ks[n]
      /\ t.receivingRatchetKey = IF n = 1 THEN NoKey ELSE ks[n - 1]
      /\ t.sendingChainKey =
            IF n = 1 THEN NoChain ELSE ChainAt(secret, ks, n, t.sendMessageNumber)
      /\ t.receivingChainKey =
            IF n <= 2 THEN NoChain ELSE ChainAt(secret, ks, n - 1, t.receiveMessageNumber)
      /\ \A i \in 1 .. Len(t.skippedMessageKeys) :
            \E k \in 2 .. n - 1 :
               /\ t.skippedMessageKeys[i].publicKey = ks[k]
               /\ t.skippedMessageKeys[i].key =
                     ChainAt(secret, ks, k, t.skippedMessageKeys[i].messageNumber)
  BY <1>2, <1>3 DEF InStep
<1>5. key = ChainAt(secret, ks, n - 1, number) /\ key = m.seal.key
  <2>1. ~(n <= 2)
    BY <1>1
  <2>. QED BY <1>2, <1>4, <2>1 DEF SealedAt, n
<1>6. key # NoChain
  <2>1. DOMAIN key.root = 1 .. n - 1
    BY <1>5 DEF ChainAt, RootAt
  <2>2. 1 \in DOMAIN key.root
    BY <1>1, <2>1
  <2>3. 1 \notin DOMAIN NoChain.root
    BY DEF NoChain
  <2>. QED BY <2>2, <2>3
<1>7. Opens(t, m, key)
  BY <1>2, <1>5 DEF Opens, SealedAt
<1>8. DecryptOnChain(s, m) = [ok |-> TRUE, state |-> v]
  BY <1>6, <1>7 DEF DecryptOnChain, t
<1>9. v = [t EXCEPT !.receivingChainKey = ChainAt(secret, ks, n - 1, number + 1),
                    !.receiveMessageNumber = number + 1]
  <2>1. NextChainKey(key) = ChainAt(secret, ks, n - 1, number + 1)
    BY <1>5 DEF NextChainKey, ChainAt
  <2>. QED BY <1>2, <2>1 DEF RatchetStates
<1>. HIDE DEF v
<1>10. /\ v.receivingChainKey = ChainAt(secret, ks, n - 1, number + 1)
       /\ v.receiveMessageNumber = number + 1
       /\ v.rootKey = t.rootKey /\ v.sendingChainKey = t.sendingChainKey
       /\ v.sendingRatchetKey = t.sendingRatchetKey
       /\ v.receivingRatchetKey = t.receivingRatchetKey
       /\ v.sendMessageNumber = t.sendMessageNumber
       /\ v.skippedMessageKeys = t.skippedMessageKeys
       /\ v.associatedData = t.associatedData
       /\ HeaderOf(v) = HeaderOf(t)
       /\ v \in RatchetStates(K, S, A)
  <2>1. ChainAt(secret, ks, n - 1, number + 1) \in ChainKeys(S)
    <3>1. key \in ChainKeys(S) /\ key.root = RootAt(secret, ks, n - 1)
      BY <1>2, <1>5 DEF RatchetStates, ChainAt
    <3>. QED BY <1>1, <3>1 DEF ChainKeys, ChainAt
  <2>2. number + 1 \in Nat
    BY <1>1
  <2>. QED BY <1>2, <1>9, <2>1, <2>2 DEF RatchetStates, HeaderOf
<1>11. InStep(v, secret, ks)
  <2>1. ~(n <= 2) /\ n # 1
    BY <1>1
  <2>. QED BY <1>3, <1>4, <1>10, <2>1 DEF InStep
<1>12. StoredKeys(v) = StoredKeys(t) /\ Recent(t, MAX_SKIP) \subseteq StoredKeys(t)
  BY <1>10 DEF StoredKeys, Recent
<1>. QED BY <1>2, <1>8, <1>10, <1>11, <1>12 DEF n
-----------------------------------------------------------------------------
(* A message m, sealed on root n, meets the ratchet s of the other party:  *)
(* n is at most the root after the one s sends on, and fresh is the key s  *)
(* turns to if it is that one.  The keys up to ks[top] are distinct.       *)
Meets(m, n, s, fresh, secret, ks, top, K, S, A) ==
    /\ ClosedUnderDh(K, S) /\ secret \in S /\ NoKey \notin K
    /\ s \in RatchetStates(K, S, A) /\ Len(s.rootKey) >= 1
    /\ InStep(s, secret, ks)
    /\ m \in Messages(K, S, A)
    /\ SealedAt(m, secret, ks, n)
    /\ m.seal.associatedData = s.associatedData
    /\ n \in Nat /\ n >= 2 /\ n <= Len(s.rootKey) + 1 /\ n % 2 # Len(s.rootKey) % 2
    /\ top \in Nat /\ n <= top /\ Len(s.rootKey) <= top /\ DistinctKeys(ks, top, K)
    /\ n = Len(s.rootKey) + 1 => n + 1 <= top /\ fresh = ks[n + 1]

(* What meets a ratchet is of the chain it would turn to, of the one it    *)
(* receives on, or of an older one.  The key stored for a header is that   *)
(* of its message.                                                         *)
LEMMA MeetingFacts ==
    ASSUME NEW K, NEW S, NEW A, NEW secret, NEW ks, NEW s, NEW m, NEW n, NEW fresh,
           NEW top, Meets(m, n, s, fresh, secret, ks, top, K, S, A)
    PROVE  LET l == Len(s.rootKey)
           IN  /\ l \in Nat /\ s.rootKey \in Seq(S)
               /\ s.receiveMessageNumber \in Nat
               /\ m.header \in MessageHeaders(K)
               /\ m.header.messageNumber \in Nat
               /\ n = l + 1 \/ n = l - 1 \/ n < l - 1
               /\ IsNewRatchetKey(s, m.header) <=> n # l - 1
               /\ Len(m.seal.key.root) = n
               /\ m.seal.key.step = m.header.messageNumber
               /\ \A i \in SkippedAt(s, m.header) :
                     n <= l - 1 /\ s.skippedMessageKeys[i].key = m.seal.key
               /\ m.seal.key \in StoredKeys(s) => SkippedAt(s, m.header) # {}
<1> DEFINE l == Len(s.rootKey)
           stored == s.skippedMessageKeys
           number == m.header.messageNumber
<1>1. /\ l \in Nat /\ l >= 1 /\ s.rootKey \in Seq(S)
      /\ s.receiveMessageNumber \in Nat
      /\ m.header \in MessageHeaders(K)
      /\ number \in Nat
  BY LenProperties DEF Meets, RatchetStates, Messages, MessageHeaders
<1>2. /\ n \in Nat /\ n >= 2 /\ n <= l + 1 /\ n % 2 # l % 2
      /\ ClosedUnderDh(K, S) /\ secret \in S /\ NoKey \notin K
  BY DEF Meets
<1>3. /\ s.receivingRatchetKey = IF l = 1 THEN NoKey ELSE ks[l - 1]
      /\ \A i \in 1 .. Len(stored) :
            \E k \in 2 .. l - 1 :
               /\ stored[i].publicKey = ks[k]
               /\ stored[i].key = ChainAt(secret, ks, k, stored[i].messageNumber)
  BY DEF Meets, InStep
<1>4. /\ m.header.publicKey = ks[n]
      /\ m.seal.key = ChainAt(secret, ks, n, number)
  BY DEF Meets, SealedAt
<1>5. /\ \A i \in 1 .. top : ks[i] \in K
      /\ \A i, j \in 1 .. top : ks[i] = ks[j] => i = j
  BY DEF Meets, DistinctKeys
<1>6. top \in Nat /\ n <= top /\ l <= top
  BY DEF Meets
<1>. HIDE DEF l, stored, number
<1>7. n = l + 1 \/ n = l - 1 \/ n < l - 1
  BY <1>1, <1>2
<1>8. IsNewRatchetKey(s, m.header) <=> n # l - 1
  <2>1. n \in 1 .. top /\ (l # 1 => l - 1 \in 1 .. top) /\ (l = 1 => n # l - 1)
    BY <1>1, <1>2, <1>6
  <2>2. ks[n] \in K
    BY <1>5, <2>1
  <2>3. CASE l = 1
    BY <1>2, <1>3, <1>4, <2>1, <2>2, <2>3 DEF IsNewRatchetKey
  <2>4. CASE l # 1
    <3>1. ks[l - 1] = ks[n] <=> l - 1 = n
      BY <1>5, <2>1, <2>4
    <3>. QED BY <1>3, <1>4, <2>4, <3>1 DEF IsNewRatchetKey
  <2>. QED BY <2>3, <2>4
<1>9. \A k \in 1 .. top, step \in Nat : k \in 1 .. top /\ k # n => ks[k] # ks[n]
  <2>1. n \in 1 .. top
    BY <1>2, <1>6
  <2>. QED BY <1>5, <2>1
<1>10. \A k \in 2 .. l - 1 : k \in 1 .. top /\ k <= l - 1
  BY <1>1, <1>6
<1>11. \A k \in 1 .. top : \A i, j :
          /\ ChainAt(secret, ks, n, i) = ChainAt(secret, ks, k, j) => n = k /\ i = j
          /\ Len(ChainAt(secret, ks, n, i).root) = n
          /\ ChainAt(secret, ks, n, i).step = i
  <2>1. n \in 1 .. top
    BY <1>2, <1>6
  <2>2. \A i \in 1 .. top : ks[i] \in K
    BY <1>5
  <2>3. ClosedUnderDh(K, S) /\ secret \in S /\ top \in Nat
    BY <1>2, <1>6
  <2>. SUFFICES ASSUME NEW k \in 1 .. top, NEW i, NEW j
                PROVE  /\ ChainAt(secret, ks, n, i) = ChainAt(secret, ks, k, j) => n = k /\ i = j
                       /\ Len(ChainAt(secret, ks, n, i).root) = n
                       /\ ChainAt(secret, ks, n, i).step = i
    OBVIOUS
  <2>4. ChainAt(secret, ks, n, i) = ChainAt(secret, ks, k, j) => n = k /\ i = j
    BY <2>1, <2>2, <2>3, ChainTells
  <2>5. n \in Nat \ {0} /\ \A x \in 1 .. n : ks[x] \in K
    BY <2>1, <2>2, <2>3
  <2>6. /\ Len(ChainAt(secret, ks, n, i).root) = n
        /\ ChainAt(secret, ks, n, i).step = i
    BY <2>3, <2>5, ChainFacts
  <2>. QED BY <2>4, <2>6
<1>12. Len(m.seal.key.root) = n /\ m.seal.key.step = number
  <2>1. n \in 1 .. top
    BY <1>2, <1>6
  <2>. QED BY <1>4, <1>11, <2>1
<1>13. ASSUME NEW i \in SkippedAt(s, m.header)
       PROVE  n <= l - 1 /\ stored[i].key = m.seal.key
  <2>1. i \in 1 .. Len(stored) /\ stored[i].publicKey = ks[n] /\ stored[i].messageNumber = number
    BY <1>4 DEF SkippedAt, stored, number
  <2>2. PICK k \in 2 .. l - 1 : /\ stored[i].publicKey = ks[k]
                                /\ stored[i].key = ChainAt(secret, ks, k, stored[i].messageNumber)
    BY <1>3, <2>1
  <2>3. k = n
    BY <1>1, <1>9, <1>10, <2>1, <2>2
  <2>. QED BY <1>4, <1>10, <2>1, <2>2, <2>3
<1>14. ASSUME m.seal.key \in StoredKeys(s)
       PROVE  SkippedAt(s, m.header) # {}
  <2>1. PICK i \in 1 .. Len(stored) : stored[i].key = m.seal.key
    BY <1>14 DEF StoredKeys, stored
  <2>2. PICK k \in 2 .. l - 1 : /\ stored[i].publicKey = ks[k]
                                /\ stored[i].key = ChainAt(secret, ks, k, stored[i].messageNumber)
    BY <1>3, <2>1
  <2>3. k = n /\ stored[i].messageNumber = number
    <3>1. k \in 1 .. top
      BY <1>10
    <3>2. ChainAt(secret, ks, n, number) = ChainAt(secret, ks, k, stored[i].messageNumber)
      BY <1>4, <2>1, <2>2
    <3>. QED BY <1>11, <3>1, <3>2
  <2>4. i \in SkippedAt(s, m.header)
    BY <1>4, <2>1, <2>2, <2>3 DEF SkippedAt, stored, number
  <2>. QED BY <2>4
<1>. QED BY <1>1, <1>7, <1>8, <1>12, <1>13, <1>14 DEF l, stored, number
(* Skipping changes neither the roots nor the associated data.             *)
LEMMA SkipKeepsRoots ==
    ASSUME NEW K, NEW S, NEW A, NEW s \in RatchetStates(K, S, A), NEW until
    PROVE  LET t == SkipReceivingMessageKeys(s, until)
           IN  /\ t.rootKey = s.rootKey
               /\ t.receivingChainKey.root = s.receivingChainKey.root
               /\ until <= s.receiveMessageNumber => t = s
BY DEF SkipReceivingMessageKeys, RatchetStates, ChainKeys

(* Where the ratchet receives, in terms of the root it sends on.           *)
LEMMA ReceivingChainFacts ==
    ASSUME NEW secret, NEW ks, NEW s, InStep(s, secret, ks), Len(s.rootKey) \in Nat,
           NEW l, l = Len(s.rootKey)
    PROVE  /\ l >= 3 => s.receivingChainKey = ChainAt(secret, ks, l - 1, s.receiveMessageNumber)
           /\ l < 3 => s.receivingChainKey = NoChain
BY DEF InStep

(* No message of an older chain is opened once its key is gone: it would   *)
(* have to be on the chain it turns the ratchet to.                        *)
LEMMA OldChainIsClosed ==
    ASSUME NEW K, NEW S, NEW A, NEW secret, NEW ks, NEW s, NEW m, NEW n, NEW fresh,
           NEW top, Meets(m, n, s, fresh, secret, ks, top, K, S, A),
           n < Len(s.rootKey) - 1, SkippedAt(s, m.header) = {}
    PROVE  ~RatchetDecrypt(s, m, fresh).ok
<1> DEFINE l == Len(s.rootKey)
           u == SkipReceivingMessageKeys(s, m.header.previousChainLength)
           t == Turned(s, m.header, fresh)
           d == Dh(u.sendingRatchetKey, m.header.publicKey)
           v == SkipReceivingMessageKeys(t, m.header.messageNumber)
<1>1. /\ l \in Nat /\ s.rootKey \in Seq(S)
      /\ IsNewRatchetKey(s, m.header) <=> n # l - 1
      /\ Len(m.seal.key.root) = n
  BY MeetingFacts
<1>2. /\ ClosedUnderDh(K, S) /\ s \in RatchetStates(K, S, A) /\ n \in Nat
      /\ m.header.publicKey \in K
  <2>1. m.header \in MessageHeaders(K)
    BY MeetingFacts
  <2>. QED BY <2>1 DEF Meets, MessageHeaders
<1>3. SUFFICES ASSUME RatchetDecrypt(s, m, fresh).ok PROVE FALSE
  OBVIOUS
<1>4. /\ IsNewRatchetKey(s, m.header)
      /\ ~TooManySkipped(s, m.header.previousChainLength)
      /\ DecryptOnChain(t, m).ok
  <2>1. IsNewRatchetKey(s, m.header)
    BY <1>1, <1>2
  <2>. QED BY <1>3, <2>1 DEF RatchetDecrypt, DecryptInternal
<1>5. Opens(v, m, v.receivingChainKey)
  BY <1>4 DEF DecryptOnChain
<1>6. t = DhRatchetStep(u, m.header.publicKey, fresh)
  BY <1>4 DEF Turned
<1>7. u.rootKey = s.rootKey
  BY <1>2, SkipKeepsRoots
<1>8. d \in S
  <2>1. u.sendingRatchetKey = s.sendingRatchetKey
    BY <1>2 DEF SkipReceivingMessageKeys, RatchetStates
  <2>2. s.sendingRatchetKey \in K
    BY <1>2 DEF RatchetStates
  <2>. QED BY <1>2, <2>1, <2>2 DEF ClosedUnderDh
<1>9. t.receivingChainKey.root = Append(s.rootKey, d)
  <2>. HIDE DEF u
  <2>. QED BY <1>6, <1>7 DEF DhRatchetStep, KdfRootKey, FirstChainKey, u
<1>10. v.receivingChainKey.root = t.receivingChainKey.root
  <2>. HIDE DEF t
  <2>. QED BY DEF SkipReceivingMessageKeys
<1>11. Len(v.receivingChainKey.root) = l + 1
  <2>1. Len(Append(s.rootKey, d)) = l + 1
    BY <1>1, <1>8, AppendProperties
  <2>. QED BY <1>9, <1>10, <2>1
<1>12. m.seal.key = v.receivingChainKey
  BY <1>5 DEF Opens
<1>. QED BY <1>1, <1>2, <1>11, <1>12

(* The state t after the message was opened: in step, a turn on if the     *)
(* message was, and every key it has passed on the chains of the peer is   *)
(* the one used or is stored, but for those the sender of a message that   *)
(* turns the ratchet says it has not used.                                 *)
OpenedInStep(s, t, m, n, secret, ks, top, K, S, A) ==
    LET l == Len(s.rootKey)
    IN  /\ t \in RatchetStates(K, S, A)
        /\ InStep(t, secret, ks)
        /\ t.associatedData = s.associatedData
        /\ n # l + 1 => /\ t.rootKey = s.rootKey
                        /\ HeaderOf(t) = HeaderOf(s)
                        /\ t.sendingChainKey = s.sendingChainKey
        /\ n = l + 1 => /\ Len(t.rootKey) = l + 2
                        /\ t.sendMessageNumber = 0
                        /\ t.previousSendingChainLength = s.sendMessageNumber
        /\ \/ n # l + 1 /\ t.receiveMessageNumber = s.receiveMessageNumber
           \/ n >= l - 1 /\ t.receiveMessageNumber = m.header.messageNumber + 1
        /\ \A k \in 2 .. top, step \in Nat :
              k % 2 # l % 2 /\ Before(ChainAt(secret, ks, k, step), t.receivingChainKey)
              => \/ Before(ChainAt(secret, ks, k, step), s.receivingChainKey)
                 \/ ChainAt(secret, ks, k, step) = m.seal.key
                 \/ ChainAt(secret, ks, k, step) \in StoredKeys(t)
                 \/ n = l + 1 /\ k = l - 1 /\ step >= m.header.previousChainLength

LEMMA DecryptKeepsInStep ==
    ASSUME NEW K, NEW S, NEW A, NEW secret, NEW ks, NEW s, NEW m, NEW n, NEW fresh,
           NEW top, Meets(m, n, s, fresh, secret, ks, top, K, S, A),
           RatchetDecrypt(s, m, fresh).ok
    PROVE  OpenedInStep(s, RatchetDecrypt(s, m, fresh).state, m, n, secret, ks, top, K, S, A)
<1> DEFINE l == Len(s.rootKey)
           t == RatchetDecrypt(s, m, fresh).state
           number == m.header.messageNumber
           prev == m.header.previousChainLength
           C(k, step) == ChainAt(secret, ks, k, step)
           Kept(k, step) ==
              k % 2 # l % 2 /\ Before(C(k, step), t.receivingChainKey)
              => \/ Before(C(k, step), s.receivingChainKey)
                 \/ C(k, step) = m.seal.key
                 \/ C(k, step) \in StoredKeys(t)
                 \/ n = l + 1 /\ k = l - 1 /\ step >= prev
           Rest == /\ t \in RatchetStates(K, S, A)
                   /\ InStep(t, secret, ks)
                   /\ t.associatedData = s.associatedData
                   /\ n # l + 1 => /\ t.rootKey = s.rootKey
                                   /\ HeaderOf(t) = HeaderOf(s)
                                   /\ t.sendingChainKey = s.sendingChainKey
                   /\ n = l + 1 => /\ Len(t.rootKey) = l + 2
                                   /\ t.sendMessageNumber = 0
                                   /\ t.previousSendingChainLength = s.sendMessageNumber
                   /\ \/ n # l + 1 /\ t.receiveMessageNumber = s.receiveMessageNumber
                      \/ n >= l - 1 /\ t.receiveMessageNumber = number + 1
<1>1. /\ l \in Nat /\ s.rootKey \in Seq(S)
      /\ s.receiveMessageNumber \in Nat
      /\ m.header \in MessageHeaders(K)
      /\ number \in Nat
      /\ n = l + 1 \/ n = l - 1 \/ n < l - 1
      /\ IsNewRatchetKey(s, m.header) <=> n # l - 1
      /\ \A i \in SkippedAt(s, m.header) :
            n <= l - 1 /\ s.skippedMessageKeys[i].key = m.seal.key
  BY MeetingFacts
<1>2. /\ ClosedUnderDh(K, S) /\ secret \in S /\ NoKey \notin K
      /\ s \in RatchetStates(K, S, A) /\ l >= 1
      /\ InStep(s, secret, ks)
      /\ m \in Messages(K, S, A)
      /\ SealedAt(m, secret, ks, n)
      /\ m.seal.associatedData = s.associatedData
      /\ n \in Nat /\ n >= 2 /\ n <= l + 1
      /\ top \in Nat /\ n <= top /\ l <= top /\ DistinctKeys(ks, top, K)
      /\ n = l + 1 => n + 1 <= top /\ fresh = ks[n + 1]
  BY DEF Meets
<1>3. m.seal.key = C(n, number)
  BY <1>2 DEF SealedAt
<1>4. t = DecryptInternal(s, m, fresh).state /\ DecryptInternal(s, m, fresh).ok
  BY DEF RatchetDecrypt
<1>5. \A x \in 1 .. top : ks[x] \in K
  BY <1>2 DEF DistinctKeys
<1>6. /\ l >= 3 => s.receivingChainKey = C(l - 1, s.receiveMessageNumber)
      /\ l < 3 => s.receivingChainKey = NoChain
  BY <1>1, <1>2, ReceivingChainFacts
<1>. HIDE DEF l, t, number, prev
<1>7. /\ l <= top /\ n <= top /\ top \in Nat
      /\ n = l + 1 => l + 2 <= top
  BY <1>1, <1>2
<1>8. \A k \in 1 .. top : \A step \in Nat :
        Len(C(k, step).root) = k /\ C(k, step).step = step
  <2>. SUFFICES ASSUME NEW k \in 1 .. top, NEW step \in Nat
                PROVE  Len(C(k, step).root) = k /\ C(k, step).step = step
    OBVIOUS
  <2>1. k \in Nat \ {0} /\ \A x \in 1 .. k : ks[x] \in K
    BY <1>5, <1>7
  <2>. QED BY <1>2, <2>1, ChainFacts
<1>9. \A k \in 1 .. top, j \in 1 .. top : \A a, b \in Nat :
        Before(C(k, a), C(j, b)) <=> k < j \/ (k = j /\ a < b)
  <2>. SUFFICES ASSUME NEW k \in 1 .. top, NEW j \in 1 .. top, NEW a \in Nat, NEW b \in Nat
                PROVE  Before(C(k, a), C(j, b)) <=> k < j \/ (k = j /\ a < b)
    OBVIOUS
  <2>1. /\ Len(C(k, a).root) = k /\ C(k, a).step = a
        /\ Len(C(j, b).root) = j /\ C(j, b).step = b
        /\ k = j => C(k, a).root = C(j, b).root
    BY <1>8 DEF ChainAt
  <2>. HIDE DEF C
  <2>. QED BY <2>1 DEF Before
<1>. HIDE DEF C
<1>10. CASE SkippedAt(s, m.header) # {}
  <2> DEFINE i == CHOOSE j \in SkippedAt(s, m.header) : TRUE
             stored == s.skippedMessageKeys
             rest == RemoveAt(stored, i)
  <2>1. i \in SkippedAt(s, m.header) /\ i \in 1 .. Len(stored)
    BY <1>10 DEF SkippedAt
  <2>2. n <= l - 1 /\ n # l + 1
    BY <1>1, <1>2, <2>1
  <2>3. t = [s EXCEPT !.skippedMessageKeys = rest]
    BY <1>4, <1>10 DEF DecryptInternal, DecryptSkipped
  <2>4. stored \in Seq(SkippedKeys(K, S)) /\ Len(stored) \in Nat
    BY <1>2, LenProperties DEF RatchetStates
  <2>5. /\ rest \in Seq(SkippedKeys(K, S)) /\ Len(rest) = Len(stored) - 1
        /\ \A j \in 1 .. Len(stored) - 1 :
              rest[j] = IF j < i THEN stored[j] ELSE stored[j + 1]
    BY <2>1, <2>4, RemoveAtKeepsOthers
  <2>. HIDE DEF i, rest
  <2>6. /\ t.skippedMessageKeys = rest /\ t.rootKey = s.rootKey
        /\ t.sendingChainKey = s.sendingChainKey /\ t.receivingChainKey = s.receivingChainKey
        /\ t.sendingRatchetKey = s.sendingRatchetKey
        /\ t.receivingRatchetKey = s.receivingRatchetKey
        /\ t.sendMessageNumber = s.sendMessageNumber
        /\ t.receiveMessageNumber = s.receiveMessageNumber
        /\ t.associatedData = s.associatedData
        /\ HeaderOf(t) = HeaderOf(s) /\ t \in RatchetStates(K, S, A)
    BY <1>2, <2>3, <2>5 DEF RatchetStates, HeaderOf
  <2>7. \A j \in 1 .. Len(rest) : \E x \in 1 .. Len(stored) : rest[j] = stored[x]
    BY <2>1, <2>4, <2>5
  <2>8. InStep(t, secret, ks)
    <3>1. \A x \in 1 .. Len(stored) : \E k \in 2 .. l - 1 :
             /\ stored[x].publicKey = ks[k]
             /\ stored[x].key = ChainAt(secret, ks, k, stored[x].messageNumber)
      BY <1>2 DEF InStep, l
    <3>. HIDE DEF stored
    <3>2. \A j \in 1 .. Len(rest) : \E k \in 2 .. l - 1 :
             /\ rest[j].publicKey = ks[k]
             /\ rest[j].key = ChainAt(secret, ks, k, rest[j].messageNumber)
      <4>. SUFFICES ASSUME NEW j \in 1 .. Len(rest)
                    PROVE  \E k \in 2 .. l - 1 :
                              /\ rest[j].publicKey = ks[k]
                              /\ rest[j].key = ChainAt(secret, ks, k, rest[j].messageNumber)
        OBVIOUS
      <4>1. PICK x \in 1 .. Len(stored) : rest[j] = stored[x]
        BY <2>7
      <4>. QED BY <3>1, <4>1
    <3>3. l = Len(s.rootKey) /\ l = Len(t.rootKey)
      BY <2>6 DEF l
    <3>. QED BY <1>2, <2>6, <3>2, <3>3 DEF InStep
  <2>9. \A k \in 2 .. top, step \in Nat : Kept(k, step)
    BY <2>6
  <2>10. Rest
    BY <2>2, <2>6, <2>8
  <2>. HIDE DEF Kept, Rest
  <2>11. Rest /\ \A k \in 2 .. top, step \in Nat : Kept(k, step)
    BY <2>9, <2>10
  <2>. QED BY <2>11 DEF OpenedInStep, Kept, Rest, C, l, t, prev, number
<1>11. CASE SkippedAt(s, m.header) = {} /\ n = l - 1
  <2>1. l >= 3
    BY <1>1, <1>2, <1>11
  <2>2. /\ Turned(s, m.header, fresh) = s
        /\ DecryptOnChain(s, m).ok /\ t = DecryptOnChain(s, m).state
    BY <1>1, <1>4, <1>11 DEF DecryptInternal, Turned
  <2>3. ~TooManySkipped(s, number)
    BY <2>2 DEF DecryptOnChain, number
  <2>4. s.receiveMessageNumber <= number
    <3>1. SUFFICES ASSUME number < s.receiveMessageNumber PROVE FALSE
      BY <1>1
    <3>2. SkipReceivingMessageKeys(s, number) = s
      BY <1>1, <3>1 DEF SkipReceivingMessageKeys
    <3>3. m.seal.key = s.receivingChainKey
      BY <2>2, <2>3, <3>2 DEF DecryptOnChain, Opens, number
    <3>4. C(n, number) = C(n, s.receiveMessageNumber)
      BY <1>3, <1>6, <1>11, <2>1, <3>3
    <3>5. n \in 1 .. top
      BY <1>2, <1>7
    <3>. QED BY <1>1, <1>8, <3>1, <3>4, <3>5
  <2>5. /\ t \in RatchetStates(K, S, A)
        /\ InStep(t, secret, ks)
        /\ t.rootKey = s.rootKey
        /\ t.sendingChainKey = s.sendingChainKey
        /\ HeaderOf(t) = HeaderOf(s)
        /\ t.associatedData = s.associatedData
        /\ t.receiveMessageNumber = number + 1
        /\ \A step \in s.receiveMessageNumber .. number - 1 :
              C(l - 1, step) \in StoredKeys(t)
    <3>1. SealedAt(m, secret, ks, Len(s.rootKey) - 1) /\ Len(s.rootKey) >= 3
      BY <1>2, <1>11, <2>1 DEF l
    <3>. QED BY <1>2, <2>2, <2>3, <2>4, <3>1, ChainOpensInStep DEF l, number, C
  <2>6. t.receivingChainKey = C(l - 1, number + 1)
    <3>1. Len(t.rootKey) = l
      BY <2>5 DEF l
    <3>. QED BY <1>1, <2>1, <2>5, <3>1, ReceivingChainFacts DEF C
  <2>7. ASSUME NEW k \in 2 .. top, NEW step \in Nat
        PROVE  Kept(k, step)
    <3>. SUFFICES ASSUME k % 2 # l % 2, Before(C(k, step), t.receivingChainKey),
                         ~Before(C(k, step), s.receivingChainKey)
                  PROVE  C(k, step) = m.seal.key \/ C(k, step) \in StoredKeys(t)
      OBVIOUS
    <3>1. l - 1 \in 1 .. top /\ number + 1 \in Nat /\ k \in 1 .. top
      <4>1. l - 1 \in 1 .. top
        BY <1>1, <1>7, <2>1
      <4>2. number + 1 \in Nat
        <5>1. number \in Nat
          BY <1>1
        <5>. QED BY <5>1
      <4>3. k \in 1 .. top
        BY <1>7
      <4>. QED BY <4>1, <4>2, <4>3
    <3>2. k < l - 1 \/ (k = l - 1 /\ step < number + 1)
      BY <1>9, <2>6, <3>1
    <3>3. ~(k < l - 1 \/ (k = l - 1 /\ step < s.receiveMessageNumber))
      BY <1>1, <1>6, <1>9, <2>1, <3>1
    <3>4. k = l - 1 /\ (step = number \/ step \in s.receiveMessageNumber .. number - 1)
      BY <1>1, <3>2, <3>3
    <3>. QED BY <1>3, <1>11, <2>5, <3>4
  <2>8. Rest
    <3>1. n # l + 1 /\ n >= l - 1
      BY <1>1, <1>11
    <3>. QED BY <2>5, <3>1
  <2>. HIDE DEF Kept, Rest
  <2>9. Rest /\ \A k \in 2 .. top, step \in Nat : Kept(k, step)
    BY <2>7, <2>8
  <2>. QED BY <2>9 DEF OpenedInStep, Kept, Rest, C, l, t, prev, number
<1>12. CASE SkippedAt(s, m.header) = {} /\ n = l + 1
  <2> DEFINE u == Turned(s, m.header, fresh)
  <2>1. ~TooManySkipped(s, prev)
    <3>1. IsNewRatchetKey(s, m.header)
      BY <1>1, <1>12
    <3>. QED BY <1>4, <1>12, <3>1 DEF DecryptInternal, prev
  <2>2. DecryptOnChain(u, m).ok /\ t = DecryptOnChain(u, m).state
    BY <1>4, <1>12, <2>1 DEF DecryptInternal, prev
  <2>3. /\ u \in RatchetStates(K, S, A)
        /\ Len(u.rootKey) = l + 2
        /\ InStep(u, secret, ks)
        /\ u.receiveMessageNumber = 0
        /\ u.sendMessageNumber = 0
        /\ u.previousSendingChainLength = s.sendMessageNumber
        /\ u.associatedData = s.associatedData
        /\ l >= 3 => \A step \in s.receiveMessageNumber .. prev - 1 :
                       C(l - 1, step) \in Recent(u, MAX_SKIP)
    <3>1. DistinctKeys(ks, l + 2, K)
      BY <1>1, <1>2, <1>7, <1>12, SMTT(30) DEF DistinctKeys
    <3>2. m.header.publicKey = ks[l + 1] /\ fresh = ks[l + 2]
      <4>1. n + 1 = l + 2
        BY <1>1, <1>12
      <4>. QED BY <1>2, <1>12, <4>1 DEF SealedAt
    <3>. QED BY <1>1, <1>2, <2>1, <3>1, <3>2, TurnKeepsInStep DEF l, prev, C
  <2>4. ~TooManySkipped(u, number)
    BY <2>2 DEF DecryptOnChain, number
  <2>. HIDE DEF u
  <2>5. /\ t \in RatchetStates(K, S, A)
        /\ InStep(t, secret, ks)
        /\ t.rootKey = u.rootKey
        /\ HeaderOf(t) = HeaderOf(u)
        /\ t.associatedData = u.associatedData
        /\ t.receiveMessageNumber = number + 1
        /\ \A step \in 0 .. number - 1 : C(l + 1, step) \in StoredKeys(t)
        /\ Recent(u, MAX_SKIP) \subseteq StoredKeys(t)
    <3>1. /\ Len(u.rootKey) >= 3 /\ Len(u.rootKey) - 1 = l + 1
          /\ SealedAt(m, secret, ks, Len(u.rootKey) - 1)
      <4>1. l + 2 >= 3 /\ (l + 2) - 1 = l + 1 /\ n = l + 1
        BY <1>1, <1>2, <1>12
      <4>. QED BY <1>2, <2>3, <4>1
    <3>2. u.receiveMessageNumber <= number
      BY <1>1, <2>3
    <3>3. m.seal.associatedData = u.associatedData
      BY <1>2, <2>3
    <3>. QED BY <1>2, <2>2, <2>3, <2>4, <3>1, <3>2, <3>3, ChainOpensInStep DEF number, C
  <2>6. t.receivingChainKey = C(l + 1, number + 1)
    <3>1. Len(t.rootKey) = l + 2 /\ l + 2 \in Nat /\ l + 2 >= 3 /\ (l + 2) - 1 = l + 1
      BY <1>1, <1>2, <2>3, <2>5
    <3>. QED BY <2>5, <3>1, ReceivingChainFacts DEF C
  <2>7. ASSUME NEW k \in 2 .. top, NEW step \in Nat
        PROVE  Kept(k, step)
    <3>. SUFFICES ASSUME k % 2 # l % 2, Before(C(k, step), t.receivingChainKey),
                         ~Before(C(k, step), s.receivingChainKey),
                         ~(k = l - 1 /\ step >= prev)
                  PROVE  C(k, step) = m.seal.key \/ C(k, step) \in StoredKeys(t)
      BY <1>12
    <3>1. l + 1 \in 1 .. top /\ number + 1 \in Nat /\ k \in 1 .. top
      BY <1>1, <1>7, <1>12
    <3>2. k < l + 1 \/ (k = l + 1 /\ step < number + 1)
      BY <1>9, <2>6, <3>1
    <3>3. CASE k = l + 1
      <4>1. step = number \/ step \in 0 .. number - 1
        BY <1>1, <3>2, <3>3
      <4>. QED BY <1>3, <1>12, <2>5, <3>3, <4>1
    <3>4. CASE k < l + 1
      <4>1. k <= l - 1 /\ l >= 3
        BY <1>1, <3>4
      <4>2. l - 1 \in 1 .. top
        BY <1>1, <1>7, <4>1
      <4>3. ~(k < l - 1 \/ (k = l - 1 /\ step < s.receiveMessageNumber))
        BY <1>1, <1>6, <1>9, <3>1, <4>1, <4>2
      <4>4. prev \in Nat
        BY <1>1 DEF prev, MessageHeaders
      <4>5. k = l - 1 /\ step \in s.receiveMessageNumber .. prev - 1
        BY <1>1, <4>1, <4>3, <4>4
      <4>. QED BY <2>3, <2>5, <4>1, <4>5
    <3>5. k \in Nat
      OBVIOUS
    <3>. QED BY <1>1, <3>2, <3>3, <3>4, <3>5
  <2>8. Rest
    <3>1. n = l + 1 /\ n >= l - 1
      BY <1>1, <1>12
    <3>2. t.sendMessageNumber = 0 /\ t.previousSendingChainLength = s.sendMessageNumber
      BY <2>3, <2>5 DEF HeaderOf
    <3>. QED BY <2>3, <2>5, <3>1, <3>2
  <2>. HIDE DEF Kept, Rest
  <2>9. Rest /\ \A k \in 2 .. top, step \in Nat : Kept(k, step)
    BY <2>7, <2>8
  <2>. QED BY <2>9 DEF OpenedInStep, Kept, Rest, C, l, t, prev, number
<1>13. ~(SkippedAt(s, m.header) = {} /\ n < l - 1)
  BY OldChainIsClosed DEF l
<1>. QED BY <1>1, <1>10, <1>11, <1>12, <1>13

(* A message whose key has not been passed, or is stored, is opened unless *)
(* it would skip too many.                                                 *)
LEMMA OpensInStep ==
    ASSUME NEW K, NEW S, NEW A, NEW secret, NEW ks, NEW s, NEW m, NEW n, NEW fresh,
           NEW top, Meets(m, n, s, fresh, secret, ks, top, K, S, A),
           Before(m.seal.key, s.receivingChainKey) => m.seal.key \in StoredKeys(s),
           ~TooFar(s, m.header, fresh)
    PROVE  RatchetDecrypt(s, m, fresh).ok
<1> DEFINE l == Len(s.rootKey)
           number == m.header.messageNumber
           prev == m.header.previousChainLength
<1>1. /\ l \in Nat /\ s.rootKey \in Seq(S)
      /\ s.receiveMessageNumber \in Nat
      /\ m.header \in MessageHeaders(K)
      /\ number \in Nat
      /\ n = l + 1 \/ n = l - 1 \/ n < l - 1
      /\ IsNewRatchetKey(s, m.header) <=> n # l - 1
      /\ Len(m.seal.key.root) = n
      /\ m.seal.key.step = number
      /\ \A i \in SkippedAt(s, m.header) :
            n <= l - 1 /\ s.skippedMessageKeys[i].key = m.seal.key
      /\ m.seal.key \in StoredKeys(s) => SkippedAt(s, m.header) # {}
  BY MeetingFacts
<1>2. /\ ClosedUnderDh(K, S) /\ secret \in S /\ NoKey \notin K
      /\ s \in RatchetStates(K, S, A) /\ l >= 1
      /\ InStep(s, secret, ks)
      /\ m \in Messages(K, S, A)
      /\ SealedAt(m, secret, ks, n)
      /\ m.seal.associatedData = s.associatedData
      /\ n \in Nat /\ n >= 2 /\ n <= l + 1
      /\ top \in Nat /\ l <= top /\ DistinctKeys(ks, top, K)
      /\ n = l + 1 => n + 1 <= top /\ fresh = ks[n + 1]
  BY DEF Meets
<1>3. /\ l >= 3 => s.receivingChainKey =
                     ChainAt(secret, ks, l - 1, s.receiveMessageNumber)
      /\ l < 3 => s.receivingChainKey = NoChain
  BY <1>1, <1>2, ReceivingChainFacts
<1>. HIDE DEF l
<1>4. l >= 3 => /\ Len(s.receivingChainKey.root) = l - 1
                /\ s.receivingChainKey.step = s.receiveMessageNumber
  <2>. SUFFICES ASSUME l >= 3
                PROVE  /\ Len(s.receivingChainKey.root) = l - 1
                       /\ s.receivingChainKey.step = s.receiveMessageNumber
    OBVIOUS
  <2>1. l - 1 \in Nat \ {0} /\ \A x \in 1 .. l - 1 : x \in 1 .. top
    BY <1>1, <1>2
  <2>2. \A x \in 1 .. l - 1 : ks[x] \in K
    BY <1>2, <2>1 DEF DistinctKeys
  <2>3. s.receivingChainKey = ChainAt(secret, ks, l - 1, s.receiveMessageNumber)
    BY <1>3
  <2>4. /\ Len(ChainAt(secret, ks, l - 1, s.receiveMessageNumber).root) = l - 1
        /\ ChainAt(secret, ks, l - 1, s.receiveMessageNumber).step = s.receiveMessageNumber
    <3> DEFINE c == l - 1
               i == s.receiveMessageNumber
    <3>1. ClosedUnderDh(K, S) /\ secret \in S /\ c \in Nat \ {0}
      BY <1>2, <2>1
    <3>2. \A x \in 1 .. c : ks[x] \in K
      BY <2>2
    <3>. HIDE DEF c, i
    <3>3. Len(ChainAt(secret, ks, c, i).root) = c /\ ChainAt(secret, ks, c, i).step = i
      BY <3>1, <3>2, ChainFacts
    <3>. QED BY <3>3 DEF c, i
  <2>. QED BY <2>3, <2>4
<1>5. SUFFICES DecryptInternal(s, m, fresh).ok
  BY DEF RatchetDecrypt
<1>6. CASE SkippedAt(s, m.header) # {}
  <2> DEFINE i == CHOOSE j \in SkippedAt(s, m.header) : TRUE
  <2>1. s.skippedMessageKeys[i].key = m.seal.key
    BY <1>1, <1>6
  <2>2. Opens(s, m, s.skippedMessageKeys[i].key)
    BY <1>2, <2>1 DEF Opens, SealedAt
  <2>. QED BY <1>6, <2>2 DEF DecryptInternal, DecryptSkipped
<1>7. CASE SkippedAt(s, m.header) = {} /\ n = l + 1
  <2> DEFINE u == Turned(s, m.header, fresh)
  <2>1. IsNewRatchetKey(s, m.header)
    BY <1>1, <1>7
  <2>2. ~TooManySkipped(s, prev) /\ ~TooManySkipped(u, number)
    BY <1>7, <2>1 DEF TooFar
  <2>3. /\ u \in RatchetStates(K, S, A)
        /\ Len(u.rootKey) = l + 2
        /\ InStep(u, secret, ks)
        /\ u.receiveMessageNumber = 0
        /\ u.associatedData = s.associatedData
    <3>1. DistinctKeys(ks, l + 2, K)
      BY <1>1, <1>2, <1>7 DEF DistinctKeys
    <3>2. m.header.publicKey = ks[l + 1] /\ fresh = ks[l + 2]
      <4>1. n + 1 = l + 2
        BY <1>1, <1>7
      <4>. QED BY <1>2, <1>7, <4>1 DEF SealedAt
    <3>. QED BY <1>1, <1>2, <2>2, <3>1, <3>2, TurnKeepsInStep DEF l
  <2>. HIDE DEF u
  <2>4. DecryptOnChain(u, m).ok
    <3>1. /\ Len(u.rootKey) >= 3 /\ Len(u.rootKey) - 1 = l + 1
          /\ SealedAt(m, secret, ks, Len(u.rootKey) - 1)
      <4>1. l + 2 >= 3 /\ (l + 2) - 1 = l + 1 /\ n = l + 1
        BY <1>1, <1>2, <1>7
      <4>. QED BY <1>2, <2>3, <4>1
    <3>2. u.receiveMessageNumber <= number
      BY <1>1, <2>3
    <3>3. m.seal.associatedData = u.associatedData
      BY <1>2, <2>3
    <3>. QED BY <1>2, <2>2, <2>3, <3>1, <3>2, <3>3, ChainOpensInStep
  <2>. QED BY <1>7, <2>2, <2>4 DEF DecryptInternal, u
<1>8. CASE SkippedAt(s, m.header) = {} /\ n = l - 1
  <2>1. Turned(s, m.header, fresh) = s
    BY <1>1, <1>8 DEF Turned
  <2>2. ~TooManySkipped(s, number)
    BY <1>8, <2>1 DEF TooFar
  <2>3. l >= 3
    BY <1>1, <1>2, <1>8
  <2>4. s.receiveMessageNumber <= number
    <3>1. SUFFICES ASSUME number < s.receiveMessageNumber PROVE FALSE
      BY <1>1
    <3>2. m.seal.key.root = s.receivingChainKey.root
      BY <1>2, <1>3, <1>8, <2>3 DEF SealedAt, ChainAt
    <3>3. Before(m.seal.key, s.receivingChainKey)
      BY <1>1, <1>4, <2>3, <3>1, <3>2 DEF Before
    <3>. QED BY <1>1, <1>8, <3>3
  <2>5. DecryptOnChain(s, m).ok
    <3>1. SealedAt(m, secret, ks, Len(s.rootKey) - 1) /\ Len(s.rootKey) >= 3
      BY <1>2, <1>8, <2>3 DEF l
    <3>. QED BY <1>2, <2>2, <2>4, <3>1, ChainOpensInStep
  <2>. QED BY <1>1, <1>8, <2>1, <2>5 DEF DecryptInternal
<1>9. ~(SkippedAt(s, m.header) = {} /\ n < l - 1)
  <2>. SUFFICES ASSUME SkippedAt(s, m.header) = {}, n < l - 1 PROVE FALSE
    OBVIOUS
  <2>1. l >= 3
    BY <1>1, <1>2
  <2>2. Before(m.seal.key, s.receivingChainKey)
    BY <1>1, <1>4, <2>1 DEF Before
  <2>. QED BY <1>1, <2>2
<1>. QED BY <1>1, <1>6, <1>7, <1>8, <1>9

(* Encrypting keeps the ratchet in step and seals on the root it sends on. *)
LEMMA EncryptKeepsInStep ==
    ASSUME NEW K, NEW S, NEW A, NEW secret, NEW ks,
           NEW s \in RatchetStates(K, S, A), Len(s.rootKey) >= 1, InStep(s, secret, ks),
           CanEncrypt(s), NEW plaintext
    PROVE  /\ InStep(AfterEncrypt(s), secret, ks)
           /\ SealedAt(EncryptedMessage(s, plaintext), secret, ks, Len(s.rootKey))
           /\ Len(s.rootKey) >= 2
<1> DEFINE l == Len(s.rootKey)
           t == AfterEncrypt(s)
           m == EncryptedMessage(s, plaintext)
<1>1. l \in Nat /\ l >= 1 /\ s.sendMessageNumber \in Nat
  BY LenProperties DEF RatchetStates
<1>2. /\ s.sendingRatchetKey = ks[l]
      /\ s.sendingChainKey =
            IF l = 1 THEN NoChain ELSE ChainAt(secret, ks, l, s.sendMessageNumber)
  BY DEF InStep
<1>3. l # 1 /\ s.sendingChainKey = ChainAt(secret, ks, l, s.sendMessageNumber)
  BY <1>2 DEF CanEncrypt
<1>4. /\ t.sendingChainKey = ChainAt(secret, ks, l, s.sendMessageNumber + 1)
      /\ t.sendMessageNumber = s.sendMessageNumber + 1
      /\ t.rootKey = s.rootKey /\ t.skippedMessageKeys = s.skippedMessageKeys
      /\ t.receivingChainKey = s.receivingChainKey
      /\ t.sendingRatchetKey = s.sendingRatchetKey
      /\ t.receivingRatchetKey = s.receivingRatchetKey
      /\ t.receiveMessageNumber = s.receiveMessageNumber
      /\ t.associatedData = s.associatedData
      /\ t.previousSendingChainLength = s.previousSendingChainLength
  <2>1. NextChainKey(s.sendingChainKey) = ChainAt(secret, ks, l, s.sendMessageNumber + 1)
    BY <1>3 DEF NextChainKey, ChainAt
  <2>. QED BY <2>1 DEF AfterEncrypt, RatchetStates
<1>5. /\ m.header = HeaderOf(s) /\ m.seal.header = HeaderOf(s)
      /\ m.seal.key = s.sendingChainKey /\ m.seal.associatedData = s.associatedData
      /\ HeaderOf(s).publicKey = s.sendingRatchetKey
      /\ HeaderOf(s).messageNumber = s.sendMessageNumber
  BY DEF EncryptedMessage, HeaderOf
<1>. HIDE DEF t, m
<1>6. SealedAt(m, secret, ks, l)
  BY <1>2, <1>3, <1>5 DEF SealedAt
<1>7. InStep(t, secret, ks)
  <2>1. l = Len(s.rootKey) /\ l = Len(t.rootKey)
    BY <1>4
  <2>. HIDE DEF l
  <2>. QED BY <1>3, <1>4, <2>1 DEF InStep
<1>8. l >= 2
  <2>1. l # 1
    BY <1>3
  <2>. HIDE DEF l
  <2>. QED BY <1>1, <2>1
<1>. QED BY <1>6, <1>7, <1>8 DEF t, m
=============================================================================
