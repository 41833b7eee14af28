------------------------- MODULE RatchetChannelProofs -------------------------
(***************************************************************************)
(* Theorems about RatchetChannel, for every MAX_SKIP, every store cap of at*)
(* least twice that, every shared key and any number of messages.  What    *)
(* happens to one ratchet is in DoubleRatchetProofs; here it is lifted to  *)
(* the two parties and their messages.                                     *)
(***************************************************************************)
EXTENDS RatchetChannel, DoubleRatchetProofs, FiniteSetTheorems

-----------------------------------------------------------------------------
(* The two parties.                                                        *)

(* The secrets of a conversation are its DH secrets and the shared key.    *)
LEMMA SecretsClosed == ClosedUnderDh(RatchetKey, Secret)
BY DEF ClosedUnderDh, Dh, Secret

(* p's ratchet, typed, within the cap and well formed.                     *)
Good(s, p) == GoodRatchet(s, Parity(p), RatchetKey, Secret, {AssociatedData})

(* There are two parties, each the other's peer.                           *)
LEMMA PartyFacts ==
    ASSUME NEW p \in Party
    PROVE  /\ Peer(p) \in Party /\ Peer(p) # p /\ Peer(Peer(p)) = p
           /\ Parity(p) \in {0, 1}
           /\ Parity(Peer(p)) # Parity(p)
           /\ \A q \in Party : q = p \/ q = Peer(p)
BY DEF Party, Peer, Parity

(* What the invariant says of one party's ratchet and messages.            *)
LEMMA InvFacts ==
    ASSUME ChannelInv, NEW p \in Party
    PROVE  /\ Good(ratchet[p], p)
           /\ Fresh(p) \in RatchetKey
           /\ SentInv(p) /\ DeliveredInv(p)
           /\ sent[p] \in Seq(Message) /\ Len(sent[p]) \in Nat
           /\ \A i \in 1 .. Len(sent[p]) :
                sent[p][i] \in Message /\ SentKey(p, i) \in ChainKey
           /\ delivered[p] \in Seq(Nat) /\ Len(delivered[p]) \in Nat
<1>1. /\ ratchet[p] \in RatchetState
      /\ sent[p] \in Seq(Message)
      /\ delivered[p] \in Seq(Nat)
      /\ Len(ratchet[p].skippedMessageKeys) <= MAX_SKIPPED_KEYS_STORED
      /\ RatchetInv(ratchet[p], Parity(p)) /\ SentInv(p) /\ DeliveredInv(p)
  BY DEF ChannelInv, TypeOK
<1>2. Good(ratchet[p], p)
  BY <1>1 DEF Good, GoodRatchet, RatchetState
<1>3. Fresh(p) \in RatchetKey
  <2>1. Len(ratchet[p].rootKey) \in Nat
    BY <1>1 DEF RatchetState, RatchetStates
  <2> QED  BY <2>1 DEF Fresh, RatchetKey
<1>4. \A i \in 1 .. Len(sent[p]) : sent[p][i] \in Message
  BY <1>1, ElementOfSeq
<1>5. \A i \in 1 .. Len(sent[p]) : SentKey(p, i) \in ChainKey
  BY <1>4 DEF SentKey, Message, Messages, ChainKey
<1> QED  BY <1>1, <1>2, <1>3, <1>4, <1>5

(* The invariant holds of the initial states.                              *)
LEMMA ChannelInit == Init => ChannelInv
<1> SUFFICES ASSUME Init PROVE ChannelInv
  OBVIOUS
<1> DEFINE a == <<"alice", 0>>
           b == <<"bob", 0>>
           root == KdfRootKey(<<SharedKey>>, Dh(a, b))
<1>1. a \in RatchetKey /\ b \in RatchetKey
  BY DEF RatchetKey, Party
<1>2. <<SharedKey>> \in Seq(Secret) /\ Len(<<SharedKey>>) = 1
  BY DEF Secret
<1>3. root \in Seq(Secret) /\ Len(root) = 2
  <2>1. Dh(a, b) \in Secret
    BY <1>1 DEF Dh, Secret
  <2> HIDE DEF a, b
  <2> QED  BY <1>2, <2>1, AppendProperties DEF KdfRootKey
<1>4. NoChain \in ChainKey /\ NoChain.root = <<>>
  BY EmptySeq DEF NoChain, ChainKey, ChainKeys
<1> DEFINE alice == InitAlice(SharedKey, a, b, AssociatedData)
           bob == InitBob(SharedKey, b, AssociatedData)
<1>5. /\ ratchet["alice"] = alice /\ ratchet["bob"] = bob
      /\ ratchet = [p \in Party |-> IF p = "alice" THEN alice ELSE bob]
  BY DEF Init, Party
<1>6. [root |-> root, step |-> 0] \in ChainKey
  BY <1>3 DEF ChainKey, ChainKeys
<1>7. /\ alice \in RatchetState
      /\ alice.rootKey = root
      /\ alice.skippedMessageKeys = <<>>
      /\ alice.sendingChainKey = [root |-> root, step |-> 0]
      /\ alice.receivingChainKey = NoChain
  <2> HIDE DEF a, b, root
  <2> QED  BY <1>1, <1>3, <1>4, <1>6
              DEF InitAlice, RatchetState, RatchetStates, FirstChainKey, root, ChainKey
<1>8. /\ bob \in RatchetState
      /\ bob.rootKey = <<SharedKey>>
      /\ bob.skippedMessageKeys = <<>>
      /\ bob.sendingChainKey = NoChain
      /\ bob.receivingChainKey = NoChain
  <2> HIDE DEF a, b
  <2> QED  BY <1>1, <1>2, <1>4 DEF InitBob, RatchetState, RatchetStates, ChainKey
<1> HIDE DEF alice, bob, root
<1>9. RatchetInv(alice, Parity("alice"))
  <2>1. Len(alice.skippedMessageKeys) = 0 /\ Len(alice.rootKey) = 2
    BY <1>3, <1>7
  <2>2. alice.sendingChainKey.root = alice.rootKey
    BY <1>7
  <2> QED  BY <1>7, <2>1, <2>2 DEF RatchetInv, Parity
<1>10. RatchetInv(bob, Parity("bob"))
  <2>1. Len(bob.skippedMessageKeys) = 0 /\ Len(bob.rootKey) = 1
    BY <1>2, <1>8
  <2> QED  BY <1>8, <2>1 DEF RatchetInv, Parity
<1>11. TypeOK
  <2>1. ratchet \in [Party -> RatchetState]
    BY <1>5, <1>7, <1>8
  <2>2. sent \in [Party -> Seq(Message)] /\ delivered \in [Party -> Seq(Nat)]
    BY DEF Init
  <2>3. evicted \in [Party -> SUBSET ChainKey]
    BY DEF Init
  <2>4. \A p \in Party :
          Len(ratchet[p].skippedMessageKeys) <= MAX_SKIPPED_KEYS_STORED
    BY <1>5, <1>7, <1>8, MaxStoredAssumption
  <2> QED  BY <2>1, <2>2, <2>3, <2>4 DEF TypeOK
<1>12. \A p \in Party : sent[p] = <<>> /\ delivered[p] = <<>>
  BY DEF Init
<1>13. \A p \in Party : RatchetInv(ratchet[p], Parity(p))
  BY <1>5, <1>9, <1>10 DEF Party
<1>14. \A p \in Party : SentInv(p) /\ DeliveredInv(p)
  <2> SUFFICES ASSUME NEW p \in Party PROVE SentInv(p) /\ DeliveredInv(p)
    OBVIOUS
  <2>1. 1 .. Len(sent[p]) = {} /\ 1 .. Len(delivered[p]) = {}
    BY <1>12
  <2> QED  BY <2>1, Zenon DEF SentInv, DeliveredInv
<1> QED  BY <1>11, <1>13, <1>14 DEF ChannelInv

(* A decryption of p touches only p's ratchet and what was delivered to p. *)
LEMMA DecryptStep ==
    ASSUME ChannelInv, NEW p \in Party, NEW i \in 1 .. Len(sent[Peer(p)]),
           NEW m \in Message, m.seal = sent[Peer(p)][i].seal, Decrypt(p, m)
    PROVE  /\ ChannelInv'
           /\ \/ delivered' = delivered
              \/ /\ delivered' = [delivered EXCEPT ![p] = Append(@, i)]
                 /\ \A j \in 1 .. Len(delivered[p]) : delivered[p][j] # i
<1> DEFINE s == ratchet[p]
           q == Peer(p)
           r == RatchetDecrypt(s, m, Fresh(p))
           key == SentKey(q, i)
<1>1. /\ q \in Party /\ Parity(p) \in {0, 1}
      /\ q # p /\ Peer(q) = p
  BY PartyFacts
<1>2. /\ Good(s, p) /\ Fresh(p) \in RatchetKey
      /\ SentInv(p) /\ DeliveredInv(p)
      /\ delivered[p] \in Seq(Nat) /\ Len(delivered[p]) \in Nat
      /\ \A j \in 1 .. Len(sent[p]) : SentKey(p, j) \in ChainKey
  BY InvFacts
<1>3. SentInv(q) /\ \A j \in 1 .. Len(sent[q]) : SentKey(q, j) \in ChainKey
  BY <1>1, InvFacts
<1>4. m.seal.key = key /\ m.seal.plaintext = i /\ i \in Nat
  <2>1. m.seal = sent[q][i].seal /\ i \in 1 .. Len(sent[q])
    OBVIOUS
  <2>2. sent[q][i].seal.plaintext = i
    BY <1>3, <2>1 DEF SentInv
  <2> HIDE DEF q
  <2> QED  BY <2>1, <2>2 DEF SentKey
<1>5. /\ ~r.ok => r.state = s
      /\ r.ok => /\ Good(r.state, p)
                 /\ Follows(s, r.state, Secret)
                 /\ SpendsKey(s, r.state, key)
  <2> HIDE DEF r, s, key
  <2>1. LET x == RatchetDecrypt(s, m, Fresh(p))
        IN  /\ ~x.ok => x.state = s
            /\ x.ok => /\ Good(x.state, p)
                       /\ Follows(s, x.state, Secret)
                       /\ SpendsKey(s, x.state, m.seal.key)
    BY <1>1, <1>2, SecretsClosed, RatchetDecryptKeepsRatchetGood DEF Good, Message, ChainKey
  <2> QED  BY <1>4, <2>1 DEF r
<1>6. Good(r.state, p) /\ Follows(s, r.state, Secret)
  BY <1>2, <1>5 DEF Follows
<1>7. /\ ratchet' = [ratchet EXCEPT ![p] = r.state]
      /\ delivered' = IF r.ok THEN [delivered EXCEPT ![p] = Append(@, i)] ELSE delivered
      /\ sent' = sent
      /\ evicted' = [evicted EXCEPT ![p] =
                        @ \cup MadeWay(s, r.state)]
  BY <1>4 DEF Decrypt
<1> HIDE DEF r
<1>8. /\ ratchet \in [Party -> RatchetState] /\ delivered \in [Party -> Seq(Nat)]
      /\ sent \in [Party -> Seq(Message)] /\ evicted \in [Party -> SUBSET ChainKey]
      /\ \A x \in Party :
            Len(ratchet[x].skippedMessageKeys) <= MAX_SKIPPED_KEYS_STORED
  BY DEF ChannelInv, TypeOK
<1>9. /\ ratchet'[p] = r.state
      /\ \A x \in Party : x # p => ratchet'[x] = ratchet[x] /\ delivered'[x] = delivered[x]
      /\ delivered'[p] = IF r.ok THEN Append(delivered[p], i) ELSE delivered[p]
  BY <1>7, <1>8
<1>10. TypeOK'
  <2>1. StoredKeys(s) \subseteq ChainKey
    BY <1>8, StoredKeyType DEF StoredKeys, RatchetState, ChainKey
  <2>2. evicted' \in [Party -> SUBSET ChainKey]
    <3>1. MadeWay(s, r.state) \subseteq ChainKey
      BY <2>1 DEF MadeWay
    <3> QED  BY <1>7, <1>8, <3>1
  <2>3. ratchet' \in [Party -> RatchetState]
    BY <1>6, <1>7, <1>8 DEF Good, GoodRatchet, RatchetState
  <2>4. Append(delivered[p], i) \in Seq(Nat)
    BY <1>2, <1>4, AppendProperties
  <2>5. delivered' \in [Party -> Seq(Nat)]
    BY <1>7, <1>8, <2>4
  <2>6. \A x \in Party :
          Len(ratchet'[x].skippedMessageKeys) <= MAX_SKIPPED_KEYS_STORED
    BY <1>6, <1>8, <1>9 DEF Good, GoodRatchet
  <2> QED  BY <1>7, <1>8, <2>2, <2>3, <2>5, <2>6 DEF TypeOK
<1>11. ASSUME NEW x \in Party PROVE RatchetInv(ratchet'[x], Parity(x))
  BY <1>6, <1>9 DEF Good, GoodRatchet, ChannelInv
<1>12. ASSUME NEW x \in Party PROVE SentInv(x)'
  <2>1. SentInv(x) /\ \A j \in 1 .. Len(sent[x]) : SentKey(x, j) \in ChainKey
    BY InvFacts
  <2>2. \A j \in 1 .. Len(sent[x]) :
          Before(SentKey(x, j), ratchet'[x].sendingChainKey)
    BY <1>6, <1>9, <2>1 DEF SentInv, Follows, ChainKey
  <2> QED  BY <1>7, <2>1, <2>2 DEF SentInv, SentKey
<1>13. ASSUME NEW x \in Party PROVE DeliveredInv(x)'
  <2>1. CASE x # p
    <3>1. DeliveredInv(x)
      BY InvFacts
    <3> QED  BY <1>7, <1>9, <2>1, <3>1 DEF DeliveredInv, SentKey
  <2>2. CASE x = p
    <3>1. \A j \in 1 .. Len(delivered[p]) :
            /\ delivered[p][j] \in 1 .. Len(sent[q])
            /\ Spent(r.state, SentKey(q, delivered[p][j]))
      BY <1>2, <1>3, <1>6 DEF DeliveredInv, Follows, ChainKey
    <3>2. CASE ~r.ok
      BY <1>7, <1>9, <2>2, <3>1, <3>2 DEF DeliveredInv, SentKey
    <3>3. CASE r.ok
      <4>1. /\ Len(Append(delivered[p], i)) = Len(delivered[p]) + 1
            /\ \A j \in 1 .. Len(delivered[p]) : Append(delivered[p], i)[j] = delivered[p][j]
            /\ Append(delivered[p], i)[Len(delivered[p]) + 1] = i
        BY <1>2, <1>4, AppendProperties
      <4>2. Spent(r.state, SentKey(q, i))
        BY <1>5, <3>3 DEF SpendsKey
      <4>3. \A j \in 1 .. Len(delivered'[p]) :
              /\ delivered'[p][j] \in 1 .. Len(sent[q])
              /\ Spent(r.state, SentKey(q, delivered'[p][j]))
        BY <1>2, <1>9, <3>1, <3>3, <4>1, <4>2
      <4> QED  BY <1>7, <1>9, <2>2, <4>3 DEF DeliveredInv, SentKey
    <3> QED  BY <3>2, <3>3
  <2> QED  BY <2>1, <2>2
<1>14. ChannelInv'
  BY <1>10, <1>11, <1>12, <1>13 DEF ChannelInv
<1>15. r.ok => \A j \in 1 .. Len(delivered[p]) : delivered[p][j] # i
  BY <1>2, <1>5 DEF DeliveredInv, SpendsKey
<1> QED  BY <1>7, <1>14, <1>15

(* Sending adds one message, sealed with a key ahead of all sent before.   *)
LEMMA SendStep ==
    ASSUME ChannelInv, NEW p \in Party, Send(p)
    PROVE  ChannelInv'
<1> DEFINE s == ratchet[p]
           t == AfterEncrypt(s)
           key == s.sendingChainKey
           m == EncryptedMessage(s, Len(sent[p]) + 1)
           len == Len(sent[p])
<1>1. /\ Good(s, p) /\ SentInv(p)
      /\ sent[p] \in Seq(Message) /\ len \in Nat
      /\ \A j \in 1 .. len : SentKey(p, j) \in ChainKey
      /\ Parity(p) \in {0, 1}
      /\ CanEncrypt(s)
  BY InvFacts, PartyFacts DEF Send
<1>2. /\ Good(t, p) /\ Follows(s, t, Secret)
      /\ Before(key, t.sendingChainKey) /\ ~Before(key, key)
      /\ key.root = s.rootKey
  <2> DEFINE A == {AssociatedData}
  <2> HIDE DEF s, A
  <2>1. GoodRatchet(s, Parity(p), RatchetKey, Secret, A) /\ CanEncrypt(s) /\ Parity(p) \in {0, 1}
    BY <1>1 DEF Good, A
  <2>2. /\ GoodRatchet(t, Parity(p), RatchetKey, Secret, A) /\ Follows(s, t, Secret)
        /\ Before(key, t.sendingChainKey) /\ ~Before(key, key)
        /\ key.root = s.rootKey
    BY <2>1, EncryptKeepsRatchetGood
  <2> QED  BY <2>2 DEF Good, A
<1>3. m \in Message /\ m.seal.key = key /\ m.seal.plaintext = len + 1
  <2>1. s \in RatchetState
    BY <1>1 DEF Good, GoodRatchet, RatchetState
  <2>2. HeaderOf(s) \in MessageHeaders(RatchetKey)
    BY <2>1 DEF HeaderOf, MessageHeaders, RatchetState, RatchetStates
  <2>3. key \in ChainKey /\ s.associatedData \in {AssociatedData}
    BY <2>1 DEF RatchetState, RatchetStates, ChainKey
  <2> HIDE DEF s, key
  <2> QED  BY <1>1, <2>2, <2>3 DEF EncryptedMessage, Message, Messages, key, ChainKey
<1>4. /\ key \in ChainKey /\ Len(key.root) >= 1 /\ Len(key.root) % 2 = Parity(p)
  BY <1>1, <1>2 DEF Good, GoodRatchet, RatchetInv, RatchetState, RatchetStates, ChainKey, ChainKeys
<1>5. /\ ratchet' = [ratchet EXCEPT ![p] = t]
      /\ sent' = [sent EXCEPT ![p] = Append(@, m)]
      /\ delivered' = delivered /\ evicted' = evicted
  BY DEF Send
<1>6. /\ ratchet \in [Party -> RatchetState] /\ delivered \in [Party -> Seq(Nat)]
      /\ sent \in [Party -> Seq(Message)] /\ evicted \in [Party -> SUBSET ChainKey]
      /\ \A x \in Party :
            Len(ratchet[x].skippedMessageKeys) <= MAX_SKIPPED_KEYS_STORED
  BY DEF ChannelInv, TypeOK
<1> HIDE DEF t, m
<1>7. /\ ratchet'[p] = t
      /\ sent'[p] = Append(sent[p], m)
      /\ \A x \in Party : x # p => ratchet'[x] = ratchet[x] /\ sent'[x] = sent[x]
  BY <1>5, <1>6
<1>8. /\ Append(sent[p], m) \in Seq(Message)
      /\ Len(Append(sent[p], m)) = len + 1
      /\ \A j \in 1 .. len : Append(sent[p], m)[j] = sent[p][j]
      /\ Append(sent[p], m)[len + 1] = m
  BY <1>1, <1>3, AppendProperties
<1>9. TypeOK'
  <2>1. sent' \in [Party -> Seq(Message)]
    BY <1>5, <1>6, <1>8
  <2>2. ratchet' \in [Party -> RatchetState]
    BY <1>2, <1>5, <1>6 DEF Good, GoodRatchet, RatchetState
  <2>3. \A x \in Party :
          Len(ratchet'[x].skippedMessageKeys) <= MAX_SKIPPED_KEYS_STORED
    BY <1>2, <1>6, <1>7 DEF Good, GoodRatchet
  <2> QED  BY <1>5, <1>6, <2>1, <2>2, <2>3 DEF TypeOK
<1>10. ASSUME NEW x \in Party PROVE RatchetInv(ratchet'[x], Parity(x))
  BY <1>2, <1>7 DEF Good, GoodRatchet, ChannelInv
<1>11. ASSUME NEW x \in Party
       PROVE  /\ Len(sent[x]) \in Nat /\ Len(sent[x]) <= Len(sent'[x])
              /\ \A j \in 1 .. Len(sent[x]) : SentKey(x, j)' = SentKey(x, j)
  <2>1. CASE x = p
    <3>1. \A j \in 1 .. len : sent'[p][j] = sent[p][j]
      BY <1>7, <1>8
    <3>2. len \in Nat /\ len = Len(sent[p]) /\ Len(sent'[p]) = len + 1
      BY <1>1, <1>7, <1>8
    <3> HIDE DEF len
    <3>3. \A j \in 1 .. Len(sent[p]) : sent'[p][j] = sent[p][j]
      BY <3>1, <3>2
    <3>4. \A j \in 1 .. Len(sent[p]) : SentKey(p, j)' = SentKey(p, j)
      BY <3>3 DEF SentKey
    <3>5. Len(sent[p]) \in Nat /\ Len(sent[p]) <= Len(sent'[p])
      BY <3>2
    <3> QED  BY <2>1, <3>4, <3>5
  <2>2. CASE x # p
    BY <1>7, <2>2, InvFacts DEF SentKey
  <2> QED  BY <2>1, <2>2
<1>12. ASSUME NEW x \in Party PROVE SentInv(x)'
  <2>1. CASE x # p
    <3>1. SentInv(x)
      BY InvFacts
    <3> QED  BY <1>7, <2>1, <3>1, ZenonT(30) DEF SentInv, SentKey
  <2>2. CASE x = p
    <3> DEFINE keyOf(j) == sent'[p][j].seal.key
    <3>1. keyOf(len + 1) = key
      BY <1>3, <1>7, <1>8
    <3>2. \A j \in 1 .. len :
            /\ sent'[p][j].seal.plaintext = j
            /\ keyOf(j) = SentKey(p, j)
            /\ Len(SentKey(p, j).root) >= 1
            /\ Len(SentKey(p, j).root) % 2 = Parity(p)
            /\ Before(SentKey(p, j), key)
      <4>1. \A j \in 1 .. len : sent'[p][j] = sent[p][j]
        BY <1>7, <1>8
      <4>2. \A j \in 1 .. len :
              /\ sent[p][j].seal.plaintext = j
              /\ Len(SentKey(p, j).root) >= 1
              /\ Len(SentKey(p, j).root) % 2 = Parity(p)
              /\ Before(SentKey(p, j), key)
        BY <1>1 DEF SentInv
      <4> HIDE DEF len, key
      <4> QED  BY <4>1, <4>2 DEF SentKey
    <3>3. \A j \in 1 .. len + 1 :
            /\ sent'[p][j].seal.plaintext = j
            /\ Len(keyOf(j).root) >= 1
            /\ Len(keyOf(j).root) % 2 = Parity(p)
            /\ Before(keyOf(j), ratchet'[p].sendingChainKey)
      <4> SUFFICES ASSUME NEW j \in 1 .. len + 1
                   PROVE  /\ sent'[p][j].seal.plaintext = j
                          /\ Len(keyOf(j).root) >= 1
                          /\ Len(keyOf(j).root) % 2 = Parity(p)
                          /\ Before(keyOf(j), ratchet'[p].sendingChainKey)
        OBVIOUS
      <4>1. CASE j = len + 1
        <5>1. sent'[p][j] = m /\ keyOf(j) = key
          BY <1>7, <1>8, <3>1, <4>1
        <5> HIDE DEF keyOf, key, len
        <5> QED  BY <1>2, <1>3, <1>4, <1>7, <4>1, <5>1
      <4>2. CASE j \in 1 .. len
        <5> HIDE DEF keyOf
        <5>1. Before(SentKey(p, j), t.sendingChainKey)
          BY <1>1, <1>2, <3>2, <4>2 DEF Follows, ChainKey
        <5> QED  BY <1>7, <3>2, <4>2, <5>1
      <4>3. j = len + 1 \/ j \in 1 .. len
        <5> HIDE DEF keyOf
        <5> QED  BY <1>1
      <4> HIDE DEF keyOf, len
      <4> QED  BY <4>1, <4>2, <4>3
    <3>4. \A j, k \in 1 .. len + 1 : j # k => keyOf(j) # keyOf(k)
      <4>1. \A j \in 1 .. len : SentKey(p, j) # key
        BY <1>2, <3>2
      <4>2. \A j, k \in 1 .. len : j # k => SentKey(p, j) # SentKey(p, k)
        BY <1>1 DEF SentInv
      <4>3. \A j \in 1 .. len + 1 : j \in 1 .. len \/ j = len + 1
        BY <1>1
      <4> HIDE DEF len, key, keyOf
      <4> SUFFICES ASSUME NEW j \in 1 .. len + 1, NEW k \in 1 .. len + 1, j # k
                   PROVE  keyOf(j) # keyOf(k)
        OBVIOUS
      <4>4. CASE j \in 1 .. len /\ k \in 1 .. len
        BY <3>2, <4>2, <4>4
      <4>5. CASE j = len + 1
        <5>1. k \in 1 .. len
          BY <4>3, <4>5
        <5> QED  BY <3>1, <3>2, <4>1, <4>5, <5>1
      <4>6. CASE k = len + 1
        <5>1. j \in 1 .. len
          BY <4>3, <4>6
        <5> QED  BY <3>1, <3>2, <4>1, <4>6, <5>1
      <4> QED  BY <4>3, <4>4, <4>5, <4>6
    <3>5. Len(sent'[p]) = len + 1
      BY <1>7, <1>8
    <3> HIDE DEF len
    <3> QED  BY <2>2, <3>3, <3>4, <3>5, ZenonT(30) DEF SentInv, SentKey
  <2> QED  BY <2>1, <2>2
<1>13. ASSUME NEW x \in Party PROVE DeliveredInv(x)'
  <2> DEFINE y == Peer(x)
  <2>1. y \in Party
    BY PartyFacts
  <2>2. /\ Len(sent[y]) \in Nat /\ Len(sent'[y]) \in Nat /\ Len(sent[y]) <= Len(sent'[y])
        /\ \A j \in 1 .. Len(sent[y]) :
              SentKey(y, j)' = SentKey(y, j) /\ SentKey(y, j) \in ChainKey
    <3>1. Len(sent'[y]) \in Nat
      BY <1>9, <2>1 DEF TypeOK
    <3> QED  BY <1>11, <2>1, <3>1, InvFacts
  <2>3. \A k \in ChainKey : Spent(ratchet[x], k) => Spent(ratchet'[x], k)
    BY <1>2, <1>7 DEF Follows, ChainKey
  <2>4. DeliveredInv(x)
    BY InvFacts
  <2>5. \A j \in 1 .. Len(delivered[x]) :
          /\ delivered[x][j] \in 1 .. Len(sent'[y])
          /\ Spent(ratchet'[x], SentKey(y, delivered[x][j])')
    <3> SUFFICES ASSUME NEW j \in 1 .. Len(delivered[x])
                 PROVE  /\ delivered[x][j] \in 1 .. Len(sent'[y])
                        /\ Spent(ratchet'[x], SentKey(y, delivered[x][j])')
      OBVIOUS
    <3>1. /\ delivered[x][j] \in 1 .. Len(sent[y])
          /\ Spent(ratchet[x], SentKey(y, delivered[x][j]))
      BY <2>4 DEF DeliveredInv
    <3>2. SentKey(y, delivered[x][j])' = SentKey(y, delivered[x][j])
      BY <1>5, <2>2, <3>1 DEF SentKey
    <3> QED  BY <2>2, <2>3, <3>1, <3>2
  <2> QED  BY <1>5, <2>5 DEF DeliveredInv, SentKey
<1> QED  BY <1>9, <1>10, <1>12, <1>13 DEF ChannelInv

(* A header the relay can produce has the type of a header.                *)
LEMMA AlteredIsMessage ==
    ASSUME ChannelInv, NEW q \in Party, NEW i \in 1 .. Len(sent[q]),
           NEW h \in Headers(q) \cup MovedHeaders(sent[q][i].header)
    PROVE  /\ [sent[q][i] EXCEPT !.header = h] \in Message
           /\ [sent[q][i] EXCEPT !.header = h].seal = sent[q][i].seal
<1>1. sent[q][i] \in Message /\ \A j \in 1 .. Len(sent[q]) : sent[q][j] \in Message
  BY InvFacts
<1>2. h \in MessageHeaders(RatchetKey)
  <2>1. CASE h \in Headers(q)
    BY <1>1, <2>1 DEF Headers, Message, Messages
  <2>2. CASE h \in MovedHeaders(sent[q][i].header)
    <3>1. sent[q][i].header \in MessageHeaders(RatchetKey)
      BY <1>1 DEF Message, Messages
    <3> QED  BY <2>2, <3>1 DEF MovedHeaders, MessageHeaders
  <2> QED  BY <2>1, <2>2
<1> QED  BY <1>1, <1>2 DEF Message, Messages

(* Every step of the channel is a send, a decryption of a message whose    *)
(* seal is that of a message sent, or a stutter.                           *)
LEMMA DecryptCases ==
    ASSUME ChannelInv, NEW p \in Party, Receive(p) \/ ReceiveAltered(p)
    PROVE  /\ ChannelInv'
           /\ \/ delivered' = delivered
              \/ \E i \in 1 .. Len(sent[Peer(p)]) :
                    /\ delivered' = [delivered EXCEPT ![p] = Append(@, i)]
                    /\ \A j \in 1 .. Len(delivered[p]) : delivered[p][j] # i
           /\ sent' = sent
<1>1. Peer(p) \in Party
  BY PartyFacts
<1>2. PICK i \in 1 .. Len(sent[Peer(p)]), m \in Message :
         m.seal = sent[Peer(p)][i].seal /\ Decrypt(p, m)
  <2>1. CASE Receive(p)
    BY <1>1, <2>1, InvFacts DEF Receive
  <2>2. CASE ReceiveAltered(p)
    BY <1>1, <2>2, AlteredIsMessage, ZenonT(30) DEF ReceiveAltered
  <2> QED  BY <2>1, <2>2
<1>3. sent' = sent
  BY <1>2 DEF Decrypt
<1> QED  BY <1>2, <1>3, DecryptStep

(* Every step preserves the invariant.                                     *)
LEMMA ChannelNext == ChannelInv /\ [Next]_vars => ChannelInv'
<1> SUFFICES ASSUME ChannelInv, [Next]_vars PROVE ChannelInv'
  OBVIOUS
<1>1. ASSUME NEW p \in Party, Send(p) PROVE ChannelInv'
  BY <1>1, SendStep
<1>2. ASSUME NEW p \in Party, Receive(p) PROVE ChannelInv'
  BY <1>2, DecryptCases
<1>3. ASSUME NEW p \in Party, ReceiveAltered(p) PROVE ChannelInv'
  BY <1>3, DecryptCases
<1>4. CASE UNCHANGED vars
  <2>1. ratchet' = ratchet /\ sent' = sent /\ delivered' = delivered /\ evicted' = evicted
    BY <1>4 DEF vars
  <2>2. TypeOK'
    BY <2>1 DEF ChannelInv, TypeOK
  <2>3. ASSUME NEW p \in Party
        PROVE  RatchetInv(ratchet'[p], Parity(p)) /\ SentInv(p)' /\ DeliveredInv(p)'
    <3>1. RatchetInv(ratchet'[p], Parity(p))
      BY <2>1 DEF ChannelInv
    <3>2. SentInv(p)'
      BY <2>1, InvFacts, ZenonT(30) DEF SentInv, SentKey
    <3>3. DeliveredInv(p)'
      BY <2>1, InvFacts DEF DeliveredInv, SentKey
    <3> QED  BY <3>1, <3>2, <3>3
  <2> QED  BY <2>2, <2>3 DEF ChannelInv
<1> QED  BY <1>1, <1>2, <1>3, <1>4 DEF Next

(* The inductive invariant holds of every behaviour.                       *)
THEOREM ChannelInvariant == Spec => []ChannelInv
<1>1. Init => ChannelInv
  BY ChannelInit
<1>2. ChannelInv /\ [Next]_vars => ChannelInv'
  BY ChannelNext
<1> QED  BY <1>1, <1>2, PTL DEF Spec

(* Types, and the bound on stored keys (ratchet.ts:183-187), for every     *)
(* MAX_SKIP, cap and number of messages.                                   *)
THEOREM TypeCorrect == Spec => []TypeOK
<1>1. ChannelInv => TypeOK
  BY DEF ChannelInv
<1> QED  BY <1>1, ChannelInvariant, PTL

(* ratchet.ts:5-6: a used message key cannot be computed again from either *)
(* party's state, for any schedule of the relay.                           *)
THEOREM UsedKeysAreGone == Spec => []ForwardSecrecy
<1>1. ChannelInv => ForwardSecrecy
  <2> SUFFICES ASSUME ChannelInv, NEW p \in Party, NEW k \in UsedKeys(p)
               PROVE  ~Derivable(ratchet[p], k)
    BY DEF ForwardSecrecy
  <2> DEFINE s == ratchet[p]
             q == Peer(p)
  <2>1. /\ q \in Party /\ Parity(q) # Parity(p) /\ Peer(q) = p
        /\ Parity(p) \in {0, 1} /\ Parity(q) \in {0, 1}
    BY PartyFacts
  <2>2. /\ s \in RatchetState /\ RatchetInv(s, Parity(p))
        /\ SentInv(p) /\ DeliveredInv(p) /\ SentInv(q)
        /\ \A i \in 1 .. Len(sent[p]) : SentKey(p, i) \in ChainKey
        /\ \A i \in 1 .. Len(sent[q]) : SentKey(q, i) \in ChainKey
        /\ delivered[p] \in Seq(Nat)
    BY <2>1, InvFacts DEF Good, GoodRatchet, RatchetState
  <2>3. /\ s.sendingChainKey \in ChainKey /\ s.receivingChainKey \in ChainKey
        /\ Len(s.sendingChainKey.root) \in Nat /\ s.sendingChainKey.step \in Nat
        /\ Len(s.receivingChainKey.root) \in Nat /\ s.receivingChainKey.step \in Nat
        /\ Len(s.rootKey) \in Nat /\ Len(s.rootKey) >= 1
        /\ Len(s.rootKey) % 2 = Parity(p)
        /\ s.sendingChainKey = NoChain => Len(s.sendingChainKey.root) = 0
        /\ s.sendingChainKey # NoChain => s.sendingChainKey.root = s.rootKey
        /\ \/ Len(s.receivingChainKey.root) = 0
           \/ Len(s.receivingChainKey.root) + 1 = Len(s.rootKey)
        /\ Len(s.receivingChainKey.root) < Len(s.rootKey)
    <3>1. Len(NoChain.root) = 0
      BY EmptySeq DEF NoChain
    <3>2. /\ s.sendingChainKey \in ChainKey /\ s.receivingChainKey \in ChainKey
          /\ Len(s.rootKey) \in Nat
      BY <2>2 DEF RatchetState, RatchetStates, ChainKey
    <3>3. /\ Len(s.sendingChainKey.root) \in Nat /\ s.sendingChainKey.step \in Nat
          /\ Len(s.receivingChainKey.root) \in Nat /\ s.receivingChainKey.step \in Nat
      BY <3>2 DEF ChainKey, ChainKeys
    <3>4. /\ Len(s.rootKey) >= 1 /\ Len(s.rootKey) % 2 = Parity(p)
          /\ s.sendingChainKey = NoChain \/ s.sendingChainKey.root = s.rootKey
          /\ \/ s.receivingChainKey = NoChain
             \/ Len(s.receivingChainKey.root) + 1 = Len(s.rootKey)
      BY <2>2 DEF RatchetInv
    <3>5. /\ \/ Len(s.receivingChainKey.root) = 0
             \/ Len(s.receivingChainKey.root) + 1 = Len(s.rootKey)
          /\ Len(s.receivingChainKey.root) < Len(s.rootKey)
      BY <3>1, <3>2, <3>3, <3>4
    <3> QED  BY <3>1, <3>2, <3>3, <3>4, <3>5
  <2> HIDE DEF s, q
  <2>4. ASSUME NEW i \in 1 .. Len(sent[p]), k = SentKey(p, i)
        PROVE  ~Derivable(s, k)
    <3>1. /\ k \in ChainKey /\ Len(k.root) \in Nat /\ k.step \in Nat
          /\ Len(k.root) >= 1 /\ Len(k.root) % 2 = Parity(p)
          /\ Before(k, s.sendingChainKey)
      <4>1. k \in ChainKey
        BY <2>2, <2>4
      <4>2. Len(k.root) \in Nat /\ k.step \in Nat
        BY <4>1 DEF ChainKey, ChainKeys
      <4>3. /\ Len(k.root) >= 1 /\ Len(k.root) % 2 = Parity(p)
            /\ Before(k, s.sendingChainKey)
        BY <2>2, <2>4 DEF SentInv, s
      <4> QED  BY <4>1, <4>2, <4>3
    <3>2. k \notin StoredKeys(s)
      BY <2>2, <3>1 DEF StoredKeys, RatchetInv
    <3>3. ~OnChain(k, s.sendingChainKey)
      BY <2>3, <3>1 DEF OnChain, Before
    <3>4. ~OnChain(k, s.receivingChainKey)
      <4>1. Len(s.receivingChainKey.root) + 1 = Len(s.rootKey)
               => Len(s.receivingChainKey.root) % 2 # Parity(p)
        BY <2>1, <2>3, ParityFlips
      <4>2. k.root # s.receivingChainKey.root
        <5>1. CASE Len(s.receivingChainKey.root) = 0
          <6>1. Len(k.root) # Len(s.receivingChainKey.root)
            BY <3>1, <5>1
          <6> QED  BY <6>1
        <5>2. CASE Len(s.receivingChainKey.root) + 1 = Len(s.rootKey)
          BY <3>1, <4>1, <5>2
        <5> QED  BY <2>3, <5>1, <5>2
      <4> QED  BY <4>2 DEF OnChain
    <3>5. ~ExtendsRoot(k, s.rootKey)
      <4>1. Len(k.root) <= Len(s.rootKey)
        BY <2>3, <3>1 DEF Before
      <4> QED  BY <2>3, <3>1, <4>1 DEF ExtendsRoot
    <3> QED  BY <3>2, <3>3, <3>4, <3>5 DEF Derivable
  <2>5. ASSUME NEW i \in Received(p), k = SentKey(q, i)
        PROVE  ~Derivable(s, k)
    <3>1. PICK j \in 1 .. Len(delivered[p]) : delivered[p][j] = i
      BY <2>2, LenProperties DEF Received, ToSet
    <3>2. i \in 1 .. Len(sent[q]) /\ Spent(s, k)
      BY <2>2, <2>5, <3>1 DEF DeliveredInv, s, q
    <3>3. /\ k \in ChainKey /\ Len(k.root) \in Nat /\ k.step \in Nat
          /\ Len(k.root) >= 1 /\ Len(k.root) % 2 = Parity(q)
      <4>1. k \in ChainKey
        BY <2>2, <2>5, <3>2
      <4>2. Len(k.root) \in Nat /\ k.step \in Nat
        BY <4>1 DEF ChainKey, ChainKeys
      <4>3. Len(k.root) >= 1 /\ Len(k.root) % 2 = Parity(q)
        BY <2>2, <2>5, <3>2 DEF SentInv
      <4> QED  BY <4>1, <4>2, <4>3
    <3>4. k \notin StoredKeys(s) /\ Before(k, s.receivingChainKey)
      BY <3>2 DEF Spent
    <3>5. ~OnChain(k, s.receivingChainKey)
      BY <2>3, <3>3, <3>4 DEF OnChain, Before
    <3>6. ~OnChain(k, s.sendingChainKey)
      <4>1. CASE s.sendingChainKey = NoChain
        BY <2>3, <3>3, <4>1 DEF OnChain
      <4>2. CASE s.sendingChainKey # NoChain
        <5>1. k.root # s.rootKey
          BY <2>1, <2>3, <3>3
        <5> QED  BY <2>3, <4>2, <5>1 DEF OnChain
      <4> QED  BY <4>1, <4>2
    <3>7. ~ExtendsRoot(k, s.rootKey)
      <4>1. Len(k.root) <= Len(s.receivingChainKey.root)
        BY <2>3, <3>3, <3>4 DEF Before
      <4> QED  BY <2>3, <3>3, <4>1 DEF ExtendsRoot
    <3> QED  BY <3>4, <3>5, <3>6, <3>7 DEF Derivable
  <2> QED  BY <2>4, <2>5 DEF UsedKeys, s, q
<1> QED  BY <1>1, ChannelInvariant, PTL

(* chain.ts:49-50: each message key seals one message, of either party.    *)
THEOREM KeysSealOneMessage == Spec => []MessageKeysUnique
<1>1. ChannelInv => MessageKeysUnique
  <2> SUFFICES ASSUME ChannelInv, NEW p \in Party, NEW q \in Party,
                      NEW i \in 1 .. Len(sent[p]), NEW j \in 1 .. Len(sent[q]),
                      SentKey(p, i) = SentKey(q, j)
               PROVE  p = q /\ i = j
    BY DEF MessageKeysUnique
  <2>1. /\ Len(SentKey(p, i).root) % 2 = Parity(p)
        /\ Len(SentKey(q, j).root) % 2 = Parity(q)
    BY InvFacts DEF SentInv
  <2>2. p = q
    BY <2>1, PartyFacts
  <2> QED  BY <2>2, InvFacts DEF SentInv
<1> QED  BY <1>1, ChannelInvariant, PTL

(* The Double Ratchet implements the at-most-once channel.                 *)
THEOREM ImplementsAtMostOnce == Spec => AtMostOnce
<1>1. Init => Abstract!Init
  BY DEF Init, Abstract!Init, Abstract!Party, Party
<1>2. ChannelInv /\ [Next]_vars => [Abstract!Next]_(Abstract!vars)
  <2> SUFFICES ASSUME ChannelInv, [Next]_vars
               PROVE  Abstract!Next \/ UNCHANGED Abstract!vars
    BY DEF Abstract!vars
  <2>1. ASSUME NEW p \in Party, Send(p) PROVE Abstract!Post(p)
    <3>1. /\ sent \in [Party -> Seq(Message)] /\ sent' \in [Party -> Seq(Message)]
      BY <2>1, SendStep DEF ChannelInv, TypeOK
    <3>2. /\ delivered' = delivered
          /\ sent' = [sent EXCEPT ![p] =
                         Append(@, EncryptedMessage(ratchet[p], Len(@) + 1))]
      BY <2>1 DEF Send
    <3>3. Len(sent'[p]) = Len(sent[p]) + 1 /\ \A x \in Party : x # p => sent'[x] = sent[x]
      BY <3>1, <3>2
    <3>4. [x \in Party |-> Len(sent'[x])]
            = [[x \in Party |-> Len(sent[x])] EXCEPT ![p] = @ + 1]
      BY <3>3
    <3> QED  BY <3>2, <3>4 DEF Abstract!Post
  <2>2. ASSUME NEW p \in Party, Receive(p) \/ ReceiveAltered(p)
        PROVE  Abstract!HandOver(p) \/ UNCHANGED Abstract!vars
    <3>1. /\ \/ delivered' = delivered
             \/ \E i \in 1 .. Len(sent[Peer(p)]) :
                   /\ delivered' = [delivered EXCEPT ![p] = Append(@, i)]
                   /\ \A j \in 1 .. Len(delivered[p]) : delivered[p][j] # i
          /\ sent' = sent
      BY <2>2, DecryptCases
    <3>2. Abstract!Peer(p) = Peer(p) /\ Peer(p) \in Party
      BY PartyFacts DEF Abstract!Peer, Peer
    <3>3. [x \in Party |-> Len(sent[x])][Peer(p)] = Len(sent[Peer(p)])
      BY <3>2
    <3> QED  BY <3>1, <3>2, <3>3 DEF Abstract!HandOver, Abstract!vars
  <2>3. CASE UNCHANGED vars
    BY <2>3 DEF vars, Abstract!vars
  <2>4. Abstract!Party = Party
    BY DEF Abstract!Party, Party
  <2> QED  BY <2>1, <2>2, <2>3, <2>4 DEF Next, Abstract!Next
<1> QED  BY <1>1, <1>2, ChannelInvariant, PTL DEF Spec, AtMostOnce, Abstract!Spec

-----------------------------------------------------------------------------
(* The conversation in step.                                               *)

(* The ratchet keys of a conversation are all different.                   *)
LEMMA RatchetKeysDistinct ==
    ASSUME NEW N \in Nat
    PROVE  DistinctKeys(RatchetKeys, N, RatchetKey)
<1>1. ASSUME NEW n \in Nat \ {0}
      PROVE  /\ RatchetKeys[n] \in RatchetKey
             /\ RatchetKeys[n] = IF n = 1 THEN <<"bob", 0>>
                                 ELSE <<IF n % 2 = 0 THEN "alice" ELSE "bob", n - 2>>
  <2>1. RatchetKeys[n] = IF n = 1 THEN <<"bob", 0>>
                         ELSE <<IF n % 2 = 0 THEN "alice" ELSE "bob", n - 2>>
    BY DEF RatchetKeys
  <2>2. n = 1 \/ n - 2 \in Nat
    OBVIOUS
  <2>. QED BY <2>1, <2>2 DEF RatchetKey, Party
<1>2. ASSUME NEW i \in Nat \ {0}, NEW j \in Nat \ {0}, RatchetKeys[i] = RatchetKeys[j]
      PROVE  i = j
  <2>1. CASE i = 1 /\ j = 1
    BY <2>1
  <2>2. CASE i # 1 /\ j # 1
    <3>1. /\ RatchetKeys[i] = <<IF i % 2 = 0 THEN "alice" ELSE "bob", i - 2>>
          /\ RatchetKeys[j] = <<IF j % 2 = 0 THEN "alice" ELSE "bob", j - 2>>
      BY <1>1, <2>2
    <3>2. /\ RatchetKeys[i][2] = i - 2
          /\ RatchetKeys[j][2] = j - 2
      <4>1. \A a, b : <<a, b>>[2] = b
        OBVIOUS
      <4>. QED BY <3>1, <4>1
    <3>3. i - 2 = j - 2
      BY <1>2, <3>2
    <3>. QED BY <3>3
  <2>3. ASSUME NEW x \in Nat \ {0}, x # 1, RatchetKeys[x] = <<"bob", 0>>
        PROVE  FALSE
    <3>1. RatchetKeys[x] = <<IF x % 2 = 0 THEN "alice" ELSE "bob", x - 2>>
      BY <1>1, <2>3
    <3>2. x - 2 = 0 /\ "bob" = IF x % 2 = 0 THEN "alice" ELSE "bob"
      BY <2>3, <3>1
    <3>3. x = 2
      BY <3>2
    <3>. QED BY <3>2, <3>3
  <2>4. RatchetKeys[1] = <<"bob", 0>>
    <3>1. 1 \in Nat \ {0}
      OBVIOUS
    <3>. QED BY <3>1 DEF RatchetKeys
  <2>. QED BY <1>2, <2>1, <2>2, <2>3, <2>4
<1>3. \A i \in 1 .. N : i \in Nat \ {0}
  OBVIOUS
<1>. QED BY <1>1, <1>2, <1>3 DEF DistinctKeys

(* The key p turns to next is two after the one it sends with.             *)
LEMMA FreshIsNext ==
    ASSUME ChannelInv, NEW p \in Party
    PROVE  /\ Turns(p) \in Nat /\ Turns(p) >= 1
           /\ Turns(p) % 2 = Parity(p)
           /\ Fresh(p) = RatchetKeys[Turns(p) + 2]
<1> DEFINE n == Turns(p)
<1>1. Good(ratchet[p], p)
  BY InvFacts
<1>2. n \in Nat /\ n >= 1 /\ n % 2 = Parity(p)
  BY <1>1, LenProperties DEF Good, GoodRatchet, RatchetInv, RatchetStates, Turns
<1>3. Fresh(p) = <<p, n>>
  BY DEF Fresh, Turns
<1>. HIDE DEF n
<1>4. n + 2 \in Nat \ {0} /\ n + 2 # 1 /\ (n + 2) - 2 = n /\ (n + 2) % 2 = n % 2
  BY <1>2
<1>5. RatchetKeys[n + 2] = <<IF (n + 2) % 2 = 0 THEN "alice" ELSE "bob", (n + 2) - 2>>
  BY <1>4 DEF RatchetKeys
<1>6. p = IF n % 2 = 0 THEN "alice" ELSE "bob"
  BY <1>2 DEF Parity, Party
<1>. QED BY <1>2, <1>3, <1>4, <1>5, <1>6 DEF n

(* One ratchet is one turn ahead of the other.                             *)
LEMMA OneTurnApart ==
    ASSUME ChannelInv, LockstepInv, NEW p \in Party
    PROVE  Turns(p) = Turns(Peer(p)) + 1 \/ Turns(Peer(p)) = Turns(p) + 1
<1>1. PICK q \in Party : Turns(q) = Turns(Peer(q)) + 1
  BY DEF LockstepInv
<1>2. q = p \/ (q = Peer(p) /\ Peer(q) = p)
  BY PartyFacts
<1>. QED BY <1>1, <1>2

(* What the invariant says of a message and its chain.                     *)
LEMMA SentFacts ==
    ASSUME ChannelInv, LockstepInv, NEW q \in Party, NEW i \in 1 .. Len(sent[q])
    PROVE  LET m == sent[q][i]
               n == ChainOf(sent[q][i])
           IN  /\ n \in Nat /\ n >= 2 /\ n <= Turns(q) /\ n % 2 = Parity(q)
               /\ SealedAt(m, SharedKey, RatchetKeys, n)
               /\ m.header.messageNumber \in Nat /\ m.header.previousChainLength \in Nat
               /\ SentKey(q, i) = KeyOn(n, m.header.messageNumber)
               /\ Numbered(sent[q], m.header, n, 1 .. i - 1)
<1> DEFINE m == sent[q][i]
           n == ChainOf(sent[q][i])
<1>1. n \in 2 .. Turns(q) /\ SealedAt(m, SharedKey, RatchetKeys, n)
      /\ Numbered(sent[q], m.header, n, 1 .. i - 1)
  BY DEF LockstepInv, SentInStep, Turns
<1>2. n % 2 = Parity(q)
  BY InvFacts DEF SentInv, SentKey, ChainOf
<1>3. Turns(q) \in Nat
  BY FreshIsNext
<1>4. m \in Message
  BY InvFacts
<1>5. m.header.messageNumber \in Nat /\ m.header.previousChainLength \in Nat
  BY <1>4 DEF Message, Messages, MessageHeaders
<1>6. SentKey(q, i) = KeyOn(n, m.header.messageNumber)
  BY <1>1 DEF SealedAt, SentKey, KeyOn
<1>. HIDE DEF n, m
<1>. QED BY <1>1, <1>2, <1>3, <1>5, <1>6 DEF n, m

(* Any message of the peer meets the ratchet as DoubleRatchetProofs asks.  *)
LEMMA MessageMeets ==
    ASSUME ChannelInv, LockstepInv, NEW p \in Party, NEW i \in 1 .. Len(sent[Peer(p)])
    PROVE  Meets(sent[Peer(p)][i], ChainOf(sent[Peer(p)][i]), ratchet[p], Fresh(p),
                 SharedKey, RatchetKeys, Turns(p) + 2,
                 RatchetKey, Secret, {AssociatedData})
<1> DEFINE q == Peer(p)
           s == ratchet[p]
           n == ChainOf(sent[q][i])
           l == Turns(p)
           m == sent[q][i]
<1>1. q \in Party /\ Parity(q) # Parity(p)
  BY PartyFacts
<1>2. /\ n \in Nat /\ n >= 2 /\ n <= Turns(q) /\ n % 2 = Parity(q)
      /\ SealedAt(m, SharedKey, RatchetKeys, n)
  BY <1>1, SentFacts
<1>3. /\ l \in Nat /\ l >= 1 /\ l % 2 = Parity(p) /\ Fresh(p) = RatchetKeys[l + 2]
      /\ l = Len(s.rootKey)
  BY FreshIsNext DEF Turns
<1>4. Turns(q) \in Nat
  BY <1>1, FreshIsNext
<1>5. l = Turns(q) + 1 \/ Turns(q) = l + 1
  BY OneTurnApart
<1>6. /\ s \in RatchetStates(RatchetKey, Secret, {AssociatedData})
      /\ InStep(s, SharedKey, RatchetKeys)
  BY InvFacts DEF Good, GoodRatchet, LockstepInv
<1>7. m \in Messages(RatchetKey, Secret, {AssociatedData})
  BY <1>1, InvFacts DEF Message
<1>8. m.seal.associatedData = s.associatedData
  BY <1>6, <1>7 DEF Messages, RatchetStates
<1>9. SharedKey \in Secret /\ NoKey \notin RatchetKey
  BY DEF Secret, NoKey, RatchetKey
<1>. HIDE DEF n, m, l, q
<1>10. DistinctKeys(RatchetKeys, l + 2, RatchetKey)
  BY <1>3, RatchetKeysDistinct
<1>11. /\ n <= l + 1 /\ n % 2 # l % 2 /\ l + 2 \in Nat /\ n <= l + 2 /\ l <= l + 2
       /\ n = l + 1 => n + 1 <= l + 2 /\ Fresh(p) = RatchetKeys[n + 1]
  <2>1. n <= l + 1
    BY <1>2, <1>3, <1>4, <1>5
  <2>2. n % 2 # l % 2
    BY <1>1, <1>2, <1>3
  <2>3. n = l + 1 => n + 1 = l + 2
    BY <1>3
  <2>4. l + 2 \in Nat /\ n <= l + 2 /\ l <= l + 2 /\ (n = l + 1 => n + 1 <= l + 2)
    BY <1>2, <1>3, <2>1
  <2>5. n = l + 1 => Fresh(p) = RatchetKeys[n + 1]
    BY <1>3, <2>3
  <2>. QED BY <2>1, <2>2, <2>4, <2>5
<1>12. Meets(m, n, s, Fresh(p), SharedKey, RatchetKeys, l + 2, RatchetKey, Secret,
             {AssociatedData})
  BY <1>2, <1>3, <1>6, <1>7, <1>8, <1>9, <1>10, <1>11, SecretsClosed DEF Meets
<1>. QED BY <1>12 DEF n, m, l, q
(* Keys of the conversation, compared by the number of their root.         *)
LEMMA KeyOnFacts ==
    ASSUME NEW n \in Nat \ {0}, NEW a
    PROVE  /\ Len(KeyOn(n, a).root) = n /\ KeyOn(n, a).step = a
           /\ KeyOn(n, a) # NoChain
           /\ \A k \in Nat \ {0} : \A b :
                 /\ KeyOn(n, a) = KeyOn(k, b) <=> n = k /\ a = b
                 /\ Before(KeyOn(n, a), KeyOn(k, b)) <=> n < k \/ (n = k /\ a < b)
<1>1. ASSUME NEW k \in Nat \ {0}, NEW b
      PROVE  /\ Len(KeyOn(k, b).root) = k /\ KeyOn(k, b).step = b
             /\ KeyOn(k, b) # NoChain
  <2>1. DistinctKeys(RatchetKeys, k, RatchetKey)
    BY RatchetKeysDistinct
  <2>2. \A x \in 1 .. k : RatchetKeys[x] \in RatchetKey
    BY <2>1 DEF DistinctKeys
  <2>3. SharedKey \in Secret
    BY DEF Secret
  <2>. QED BY <2>2, <2>3, SecretsClosed, ChainFacts DEF KeyOn
<1>2. ASSUME NEW k \in Nat \ {0}, NEW b
      PROVE  /\ KeyOn(n, a) = KeyOn(k, b) <=> n = k /\ a = b
             /\ Before(KeyOn(n, a), KeyOn(k, b)) <=> n < k \/ (n = k /\ a < b)
  <2>1. /\ Len(KeyOn(n, a).root) = n /\ KeyOn(n, a).step = a
        /\ Len(KeyOn(k, b).root) = k /\ KeyOn(k, b).step = b
    BY <1>1
  <2>2. n = k => KeyOn(n, a).root = KeyOn(k, b).root
    BY DEF KeyOn, ChainAt
  <2>. QED BY <2>1, <2>2 DEF Before
<1>. QED BY <1>1, <1>2

(* Where a ratchet sends and receives, in terms of the root it sends on.   *)
LEMMA ChainsOfRatchet ==
    ASSUME ChannelInv, LockstepInv, NEW p \in Party
    PROVE  LET s == ratchet[p]
               l == Turns(p)
           IN  /\ s.sendMessageNumber \in Nat /\ s.receiveMessageNumber \in Nat
               /\ l >= 2 => s.sendingChainKey = KeyOn(l, s.sendMessageNumber)
               /\ \A k \in Nat \ {0}, step \in Nat :
                     Before(KeyOn(k, step), s.receivingChainKey)
                       <=> /\ l >= 3
                           /\ k < l - 1 \/ (k = l - 1 /\ step < s.receiveMessageNumber)
<1> DEFINE s == ratchet[p]
           l == Turns(p)
           recv == s.receiveMessageNumber
<1>1. /\ s \in RatchetStates(RatchetKey, Secret, {AssociatedData})
      /\ InStep(s, SharedKey, RatchetKeys)
      /\ l \in Nat /\ l >= 1 /\ l = Len(s.rootKey)
  BY InvFacts, FreshIsNext DEF Good, GoodRatchet, LockstepInv, Turns
<1>2. s.sendMessageNumber \in Nat /\ recv \in Nat
  BY <1>1 DEF RatchetStates
<1>3. /\ l # 1 => s.sendingChainKey = KeyOn(l, s.sendMessageNumber)
      /\ ~(l <= 2) => s.receivingChainKey = KeyOn(l - 1, recv)
      /\ l <= 2 => s.receivingChainKey = NoChain
  BY <1>1 DEF InStep, KeyOn
<1>. HIDE DEF l, s, recv
<1>6. l \in Nat /\ l >= 1
  BY <1>1
<1>7. l >= 2 => l # 1
  BY <1>6
<1>8. l >= 3 => ~(l <= 2) /\ l - 1 \in Nat \ {0}
  BY <1>6
<1>9. l >= 3 => s.receivingChainKey = KeyOn(l - 1, recv)
  BY <1>3, <1>8
<1>4. ASSUME NEW k \in Nat \ {0}, NEW step \in Nat
      PROVE  Before(KeyOn(k, step), s.receivingChainKey)
               <=> l >= 3 /\ (k < l - 1 \/ (k = l - 1 /\ step < recv))
  <2>1. Len(KeyOn(k, step).root) = k
    BY KeyOnFacts
  <2>2. CASE l <= 2
    <3>1. NoChain.root = <<>> /\ Len(NoChain.root) = 0
      BY DEF NoChain
    <3>2. KeyOn(k, step).root # NoChain.root
      BY <2>1, <3>1
    <3>3. ~Before(KeyOn(k, step), NoChain)
      BY <2>1, <3>1, <3>2 DEF Before
    <3>. QED BY <1>1, <1>3, <2>2, <3>3
  <2>3. CASE l >= 3
    <3>1. s.receivingChainKey = KeyOn(l - 1, recv) /\ l - 1 \in Nat \ {0}
      BY <1>8, <1>9, <2>3
    <3> DEFINE n == l - 1
    <3>. HIDE DEF n
    <3>4. n \in Nat \ {0}
      BY <3>1 DEF n
    <3>3. Before(KeyOn(k, step), KeyOn(n, recv)) <=> k < n \/ (k = n /\ step < recv)
      BY <3>4, KeyOnFacts
    <3>2. Before(KeyOn(k, step), KeyOn(l - 1, recv))
            <=> k < l - 1 \/ (k = l - 1 /\ step < recv)
      BY <3>3 DEF n
    <3>. QED BY <2>3, <3>1, <3>2
  <2>. QED BY <1>1, <2>2, <2>3
<1>5. l >= 2 => s.sendingChainKey = KeyOn(l, s.sendMessageNumber)
  BY <1>3, <1>7
<1>. QED BY <1>2, <1>4, <1>5 DEF l, s, recv

(* What p has sent on the root it is on is numbered below its next message.*)
LEMMA SentIsNumbered ==
    ASSUME ChannelInv, LockstepInv, NEW p \in Party, NEW i \in 1 .. Len(sent[p]),
           ChainOf(sent[p][i]) = Turns(p)
    PROVE  sent[p][i].header.messageNumber < ratchet[p].sendMessageNumber
<1> DEFINE number == sent[p][i].header.messageNumber
           l == Turns(p)
           next == ratchet[p].sendMessageNumber
<1>1. /\ l \in Nat /\ l >= 2 /\ number \in Nat
      /\ SentKey(p, i) = KeyOn(l, number)
  BY SentFacts, FreshIsNext
<1>2. ratchet[p].sendingChainKey = KeyOn(l, next) /\ next \in Nat
  BY <1>1, ChainsOfRatchet
<1>3. Before(SentKey(p, i), ratchet[p].sendingChainKey)
  BY InvFacts DEF SentInv
<1>. HIDE DEF l, number, next
<1>4. l \in Nat \ {0} /\ Before(KeyOn(l, number), KeyOn(l, next))
  BY <1>1, <1>2, <1>3
<1>5. number < next
  BY <1>1, <1>2, <1>4, KeyOnFacts
<1>. QED BY <1>5 DEF number, next
(* The conversation starts in step, with nothing sent.                     *)
LEMMA LockstepInit == Init => LockstepInv
<1>. SUFFICES ASSUME Init PROVE LockstepInv
  OBVIOUS
<1> DEFINE a == <<"alice", 0>>
           b == <<"bob", 0>>
           root == KdfRootKey(<<SharedKey>>, Dh(a, b))
           alice == InitAlice(SharedKey, a, b, AssociatedData)
           bob == InitBob(SharedKey, b, AssociatedData)
<1>1. RatchetKeys[1] = b /\ RatchetKeys[2] = a
  <2>1. 1 \in Nat \ {0} /\ 2 \in Nat \ {0} /\ 2 % 2 = 0 /\ 2 - 2 = 0 /\ 2 # 1
    OBVIOUS
  <2>. QED BY <2>1 DEF RatchetKeys
<1>2. RootAt(SharedKey, RatchetKeys, 1) = <<SharedKey>> /\ Len(<<SharedKey>>) = 1
  BY DEF RootAt
<1>3. root = RootAt(SharedKey, RatchetKeys, 2) /\ Len(root) = 2
  <2>1. DistinctKeys(RatchetKeys, 2, RatchetKey)
    BY RatchetKeysDistinct
  <2>2. /\ \A i \in 1 .. 2 : RatchetKeys[i] \in RatchetKey
        /\ \A i \in 1 .. 1 : RatchetKeys[i] \in RatchetKey
        /\ a \in RatchetKey /\ SharedKey \in Secret
        /\ 1 \in Nat \ {0} /\ 2 \in Nat \ {0} /\ 1 + 1 = 2
    BY <1>1, <2>1 DEF DistinctKeys, Secret
  <2>3. \A k \in RatchetKey : RatchetKeys[1 + 1] = k =>
          Append(RootAt(SharedKey, RatchetKeys, 1), Dh(k, RatchetKeys[1]))
             = RootAt(SharedKey, RatchetKeys, 1 + 1)
    BY <2>2, SecretsClosed, RootFacts
  <2>4. Len(RootAt(SharedKey, RatchetKeys, 2)) = 2
    BY <2>2, SecretsClosed, RootFacts
  <2>. HIDE DEF a, b
  <2>5. Append(<<SharedKey>>, Dh(a, b)) = RootAt(SharedKey, RatchetKeys, 2)
    BY <1>1, <1>2, <2>2, <2>3
  <2>. QED BY <2>4, <2>5 DEF KdfRootKey
<1>4. ratchet["alice"] = alice /\ ratchet["bob"] = bob
  BY DEF Init, Party
<1>5. \A p \in Party : Len(sent[p]) = 0 /\ 1 .. Len(sent[p]) = {}
  BY DEF Init
<1>. HIDE DEF a, b, root
<1>6. /\ alice.rootKey = root
      /\ alice.sendingRatchetKey = a /\ alice.receivingRatchetKey = b
      /\ alice.sendingChainKey = FirstChainKey(root)
      /\ alice.receivingChainKey = NoChain
      /\ alice.sendMessageNumber = 0 /\ alice.receiveMessageNumber = 0
      /\ alice.previousSendingChainLength = 0
      /\ Len(alice.skippedMessageKeys) = 0
  BY DEF InitAlice, root
<1>7. /\ bob.rootKey = <<SharedKey>>
      /\ bob.sendingRatchetKey = b /\ bob.receivingRatchetKey = NoKey
      /\ bob.sendingChainKey = NoChain /\ bob.receivingChainKey = NoChain
      /\ bob.sendMessageNumber = 0 /\ bob.receiveMessageNumber = 0
      /\ bob.previousSendingChainLength = 0
      /\ Len(bob.skippedMessageKeys) = 0
  BY DEF InitBob
<1>. HIDE DEF alice, bob
<1>8. InStep(alice, SharedKey, RatchetKeys)
  <2>1. /\ Len(alice.rootKey) = 2
        /\ alice.sendingChainKey = ChainAt(SharedKey, RatchetKeys, 2, 0)
    BY <1>3, <1>6 DEF FirstChainKey, ChainAt
  <2>2. /\ alice.rootKey = RootAt(SharedKey, RatchetKeys, 2)
        /\ alice.sendingRatchetKey = RatchetKeys[2]
        /\ alice.receivingRatchetKey = RatchetKeys[2 - 1]
        /\ alice.sendingChainKey = ChainAt(SharedKey, RatchetKeys, 2, alice.sendMessageNumber)
        /\ 1 .. Len(alice.skippedMessageKeys) = {}
    BY <1>1, <1>3, <1>6, <2>1
  <2>. QED BY <1>6, <2>1, <2>2 DEF InStep
<1>9. InStep(bob, SharedKey, RatchetKeys)
  BY <1>1, <1>2, <1>7 DEF InStep
<1>10. \A p \in Party :
         /\ InStep(ratchet[p], SharedKey, RatchetKeys)
         /\ ratchet[p].receiveMessageNumber = 0 /\ ratchet[p].sendMessageNumber = 0
         /\ ratchet[p].previousSendingChainLength = 0
  BY <1>4, <1>6, <1>7, <1>8, <1>9 DEF Party
<1>11. \E p \in Party : Turns(p) = Turns(Peer(p)) + 1
  <2>1. Turns("alice") = 2 /\ Turns("bob") = 1
    BY <1>2, <1>3, <1>4, <1>6, <1>7 DEF Turns
  <2>. QED BY <2>1 DEF Party, Peer
<1>12. ASSUME NEW p \in Party
       PROVE  SentInStep(sent[p], ratchet[p]) /\ PassedKeysKept(p) /\ NotAhead(p)
  <2>1. HeaderOf(ratchet[p]).messageNumber = 0 /\ HeaderOf(ratchet[p]).previousChainLength = 0
    BY <1>10 DEF HeaderOf
  <2>2. Numbered(sent[p], HeaderOf(ratchet[p]), Turns(p), 1 .. Len(sent[p]))
    BY <1>5, <2>1 DEF Numbered
  <2>3. Peer(p) \in Party
    BY PartyFacts
  <2>4. SentInStep(sent[p], ratchet[p])
    BY <1>5, <2>2 DEF SentInStep, Turns
  <2>5. PassedKeysKept(p)
    BY <1>5, <2>3 DEF PassedKeysKept
  <2>6. NotAhead(p)
    BY <1>10, <2>3 DEF NotAhead
  <2>. QED BY <2>4, <2>5, <2>6
<1>. QED BY <1>10, <1>11, <1>12 DEF LockstepInv
(* A header says the same of more messages, if none of those added is of   *)
(* the root before.                                                        *)
LEMMA NumberedGrows ==
    ASSUME NEW messages, NEW more, NEW h, NEW n, NEW J,
           Numbered(messages, h, n, J), J \subseteq 1 .. Len(messages),
           \A j \in 1 .. Len(messages) : more[j] = messages[j],
           \A j \in 1 .. Len(more) : j \in 1 .. Len(messages) \/ ChainOf(more[j]) + 2 # n
    PROVE  Numbered(more, h, n, J)
<1>1. \A j \in 1 .. Len(more) :
        ChainOf(more[j]) + 2 = n => more[j].header.messageNumber < h.previousChainLength
  BY DEF Numbered
<1>2. \A j \in J : more[j] = messages[j]
  OBVIOUS
<1>. QED BY <1>1, <1>2 DEF Numbered

(* One more message of the chain the ratchet is on.                        *)
LEMMA SentInStepGrows ==
    ASSUME NEW messages \in Seq(Message), NEW s, NEW t, NEW m \in Message,
           NEW l \in Nat, l >= 2, l = Len(s.rootKey), l = Len(t.rootKey),
           SentInStep(messages, s),
           SealedAt(m, SharedKey, RatchetKeys, l), m.header = HeaderOf(s),
           m.seal.key = KeyOn(l, s.sendMessageNumber), s.sendMessageNumber \in Nat,
           t.sendMessageNumber = s.sendMessageNumber + 1,
           t.previousSendingChainLength = s.previousSendingChainLength
    PROVE  SentInStep(Append(messages, m), t)
<1> DEFINE more == Append(messages, m)
           len == Len(messages)
           number == s.sendMessageNumber
           prev == s.previousSendingChainLength
<1>1. /\ len \in Nat /\ Len(more) = len + 1
      /\ \A j \in 1 .. len : more[j] = messages[j]
      /\ more[len + 1] = m
  BY LenProperties, AppendProperties
<1>2. ChainOf(m) = l
  BY KeyOnFacts DEF ChainOf
<1>3. /\ HeaderOf(s).messageNumber = number /\ HeaderOf(s).previousChainLength = prev
      /\ HeaderOf(t).messageNumber = number + 1 /\ HeaderOf(t).previousChainLength = prev
  BY DEF HeaderOf
<1>4. /\ \A i \in 1 .. len :
            /\ ChainOf(messages[i]) \in 2 .. l
            /\ SealedAt(messages[i], SharedKey, RatchetKeys, ChainOf(messages[i]))
            /\ Numbered(messages, messages[i].header, ChainOf(messages[i]), 1 .. i - 1)
      /\ Numbered(messages, HeaderOf(s), l, 1 .. len)
  BY DEF SentInStep
<1>. HIDE DEF more, len, number, prev
<1>5. \A j \in 1 .. Len(more) : j \in 1 .. len \/ more[j] = m
  <2>1. \A j \in 1 .. Len(more) : j \in 1 .. len \/ j = len + 1
    BY <1>1
  <2>. QED BY <1>1, <2>1
<1>6. ASSUME NEW n \in 2 .. l, NEW h, NEW J \in SUBSET (1 .. len), Numbered(messages, h, n, J)
      PROVE  Numbered(more, h, n, J)
  <2>1. l + 2 # n
    OBVIOUS
  <2>2. \A j \in 1 .. Len(more) : j \in 1 .. len \/ ChainOf(more[j]) + 2 # n
    BY <1>2, <1>5, <2>1
  <2>. QED BY <1>1, <1>6, <2>2, NumberedGrows DEF len
<1>7. ASSUME NEW i \in 1 .. Len(more)
      PROVE  /\ ChainOf(more[i]) \in 2 .. l
             /\ SealedAt(more[i], SharedKey, RatchetKeys, ChainOf(more[i]))
             /\ Numbered(more, more[i].header, ChainOf(more[i]), 1 .. i - 1)
  <2>1. CASE i \in 1 .. len
    <3>1. 1 .. i - 1 \in SUBSET (1 .. len)
      BY <1>1, <2>1
    <3>2. Numbered(more, messages[i].header, ChainOf(messages[i]), 1 .. i - 1)
      BY <1>4, <1>6, <2>1, <3>1
    <3>. QED BY <1>1, <1>4, <2>1, <3>2
  <2>2. CASE i = len + 1
    <3>1. 1 .. i - 1 = 1 .. len /\ l \in 2 .. l
      BY <1>1, <2>2
    <3>2. Numbered(more, HeaderOf(s), l, 1 .. i - 1)
      BY <1>4, <1>6, <3>1
    <3>. QED BY <1>1, <1>2, <2>2, <3>1, <3>2
  <2>3. i \in 1 .. len \/ i = len + 1
    BY <1>1
  <2>. QED BY <2>1, <2>2, <2>3
<1>8. Numbered(more, HeaderOf(t), l, 1 .. Len(more))
  <2>1. l \in 2 .. l
    OBVIOUS
  <2>2. Numbered(more, HeaderOf(s), l, 1 .. len)
    BY <1>4, <1>6, <2>1
  <2>3. 1 .. len \subseteq 1 .. Len(more) /\ len + 1 \in 1 .. Len(more)
    BY <1>1
  <2>4. \A j \in 1 .. Len(more) :
          ChainOf(more[j]) + 2 = l => more[j].header.messageNumber < prev
    BY <1>3, <2>2 DEF Numbered
  <2>5. \A step \in 0 .. prev - 1 :
          \E j \in 1 .. Len(more) : more[j].seal.key = KeyOn(l - 2, step)
    BY <1>3, <2>2, <2>3 DEF Numbered
  <2>6. ASSUME NEW step \in 0 .. (number + 1) - 1
        PROVE  \E j \in 1 .. Len(more) : more[j].seal.key = KeyOn(l, step)
    <3>1. number \in Nat
      BY DEF number
    <3>2. step = number \/ step \in 0 .. number - 1
      BY <3>1
    <3>3. CASE step = number
      BY <1>1, <2>3, <3>3 DEF number
    <3>4. CASE step \in 0 .. number - 1
      BY <1>3, <2>2, <2>3, <3>4 DEF Numbered
    <3>. QED BY <3>2, <3>3, <3>4
  <2>. QED BY <1>3, <2>4, <2>5, <2>6 DEF Numbered
<1>. QED BY <1>7, <1>8 DEF SentInStep, more
(* The header after a turn speaks of the chain that was sent on before it. *)
LEMMA SentInStepTurns ==
    ASSUME NEW messages, Len(messages) \in Nat, NEW s, NEW t,
           NEW l \in Nat, l = Len(s.rootKey), Len(t.rootKey) = l + 2,
           SentInStep(messages, s),
           t.sendMessageNumber = 0, t.previousSendingChainLength = s.sendMessageNumber,
           \A i \in 1 .. Len(messages) :
              ChainOf(messages[i]) = l => messages[i].header.messageNumber < s.sendMessageNumber
    PROVE  SentInStep(messages, t)
<1> DEFINE number == s.sendMessageNumber
           n == l + 2
<1>1. /\ HeaderOf(s).messageNumber = number
      /\ HeaderOf(t).messageNumber = 0 /\ HeaderOf(t).previousChainLength = number
  BY DEF HeaderOf
<1>2. /\ \A i \in 1 .. Len(messages) :
            /\ ChainOf(messages[i]) \in 2 .. l
            /\ SealedAt(messages[i], SharedKey, RatchetKeys, ChainOf(messages[i]))
            /\ Numbered(messages, messages[i].header, ChainOf(messages[i]), 1 .. i - 1)
      /\ Numbered(messages, HeaderOf(s), l, 1 .. Len(messages))
  BY DEF SentInStep
<1>3. \A i \in 1 .. Len(messages) : ChainOf(messages[i]) \in 2 .. n
  BY <1>2
<1>4. \A i \in 1 .. Len(messages) :
        ChainOf(messages[i]) + 2 = n => messages[i].header.messageNumber < number
  <2>1. \A i \in 1 .. Len(messages) : ChainOf(messages[i]) \in Nat
    BY <1>2
  <2>2. \A i \in 1 .. Len(messages) : ChainOf(messages[i]) + 2 = n => ChainOf(messages[i]) = l
    BY <2>1
  <2>. QED BY <2>2
<1>5. n - 2 = l
  OBVIOUS
<1>. HIDE DEF n, number
<1>6. \A step \in 0 .. number - 1 :
        \E j \in 1 .. Len(messages) : messages[j].seal.key = KeyOn(n - 2, step)
  BY <1>1, <1>2, <1>5 DEF Numbered
<1>7. 0 .. 0 - 1 = {}
  OBVIOUS
<1>8. Numbered(messages, HeaderOf(t), n, 1 .. Len(messages))
  BY <1>1, <1>4, <1>6, <1>7 DEF Numbered
<1>9. Len(t.rootKey) = n
  BY DEF n
<1>. QED BY <1>2, <1>3, <1>8, <1>9 DEF SentInStep

(* Sending keeps the conversation in step.                                 *)
LEMMA SendKeepsLockstep ==
    ASSUME ChannelInv, LockstepInv, NEW p \in Party, Send(p)
    PROVE  LockstepInv'
<1> DEFINE q == Peer(p)
           s == ratchet[p]
           t == AfterEncrypt(s)
           messages == sent[p]
           m == EncryptedMessage(s, Len(messages) + 1)
           l == Turns(p)
           next == s.sendMessageNumber
<1>1. q \in Party /\ q # p /\ Peer(q) = p /\ \A x \in Party : x = p \/ x = q
  BY PartyFacts
<1>2. /\ ratchet' = [ratchet EXCEPT ![p] = t]
      /\ sent' = [sent EXCEPT ![p] = Append(messages, m)]
      /\ delivered' = delivered /\ evicted' = evicted
      /\ CanEncrypt(s)
  BY DEF Send
<1>3. /\ ratchet \in [Party -> RatchetState] /\ sent \in [Party -> Seq(Message)]
      /\ sent' \in [Party -> Seq(Message)]
  BY SendStep DEF ChannelInv, TypeOK
<1>4. /\ ratchet'[p] = t /\ ratchet'[q] = ratchet[q]
      /\ sent'[p] = Append(messages, m) /\ sent'[q] = sent[q]
  BY <1>1, <1>2, <1>3
<1>5. /\ s \in RatchetStates(RatchetKey, Secret, {AssociatedData})
      /\ InStep(s, SharedKey, RatchetKeys)
      /\ Len(s.rootKey) >= 1 /\ l = Len(s.rootKey) /\ l \in Nat
  BY InvFacts, FreshIsNext DEF Good, GoodRatchet, LockstepInv, Turns
<1>6. /\ InStep(t, SharedKey, RatchetKeys)
      /\ t.rootKey = s.rootKey
      /\ t.receivingChainKey = s.receivingChainKey
      /\ StoredKeys(t) = StoredKeys(s)
      /\ t.sendMessageNumber = next + 1
      /\ t.previousSendingChainLength = s.previousSendingChainLength
      /\ l >= 2
      /\ SealedAt(m, SharedKey, RatchetKeys, l)
      /\ m.header = HeaderOf(s)
      /\ m.seal.key = KeyOn(l, next)
  <2> DEFINE x == Len(messages) + 1
  <2>1. /\ s \in RatchetStates(RatchetKey, Secret, {AssociatedData})
        /\ InStep(s, SharedKey, RatchetKeys) /\ Len(s.rootKey) >= 1 /\ CanEncrypt(s)
        /\ m = EncryptedMessage(s, x) /\ t = AfterEncrypt(s)
        /\ next = s.sendMessageNumber
    BY <1>2, <1>5
  <2>. HIDE DEF s, x, m, t, next
  <2>2. /\ InStep(AfterEncrypt(s), SharedKey, RatchetKeys)
        /\ SealedAt(EncryptedMessage(s, x), SharedKey, RatchetKeys, Len(s.rootKey))
        /\ Len(s.rootKey) >= 2
    BY <2>1, EncryptKeepsInStep
  <2>3. /\ t.rootKey = s.rootKey
        /\ t.receivingChainKey = s.receivingChainKey
        /\ t.sendMessageNumber = next + 1
        /\ t.previousSendingChainLength = s.previousSendingChainLength
        /\ t.skippedMessageKeys = s.skippedMessageKeys
    BY <2>1 DEF AfterEncrypt, RatchetStates
  <2>4. StoredKeys(t) = StoredKeys(s)
    BY <2>3 DEF StoredKeys
  <2>5. m.header = HeaderOf(s) /\ m.header.messageNumber = next
    BY <2>1 DEF EncryptedMessage, HeaderOf
  <2>6. m.seal.key = KeyOn(l, next)
    BY <1>5, <2>1, <2>2, <2>5 DEF SealedAt, KeyOn
  <2>. QED BY <1>5, <2>1, <2>2, <2>3, <2>4, <2>5, <2>6
<1>7. t.receiveMessageNumber = s.receiveMessageNumber
  BY <1>5 DEF AfterEncrypt, RatchetStates
<1>8. next \in Nat /\ ratchet[q].receiveMessageNumber \in Nat
      /\ ratchet[q].sendMessageNumber \in Nat
  BY <1>1, ChainsOfRatchet
<1>9. messages \in Seq(Message) /\ Len(messages) \in Nat
  BY InvFacts
<1>10. m \in Message
  <2>1. m = sent'[p][Len(messages) + 1] /\ Len(sent'[p]) = Len(messages) + 1
    <3>1. Append(messages, m)[Len(messages) + 1] = m
      BY <1>9
    <3>2. Len(Append(messages, m)) = Len(messages) + 1
      BY <1>9
    <3>. QED BY <1>4, <3>1, <3>2
  <2>2. sent'[p] \in Seq(Message)
    BY <1>3
  <2>. QED BY <1>9, <2>1, <2>2, ElementOfSeq
<1>. HIDE DEF q, s, t, m, messages, next
<1>11. SentInStep(sent'[p], t)
  <2>1. SentInStep(messages, s)
    BY DEF LockstepInv, messages, s
  <2>2. Len(s.rootKey) = l /\ Len(t.rootKey) = l
    BY <1>5, <1>6
  <2>3. SentInStep(Append(messages, m), t)
    BY <1>5, <1>6, <1>8, <1>9, <1>10, <2>1, <2>2, SentInStepGrows DEF next
  <2>. QED BY <1>4, <2>3
<1>12. Turns(p)' = l /\ Turns(q)' = Turns(q) /\ Turns(Peer(p))' = Turns(q)
       /\ Turns(Peer(q))' = l
  <2>1. Turns(p)' = l /\ Turns(q)' = Turns(q)
    BY <1>1, <1>4, <1>5, <1>6 DEF Turns
  <2>. QED BY <1>1, <2>1 DEF q
<1>13. \E x \in Party : Turns(x)' = Turns(Peer(x))' + 1
  <2>1. Turns(p) = Turns(q) + 1 \/ Turns(q) = Turns(p) + 1
    BY OneTurnApart DEF q
  <2>2. Turns(p)' = Turns(Peer(p))' + 1 \/ Turns(q)' = Turns(Peer(q))' + 1
    BY <1>12, <2>1
  <2>. QED BY <1>1, <2>2
<1>14. PassedKeysKept(p)'
  <2>1. PassedKeysKept(p)
    BY DEF LockstepInv
  <2>. QED BY <1>2, <1>4, <1>6, <2>1 DEF PassedKeysKept, SentKey, Received, q, s
<1>15. ~Before(KeyOn(l, next), ratchet[q].receivingChainKey)
  <2>1. Turns(q) = l + 1 \/ Turns(q) = l - 1
    <3>1. l = Turns(q) + 1 \/ Turns(q) = l + 1
      BY OneTurnApart DEF q
    <3>2. Turns(q) \in Nat
      BY <1>1, FreshIsNext
    <3>. QED BY <1>5, <3>1, <3>2
  <2>2. Turns(q) = l + 1 => ratchet[q].receiveMessageNumber <= next
    <3>1. NotAhead(q)
      BY <1>1 DEF LockstepInv
    <3>. QED BY <1>1, <3>1 DEF NotAhead, next, s
  <2>3. l \in Nat \ {0} /\ Before(KeyOn(l, next), ratchet[q].receivingChainKey)
          <=> /\ Turns(q) >= 3
              /\ \/ l < Turns(q) - 1
                 \/ l = Turns(q) - 1 /\ next < ratchet[q].receiveMessageNumber
    <3>1. l \in Nat \ {0}
      BY <1>5, <1>6
    <3>. QED BY <1>1, <1>8, <3>1, ChainsOfRatchet
  <2>. QED BY <1>5, <1>6, <1>8, <2>1, <2>2, <2>3
<1>16. PassedKeysKept(q)'
  <2>1. PassedKeysKept(q)
    BY <1>1 DEF LockstepInv
  <2>2. Peer(q) = p
    BY <1>1
  <2>3. \A i \in 1 .. Len(sent'[p]) :
          \/ i \in 1 .. Len(sent[p]) /\ sent'[p][i] = sent[p][i]
          \/ sent'[p][i].seal.key = KeyOn(l, next)
    <3>1. /\ Len(Append(messages, m)) = Len(messages) + 1
          /\ \A i \in 1 .. Len(messages) : Append(messages, m)[i] = messages[i]
          /\ Append(messages, m)[Len(messages) + 1] = m
      BY <1>9, <1>10, AppendProperties
    <3>2. \A i \in 1 .. Len(messages) + 1 : i \in 1 .. Len(messages) \/ i = Len(messages) + 1
      BY <1>9
    <3>. QED BY <1>4, <1>6, <3>1, <3>2 DEF messages
  <2>4. ASSUME NEW i \in 1 .. Len(sent'[p]),
               Before(sent'[p][i].seal.key, ratchet'[q].receivingChainKey)
        PROVE  \/ i \in Received(q)'
               \/ sent'[p][i].seal.key \in StoredKeys(ratchet'[q])
               \/ sent'[p][i].seal.key \in evicted'[q]
    <3>1. i \in 1 .. Len(sent[p]) /\ sent'[p][i] = sent[p][i]
      BY <1>4, <1>15, <2>3, <2>4
    <3>2. Before(SentKey(p, i), ratchet[q].receivingChainKey)
      BY <1>4, <2>4, <3>1 DEF SentKey
    <3>3. \/ i \in Received(q)
          \/ SentKey(p, i) \in StoredKeys(ratchet[q])
          \/ SentKey(p, i) \in evicted[q]
      BY <2>1, <2>2, <3>1, <3>2 DEF PassedKeysKept
    <3>. QED BY <1>2, <1>4, <3>1, <3>3 DEF SentKey, Received
  <2>. QED BY <2>2, <2>4 DEF PassedKeysKept, SentKey
<1>17. NotAhead(p)'
  <2>1. NotAhead(p)
    BY DEF LockstepInv
  <2>. QED BY <1>4, <1>7, <1>12, <2>1 DEF NotAhead, q, s, l
<1>18. NotAhead(q)'
  <2>1. NotAhead(q)
    BY <1>1 DEF LockstepInv
  <2>2. Turns(q) = l + 1 => ratchet[q].receiveMessageNumber <= next
    BY <1>1, <2>1 DEF NotAhead, next, s
  <2>3. Turns(q)' = Turns(Peer(q))' + 1
          => ratchet'[q].receiveMessageNumber <= ratchet'[p].sendMessageNumber
    BY <1>4, <1>6, <1>8, <1>12, <2>2
  <2>. QED BY <1>1, <2>3 DEF NotAhead
<1>19. SentInStep(sent'[q], ratchet'[q]) /\ InStep(ratchet'[q], SharedKey, RatchetKeys)
  BY <1>1, <1>4 DEF LockstepInv
<1>20. ASSUME NEW x \in Party
       PROVE  /\ InStep(ratchet'[x], SharedKey, RatchetKeys)
              /\ SentInStep(sent'[x], ratchet'[x])
              /\ PassedKeysKept(x)' /\ NotAhead(x)'
  <2>1. CASE x = p
    BY <1>4, <1>6, <1>11, <1>14, <1>17, <2>1
  <2>2. CASE x = q
    BY <1>16, <1>18, <1>19, <2>2
  <2>. QED BY <1>1, <2>1, <2>2
<1>. QED BY <1>13, <1>20 DEF LockstepInv
(* The invariant is about the values of the variables.                     *)
LEMMA LockstepUnchanged ==
    ASSUME LockstepInv, UNCHANGED vars
    PROVE  LockstepInv'
<1>1. ratchet' = ratchet /\ sent' = sent /\ delivered' = delivered /\ evicted' = evicted
  BY DEF vars
<1>2. \A p \in Party :
        /\ Turns(p)' = Turns(p) /\ Turns(Peer(p))' = Turns(Peer(p))
        /\ PassedKeysKept(p) => PassedKeysKept(p)'
        /\ NotAhead(p) => NotAhead(p)'
  BY <1>1 DEF Turns, PassedKeysKept, NotAhead, SentKey, Received
<1>3. \E p \in Party : Turns(p)' = Turns(Peer(p))' + 1
  BY <1>2 DEF LockstepInv
<1>4. \A p \in Party :
        /\ InStep(ratchet'[p], SharedKey, RatchetKeys)
        /\ SentInStep(sent'[p], ratchet'[p]) /\ PassedKeysKept(p)' /\ NotAhead(p)'
  BY <1>1, <1>2 DEF LockstepInv
<1>. QED BY <1>3, <1>4 DEF LockstepInv

(* A message that is refused leaves everything as it was.                  *)
LEMMA RefusalChangesNothing ==
    ASSUME ChannelInv, NEW p \in Party, NEW m, Decrypt(p, m),
           ~RatchetDecrypt(ratchet[p], m, Fresh(p)).ok
    PROVE  UNCHANGED vars
<1> DEFINE r == RatchetDecrypt(ratchet[p], m, Fresh(p))
<1>1. r.state = ratchet[p]
  BY DEF RatchetDecrypt
<1>2. /\ ratchet' = [ratchet EXCEPT ![p] = r.state]
      /\ delivered' = delivered /\ sent' = sent
      /\ evicted' = [evicted EXCEPT ![p] =
                        @ \cup MadeWay(ratchet[p], r.state)]
  BY DEF Decrypt
<1>3. ratchet \in [Party -> RatchetState] /\ evicted \in [Party -> SUBSET ChainKey]
  BY DEF ChannelInv, TypeOK
<1>. HIDE DEF r
<1>4. ratchet' = ratchet
  BY <1>1, <1>2, <1>3
<1>5. evicted' = evicted
  <2>1. MadeWay(ratchet[p], r.state) = {}
    BY <1>1 DEF MadeWay
  <2>. QED BY <1>2, <1>3, <2>1
<1>. QED BY <1>2, <1>4, <1>5 DEF vars

(* Decrypting a message lets go of its own key and of keys that had to make*)
(* way, and of no other.                                                   *)
LEMMA ReceiverLetsGo ==
    ASSUME ChannelInv, NEW p \in Party, NEW m \in Message,
           RatchetDecrypt(ratchet[p], m, Fresh(p)).ok
    PROVE  LET t == RatchetDecrypt(ratchet[p], m, Fresh(p)).state
           IN  \A k \in StoredKeys(ratchet[p]) \ StoredKeys(t) :
                  k = m.seal.key \/ k \in MadeWay(ratchet[p], t)
<1> DEFINE s == ratchet[p]
           fresh == Fresh(p)
<1>1. Good(s, p) /\ fresh \in RatchetKey /\ Parity(p) \in {0, 1}
  BY InvFacts, PartyFacts, FreshIsNext
<1>. HIDE DEF s, fresh
<1>2. LET x == RatchetDecrypt(s, m, fresh)
      IN  x.ok => \A k \in StoredKeys(s) \ StoredKeys(x.state) :
                     k = m.seal.key \/ k \in MadeWay(s, x.state)
  BY <1>1, SecretsClosed, RatchetDecryptKeepsRatchetGood DEF Good, Message
<1>. QED BY <1>2 DEF s, fresh

(* A header that is not the one the message was sealed with never opens.   *)
LEMMA AlteredIsRefused ==
    ASSUME NEW s, NEW m, NEW fresh, m.seal.header # m.header
    PROVE  ~RatchetDecrypt(s, m, fresh).ok
<1>1. \A t, key : ~Opens(t, m, key)
  BY DEF Opens
<1>2. ~DecryptSkipped(s, m).ok
  BY <1>1 DEF DecryptSkipped
<1>3. \A t : ~DecryptOnChain(t, m).ok
  BY <1>1 DEF DecryptOnChain
<1>4. ~DecryptInternal(s, m, fresh).ok
  BY <1>2, <1>3 DEF DecryptInternal
<1>. QED BY <1>4 DEF RatchetDecrypt
(* Receiving keeps the conversation in step.                               *)
LEMMA ReceiveKeepsLockstep ==
    ASSUME ChannelInv, LockstepInv, NEW p \in Party, NEW i \in 1 .. Len(sent[Peer(p)]),
           Decrypt(p, sent[Peer(p)][i])
    PROVE  LockstepInv'
<1> DEFINE q == Peer(p)
           s == ratchet[p]
           m == sent[q][i]
           n == ChainOf(m)
           r == RatchetDecrypt(s, m, Fresh(p))
           t == r.state
           l == Turns(p)
           number == m.header.messageNumber
           prev == m.header.previousChainLength
<1>1. q \in Party /\ q # p /\ Peer(q) = p /\ \A x \in Party : x = p \/ x = q
  BY PartyFacts
<1>2. SUFFICES ASSUME r.ok PROVE LockstepInv'
  <2>1. CASE ~r.ok
    <3>1. UNCHANGED vars
      BY <2>1, RefusalChangesNothing
    <3>. QED BY <3>1, LockstepUnchanged
  <2>. QED BY <2>1
<1>3. Meets(m, n, s, Fresh(p), SharedKey, RatchetKeys, l + 2, RatchetKey, Secret, {AssociatedData})
  BY MessageMeets
<1>4. /\ l \in Nat /\ l >= 1 /\ l % 2 = Parity(p) /\ l = Len(s.rootKey)
      /\ Turns(q) \in Nat /\ Turns(q) >= 1 /\ Turns(q) % 2 = Parity(q) /\ Parity(q) # Parity(p)
  BY <1>1, FreshIsNext, PartyFacts DEF Turns
<1>5. l = Turns(q) + 1 \/ Turns(q) = l + 1
  BY OneTurnApart
<1>6. /\ n \in Nat /\ n >= 2 /\ n <= Turns(q)
      /\ number \in Nat /\ prev \in Nat
      /\ SentKey(q, i) = KeyOn(n, number)
      /\ Numbered(sent[q], m.header, n, 1 .. i - 1)
  BY <1>1, SentFacts
<1>7. /\ ratchet' = [ratchet EXCEPT ![p] = t]
      /\ delivered' = [delivered EXCEPT ![p] = Append(@, m.seal.plaintext)]
      /\ sent' = sent
      /\ evicted' = [evicted EXCEPT ![p] =
                        @ \cup MadeWay(s, t)]
  BY <1>2 DEF Decrypt
<1>8. /\ ratchet \in [Party -> RatchetState] /\ delivered \in [Party -> Seq(Nat)]
      /\ evicted \in [Party -> SUBSET ChainKey]
  BY DEF ChannelInv, TypeOK
<1>9. /\ ratchet'[p] = t /\ ratchet'[q] = ratchet[q]
      /\ delivered'[p] = Append(delivered[p], m.seal.plaintext) /\ delivered'[q] = delivered[q]
      /\ evicted'[q] = evicted[q]
      /\ evicted'[p] = evicted[p] \cup MadeWay(s, t)
  BY <1>1, <1>7, <1>8
<1>10. m.seal.plaintext = i /\ m.seal.key = SentKey(q, i)
  <2>1. SentInv(q)
    BY <1>1, InvFacts
  <2>. QED BY <2>1 DEF SentInv, SentKey
<1>22. \A k \in StoredKeys(s) \ StoredKeys(t) : k = m.seal.key \/ k \in MadeWay(s, t)
  <2>1. m \in Message
    BY <1>1, InvFacts
  <2>. HIDE DEF m
  <2>. QED BY <1>2, <2>1, ReceiverLetsGo
<1>. HIDE DEF s, m, n, r, t, l, number, prev, q
<1>11. /\ InStep(t, SharedKey, RatchetKeys)
       /\ n # l + 1 => /\ t.rootKey = s.rootKey
                       /\ HeaderOf(t) = HeaderOf(s)
       /\ n = l + 1 => /\ Len(t.rootKey) = l + 2
                       /\ t.sendMessageNumber = 0
                       /\ t.previousSendingChainLength = s.sendMessageNumber
       /\ \/ n # l + 1 /\ t.receiveMessageNumber = s.receiveMessageNumber
          \/ n >= l - 1 /\ t.receiveMessageNumber = number + 1
       /\ \A k \in 2 .. l + 2, step \in Nat :
             k % 2 # l % 2 /\ Before(KeyOn(k, step), t.receivingChainKey)
             => \/ Before(KeyOn(k, step), s.receivingChainKey)
                \/ KeyOn(k, step) = m.seal.key
                \/ KeyOn(k, step) \in StoredKeys(t)
                \/ n = l + 1 /\ k = l - 1 /\ step >= prev
  <2> DEFINE A == {AssociatedData}
  <2>1. /\ Meets(m, n, s, Fresh(p), SharedKey, RatchetKeys, l + 2, RatchetKey, Secret, A)
        /\ RatchetDecrypt(s, m, Fresh(p)).ok
        /\ t = RatchetDecrypt(s, m, Fresh(p)).state
    BY <1>2, <1>3 DEF r, t
  <2>. HIDE DEF A
  <2>2. OpenedInStep(s, t, m, n, SharedKey, RatchetKeys, l + 2, RatchetKey, Secret, A)
    BY <2>1, DecryptKeepsInStep
  <2>. QED BY <1>4, <2>2 DEF OpenedInStep, number, prev, KeyOn
<1>12. /\ n # l + 1 => Turns(p)' = l
       /\ n = l + 1 => Turns(p)' = l + 2
       /\ Turns(q)' = Turns(q)
       /\ Turns(Peer(p))' = Turns(q) /\ Turns(Peer(q))' = Turns(p)'
  <2>1. Turns(p)' = Len(t.rootKey) /\ Turns(q)' = Turns(q)
    BY <1>9 DEF Turns
  <2>. QED BY <1>1, <1>4, <1>11, <2>1 DEF q
<1>13. n = l + 1 => Turns(q) = l + 1
  BY <1>4, <1>5, <1>6
<1>14. \E x \in Party : Turns(x)' = Turns(Peer(x))' + 1
  <2>1. Turns(p)' = Turns(Peer(p))' + 1 \/ Turns(q)' = Turns(Peer(q))' + 1
    BY <1>4, <1>5, <1>12, <1>13
  <2>. QED BY <1>1, <2>1
<1>15. SentInStep(sent'[p], ratchet'[p])
  <2>1. SentInStep(sent[p], s)
    BY DEF LockstepInv, s
  <2>2. CASE n # l + 1
    <3>1. Len(t.rootKey) = Len(s.rootKey) /\ HeaderOf(t) = HeaderOf(s)
      BY <1>11, <2>2
    <3>. QED BY <1>7, <1>9, <2>1, <3>1 DEF SentInStep
  <2>3. CASE n = l + 1
    <3>1. \A j \in 1 .. Len(sent[p]) :
            ChainOf(sent[p][j]) = l => sent[p][j].header.messageNumber < s.sendMessageNumber
      BY SentIsNumbered DEF s, l
    <3>2. Len(sent[p]) \in Nat
      BY InvFacts
    <3>3. SentInStep(sent[p], t)
      BY <1>4, <1>11, <2>1, <2>3, <3>1, <3>2, SentInStepTurns
    <3>. QED BY <1>7, <1>9, <3>3
  <2>. QED BY <2>2, <2>3
<1>16. PassedKeysKept(p)'
  <2>1. PassedKeysKept(p)
    BY DEF LockstepInv
  <2>2. Received(p)' = Received(p) \cup {i}
    <3>1. delivered[p] \in Seq(Nat) /\ Len(delivered[p]) \in Nat /\ i \in Nat
      BY <1>8, InvFacts
    <3> DEFINE d == Append(delivered[p], i)
    <3>2. /\ Len(d) = Len(delivered[p]) + 1 /\ d \in Seq(Nat)
          /\ \A j \in 1 .. Len(delivered[p]) : d[j] = delivered[p][j]
          /\ d[Len(delivered[p]) + 1] = i
      BY <3>1, AppendProperties
    <3>3. ToSet(delivered[p]) = {delivered[p][j] : j \in 1 .. Len(delivered[p])}
      BY <3>1, LenProperties DEF ToSet
    <3>. HIDE DEF d
    <3>4. ToSet(d) = {d[j] : j \in 1 .. Len(d)}
      BY <3>2, LenProperties DEF ToSet
    <3>5. 1 .. Len(d) = (1 .. Len(delivered[p])) \cup {Len(delivered[p]) + 1}
      BY <3>1, <3>2
    <3>6. ToSet(d) = ToSet(delivered[p]) \cup {i}
      <4>1. ASSUME NEW x \in ToSet(d) PROVE x \in ToSet(delivered[p]) \cup {i}
        <5>1. PICK j \in 1 .. Len(d) : d[j] = x
          BY <3>4
        <5>2. j \in 1 .. Len(delivered[p]) \/ j = Len(delivered[p]) + 1
          BY <3>5
        <5>. QED BY <3>2, <3>3, <5>1, <5>2
      <4>2. i \in ToSet(d)
        BY <3>2, <3>4, <3>5
      <4>3. ASSUME NEW x \in ToSet(delivered[p]) PROVE x \in ToSet(d)
        <5>1. PICK j \in 1 .. Len(delivered[p]) : delivered[p][j] = x
          BY <3>3
        <5>2. j \in 1 .. Len(d) /\ d[j] = x
          BY <3>2, <3>5, <5>1
        <5>. QED BY <3>4, <5>2
      <4>. QED BY <4>1, <4>2, <4>3
    <3>7. delivered'[p] = d
      BY <1>9, <1>10 DEF d
    <3>. QED BY <3>6, <3>7 DEF Received
  <2>3. ASSUME NEW j \in 1 .. Len(sent[q]), Before(SentKey(q, j), t.receivingChainKey),
               SentKey(q, j) # m.seal.key
        PROVE  \/ j \in Received(p)
               \/ SentKey(q, j) \in StoredKeys(t)
               \/ SentKey(q, j) \in evicted'[p]
    <3> DEFINE k == ChainOf(sent[q][j])
               step == sent[q][j].header.messageNumber
    <3>1. /\ k \in Nat /\ k >= 2 /\ k <= Turns(q) /\ k % 2 = Parity(q)
          /\ step \in Nat /\ SentKey(q, j) = KeyOn(k, step)
      BY <1>1, SentFacts
    <3>2. n = l + 1 => ~(k = l - 1 /\ step >= prev)
      <4>1. k + 2 = n => step < prev
        BY <1>6 DEF Numbered, prev
      <4>. HIDE DEF k, step
      <4>2. l \in Nat /\ k \in Nat /\ step \in Nat /\ prev \in Nat
        BY <1>4, <1>6, <3>1
      <4>3. n = l + 1 /\ k = l - 1 => k + 2 = n
        BY <4>2
      <4>4. step < prev => ~(step >= prev)
        BY <4>2
      <4>. QED BY <4>1, <4>3, <4>4
    <3>. HIDE DEF k, step
    <3>3. k \in 2 .. l + 2 /\ k % 2 # l % 2
      <4>1. k <= l + 2
        BY <1>4, <1>5, <3>1
      <4>2. k % 2 # l % 2
        BY <1>4, <3>1
      <4>3. l \in Nat /\ k \in Nat /\ k >= 2
        BY <1>4, <3>1
      <4>4. k \in 2 .. l + 2
        BY <4>1, <4>3
      <4>. QED BY <4>2, <4>4
    <3>4. \/ Before(SentKey(q, j), s.receivingChainKey)
          \/ SentKey(q, j) \in StoredKeys(t)
      BY <1>11, <2>3, <3>1, <3>2, <3>3
    <3>5. CASE Before(SentKey(q, j), s.receivingChainKey)
      <4>1. \/ j \in Received(p)
            \/ SentKey(q, j) \in StoredKeys(s)
            \/ SentKey(q, j) \in evicted[p]
        BY <2>1, <3>5 DEF PassedKeysKept, q, s
      <4>2. CASE SentKey(q, j) \in StoredKeys(s)
        <5>1. SentKey(q, j) \in StoredKeys(t) \/ SentKey(q, j) \in MadeWay(s, t)
          BY <1>22, <2>3, <4>2
        <5>. QED BY <1>9, <5>1
      <4>. QED BY <1>9, <4>1, <4>2
    <3>. QED BY <3>4, <3>5
  <2>4. \A j \in 1 .. Len(sent[q]) : SentKey(q, j) = m.seal.key => j = i
    <3>1. SentInv(q) /\ i \in 1 .. Len(sent[q])
      BY <1>1, InvFacts DEF q
    <3>. QED BY <1>10, <3>1 DEF SentInv
  <2>5. \A j \in 1 .. Len(sent[q]) :
          Before(SentKey(q, j), t.receivingChainKey)
             => \/ j \in Received(p)'
                \/ SentKey(q, j) \in StoredKeys(t)
                \/ SentKey(q, j) \in evicted'[p]
    BY <2>2, <2>3, <2>4
  <2>. QED BY <1>7, <1>9, <2>5 DEF PassedKeysKept, SentKey, q
<1>17. PassedKeysKept(q)'
  <2>1. PassedKeysKept(q)
    BY <1>1 DEF LockstepInv
  <2>. QED BY <1>1, <1>7, <1>9, <2>1 DEF PassedKeysKept, SentKey, Received
<1>18. NotAhead(p)'
  <2>. SUFFICES ASSUME Turns(p)' = Turns(Peer(p))' + 1
                PROVE  t.receiveMessageNumber <= ratchet[q].sendMessageNumber
    BY <1>9 DEF NotAhead, q
  <2>1. CASE n # l + 1 /\ t.receiveMessageNumber = s.receiveMessageNumber
    <3>1. l = Turns(q) + 1
      BY <1>12, <2>1
    <3>2. NotAhead(p)
      BY DEF LockstepInv
    <3>. QED BY <2>1, <3>1, <3>2 DEF NotAhead, q, s, l
  <2>2. CASE n >= l - 1 /\ t.receiveMessageNumber = number + 1
    <3>1. n = Turns(q)
      BY <1>4, <1>6, <1>12, <1>13, <2>2
    <3>2. number < ratchet[q].sendMessageNumber
      BY <1>1, <3>1, SentIsNumbered DEF n, m, number, q
    <3>3. ratchet[q].sendMessageNumber \in Nat
      BY <1>1, ChainsOfRatchet
    <3>. QED BY <1>6, <2>2, <3>2, <3>3
  <2>. QED BY <1>11, <2>1, <2>2
<1>19. NotAhead(q)'
  <2>1. NotAhead(q)
    BY <1>1 DEF LockstepInv
  <2>2. CASE n = l + 1
    <3>1. ~(Turns(q)' = Turns(Peer(q))' + 1)
      BY <1>4, <1>12, <1>13, <2>2
    <3>. QED BY <3>1 DEF NotAhead
  <2>3. CASE n # l + 1
    <3>1. Turns(q)' = Turns(q) /\ Turns(Peer(q))' = Turns(p) /\ Peer(q) = p
      BY <1>1, <1>12, <2>3 DEF l
    <3>2. t.sendMessageNumber = s.sendMessageNumber
      BY <1>11, <2>3 DEF HeaderOf
    <3>. QED BY <1>9, <2>1, <3>1, <3>2 DEF NotAhead, s
  <2>. QED BY <2>2, <2>3
<1>20. SentInStep(sent'[q], ratchet'[q]) /\ InStep(ratchet'[q], SharedKey, RatchetKeys)
  BY <1>1, <1>7, <1>9 DEF LockstepInv
<1>21. ASSUME NEW x \in Party
       PROVE  /\ InStep(ratchet'[x], SharedKey, RatchetKeys)
              /\ SentInStep(sent'[x], ratchet'[x])
              /\ PassedKeysKept(x)' /\ NotAhead(x)'
  <2>1. CASE x = p
    BY <1>9, <1>11, <1>15, <1>16, <1>18, <2>1
  <2>2. CASE x = q
    BY <1>17, <1>19, <1>20, <2>2
  <2>. QED BY <1>1, <2>1, <2>2
<1>. QED BY <1>14, <1>21 DEF LockstepInv
(* Every step keeps the conversation in step.                              *)
LEMMA LockstepNext == ChannelInv /\ LockstepInv /\ [Next]_vars => LockstepInv'
<1>. SUFFICES ASSUME ChannelInv, LockstepInv, [Next]_vars PROVE LockstepInv'
  OBVIOUS
<1>1. ASSUME NEW p \in Party, Send(p) PROVE LockstepInv'
  BY <1>1, SendKeepsLockstep
<1>2. ASSUME NEW p \in Party, Receive(p) PROVE LockstepInv'
  BY <1>2, ReceiveKeepsLockstep DEF Receive
<1>3. ASSUME NEW p \in Party, ReceiveAltered(p) PROVE LockstepInv'
  <2> DEFINE q == Peer(p)
  <2>7. PICK i \in 1 .. Len(sent[q]) :
           \E h \in Headers(q) \cup MovedHeaders(sent[q][i].header) :
              h # sent[q][i].header /\ Decrypt(p, [sent[q][i] EXCEPT !.header = h])
    BY <1>3 DEF ReceiveAltered
  <2>1. PICK h \in Headers(q) \cup MovedHeaders(sent[q][i].header) :
           h # sent[q][i].header /\ Decrypt(p, [sent[q][i] EXCEPT !.header = h])
    BY <2>7
  <2> DEFINE m == [sent[q][i] EXCEPT !.header = h]
  <2>2. q \in Party
    BY PartyFacts
  <2>3. sent[q][i] \in Message /\ sent[q][i].seal.header = sent[q][i].header
    BY <2>2, InvFacts, SentFacts DEF SealedAt
  <2>4. m.header = h /\ m.seal.header = sent[q][i].header
    BY <2>3 DEF Message, Messages
  <2>. HIDE DEF m
  <2>5. ~RatchetDecrypt(ratchet[p], m, Fresh(p)).ok
    BY <2>1, <2>4, AlteredIsRefused
  <2>6. UNCHANGED vars
    BY <2>1, <2>5, RefusalChangesNothing DEF m
  <2>. QED BY <2>6, LockstepUnchanged
<1>4. CASE UNCHANGED vars
  BY <1>4, LockstepUnchanged
<1>. QED BY <1>1, <1>2, <1>3, <1>4 DEF Next

(* Both ratchets walk the same roots, one turn apart, and no key is passed *)
(* over without being used, stored or made to give way at the cap, whatever*)
(* the relay delivers and in whatever order.                               *)
THEOREM LockstepInvariant == Spec => []LockstepInv
<1>1. Init => LockstepInv
  BY LockstepInit
<1>2. ChannelInv /\ LockstepInv /\ [Next]_vars => LockstepInv'
  BY LockstepNext
<1>. QED BY <1>1, <1>2, ChannelInvariant, PTL DEF Spec

(* Both parts of the inductive invariant together, as the runs check it:   *)
(* no used key can be computed again, and none still needed is lost.       *)
THEOREM ConversationInvariant == Spec => []ConversationInv
<1>1. ChannelInv /\ LockstepInv => ConversationInv
  BY DEF ConversationInv
<1>. QED BY <1>1, ChannelInvariant, LockstepInvariant, PTL

(* An outstanding message has a key its receiver has not passed, or has    *)
(* stored.                                                                 *)
LEMMA OutstandingKeys ==
    ASSUME ChannelInv, LockstepInv, NEW p \in Party, NEW i \in Outstanding(p)
    PROVE  /\ i \in 1 .. Len(sent[Peer(p)])
           /\ Before(SentKey(Peer(p), i), ratchet[p].receivingChainKey)
                 => SentKey(Peer(p), i) \in StoredKeys(ratchet[p])
<1>1. PassedKeysKept(p)
  BY DEF LockstepInv
<1>. QED BY <1>1 DEF Outstanding, PassedKeysKept

(* ratchet.ts:2-3, out-of-order delivery: for every MAX_SKIP and cap, a    *)
(* message that was not delivered and whose key did not have to make way   *)
(* for later ones opens, unless it would skip more than MAX_SKIP keys of   *)
(* one chain.                                                              *)
THEOREM LateMessagesOpen == Spec => []Decryptable
<1>1. ChannelInv /\ LockstepInv => Decryptable
  <2>. SUFFICES ASSUME ChannelInv, LockstepInv, NEW p \in Party, NEW i \in Outstanding(p),
                       ~TooFar(ratchet[p], sent[Peer(p)][i].header, Fresh(p))
                PROVE  RatchetDecrypt(ratchet[p], sent[Peer(p)][i], Fresh(p)).ok
    BY DEF Decryptable
  <2> DEFINE m == sent[Peer(p)][i]
             A == {AssociatedData}
  <2>1. /\ i \in 1 .. Len(sent[Peer(p)])
        /\ Before(m.seal.key, ratchet[p].receivingChainKey)
              => m.seal.key \in StoredKeys(ratchet[p])
    BY OutstandingKeys DEF SentKey
  <2>2. Meets(m, ChainOf(m), ratchet[p], Fresh(p), SharedKey, RatchetKeys, Turns(p) + 2,
              RatchetKey, Secret, A)
    BY <2>1, MessageMeets
  <2>. HIDE DEF m, A
  <2>3. ~TooFar(ratchet[p], m.header, Fresh(p))
    BY DEF m
  <2>4. RatchetDecrypt(ratchet[p], m, Fresh(p)).ok
    BY <2>1, <2>2, <2>3, OpensInStep
  <2>. QED BY <2>4 DEF m
<1>. QED BY <1>1, ChannelInvariant, LockstepInvariant, PTL
(* Keys at or after the place where p receives are of messages p has not   *)
(* received.                                                               *)
LEMMA AheadIsUndelivered ==
    ASSUME ChannelInv, LockstepInv, NEW p \in Party, NEW j \in 1 .. Len(sent[Peer(p)]),
           NEW k \in Nat, k >= Turns(p) - 1, NEW step \in Nat,
           SentKey(Peer(p), j) = KeyOn(k, step),
           k = Turns(p) - 1 => ratchet[p].receiveMessageNumber <= step
    PROVE  j \notin Received(p)
<1> DEFINE q == Peer(p)
           l == Turns(p)
           n == ChainOf(sent[q][j])
           number == sent[q][j].header.messageNumber
           recv == ratchet[p].receiveMessageNumber
<1>1. SUFFICES ASSUME j \in Received(p) PROVE FALSE
  OBVIOUS
<1>2. q \in Party
  BY PartyFacts
<1>3. Before(SentKey(q, j), ratchet[p].receivingChainKey)
  <2>1. DeliveredInv(p) /\ delivered[p] \in Seq(Nat)
    BY InvFacts
  <2>2. PICK x \in 1 .. Len(delivered[p]) : delivered[p][x] = j
    BY <1>1, <2>1, LenProperties DEF Received, ToSet
  <2>. QED BY <2>1, <2>2 DEF DeliveredInv, Spent
<1>4. n \in Nat \ {0} /\ number \in Nat /\ SentKey(q, j) = KeyOn(n, number)
  BY <1>2, SentFacts
<1>5. l >= 3 /\ (n < l - 1 \/ (n = l - 1 /\ number < recv))
  <2>. HIDE DEF n, number
  <2>. QED BY <1>3, <1>4, ChainsOfRatchet
<1>6. l \in Nat /\ recv \in Nat
  BY FreshIsNext, ChainsOfRatchet
<1>7. k >= l - 1 /\ (k = l - 1 => recv <= step)
  OBVIOUS
<1>. HIDE DEF n, number, l, recv
<1>8. k \in Nat \ {0}
  BY <1>5, <1>6, <1>7
<1>9. n = k /\ number = step
  <2>1. KeyOn(n, number) = KeyOn(k, step)
    BY <1>4
  <2>2. KeyOn(n, number) = KeyOn(k, step) <=> n = k /\ number = step
    <3>1. n \in Nat \ {0}
      BY <1>4
    <3>. QED BY <3>1, <1>8, KeyOnFacts
  <2>. QED BY <2>1, <2>2
<1>. QED BY <1>4, <1>5, <1>6, <1>7, <1>9

(* Different numbers of one chain are of different messages.               *)
LEMMA OneMessagePerNumber ==
    ASSUME NEW messages, NEW n, NEW a \in Nat, NEW b \in Nat, a < b,
           NEW U, IsFiniteSet(U),
           \A step \in a .. b - 1 : \E j \in U : messages[j].seal.key = KeyOn(n, step)
    PROVE  Cardinality(U) >= b - a
<1> DEFINE I == a .. b - 1
           f == [step \in I |-> CHOOSE j \in U : messages[j].seal.key = KeyOn(n, step)]
<1>1. \A step \in I : f[step] \in U /\ messages[f[step]].seal.key = KeyOn(n, step)
  OBVIOUS
<1>2. \A x, y : KeyOn(n, x) = KeyOn(n, y) => x = y
  BY DEF KeyOn, ChainAt
<1>3. f \in [I -> U]
  BY <1>1
<1>. HIDE DEF f
<1>4. \A x, y \in I : f[x] = f[y] => x = y
  BY <1>1, <1>2
<1>5. f \in Injection(I, U)
  BY <1>3, <1>4 DEF Injection, IsInjective
<1>6. IsFiniteSet(I) /\ Cardinality(I) = b - a
  <2>1. a \in Int /\ b - 1 \in Int /\ ~(a > b - 1) /\ (b - 1) - a + 1 = b - a
    OBVIOUS
  <2>. QED BY <2>1, FS_Interval
<1>7. Cardinality(I) <= Cardinality(U)
  BY <1>5, FS_Injection
<1>8. Cardinality(U) \in Nat
  BY FS_CardinalityType
<1>. HIDE DEF I
<1>. QED BY <1>6, <1>7, <1>8
(* ratchet.ts:170-172: for every MAX_SKIP and cap, a message is refused as *)
(* too far ahead only when more than MAX_SKIP earlier messages of the peer *)
(* have not been delivered.                                                *)
THEOREM RefusedOnlyAfterLoss == Spec => []TooFarOnlyAfterLoss
<1>1. ChannelInv /\ LockstepInv => TooFarOnlyAfterLoss
  <2>. SUFFICES ASSUME ChannelInv, LockstepInv, NEW p \in Party, NEW i \in Outstanding(p),
                       TooFar(ratchet[p], sent[Peer(p)][i].header, Fresh(p))
                PROVE  Cardinality((1 .. i - 1) \ Received(p)) > MAX_SKIP
    BY DEF TooFarOnlyAfterLoss
  <2> DEFINE q == Peer(p)
             s == ratchet[p]
             m == sent[q][i]
             n == ChainOf(m)
             l == Turns(p)
             recv == s.receiveMessageNumber
             number == m.header.messageNumber
             prev == m.header.previousChainLength
             U == (1 .. i - 1) \ Received(p)
             A == {AssociatedData}
             Gap(k, a, b) ==
                /\ a + MAX_SKIP < b
                /\ \A step \in a .. b - 1 :
                      \E j \in 1 .. i - 1 : sent[q][j].seal.key = KeyOn(k, step)
                /\ k >= l - 1 /\ (k = l - 1 => recv <= a)
  <2>1. i \in 1 .. Len(sent[q]) /\ q \in Party /\ Len(sent[q]) \in Nat
    BY OutstandingKeys, PartyFacts, InvFacts
  <2>2. Before(m.seal.key, s.receivingChainKey) => m.seal.key \in StoredKeys(s)
    BY OutstandingKeys DEF SentKey
  <2>3. Meets(m, n, s, Fresh(p), SharedKey, RatchetKeys, l + 2, RatchetKey, Secret, A)
    BY <2>1, MessageMeets
  <2>4. /\ n \in Nat /\ n >= 2 /\ number \in Nat /\ prev \in Nat
        /\ SentKey(q, i) = KeyOn(n, number)
        /\ Numbered(sent[q], m.header, n, 1 .. i - 1)
    BY <2>1, SentFacts
  <2>5. l \in Nat /\ l >= 1 /\ recv \in Nat /\ l = Len(s.rootKey)
    BY FreshIsNext, ChainsOfRatchet DEF Turns
  <2>6. TooFar(s, m.header, Fresh(p))
    OBVIOUS
  <2>7. IsFiniteSet(U) /\ Cardinality(U) \in Nat
    <3>1. IsFiniteSet(1 .. i - 1)
      <4>1. 1 \in Int /\ i - 1 \in Int
        BY <2>1
      <4>. QED BY <4>1, FS_Interval
    <3>2. U \in SUBSET (1 .. i - 1)
      OBVIOUS
    <3>. HIDE DEF U
    <3>. QED BY <3>1, <3>2, FS_Subset, FS_CardinalityType
  <2>8. ASSUME NEW k \in Nat, NEW a \in Nat, NEW b \in Nat, Gap(k, a, b)
        PROVE  Cardinality(U) > MAX_SKIP
    <3>1. \A step \in a .. b - 1 : \E j \in U : sent[q][j].seal.key = KeyOn(k, step)
      <4>. SUFFICES ASSUME NEW step \in a .. b - 1
                    PROVE  \E j \in U : sent[q][j].seal.key = KeyOn(k, step)
        OBVIOUS
      <4>1. PICK j \in 1 .. i - 1 : sent[q][j].seal.key = KeyOn(k, step)
        BY <2>8
      <4>2. j \in 1 .. Len(sent[q]) /\ step \in Nat /\ SentKey(q, j) = KeyOn(k, step)
        BY <2>1, <4>1 DEF SentKey
      <4>3. k = l - 1 => recv <= step
        <5>1. a <= step
          OBVIOUS
        <5>. HIDE DEF recv, l
        <5>. QED BY <2>5, <2>8, <4>2, <5>1
      <4>4. j \notin Received(p)
        BY <2>8, <4>2, <4>3, AheadIsUndelivered
      <4>. QED BY <4>1, <4>4
    <3>2. a < b
      BY <2>8, MaxSkipAssumption
    <3>. HIDE DEF U
    <3>3. Cardinality(U) >= b - a
      BY <2>7, <3>1, <3>2, OneMessagePerNumber
    <3>. QED BY <2>7, <2>8, <3>3, MaxSkipAssumption
  <2>. HIDE DEF q, s, m, n, l, recv, number, prev, A
  <2>9. n = l + 1 \/ n = l - 1 \/ n < l - 1
    BY <2>3, <2>5, MeetingFacts
  <2>10. IsNewRatchetKey(s, m.header) <=> n # l - 1
    BY <2>3, <2>5, MeetingFacts
  <2>11. SkippedAt(s, m.header) = {} => ~Before(m.seal.key, s.receivingChainKey)
    BY <2>2, <2>3, MeetingFacts
  <2>12. ~Before(m.seal.key, s.receivingChainKey) /\ m.seal.key = KeyOn(n, number)
    BY <2>4, <2>6, <2>11 DEF TooFar, SentKey, m
  <2>13. n >= l - 1
    <3>1. SUFFICES ASSUME n < l - 1 PROVE FALSE
      BY <2>4, <2>5
    <3>2. n \in Nat \ {0} /\ l >= 3
      BY <2>4, <2>5, <3>1
    <3>3. Before(KeyOn(n, number), s.receivingChainKey)
      BY <2>4, <3>1, <3>2, ChainsOfRatchet DEF l, s
    <3>. QED BY <2>12, <3>3
  <2>14. \A step \in 0 .. number - 1 : \E j \in 1 .. i - 1 : sent[q][j].seal.key = KeyOn(n, step)
    BY <2>4 DEF Numbered, number
  <2>15. CASE n = l - 1
    <3>1. Turned(s, m.header, Fresh(p)) = s
      BY <2>10, <2>15 DEF Turned
    <3>2. recv + MAX_SKIP < number
      BY <2>6, <2>10, <2>15, <3>1 DEF TooFar, TooManySkipped, recv, number
    <3>3. \A step \in recv .. number - 1 : step \in 0 .. number - 1
      BY <2>5
    <3>4. recv <= recv /\ n >= l - 1
      BY <2>4, <2>5, <2>15
    <3>5. Gap(n, recv, number)
      BY <2>14, <3>2, <3>3, <3>4
    <3>. HIDE DEF Gap
    <3>. QED BY <2>4, <2>5, <2>8, <3>5
  <2>16. CASE n = l + 1 /\ TooManySkipped(s, prev)
    <3>1. recv + MAX_SKIP < prev
      BY <2>16 DEF TooManySkipped, recv
    <3>2. n - 2 = l - 1 /\ l - 1 \in Nat /\ l - 1 >= l - 1
      BY <2>5, <2>16
    <3>3. \A step \in 0 .. prev - 1 :
            \E j \in 1 .. i - 1 : sent[q][j].seal.key = KeyOn(l - 1, step)
      BY <2>4, <3>2 DEF Numbered, prev
    <3>4. \A step \in recv .. prev - 1 : step \in 0 .. prev - 1
      BY <2>5
    <3>5. recv <= recv
      BY <2>5
    <3>6. Gap(l - 1, recv, prev)
      BY <3>1, <3>2, <3>3, <3>4, <3>5
    <3>. HIDE DEF Gap
    <3>. QED BY <2>4, <2>5, <2>8, <3>2, <3>6
  <2>17. CASE n = l + 1 /\ ~TooManySkipped(s, prev)
    <3> DEFINE u == Turned(s, m.header, Fresh(p))
    <3>1. TooManySkipped(u, number)
      BY <2>6, <2>17 DEF TooFar, prev, number
    <3>2. u.receiveMessageNumber = 0
      <4>1. /\ ClosedUnderDh(RatchetKey, Secret) /\ SharedKey \in Secret /\ NoKey \notin RatchetKey
            /\ s \in RatchetStates(RatchetKey, Secret, A) /\ Len(s.rootKey) >= 1
            /\ InStep(s, SharedKey, RatchetKeys)
            /\ m \in Messages(RatchetKey, Secret, A)
            /\ SealedAt(m, SharedKey, RatchetKeys, n)
            /\ DistinctKeys(RatchetKeys, l + 2, RatchetKey)
            /\ n = l + 1 => Fresh(p) = RatchetKeys[n + 1]
        BY <2>3, <2>5 DEF Meets
      <4>2. Fresh(p) = RatchetKeys[l + 2] /\ m.header.publicKey = RatchetKeys[l + 1]
        <5>1. n + 1 = l + 2
          BY <2>5, <2>17
        <5>. QED BY <2>17, <4>1, <5>1 DEF SealedAt
      <4>3. m.header \in MessageHeaders(RatchetKey) /\ ~TooManySkipped(s, m.header.previousChainLength)
        BY <2>17, <4>1 DEF Messages, prev
      <4>. QED BY <2>5, <4>1, <4>2, <4>3, TurnKeepsInStep
    <3>3. 0 + MAX_SKIP < number
      BY <3>1, <3>2 DEF TooManySkipped
    <3>4. n >= l - 1 /\ ~(n = l - 1)
      BY <2>5, <2>17
    <3>5. 0 \in Nat
      OBVIOUS
    <3>6. Gap(n, 0, number)
      BY <2>14, <3>3, <3>4
    <3>. HIDE DEF Gap
    <3>. QED BY <2>4, <2>8, <3>5, <3>6
  <2>18. n = l - 1 \/ n = l + 1
    BY <2>4, <2>5, <2>9, <2>13
  <2>. QED BY <2>15, <2>16, <2>17, <2>18
<1>. QED BY <1>1, ChannelInvariant, LockstepInvariant, PTL
=============================================================================
