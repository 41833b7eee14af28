---------------------------- MODULE RatchetChannel ----------------------------
(***************************************************************************)
(* Two parties with an established X3DH secret exchange messages through   *)
(* their Double Ratchets.  The relay between them is untrusted: it may     *)
(* lose, delay, reorder and repeat messages, and hand over messages with a *)
(* header that is not the one they were sealed with.                       *)
(***************************************************************************)
EXTENDS DoubleRatchet, FiniteSets

CONSTANTS SharedKey,        \* the X3DH output both parties start from
          AssociatedData,   \* both identities, bound to every ciphertext
          MaxSent           \* bound: messages each party sends

ASSUME MaxSentAssumption == MaxSent \in [{"alice", "bob"} -> Nat]

VARIABLES ratchet,     \* ratchet[p]: the DoubleRatchet of p
          sent,        \* sent[p]: every message p has encrypted, in order
          delivered,   \* delivered[p]: the plaintexts decrypt returned to p
          evicted      \* evicted[p]: the stored keys of p that had to make
                       \* way for later ones at the cap (history)

vars == <<ratchet, sent, delivered, evicted>>

Party == {"alice", "bob"}
Peer(p) == IF p = "alice" THEN "bob" ELSE "alice"

(* p's next key pair, named by the length of the root key it is mixed into:*)
(* every DH ratchet step lengthens the root key, so the name is fresh.     *)
Fresh(p) == <<p, Len(ratchet[p].rootKey)>>

Init ==
    /\ ratchet = [p \in Party |->
                    IF p = "alice"
                      THEN InitAlice(SharedKey, <<"alice", 0>>, <<"bob", 0>>, AssociatedData)
                      ELSE InitBob(SharedKey, <<"bob", 0>>, AssociatedData)]
    /\ sent = [p \in Party |-> <<>>]
    /\ delivered = [p \in Party |-> <<>>]
    /\ evicted = [p \in Party |-> {}]

Send(p) ==
    /\ Len(sent[p]) < MaxSent[p]
    /\ CanEncrypt(ratchet[p])
    /\ sent' = [sent EXCEPT ![p] =
                  Append(@, EncryptedMessage(ratchet[p], Len(@) + 1))]
    /\ ratchet' = [ratchet EXCEPT ![p] = AfterEncrypt(@)]
    /\ UNCHANGED <<delivered, evicted>>

Decrypt(p, m) ==
    LET result == RatchetDecrypt(ratchet[p], m, Fresh(p))
    IN  /\ ratchet' = [ratchet EXCEPT ![p] = result.state]
        /\ delivered' = IF result.ok
                          THEN [delivered EXCEPT ![p] = Append(@, m.seal.plaintext)]
                          ELSE delivered
        /\ evicted' = [evicted EXCEPT ![p] = @ \cup MadeWay(ratchet[p], result.state)]
        /\ UNCHANGED sent

(* Any message sent so far, at any time and as often as the relay likes.   *)
Receive(p) == \E i \in 1 .. Len(sent[Peer(p)]) : Decrypt(p, sent[Peer(p)][i])

(* A header lifted from another message, or with its counters moved.       *)
Headers(p) ==
    {sent[p][i].header : i \in 1 .. Len(sent[p])}

MovedHeaders(h) ==
    {[h EXCEPT !.messageNumber = @ + 1],
     [h EXCEPT !.previousChainLength = @ + 1]}

ReceiveAltered(p) ==
    \E i \in 1 .. Len(sent[Peer(p)]) :
        \E h \in Headers(Peer(p)) \cup MovedHeaders(sent[Peer(p)][i].header) :
            /\ h # sent[Peer(p)][i].header
            /\ Decrypt(p, [sent[Peer(p)][i] EXCEPT !.header = h])

Next == \E p \in Party : Send(p) \/ Receive(p) \/ ReceiveAltered(p)

Spec == Init /\ [][Next]_vars

-----------------------------------------------------------------------------
(* Types.                                                                  *)

RatchetKey == Party \X Nat
Secret == {SharedKey} \cup SUBSET RatchetKey
ChainKey == ChainKeys(Secret)
Message == Messages(RatchetKey, Secret, {AssociatedData})
RatchetState == RatchetStates(RatchetKey, Secret, {AssociatedData})

(* Every variable has its type, and no ratchet stores more skipped keys    *)
(* than MAX_SKIPPED_KEYS_STORED (ratchet.ts:183-187).                      *)
TypeOK ==
    /\ ratchet \in [Party -> RatchetState]
    /\ sent \in [Party -> Seq(Message)]
    /\ delivered \in [Party -> Seq(Nat)]
    /\ evicted \in [Party -> SUBSET ChainKey]
    /\ \A p \in Party :
        Len(ratchet[p].skippedMessageKeys) <= MAX_SKIPPED_KEYS_STORED

-----------------------------------------------------------------------------
(* Properties.                                                             *)

SentKey(p, i) == sent[p][i].seal.key
Received(p) == ToSet(delivered[p])

UsedKeys(p) ==
    {SentKey(p, i) : i \in 1 .. Len(sent[p])}
      \cup {SentKey(Peer(p), i) : i \in Received(p)}

OnChain(k, chainKey) == k.root = chainKey.root /\ k.step >= chainKey.step

ExtendsRoot(k, rootKey) ==
    /\ Len(k.root) > Len(rootKey)
    /\ SubSeq(k.root, 1, Len(rootKey)) = rootKey

(* The message keys that can be computed from what a ratchet holds.        *)
Derivable(s, k) ==
    \/ k \in StoredKeys(s)
    \/ OnChain(k, s.sendingChainKey)
    \/ OnChain(k, s.receivingChainKey)
    \/ ExtendsRoot(k, s.rootKey)

(* Forward secrecy (ratchet.ts:5-6, "every message key comes from a one-way*)
(* HMAC chain and is deleted after use"): whoever copies a party's ratchet *)
(* state can compute no key that party has already encrypted or decrypted  *)
(* with, whatever the order in which messages arrived.                     *)
ForwardSecrecy ==
    \A p \in Party : \A k \in UsedKeys(p) : ~Derivable(ratchet[p], k)

(* chain.ts:49-50, "each mk encrypts exactly one message": no two messages *)
(* of the conversation, of the same party or of both, share a message key, *)
(* which the deterministic nonce relies on.                                *)
MessageKeysUnique ==
    \A p, q \in Party :
        \A i \in 1 .. Len(sent[p]), j \in 1 .. Len(sent[q]) :
            SentKey(p, i) = SentKey(q, j) => p = q /\ i = j

(* The messages to p that it has not decrypted and whose keys did not have *)
(* to make way at the cap.                                                 *)
Outstanding(p) ==
    {i \in 1 .. Len(sent[Peer(p)]) :
        i \notin Received(p) /\ SentKey(Peer(p), i) \notin evicted[p]}

(* Out-of-order delivery (ratchet.ts:2-3): whatever came before it, and    *)
(* however often the relay interfered, a message not yet delivered can     *)
(* still be decrypted, unless it is beyond MAX_SKIP or its key was the     *)
(* oldest of more than MAX_SKIPPED_KEYS_STORED (ratchet.ts:183-187): no    *)
(* other key is let go.                                                    *)
Decryptable ==
    \A p \in Party : \A i \in Outstanding(p) :
        LET m == sent[Peer(p)][i]
        IN  \/ TooFar(ratchet[p], m.header, Fresh(p))
            \/ RatchetDecrypt(ratchet[p], m, Fresh(p)).ok

(* A message is refused as too far ahead (ratchet.ts:170-172) only when    *)
(* more than MAX_SKIP earlier messages of the peer are still undelivered.  *)
TooFarOnlyAfterLoss ==
    \A p \in Party : \A i \in Outstanding(p) :
        TooFar(ratchet[p], sent[Peer(p)][i].header, Fresh(p))
            => Cardinality((1 .. i - 1) \ Received(p)) > MAX_SKIP

(* The two ratchets implement the at-most-once channel: a duplicate or an  *)
(* altered message is never handed to the application.                     *)
Abstract == INSTANCE AtMostOnceChannel
              WITH posted <- [p \in Party |-> Len(sent[p])], handed <- delivered

AtMostOnce == Abstract!Spec
-----------------------------------------------------------------------------
(* The inductive invariant, in two parts.                                  *)

(* Every DH ratchet step adds two secrets to the root key, so the initiator*)
(* sends on roots of even length and the responder on roots of odd length. *)
Parity(p) == IF p = "alice" THEN 0 ELSE 1

SentInv(p) ==
    /\ \A i \in 1 .. Len(sent[p]) :
        /\ sent[p][i].seal.plaintext = i
        /\ Len(SentKey(p, i).root) >= 1
        /\ Len(SentKey(p, i).root) % 2 = Parity(p)
        /\ Before(SentKey(p, i), ratchet[p].sendingChainKey)
    /\ \A i, j \in 1 .. Len(sent[p]) : i # j => SentKey(p, i) # SentKey(p, j)

DeliveredInv(p) ==
    \A i \in 1 .. Len(delivered[p]) :
        /\ delivered[p][i] \in 1 .. Len(sent[Peer(p)])
        /\ Spent(ratchet[p], SentKey(Peer(p), delivered[p][i]))

(* Why forward secrecy holds: a party's own sending chain is ahead of every*)
(* key it has sent with, its receiving side has spent every key it has     *)
(* decrypted with, and the two sides never meet because of their parity.   *)
ChannelInv ==
    /\ TypeOK
    /\ \A p \in Party :
        RatchetInv(ratchet[p], Parity(p)) /\ SentInv(p) /\ DeliveredInv(p)

(* The keys both ratchets turn to, in order; see Fresh.                    *)
RatchetKeys ==
    [n \in Nat \ {0} |->
        IF n = 1 THEN <<"bob", 0>>
                 ELSE <<IF n % 2 = 0 THEN "alice" ELSE "bob", n - 2>>]

KeyOn(n, step) == ChainAt(SharedKey, RatchetKeys, n, step)

(* The root p sends on, and the root a message was sent on.                *)
Turns(p) == Len(ratchet[p].rootKey)
ChainOf(m) == Len(m.seal.key.root)

(* What a header h on root n says of its sender's messages, those of J     *)
(* being the ones before it: every number below messageNumber has been used*)
(* on root n and every number below previousChainLength, and no other, on  *)
(* the root the sender used before.                                        *)
Numbered(messages, h, n, J) ==
    /\ \A j \in 1 .. Len(messages) :
          ChainOf(messages[j]) + 2 = n
              => messages[j].header.messageNumber < h.previousChainLength
    /\ \A step \in 0 .. h.messageNumber - 1 :
          \E j \in J : messages[j].seal.key = KeyOn(n, step)
    /\ \A step \in 0 .. h.previousChainLength - 1 :
          \E j \in J : messages[j].seal.key = KeyOn(n - 2, step)

(* The messages sent, up to the state s of their sender's ratchet.         *)
SentInStep(messages, s) ==
    /\ \A i \in 1 .. Len(messages) :
        /\ ChainOf(messages[i]) \in 2 .. Len(s.rootKey)
        /\ SealedAt(messages[i], SharedKey, RatchetKeys, ChainOf(messages[i]))
        /\ Numbered(messages, messages[i].header, ChainOf(messages[i]), 1 .. i - 1)
    /\ Numbered(messages, HeaderOf(s), Len(s.rootKey), 1 .. Len(messages))

(* A key p has moved past was used, is stored or had to make way at the cap*)
PassedKeysKept(p) ==
    \A i \in 1 .. Len(sent[Peer(p)]) :
        Before(SentKey(Peer(p), i), ratchet[p].receivingChainKey)
            => \/ i \in Received(p)
               \/ SentKey(Peer(p), i) \in StoredKeys(ratchet[p])
               \/ SentKey(Peer(p), i) \in evicted[p]

(* p has not received more of the peer's chain than the peer has sent.     *)
NotAhead(p) ==
    Turns(p) = Turns(Peer(p)) + 1
        => ratchet[p].receiveMessageNumber <= ratchet[Peer(p)].sendMessageNumber

(* Why late messages open: both ratchets walk the same roots, one turn     *)
(* apart, headers tell the truth about what was sent before, and no key is *)
(* passed over without being used, stored or due to make way.              *)
LockstepInv ==
    /\ \E p \in Party : Turns(p) = Turns(Peer(p)) + 1
    /\ \A p \in Party :
        /\ InStep(ratchet[p], SharedKey, RatchetKeys)
        /\ SentInStep(sent[p], ratchet[p]) /\ PassedKeysKept(p) /\ NotAhead(p)

(* The inductive invariant as a whole: what a party can no longer compute, *)
(* and what it must still be able to compute.                              *)
ConversationInv == ChannelInv /\ LockstepInv
=============================================================================
