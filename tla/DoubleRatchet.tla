---------------------------- MODULE DoubleRatchet ----------------------------
(***************************************************************************)
(* The Double Ratchet of src/signal/ratchet: the state machine of          *)
(* ratchet.ts, the KDF chains of chain.ts and the message format of        *)
(* message.ts, as operators on a record with the fields of RatchetState.   *)
(*                                                                         *)
(* Cryptography is symbolic.  A key pair is an identifier; Dh(a, b) is the *)
(* unordered pair of the two keys, so both sides compute the same value;   *)
(* a root key is the sequence of the secrets mixed into it so far (the KDF *)
(* is one-way: from a sequence only its extensions can be computed); a     *)
(* chain key is the root it was split from and the number of HMAC steps    *)
(* taken, and the message key of a step is named by the chain key it comes *)
(* from.  An AEAD ciphertext opens under exactly the key, header and       *)
(* associated data it was sealed with.  A plaintext is whatever identifies *)
(* it to the module that sends it.                                         *)
(***************************************************************************)
EXTENDS Naturals, Sequences, SequencesExt

CONSTANTS MAX_SKIP,                 \* core/constants.ts: 1000
          MAX_SKIPPED_KEYS_STORED   \* core/constants.ts: 2000

ASSUME MaxSkipAssumption == MAX_SKIP \in Nat

\* A message that turns the ratchet skips at most MAX_SKIP keys on the chain it
\* closes and MAX_SKIP on the chain it opens: all of them fit in the store.
ASSUME MaxStoredAssumption ==
    /\ MAX_SKIPPED_KEYS_STORED \in Nat
    /\ 2 * MAX_SKIP <= MAX_SKIPPED_KEYS_STORED

NoKey == <<>>                                \* a null receivingRatchetKey
NoChain == [root |-> <<>>, step |-> 0]       \* a null chain key

Dh(a, b) == {a, b}

KdfRootKey(rootKey, dhOutput) == Append(rootKey, dhOutput)

FirstChainKey(rootKey) == [root |-> rootKey, step |-> 0]

NextChainKey(chainKey) == [chainKey EXCEPT !.step = @ + 1]


-----------------------------------------------------------------------------
(* Session initialisation.                                                 *)

InitAlice(sharedKey, ours, theirRatchetKey, associatedData) ==
    LET root == KdfRootKey(<<sharedKey>>, Dh(ours, theirRatchetKey))
    IN  [rootKey |-> root,
         sendingRatchetKey |-> ours,
         receivingRatchetKey |-> theirRatchetKey,
         sendingChainKey |-> FirstChainKey(root),
         receivingChainKey |-> NoChain,
         sendMessageNumber |-> 0,
         receiveMessageNumber |-> 0,
         previousSendingChainLength |-> 0,
         skippedMessageKeys |-> <<>>,
         associatedData |-> associatedData]

InitBob(sharedKey, ours, associatedData) ==
    [rootKey |-> <<sharedKey>>,
     sendingRatchetKey |-> ours,
     receivingRatchetKey |-> NoKey,
     sendingChainKey |-> NoChain,
     receivingChainKey |-> NoChain,
     sendMessageNumber |-> 0,
     receiveMessageNumber |-> 0,
     previousSendingChainLength |-> 0,
     skippedMessageKeys |-> <<>>,
     associatedData |-> associatedData]

-----------------------------------------------------------------------------
(* Sending.                                                                *)

CanEncrypt(s) == s.sendingChainKey # NoChain

HeaderOf(s) ==
    [publicKey |-> s.sendingRatchetKey,
     previousChainLength |-> s.previousSendingChainLength,
     messageNumber |-> s.sendMessageNumber]

EncryptedMessage(s, plaintext) ==
    [header |-> HeaderOf(s),
     seal |-> [key |-> s.sendingChainKey,
               header |-> HeaderOf(s),
               associatedData |-> s.associatedData,
               plaintext |-> plaintext]]

(* Plausible slip: only the message number moves on.                       *)
AfterEncryptKeepsChainKey(s) == [s EXCEPT !.sendMessageNumber = @ + 1]

AfterEncrypt(s) ==
    [s EXCEPT !.sendingChainKey = NextChainKey(@),
              !.sendMessageNumber = @ + 1]

-----------------------------------------------------------------------------
(* Receiving.  skippedMessageKeys is the Map in insertion order.  The code *)
(* derives the keys of a gap one by one; they are laid down at once here.  *)
(* No id of a gap is in the Map already unless the header repeats a retired*)
(* ratchet key, and then decryption fails and the Map is restored, so      *)
(* appending is what Map.set does in every state that is kept.             *)

(* Plausible slip: a gap of exactly MAX_SKIP is refused too.               *)
TooManySkippedAtLimit(s, until) == s.receiveMessageNumber + MAX_SKIP <= until

TooManySkipped(s, until) == s.receiveMessageNumber + MAX_SKIP < until

(* Plausible slip: eviction makes room for one key more than it must.      *)
EvictOldestOneTooMany(keys) ==
    IF Len(keys) <= MAX_SKIPPED_KEYS_STORED
      THEN keys
      ELSE SubSeq(keys, Len(keys) - MAX_SKIPPED_KEYS_STORED + 2, Len(keys))

(* Plausible slip: eviction starts one entry late.                         *)
EvictOldestLate(keys) ==
    IF Len(keys) <= MAX_SKIPPED_KEYS_STORED + 1
      THEN keys
      ELSE SubSeq(keys, Len(keys) - MAX_SKIPPED_KEYS_STORED, Len(keys))

EvictOldest(keys) ==
    IF Len(keys) <= MAX_SKIPPED_KEYS_STORED
      THEN keys
      ELSE SubSeq(keys, Len(keys) - MAX_SKIPPED_KEYS_STORED + 1, Len(keys))

(* Plausible slip: the keys of a gap are filed one number too high.        *)
SkippedInGapOffByOne(s, until) ==
    [i \in 1 .. until - s.receiveMessageNumber |->
        [publicKey |-> s.receivingRatchetKey,
         messageNumber |-> s.receiveMessageNumber + i,
         key |-> [s.receivingChainKey EXCEPT !.step = @ + i - 1]]]

SkippedInGap(s, until) ==
    [i \in 1 .. until - s.receiveMessageNumber |->
        [publicKey |-> s.receivingRatchetKey,
         messageNumber |-> s.receiveMessageNumber + i - 1,
         key |-> [s.receivingChainKey EXCEPT !.step = @ + i - 1]]]

SkipReceivingMessageKeys(s, until) ==
    IF s.receivingChainKey = NoChain \/ until <= s.receiveMessageNumber
      THEN s
      ELSE [s EXCEPT
              !.skippedMessageKeys = EvictOldest(@ \o SkippedInGap(s, until)),
              !.receivingChainKey.step = @ + until - s.receiveMessageNumber,
              !.receiveMessageNumber = until]

DhRatchetStep(s, theirRatchetKey, fresh) ==
    LET receiving == KdfRootKey(s.rootKey, Dh(s.sendingRatchetKey, theirRatchetKey))
        sending   == KdfRootKey(receiving, Dh(fresh, theirRatchetKey))
    IN  [s EXCEPT !.previousSendingChainLength = s.sendMessageNumber,
                  !.sendMessageNumber = 0,
                  !.receiveMessageNumber = 0,
                  !.receivingRatchetKey = theirRatchetKey,
                  !.receivingChainKey = FirstChainKey(receiving),
                  !.sendingRatchetKey = fresh,
                  !.rootKey = sending,
                  !.sendingChainKey = FirstChainKey(sending)]

Opens(s, m, key) ==
    /\ m.seal.key = key
    /\ m.seal.header = m.header
    /\ m.seal.associatedData = s.associatedData

SkippedAt(s, header) ==
    {i \in 1 .. Len(s.skippedMessageKeys) :
        /\ s.skippedMessageKeys[i].publicKey = header.publicKey
        /\ s.skippedMessageKeys[i].messageNumber = header.messageNumber}

(* Plausible slip: the stored key is not deleted once it has been used.    *)
DecryptSkippedKeepsKey(s, m) ==
    [ok |-> \E i \in SkippedAt(s, m.header) : Opens(s, m, s.skippedMessageKeys[i].key),
     state |-> s]

(* A message whose key was stored: opened, and the key deleted.            *)
DecryptSkipped(s, m) ==
    LET i == CHOOSE j \in SkippedAt(s, m.header) : TRUE
    IN  IF Opens(s, m, s.skippedMessageKeys[i].key)
          THEN [ok |-> TRUE,
                state |-> [s EXCEPT !.skippedMessageKeys = RemoveAt(@, i)]]
          ELSE [ok |-> FALSE, state |-> s]

IsNewRatchetKey(s, header) == s.receivingRatchetKey # header.publicKey

(* Lines 152-155: close the old receiving chain, then turn the DH ratchet. *)
Turned(s, header, fresh) ==
    IF IsNewRatchetKey(s, header)
      THEN DhRatchetStep(SkipReceivingMessageKeys(s, header.previousChainLength),
                         header.publicKey, fresh)
      ELSE s

(* Lines 157-164: skip to the message's number, derive its key, open it.   *)
DecryptOnChain(s, m) ==
    LET skipped == SkipReceivingMessageKeys(s, m.header.messageNumber)
        key     == skipped.receivingChainKey
    IN  IF TooManySkipped(s, m.header.messageNumber)
          THEN [ok |-> FALSE, state |-> s]
          ELSE IF key = NoChain \/ ~Opens(skipped, m, key)
          THEN [ok |-> FALSE, state |-> skipped]
          ELSE [ok |-> TRUE,
                state |-> [skipped EXCEPT !.receivingChainKey = NextChainKey(@),
                                          !.receiveMessageNumber = @ + 1]]

(* The outcome and the state it leaves, before any rollback.               *)
DecryptInternal(s, m, fresh) ==
    IF SkippedAt(s, m.header) # {}
      THEN DecryptSkipped(s, m)
      ELSE IF /\ IsNewRatchetKey(s, m.header)
              /\ TooManySkipped(s, m.header.previousChainLength)
      THEN [ok |-> FALSE, state |-> s]
      ELSE DecryptOnChain(Turned(s, m.header, fresh), m)

(* Plausible slip: a failed decryption leaves the keys it has skipped.     *)
RatchetDecryptNoRollback(s, m, fresh) == DecryptInternal(s, m, fresh)

(* A failed decryption restores the snapshot.                              *)
RatchetDecrypt(s, m, fresh) ==
    LET result == DecryptInternal(s, m, fresh)
    IN  IF result.ok THEN result ELSE [ok |-> FALSE, state |-> s]

-----------------------------------------------------------------------------
(* Types, over the keys K, the secrets S that go into root keys and the    *)
(* associated data A of the module that uses the ratchet.                  *)

ChainKeys(S) == [root : Seq(S), step : Nat]

MessageHeaders(K) ==
    [publicKey : K, previousChainLength : Nat, messageNumber : Nat]

SkippedKeys(K, S) ==
    [publicKey : K \cup {NoKey}, messageNumber : Nat, key : ChainKeys(S)]

Messages(K, S, A) ==
    [header : MessageHeaders(K),
     seal : [key : ChainKeys(S), header : MessageHeaders(K),
             associatedData : A, plaintext : Nat]]

RatchetStates(K, S, A) ==
    [rootKey : Seq(S),
     sendingRatchetKey : K,
     receivingRatchetKey : K \cup {NoKey},
     sendingChainKey : ChainKeys(S),
     receivingChainKey : ChainKeys(S),
     sendMessageNumber : Nat,
     receiveMessageNumber : Nat,
     previousSendingChainLength : Nat,
     skippedMessageKeys : Seq(SkippedKeys(K, S)),
     associatedData : A]

-----------------------------------------------------------------------------
(* What holds of one ratchet.                                              *)

StoredKeys(s) == {s.skippedMessageKeys[i].key : i \in 1 .. Len(s.skippedMessageKeys)}

(* k comes strictly before chainKey on the path of a party's chains.       *)
Before(k, chainKey) ==
    \/ Len(k.root) < Len(chainKey.root)
    \/ k.root = chainKey.root /\ k.step < chainKey.step

(* The receiver can no longer decrypt with k.                              *)
Spent(s, k) == Before(k, s.receivingChainKey) /\ k \notin StoredKeys(s)

(* The stored keys that had to make way between s and t: the store is full,*)
(* with keys that all come after them.                                     *)
MadeWay(s, t) ==
    {k \in StoredKeys(s) \ StoredKeys(t) :
        /\ Len(t.skippedMessageKeys) = MAX_SKIPPED_KEYS_STORED
        /\ \A kept \in StoredKeys(t) : Before(k, kept)}

(* Root keys and stored keys of a ratchet.  Every DH ratchet step adds two *)
(* secrets to the root key, so it sends on roots whose length has one      *)
(* parity and receives on those of the other.  Keys are stored in the order*)
(* of their chains.                                                        *)
RatchetInv(s, parity) ==
    /\ Len(s.rootKey) >= 1
    /\ Len(s.rootKey) % 2 = parity
    /\ s.sendingChainKey = NoChain \/ s.sendingChainKey.root = s.rootKey
    /\ \/ s.receivingChainKey = NoChain
       \/ Len(s.receivingChainKey.root) + 1 = Len(s.rootKey)
    /\ \A i \in 1 .. Len(s.skippedMessageKeys) :
        /\ Before(s.skippedMessageKeys[i].key, s.receivingChainKey)
        /\ Len(s.skippedMessageKeys[i].key.root) % 2 # parity
    /\ \A i, j \in 1 .. Len(s.skippedMessageKeys) :
        i < j => Before(s.skippedMessageKeys[i].key, s.skippedMessageKeys[j].key)

(* The message of this header is refused for what it would skip (170-172). *)
TooFar(s, header, fresh) ==
    /\ SkippedAt(s, header) = {}
    /\ \/ /\ IsNewRatchetKey(s, header)
          /\ TooManySkipped(s, header.previousChainLength)
       \/ TooManySkipped(Turned(s, header, fresh), header.messageNumber)

(* Two ratchets in step.  The ratchet keys of a conversation, of both its  *)
(* parties in turn, are ks[1], ks[2], ...; ks[1] is the responder's first. *)
(* Root n is sent on by the party of ks[n] and received on by the other.   *)
RootAt(secret, ks, n) ==
    [i \in 1 .. n |-> IF i = 1 THEN secret ELSE Dh(ks[i], ks[i - 1])]

ChainAt(secret, ks, n, step) == [root |-> RootAt(secret, ks, n), step |-> step]

(* m is as it was sealed on root n.                                        *)
SealedAt(m, secret, ks, n) ==
    /\ m.header.publicKey = ks[n]
    /\ m.seal.key = ChainAt(secret, ks, n, m.header.messageNumber)
    /\ m.seal.header = m.header

(* s has followed the conversation up to its own ratchet key.              *)
InStep(s, secret, ks) ==
    LET n == Len(s.rootKey)
    IN  /\ s.rootKey = RootAt(secret, ks, n)
        /\ s.sendingRatchetKey = ks[n]
        /\ s.receivingRatchetKey = IF n = 1 THEN NoKey ELSE ks[n - 1]
        /\ s.sendingChainKey =
              IF n = 1 THEN NoChain ELSE ChainAt(secret, ks, n, s.sendMessageNumber)
        /\ s.receivingChainKey =
              IF n <= 2 THEN NoChain ELSE ChainAt(secret, ks, n - 1, s.receiveMessageNumber)
        /\ \A i \in 1 .. Len(s.skippedMessageKeys) :
              \E k \in 2 .. n - 1 :
                 /\ s.skippedMessageKeys[i].publicKey = ks[k]
                 /\ s.skippedMessageKeys[i].key =
                       ChainAt(secret, ks, k, s.skippedMessageKeys[i].messageNumber)
=============================================================================
