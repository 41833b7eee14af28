------------------------ MODULE SessionsInStepProofs ------------------------
(***************************************************************************)
(* More theorems about SignalSession, for the ways that keep the order and *)
(* until someone reloads: the ratchets of a session its two users share,   *)
(* or will, follow one script, and what is on its way to a user is what    *)
(* this script has next.  From it follows that a Signal message opens when *)
(* it is next, and that the tie-break is the only reason a way that loses  *)
(* nothing refuses a message.                                              *)
(***************************************************************************)
EXTENDS SignalSessionProofs, FiniteSetTheorems

-----------------------------------------------------------------------------
(* The script of a conversation: its secret and associated data, the       *)
(* ratchet keys ks[1], ks[2], ... of both users in turn, and starts[n], how*)
(* many messages the sender of chain n had posted when it turned to it.    *)

(* The chain a message was sealed in, and whether it is of the             *)
(* conversation.                                                           *)
ChainOf(m) == Len(m.seal.key.root)

IsOf(w, m) == m.seal.key.root[1] = w.secret

(* The script up to turn n.                                                *)
Script(w, n) ==
    /\ n \in Nat
    /\ w.secret \in Secrets
    /\ \A i \in Nat : w.starts[i] \in Nat
    /\ DistinctKeys(w.ks, n, Keys)

(* A ratchet at one end of the conversation.                               *)
AtEnd(w, s) ==
    /\ \E parity \in {0, 1} : GoodRatchet(s, parity, Keys, Secrets, Seq(Keys))
    /\ InStep(s, w.secret, w.ks)
    /\ s.associatedData = w.data

(* The header of a chain n says how long the sender's last one was.        *)
Closes(w, n, previous) ==
    /\ n >= 4 => w.starts[n] = w.starts[n - 2] + previous
    /\ n <= 3 => previous = 0

(* Message number v was posted before any chain after c was started, by a  *)
(* sender that is at turn L.                                               *)
Passed(w, L, c, v) ==
    \A k \in 2 .. L : k > c /\ k % 2 = L % 2 => v <= w.starts[k]

(* m is a message of the sender at turn L: one of the conversation, at its *)
(* place in the script, or one posted before it.                           *)
Follow(w, L, m) ==
    /\ IsOf(w, m) =>
        /\ ChainOf(m) \in 2 .. L
        /\ ChainOf(m) % 2 = L % 2
        /\ SealedAt(m, w.secret, w.ks, ChainOf(m))
        /\ m.seal.associatedData = w.data
        /\ m.seal.plaintext = w.starts[ChainOf(m)] + m.header.messageNumber + 1
        /\ Closes(w, ChainOf(m), m.header.previousChainLength)
    /\ Passed(w, L, IF IsOf(w, m) THEN ChainOf(m) ELSE 1, m.seal.plaintext)

(* t, having posted n messages, sends next where the script says.          *)
Sent(w, t, n) ==
    /\ n = w.starts[Len(t.rootKey)] + t.sendMessageNumber
    /\ Closes(w, Len(t.rootKey), t.previousSendingChainLength)

(* Message number v is the last that s, whose peer is at turn L, has taken.*)
Cursor(w, s, L, v) ==
    LET l == Len(s.rootKey)
    IN  /\ l >= 3 => v = w.starts[l - 1] + s.receiveMessageNumber
        /\ L > l => v <= w.starts[l + 1]

(* The number handed over last.                                            *)
LastOf(h) == IF h = <<>> THEN 0 ELSE h[Len(h)]

(* The envelopes in queue, of a sender t that has posted n messages, to a  *)
(* receiver s that has been handed h.  If real, the sender has this        *)
(* session, and if all counts, the receiver has opened all of it that has  *)
(* left the queue.                                                         *)
Direction(w, s, t, real, queue, n, h, all) ==
    LET L == Len(t.rootKey)
    IN  /\ \A i \in 1 .. Len(queue) : Follow(w, L, queue[i].message)
        /\ real => Sent(w, t, n)
        /\ Cursor(w, s, L, LastOf(h))
        /\ all => Cursor(w, s, L, n - Len(queue))

(* The two ends take turns.                                                *)
Apart(l, L) == l = L + 1 \/ L = l + 1

-----------------------------------------------------------------------------
(* What the script says of the next message.                               *)

(* A number of the parity of a neighbour is one away or three and more.    *)
LEMMA ParitySteps ==
    ASSUME NEW l \in Nat, NEW L \in Nat, NEW c \in Nat, Apart(l, L), c <= L, c % 2 = L % 2
    PROVE  /\ (c = l + 1 /\ L = l + 1) \/ c = l - 1 \/ c <= l - 3
           /\ c % 2 # l % 2
           /\ (l - 1) % 2 = L % 2
           /\ (l + 1) % 2 = L % 2
<1>1. CASE l = L + 1
  BY <1>1
<1>2. CASE L = l + 1
  BY <1>2
<1>. QED BY <1>1, <1>2 DEF Apart

(* The last of a queue is what was appended last.                          *)
LEMMA LastOfAppend ==
    ASSUME NEW h \in Seq(Nat), NEW x \in Nat
    PROVE  LastOf(Append(h, x)) = x
<1>1. Append(h, x) # <<>> /\ Append(h, x)[Len(h) + 1] = x /\ Len(Append(h, x)) = Len(h) + 1
  BY AppendProperties
<1>. QED BY <1>1 DEF LastOf

(* The first keys of a list of distinct keys are distinct.                 *)
LEMMA FewerAreDistinct ==
    ASSUME NEW ks, NEW n \in Nat, NEW k \in Nat, k <= n, DistinctKeys(ks, n, Keys)
    PROVE  DistinctKeys(ks, k, Keys)
<1>1. \A i \in 1 .. k : i \in 1 .. n
  OBVIOUS
<1>. QED BY <1>1 DEF DistinctKeys

(* A ratchet at an end has a root.                                         *)
LEMMA EndTyped ==
    ASSUME NEW w, NEW s, AtEnd(w, s)
    PROVE  /\ s \in Ratchets
           /\ Len(s.rootKey) \in Nat /\ Len(s.rootKey) >= 1
           /\ s.receiveMessageNumber \in Nat
           /\ s.sendMessageNumber \in Nat
           /\ s.previousSendingChainLength \in Nat
           /\ Len(s.rootKey) = 1 => ~CanEncrypt(s)
<1>1. s \in Ratchets /\ Len(s.rootKey) >= 1
  BY DEF AtEnd, GoodRatchet, Ratchets, RatchetInv
<1>2. s.rootKey \in Seq(Secrets)
  BY <1>1 DEF Ratchets, RatchetStates
<1>3. Len(s.rootKey) \in Nat
  BY <1>2, LenProperties
<1>4. Len(s.rootKey) = 1 => ~CanEncrypt(s)
  BY DEF AtEnd, InStep, CanEncrypt
<1>. QED BY <1>1, <1>3, <1>4 DEF Ratchets, RatchetStates

(* m is on the chain that s, which took v last, receives on, or on the one *)
(* it turns to; its place in the script.                                   *)
ComesNext(w, s, L, m, v) ==
    LET l == Len(s.rootKey)
        c == ChainOf(m)
        number == m.header.messageNumber
        previous == m.header.previousChainLength
    IN  \/ /\ c = l - 1 /\ l >= 3
           /\ m.seal.plaintext = w.starts[l - 1] + number + 1
           /\ v = w.starts[l - 1] + s.receiveMessageNumber
           /\ L = l + 1 => m.seal.plaintext <= w.starts[l + 1]
        \/ /\ c = l + 1 /\ L = l + 1
           /\ m.seal.plaintext = w.starts[l + 1] + number + 1
           /\ v <= w.starts[l + 1]
           /\ l >= 3 => /\ v = w.starts[l - 1] + s.receiveMessageNumber
                        /\ w.starts[l + 1] = w.starts[l - 1] + previous
           /\ l < 3 => previous = 0

(* The next message of the conversation is on the chain its receiver is on,*)
(* or on the one it turns to, as far ahead as messages were missed.        *)
LEMMA NextInScript ==
    ASSUME NEW w, NEW s, NEW L \in Nat, NEW m \in Sealed, NEW fresh, NEW top, NEW v \in Nat,
           Script(w, top), AtEnd(w, s), Apart(Len(s.rootKey), L),
           Len(s.rootKey) <= top, L <= top,
           L = Len(s.rootKey) + 1 => L + 1 <= top /\ fresh = w.ks[L + 1],
           IsOf(w, m), Follow(w, L, m), Cursor(w, s, L, v), v < m.seal.plaintext
    PROVE  /\ Meets(m, ChainOf(m), s, fresh, w.secret, w.ks, top, Keys, Secrets, Seq(Keys))
           /\ m.header.messageNumber \in Nat /\ m.header.previousChainLength \in Nat
           /\ m.seal.plaintext \in Nat
           /\ ComesNext(w, s, L, m, v)
<1> DEFINE l == Len(s.rootKey)
           c == ChainOf(m)
           number == m.header.messageNumber
           previous == m.header.previousChainLength
           P == m.seal.plaintext
<1>1. /\ s \in Ratchets /\ l \in Nat /\ l >= 1 /\ s.receiveMessageNumber \in Nat
  BY EndTyped
<1>2. /\ number \in Nat /\ previous \in Nat /\ P \in Nat
  BY DEF Sealed, Messages, MessageHeaders
<1>3. /\ c \in 2 .. L /\ c % 2 = L % 2
      /\ SealedAt(m, w.secret, w.ks, c)
      /\ m.seal.associatedData = w.data
      /\ P = w.starts[c] + number + 1
      /\ Closes(w, c, previous)
      /\ Passed(w, L, c, P)
  BY DEF Follow
<1>4. /\ l >= 3 => v = w.starts[l - 1] + s.receiveMessageNumber
      /\ L > l => v <= w.starts[l + 1]
  BY DEF Cursor
<1>5. Apart(l, L) /\ v < P /\ l <= top /\ L <= top /\ Script(w, top)
  OBVIOUS
<1>6. L = l + 1 => L + 1 <= top /\ fresh = w.ks[L + 1]
  OBVIOUS
<1>7. \A i \in Nat : w.starts[i] \in Nat
  BY DEF Script
<1>8. Meets(m, c, s, fresh, w.secret, w.ks, top, Keys, Secrets, Seq(Keys))
  <2>1. ClosedUnderDh(Keys, Secrets) /\ NoKey \notin Keys
    BY SecretsClosed, KeysArePresent
  <2>2. w.secret \in Secrets /\ top \in Nat /\ DistinctKeys(w.ks, top, Keys)
    BY DEF Script
  <2>3. s \in RatchetStates(Keys, Secrets, Seq(Keys)) /\ InStep(s, w.secret, w.ks)
        /\ s.associatedData = w.data
    BY <1>1 DEF AtEnd, Ratchets
  <2>4. m \in Messages(Keys, Secrets, Seq(Keys))
    BY DEF Sealed
  <2>. HIDE DEF l, c
  <2>5. c \in Nat /\ c >= 2 /\ c <= top /\ c % 2 # l % 2 /\ c <= l + 1
    BY <1>1, <1>3, <1>5, <2>2, ParitySteps
  <2>6. c = l + 1 => c + 1 <= top /\ fresh = w.ks[c + 1]
    BY <1>1, <1>3, <1>5, <1>6 DEF Apart
  <2>7. l = Len(s.rootKey)
    BY DEF l
  <2>. QED BY <1>1, <1>3, <1>5, <2>1, <2>2, <2>3, <2>4, <2>5, <2>6, <2>7 DEF Meets
<1>. HIDE DEF l, c, number, previous, P
<1>9. ~(c <= l - 3)
  <2>. SUFFICES ASSUME c <= l - 3 PROVE FALSE
    OBVIOUS
  <2>1. (l - 1) % 2 = L % 2 /\ l - 1 \in 2 .. L /\ l - 1 > c /\ l >= 3
    BY <1>1, <1>3, <1>5, ParitySteps DEF Apart
  <2>2. P <= w.starts[l - 1]
    BY <1>3, <2>1 DEF Passed
  <2>3. w.starts[l - 1] \in Nat
    BY <1>1, <1>7, <2>1
  <2>4. v = w.starts[l - 1] + s.receiveMessageNumber /\ v < P
    BY <1>4, <1>5, <2>1
  <2> DEFINE start == w.starts[l - 1]
             received == s.receiveMessageNumber
  <2>5. start \in Nat /\ received \in Nat /\ P <= start /\ v = start + received /\ v < P
    BY <1>1, <2>2, <2>3, <2>4
  <2>. HIDE DEF start, received
  <2>6. start <= v
    BY <2>5
  <2>. QED BY <1>2, <2>5, <2>6
<1>10. c = l - 1 \/ (c = l + 1 /\ L = l + 1)
  <2>1. c \in Nat /\ c <= L /\ c % 2 = L % 2
    BY <1>3
  <2>. QED BY <1>1, <1>5, <1>9, <2>1, ParitySteps
<1>11. ASSUME c = l - 1
       PROVE  /\ l >= 3
              /\ P = w.starts[l - 1] + number + 1
              /\ v = w.starts[l - 1] + s.receiveMessageNumber
              /\ L = l + 1 => P <= w.starts[l + 1]
  <2>1. l >= 3
    BY <1>1, <1>3, <1>11
  <2>2. ASSUME L = l + 1 PROVE P <= w.starts[l + 1]
    <3>1. l + 1 \in 2 .. L /\ l + 1 > c
      BY <1>1, <1>11, <2>2
    <3>. QED BY <1>3, <2>2, <3>1 DEF Passed
  <2>. QED BY <1>3, <1>4, <1>11, <2>1, <2>2
<1>12. ASSUME c = l + 1, L = l + 1
       PROVE  /\ P = w.starts[l + 1] + number + 1
              /\ v <= w.starts[l + 1]
              /\ l >= 3 => /\ v = w.starts[l - 1] + s.receiveMessageNumber
                           /\ w.starts[l + 1] = w.starts[l - 1] + previous
              /\ l < 3 => previous = 0
  <2>1. P = w.starts[l + 1] + number + 1 /\ v <= w.starts[l + 1]
    BY <1>1, <1>3, <1>4, <1>12
  <2>2. l >= 3 => w.starts[l + 1] = w.starts[l - 1] + previous
    <3>1. l >= 3 => c >= 4 /\ c - 2 = l - 1
      BY <1>1, <1>12
    <3>. QED BY <1>3, <1>12, <3>1 DEF Closes
  <2>3. l < 3 => previous = 0
    <3>1. l < 3 => c <= 3
      BY <1>1, <1>12
    <3>. QED BY <1>3, <3>1 DEF Closes
  <2>. QED BY <1>4, <2>1, <2>2, <2>3
<1>. QED BY <1>2, <1>8, <1>10, <1>11, <1>12 DEF ComesNext, l, c, number, previous, P
(* A chain of the script has the length of its root.                       *)
LEMMA ScriptChain ==
    ASSUME NEW w, NEW top, Script(w, top), NEW n \in 1 .. top, NEW i
    PROVE  /\ Len(ChainAt(w.secret, w.ks, n, i).root) = n
           /\ ChainAt(w.secret, w.ks, n, i).step = i
<1>1. n \in Nat \ {0} /\ \A x \in 1 .. n : x \in 1 .. top
  BY DEF Script
<1>2. ClosedUnderDh(Keys, Secrets) /\ w.secret \in Secrets /\ \A x \in 1 .. n : w.ks[x] \in Keys
  BY <1>1, SecretsClosed DEF Script, DistinctKeys
<1>. QED BY <1>1, <1>2, ChainFacts

(* The next message of the conversation opens, unless more than MAX_SKIP   *)
(* before it were missed.                                                  *)
LEMMA NextOpens ==
    ASSUME NEW w, NEW s, NEW L \in Nat, NEW m \in Sealed, NEW fresh, NEW top, NEW v \in Nat,
           Script(w, top), AtEnd(w, s), Apart(Len(s.rootKey), L),
           Len(s.rootKey) <= top, L <= top,
           L = Len(s.rootKey) + 1 => L + 1 <= top /\ fresh = w.ks[L + 1],
           IsOf(w, m), Follow(w, L, m), Cursor(w, s, L, v), v < m.seal.plaintext,
           m.seal.plaintext <= v + 1 + MAX_SKIP
    PROVE  RatchetDecrypt(s, m, fresh).ok
<1> DEFINE l == Len(s.rootKey)
           c == ChainOf(m)
           number == m.header.messageNumber
           previous == m.header.previousChainLength
           P == m.seal.plaintext
           r == s.receiveMessageNumber
           before == w.starts[l - 1]
           next == w.starts[l + 1]
<1>1. /\ s \in Ratchets /\ l \in Nat /\ l >= 1 /\ r \in Nat
  BY EndTyped
<1>2. /\ Meets(m, c, s, fresh, w.secret, w.ks, top, Keys, Secrets, Seq(Keys))
      /\ number \in Nat /\ previous \in Nat /\ P \in Nat
      /\ ComesNext(w, s, L, m, v)
  BY NextInScript
<1>3. /\ v < P /\ P <= v + 1 + MAX_SKIP
      /\ l <= top /\ Apart(l, L)
      /\ L = l + 1 => L + 1 <= top /\ fresh = w.ks[L + 1]
      /\ top \in Nat /\ \A i \in Nat : w.starts[i] \in Nat
  BY DEF Script
<1>4. /\ c = l - 1 \/ c = l + 1
      /\ c = l - 1 => /\ l >= 3
                      /\ P = before + number + 1
                      /\ v = before + r
      /\ c = l + 1 => /\ L = l + 1
                      /\ P = next + number + 1
                      /\ v <= next
                      /\ l >= 3 => /\ v = before + r
                                   /\ next = before + previous
                      /\ l < 3 => previous = 0
  BY <1>1, <1>2 DEF ComesNext
<1>5. before \in Nat /\ next \in Nat
  BY <1>1, <1>3
<1>6. /\ IsNewRatchetKey(s, m.header) <=> c # l - 1
      /\ Len(m.seal.key.root) = c
      /\ m.seal.key.step = number
  BY <1>2, MeetingFacts
<1>7. /\ l >= 3 => s.receivingChainKey = ChainAt(w.secret, w.ks, l - 1, s.receiveMessageNumber)
      /\ l < 3 => s.receivingChainKey = NoChain
  BY <1>1, ReceivingChainFacts DEF AtEnd
<1>. HIDE DEF l, c, number, previous, P, r, before, next
<1>8. Len(s.receivingChainKey.root) = IF l >= 3 THEN l - 1 ELSE 0
  <2>1. CASE l >= 3
    <3>1. l - 1 \in 1 .. top
      BY <1>1, <1>3, <2>1
    <3>. QED BY <1>7, <2>1, <3>1, ScriptChain
  <2>2. CASE l < 3
    <3>1. Len(NoChain.root) = 0
      BY DEF NoChain
    <3>. QED BY <1>1, <1>7, <2>2, <3>1
  <2>. QED BY <1>1, <2>1, <2>2
<1>9. l >= 3 => s.receivingChainKey.step = r
  BY <1>7 DEF ChainAt, r
<1>10. ~Before(m.seal.key, s.receivingChainKey)
  <2>1. l >= 1 => ~(Len(m.seal.key.root) < Len(s.receivingChainKey.root))
    BY <1>1, <1>4, <1>6, <1>8
  <2>2. m.seal.key.root = s.receivingChainKey.root =>
           ~(m.seal.key.step < s.receivingChainKey.step)
    <3>1. SUFFICES ASSUME m.seal.key.root = s.receivingChainKey.root
                   PROVE  ~(number < s.receivingChainKey.step)
      BY <1>6
    <3>2. c = l - 1 /\ l >= 3
      BY <1>1, <1>4, <1>6, <1>8, <3>1
    <3>3. number >= r
      BY <1>1, <1>2, <1>3, <1>4, <1>5, <3>2
    <3>. QED BY <1>1, <1>2, <1>9, <3>2, <3>3
  <2>. QED BY <1>1, <2>1, <2>2 DEF Before
<1>11. ~TooFar(s, m.header, fresh)
  <2>1. CASE c = l - 1
    <3>1. Turned(s, m.header, fresh) = s /\ ~IsNewRatchetKey(s, m.header)
      BY <1>6, <2>1 DEF Turned
    <3>2. ~TooManySkipped(s, number)
      <4>1. number <= r + MAX_SKIP
        BY <1>1, <1>2, <1>3, <1>4, <1>5, <2>1, MaxSkipAssumption
      <4>. QED BY <1>1, <1>2, <4>1, MaxSkipAssumption DEF TooManySkipped, r
    <3>. QED BY <3>1, <3>2 DEF TooFar, number
  <2>2. CASE c = l + 1
    <3>1. l >= 1 /\ c # l - 1 /\ L = l + 1
      BY <1>1, <1>4, <2>2
    <3>2. previous <= r + MAX_SKIP
      <4>1. CASE l >= 3
        BY <1>1, <1>2, <1>3, <1>4, <1>5, <2>2, <4>1, MaxSkipAssumption
      <4>2. CASE l < 3
        BY <1>1, <1>4, <2>2, <4>2, MaxSkipAssumption
      <4>. QED BY <1>1, <4>1, <4>2
    <3>3. ~TooManySkipped(s, previous)
      BY <1>1, <1>2, <3>2, MaxSkipAssumption DEF TooManySkipped, r
    <3>4. Turned(s, m.header, fresh).receiveMessageNumber = 0
      <4>1. l + 2 <= top /\ fresh = w.ks[l + 2]
        BY <1>1, <1>3, <3>1
      <4>2. /\ ClosedUnderDh(Keys, Secrets) /\ w.secret \in Secrets /\ NoKey \notin Keys
            /\ s \in RatchetStates(Keys, Secrets, Seq(Keys)) /\ Len(s.rootKey) >= 1
            /\ InStep(s, w.secret, w.ks)
            /\ m.header \in MessageHeaders(Keys)
            /\ m.header.publicKey = w.ks[c]
            /\ top \in Nat /\ DistinctKeys(w.ks, top, Keys)
        BY <1>2 DEF Meets, SealedAt, Messages
      <4>3. DistinctKeys(w.ks, Len(s.rootKey) + 2, Keys)
        <5>1. Len(s.rootKey) + 2 \in Nat /\ Len(s.rootKey) + 2 <= top
          BY <1>1, <4>1 DEF l
        <5>. QED BY <4>2, <5>1, FewerAreDistinct
      <4>4. /\ m.header.publicKey = w.ks[Len(s.rootKey) + 1]
            /\ ~TooManySkipped(s, m.header.previousChainLength)
            /\ fresh = w.ks[Len(s.rootKey) + 2]
        BY <2>2, <3>3, <4>1, <4>2 DEF l, previous
      <4>. QED BY <4>2, <4>3, <4>4, TurnKeepsInStep
    <3>5. number <= 0 + MAX_SKIP
      <4>1. P = next + number + 1 /\ v <= next /\ P <= v + 1 + MAX_SKIP
        BY <1>1, <1>2, <1>3, <1>4, <2>2, <3>1
      <4>2. P \in Nat /\ v \in Nat /\ number \in Nat
        BY <1>1, <1>2
      <4>. QED BY <1>5, <4>1, <4>2, MaxSkipAssumption
    <3>6. ~TooManySkipped(Turned(s, m.header, fresh), number)
      BY <1>2, <3>4, <3>5, MaxSkipAssumption DEF TooManySkipped
    <3>. QED BY <3>3, <3>6 DEF TooFar, number, previous
  <2>. QED BY <1>4, <2>1, <2>2
<1>. QED BY <1>2, <1>10, <1>11, OpensInStep

(* A receiver that opens the next message of the conversation is where the *)
(* script was, or one turn on if its peer was.                             *)
LEMMA OpensInScript ==
    ASSUME NEW w, NEW s, NEW L \in Nat, NEW m \in Sealed, NEW fresh \in Keys, NEW top,
           NEW v \in Nat, Script(w, top), AtEnd(w, s), Apart(Len(s.rootKey), L),
           Len(s.rootKey) <= top, L <= top,
           L = Len(s.rootKey) + 1 => L + 1 <= top /\ fresh = w.ks[L + 1],
           IsOf(w, m), Follow(w, L, m), Cursor(w, s, L, v), v < m.seal.plaintext,
           RatchetDecrypt(s, m, fresh).ok
    PROVE  LET t == RatchetDecrypt(s, m, fresh).state
           IN  /\ AtEnd(w, t)
               /\ Cursor(w, t, L, m.seal.plaintext)
               /\ \/ /\ Len(s.rootKey) >= 3
                     /\ t.rootKey = s.rootKey
                     /\ HeaderOf(t) = HeaderOf(s)
                     /\ t.sendingChainKey = s.sendingChainKey
                  \/ /\ L = Len(s.rootKey) + 1
                     /\ Len(t.rootKey) = Len(s.rootKey) + 2
                     /\ t.sendMessageNumber = 0
                     /\ t.previousSendingChainLength = s.sendMessageNumber
<1> DEFINE l == Len(s.rootKey)
           c == ChainOf(m)
           number == m.header.messageNumber
           previous == m.header.previousChainLength
           P == m.seal.plaintext
           r == s.receiveMessageNumber
           before == w.starts[l - 1]
           next == w.starts[l + 1]
           t == RatchetDecrypt(s, m, fresh).state
<1>1. /\ s \in Ratchets /\ l \in Nat /\ l >= 1 /\ r \in Nat
  BY EndTyped
<1>2. /\ Meets(m, c, s, fresh, w.secret, w.ks, top, Keys, Secrets, Seq(Keys))
      /\ number \in Nat /\ previous \in Nat /\ P \in Nat
      /\ ComesNext(w, s, L, m, v)
  BY NextInScript
<1>3. /\ v < P /\ RatchetDecrypt(s, m, fresh).ok
      /\ l <= top /\ Apart(l, L)
      /\ top \in Nat /\ \A i \in Nat : w.starts[i] \in Nat
  BY DEF Script
<1>4. /\ c = l - 1 \/ c = l + 1
      /\ c = l - 1 => /\ l >= 3
                      /\ P = before + number + 1
                      /\ v = before + r
                      /\ L = l + 1 => P <= next
                      /\ before \in Nat
      /\ c = l + 1 => /\ L = l + 1
                      /\ P = next + number + 1
                      /\ next \in Nat
  BY <1>1, <1>2, <1>3 DEF ComesNext
<1>5. OpenedInStep(s, t, m, c, w.secret, w.ks, top, Keys, Secrets, Seq(Keys))
  BY <1>2, <1>3, DecryptKeepsInStep
<1>6. /\ \E parity \in {0, 1} : GoodRatchet(t, parity, Keys, Secrets, Seq(Keys))
      /\ SpendsKey(s, t, m.seal.key)
  BY <1>3, RatchetDecryptKeepsRatchetGood, SecretsClosed DEF AtEnd, Sealed
<1>7. AtEnd(w, t)
  BY <1>5, <1>6 DEF AtEnd, OpenedInStep
<1>8. /\ Len(m.seal.key.root) = c
      /\ m.seal.key.step = number
  BY <1>2, MeetingFacts
<1>9. /\ Len(t.rootKey) \in Nat /\ t.receiveMessageNumber \in Nat
  BY <1>7, EndTyped
<1>. HIDE DEF t, l, c, number, previous, P, r, before, next
<1>10. /\ c # l + 1 => /\ t.rootKey = s.rootKey
                       /\ HeaderOf(t) = HeaderOf(s)
                       /\ t.sendingChainKey = s.sendingChainKey
       /\ c = l + 1 => /\ Len(t.rootKey) = l + 2
                       /\ t.sendMessageNumber = 0
                       /\ t.previousSendingChainLength = s.sendMessageNumber
       /\ \/ c # l + 1 /\ t.receiveMessageNumber = r
          \/ c >= l - 1 /\ t.receiveMessageNumber = number + 1
  BY <1>5 DEF OpenedInStep, l, number, r
<1>11. CASE c = l - 1
  <2>1. c # l + 1 /\ l >= 3
    BY <1>1, <1>4, <1>11
  <2>2. /\ Len(t.rootKey) = l
        /\ t.receivingChainKey = ChainAt(w.secret, w.ks, l - 1, t.receiveMessageNumber)
    <3>1. Len(t.rootKey) = l
      BY <1>10, <2>1 DEF l
    <3>. QED BY <1>1, <1>7, <2>1, <3>1, ReceivingChainFacts DEF AtEnd
  <2>3. t.receiveMessageNumber = number + 1
    <3>1. SUFFICES ASSUME t.receiveMessageNumber = r PROVE FALSE
      BY <1>10
    <3>2. number >= r
      BY <1>1, <1>2, <1>3, <1>4, <1>11, <2>1
    <3>3. Before(m.seal.key, t.receivingChainKey)
      BY <1>6 DEF SpendsKey, Spent
    <3>4. /\ Len(t.receivingChainKey.root) = l - 1
          /\ t.receivingChainKey.step = r
      <4>1. l - 1 \in 1 .. top
        BY <1>1, <1>3, <2>1
      <4>. QED BY <2>2, <3>1, <4>1, ScriptChain
    <3>. QED BY <1>1, <1>2, <1>8, <1>11, <3>2, <3>3, <3>4 DEF Before
  <2>4. Cursor(w, t, L, P)
    <3>1. P = w.starts[l - 1] + t.receiveMessageNumber
      <4>1. P = before + (number + 1)
        BY <1>2, <1>4, <1>11
      <4>. QED BY <2>3, <4>1 DEF before
    <3>2. L > l => P <= w.starts[l + 1]
      BY <1>1, <1>3, <1>4, <1>11 DEF Apart, next
    <3>. QED BY <2>2, <3>1, <3>2 DEF Cursor
  <2>. QED BY <1>7, <1>10, <2>1, <2>4 DEF t, P, l
<1>12. CASE c = l + 1
  <2>1. L = l + 1 /\ P = next + (number + 1)
    BY <1>2, <1>1, <1>4, <1>12
  <2>2. t.receiveMessageNumber = number + 1 /\ Len(t.rootKey) = l + 2
    BY <1>10, <1>12
  <2>3. Cursor(w, t, L, P)
    <3>1. P = w.starts[(l + 2) - 1] + t.receiveMessageNumber
      <4>1. (l + 2) - 1 = l + 1
        BY <1>1
      <4>. QED BY <2>1, <2>2, <4>1 DEF next
    <3>2. ~(L > l + 2)
      BY <1>1, <2>1
    <3>. QED BY <2>2, <3>1, <3>2 DEF Cursor
  <2>. QED BY <1>7, <1>10, <1>12, <2>1, <2>3 DEF t, P, l
<1>. QED BY <1>4, <1>11, <1>12
-----------------------------------------------------------------------------
(* One direction of a conversation.                                        *)

(* u goes on where the script w, of n - 1 turns, ends.                     *)
Extends(w, u, n) ==
    /\ u.secret = w.secret /\ u.data = w.data
    /\ \A i \in Nat : i < n => u.ks[i] = w.ks[i] /\ u.starts[i] = w.starts[i]

(* The roots of the first turns stay.                                      *)
LEMMA ExtendsRoot ==
    ASSUME NEW w, NEW u, NEW n \in Nat, Extends(w, u, n), NEW k \in Nat, k < n
    PROVE  /\ RootAt(u.secret, u.ks, k) = RootAt(w.secret, w.ks, k)
           /\ \A i : ChainAt(u.secret, u.ks, k, i) = ChainAt(w.secret, w.ks, k, i)
<1>1. \A i \in 1 .. k :
         (IF i = 1 THEN u.secret ELSE Dh(u.ks[i], u.ks[i - 1])) =
         (IF i = 1 THEN w.secret ELSE Dh(w.ks[i], w.ks[i - 1]))
  <2>. SUFFICES ASSUME NEW i \in 1 .. k, i # 1
                PROVE  Dh(u.ks[i], u.ks[i - 1]) = Dh(w.ks[i], w.ks[i - 1])
    BY DEF Extends
  <2>1. i \in Nat /\ i < n /\ i - 1 \in Nat /\ i - 1 < n
    OBVIOUS
  <2>. QED BY <2>1 DEF Extends
<1>2. RootAt(u.secret, u.ks, k) = RootAt(w.secret, w.ks, k)
  BY <1>1 DEF RootAt
<1>. QED BY <1>2 DEF ChainAt

(* An end of the conversation is one of the longer script.                 *)
LEMMA ExtendsEnd ==
    ASSUME NEW w, NEW u, NEW n \in Nat, Extends(w, u, n), NEW s, AtEnd(w, s), Len(s.rootKey) < n
    PROVE  AtEnd(u, s)
<1> DEFINE l == Len(s.rootKey)
<1>1. l \in Nat /\ l >= 1 /\ l < n
  BY EndTyped
<1>2. /\ InStep(s, w.secret, w.ks) /\ s.associatedData = w.data
      /\ \E parity \in {0, 1} : GoodRatchet(s, parity, Keys, Secrets, Seq(Keys))
  BY DEF AtEnd
<1>. HIDE DEF l
<1>3. \A k \in Nat : k < n => /\ u.ks[k] = w.ks[k]
                              /\ RootAt(u.secret, u.ks, k) = RootAt(w.secret, w.ks, k)
                              /\ \A i : ChainAt(u.secret, u.ks, k, i)
                                          = ChainAt(w.secret, w.ks, k, i)
  <2>. SUFFICES ASSUME NEW k \in Nat, k < n
                PROVE  /\ u.ks[k] = w.ks[k]
                       /\ RootAt(u.secret, u.ks, k) = RootAt(w.secret, w.ks, k)
                       /\ \A i : ChainAt(u.secret, u.ks, k, i) = ChainAt(w.secret, w.ks, k, i)
    OBVIOUS
  <2>1. u.ks[k] = w.ks[k]
    BY DEF Extends
  <2>2. RootAt(u.secret, u.ks, k) = RootAt(w.secret, w.ks, k)
    BY ExtendsRoot
  <2>. QED BY <2>1, <2>2 DEF ChainAt
<1>4. l - 1 \in Nat /\ l - 1 < n
  BY <1>1
<1>5. \A k \in 2 .. l - 1 : k \in Nat /\ k < n
  BY <1>1
<1>6. InStep(s, u.secret, u.ks)
  BY <1>1, <1>2, <1>3, <1>4, <1>5 DEF InStep, l
<1>. QED BY <1>2, <1>6 DEF AtEnd, Extends

(* So is a message.                                                        *)
LEMMA ExtendsFollow ==
    ASSUME NEW w, NEW u, NEW n \in Nat, Extends(w, u, n), NEW L \in Nat, L < n,
           NEW m, Follow(w, L, m)
    PROVE  Follow(u, L, m)
<1> DEFINE c == ChainOf(m)
<1>1. IsOf(u, m) <=> IsOf(w, m)
  BY DEF IsOf, Extends
<1>2. \A k \in 2 .. L : k \in Nat /\ k < n
  OBVIOUS
<1>3. \A k \in 2 .. L : u.starts[k] = w.starts[k] /\ u.ks[k] = w.ks[k]
  BY <1>2 DEF Extends
<1>4. Passed(u, L, IF IsOf(u, m) THEN c ELSE 1, m.seal.plaintext)
  BY <1>1, <1>3 DEF Follow, Passed
<1>5. ASSUME IsOf(w, m)
      PROVE  /\ c \in 2 .. L /\ c % 2 = L % 2
             /\ SealedAt(m, u.secret, u.ks, c)
             /\ m.seal.associatedData = u.data
             /\ m.seal.plaintext = u.starts[c] + m.header.messageNumber + 1
             /\ Closes(u, c, m.header.previousChainLength)
  <2>1. /\ c \in 2 .. L /\ c % 2 = L % 2
        /\ SealedAt(m, w.secret, w.ks, c)
        /\ m.seal.associatedData = w.data
        /\ m.seal.plaintext = w.starts[c] + m.header.messageNumber + 1
        /\ Closes(w, c, m.header.previousChainLength)
    BY <1>5 DEF Follow
  <2>. HIDE DEF c
  <2>2. SealedAt(m, u.secret, u.ks, c)
    BY <1>2, <1>3, <2>1, ExtendsRoot DEF SealedAt
  <2>3. Closes(u, c, m.header.previousChainLength)
    <3>1. c >= 4 => c - 2 \in 2 .. L
      BY <2>1
    <3>. QED BY <1>3, <2>1, <3>1 DEF Closes
  <2>. QED BY <1>3, <2>1, <2>2, <2>3 DEF Extends
<1>. QED BY <1>1, <1>4, <1>5 DEF Follow

(* So is a direction of the conversation.                                  *)
LEMMA ExtendsDirection ==
    ASSUME NEW w, NEW u, NEW n \in Nat, Extends(w, u, n),
           NEW s, AtEnd(w, s), Len(s.rootKey) < n, NEW t, AtEnd(w, t), Len(t.rootKey) < n,
           NEW real, NEW queue, NEW k, NEW h, NEW all,
           Apart(Len(s.rootKey), Len(t.rootKey)),
           Direction(w, s, t, real, queue, k, h, all)
    PROVE  Direction(u, s, t, real, queue, k, h, all)
<1> DEFINE l == Len(s.rootKey)
           L == Len(t.rootKey)
<1>1. /\ l \in Nat /\ L \in Nat /\ l >= 1 /\ L >= 1 /\ l < n /\ L < n
      /\ Apart(l, L)
  BY EndTyped
<1>2. /\ \A i \in 1 .. Len(queue) : Follow(w, L, queue[i].message)
      /\ real => Sent(w, t, k)
      /\ Cursor(w, s, L, LastOf(h))
      /\ all => Cursor(w, s, L, k - Len(queue))
  BY DEF Direction
<1>. HIDE DEF l, L
<1>3. \A i \in Nat : i < n => u.starts[i] = w.starts[i]
  BY DEF Extends
<1>4. \A v : Cursor(w, s, L, v) => Cursor(u, s, L, v)
  <2>1. l >= 3 => u.starts[l - 1] = w.starts[l - 1]
    BY <1>1, <1>3
  <2>2. L > l => u.starts[l + 1] = w.starts[l + 1]
    <3>1. L > l => l + 1 \in Nat /\ l + 1 < n
      BY <1>1 DEF Apart
    <3>. QED BY <1>3, <3>1
  <2>. QED BY <2>1, <2>2 DEF Cursor, l
<1>5. Sent(w, t, k) => Sent(u, t, k)
  <2>1. u.starts[L] = w.starts[L]
    BY <1>1, <1>3
  <2>2. L >= 4 => u.starts[L - 2] = w.starts[L - 2]
    BY <1>1, <1>3
  <2>. QED BY <2>1, <2>2 DEF Sent, Closes, L
<1>6. \A i \in 1 .. Len(queue) : Follow(u, L, queue[i].message)
  BY <1>1, <1>2, ExtendsFollow
<1>. QED BY <1>2, <1>4, <1>5, <1>6 DEF Direction, L

(* The two ratchets turn in turns.                                         *)
LEMMA ParityChanges == \A n \in Nat : (n + 1) % 2 # n % 2
OBVIOUS

(* The sender turns: it starts its next chain after what it has posted.    *)
LEMMA SenderTurns ==
    ASSUME NEW w, NEW u, NEW s, NEW t, NEW v, NEW real, NEW queue, NEW k, NEW h, NEW all,
           AtEnd(w, s), AtEnd(w, t), k \in Nat, Len(queue) \in Nat,
           Len(v.rootKey) = Len(t.rootKey) + 2, Len(s.rootKey) = Len(t.rootKey) + 1,
           Extends(w, u, Len(t.rootKey) + 2), u.starts[Len(t.rootKey) + 2] = k,
           Direction(w, s, t, real, queue, k, h, all),
           real => CanEncrypt(t), ~real => Len(t.rootKey) = 1 /\ t.sendMessageNumber = 0,
           v.sendMessageNumber = 0, v.previousSendingChainLength = t.sendMessageNumber,
           \A i \in 1 .. Len(queue) : Plaintext(queue[i]) <= k,
           LastOf(h) <= k
    PROVE  Direction(u, s, v, TRUE, queue, k, h, all)
<1> DEFINE L == Len(t.rootKey)
<1>1. /\ L \in Nat /\ L >= 1 /\ Len(s.rootKey) = L + 1 /\ Len(v.rootKey) = L + 2
      /\ t.sendMessageNumber \in Nat
  BY EndTyped
<1>2. /\ \A i \in 1 .. Len(queue) : Follow(w, L, queue[i].message)
      /\ real => Sent(w, t, k)
      /\ Cursor(w, s, L, LastOf(h))
      /\ all => Cursor(w, s, L, k - Len(queue))
      /\ (real /\ L >= 2) \/ (L = 1 /\ t.sendMessageNumber = 0)
      /\ u.starts[L + 2] = k
      /\ \A i \in Nat : i < L + 2 => u.starts[i] = w.starts[i]
      /\ Extends(w, u, L + 2)
  <2>1. CanEncrypt(t) => L # 1
    BY EndTyped
  <2>2. /\ real => CanEncrypt(t)
        /\ ~real => L = 1 /\ t.sendMessageNumber = 0
    OBVIOUS
  <2>3. \A i \in Nat : i < L + 2 => u.starts[i] = w.starts[i]
    BY DEF Extends
  <2>4. /\ \A i \in 1 .. Len(queue) : Follow(w, L, queue[i].message)
        /\ real => Sent(w, t, k)
        /\ Cursor(w, s, L, LastOf(h))
        /\ all => Cursor(w, s, L, k - Len(queue))
    BY DEF Direction
  <2>. HIDE DEF L
  <2>5. (real /\ L >= 2) \/ (L = 1 /\ t.sendMessageNumber = 0)
    BY <1>1, <2>1, <2>2
  <2>. QED BY <2>3, <2>4, <2>5 DEF L
<1>3. Sent(w, t, k) =>
         k = w.starts[L] + t.sendMessageNumber
  BY DEF Sent
<1>. HIDE DEF L
<1>4. Sent(u, v, k)
  <2>1. k = u.starts[L + 2] + 0
    BY <1>2
  <2>2. L + 2 >= 4 => u.starts[L + 2] = u.starts[L] + t.sendMessageNumber
    <3>. SUFFICES ASSUME L >= 2 PROVE k = u.starts[L] + t.sendMessageNumber
      BY <1>1, <1>2
    <3>1. Sent(w, t, k)
      BY <1>1, <1>2
    <3>2. u.starts[L] = w.starts[L]
      BY <1>1, <1>2
    <3>. QED BY <1>3, <3>1, <3>2
  <2>3. L + 2 <= 3 => t.sendMessageNumber = 0
    BY <1>1, <1>2
  <2>4. (L + 2) - 2 = L
    BY <1>1
  <2>. QED BY <1>1, <2>1, <2>2, <2>3, <2>4 DEF Sent, Closes
<1>5. \A i \in 1 .. Len(queue) : Follow(u, L + 2, queue[i].message)
  <2>. SUFFICES ASSUME NEW i \in 1 .. Len(queue)
                PROVE  Follow(u, L + 2, queue[i].message)
    OBVIOUS
  <2> DEFINE m == queue[i].message
             c == IF IsOf(u, m) THEN ChainOf(m) ELSE 1
             P == m.seal.plaintext
  <2>1. Follow(u, L, m)
    BY <1>1, <1>2, ExtendsFollow
  <2>2. P <= k
    BY DEF Plaintext
  <2>. HIDE DEF m, P
  <2>3. Passed(u, L, c, P)
    BY <2>1 DEF Follow, P
  <2>. HIDE DEF c
  <2>4. Passed(u, L + 2, c, P)
    <3>. SUFFICES ASSUME NEW x \in 2 .. L + 2, x > c, x % 2 = (L + 2) % 2
                  PROVE  P <= u.starts[x]
      BY DEF Passed
    <3>1. x % 2 = L % 2
      BY <1>1, ParityRepeats
    <3>2. x # L + 1
      BY <1>1, <3>1, ParityChanges
    <3>3. CASE x = L + 2
      BY <1>2, <2>2, <3>3
    <3>4. CASE x \in 2 .. L
      BY <2>3, <3>1, <3>4 DEF Passed
    <3>. QED BY <1>1, <3>2, <3>3, <3>4
  <2>5. IsOf(u, m) => ChainOf(m) \in 2 .. L + 2 /\ ChainOf(m) % 2 = (L + 2) % 2
    BY <1>1, <2>1, ParityRepeats DEF Follow
  <2>. QED BY <2>1, <2>4, <2>5 DEF Follow, m, c, P
<1>6. \A x : Cursor(w, s, L, x) /\ x <= k => Cursor(u, s, L + 2, x)
  <2>1. L + 1 >= 3 => u.starts[(L + 1) - 1] = w.starts[(L + 1) - 1]
    BY <1>1, <1>2
  <2>2. (L + 1) + 1 = L + 2
    BY <1>1
  <2>. QED BY <1>1, <1>2, <2>1, <2>2 DEF Cursor
<1>7. LastOf(h) <= k /\ k - Len(queue) <= k
  OBVIOUS
<1>. QED BY <1>1, <1>2, <1>4, <1>5, <1>6, <1>7 DEF Direction

(* The sender sends the next message of the script.                        *)
LEMMA SenderSends ==
    ASSUME NEW w, NEW top, Script(w, top), NEW s, NEW t, AtEnd(w, t), CanEncrypt(t),
           NEW queue \in Seq(Envelopes),
           Len(t.rootKey) <= top,
           NEW k \in Nat, NEW h, NEW all, Direction(w, s, t, TRUE, queue, k, h, all),
           NEW e \in Envelopes, e.message = EncryptedMessage(t, k + 1)
    PROVE  Direction(w, s, AfterEncrypt(t), TRUE, Append(queue, e), k + 1, h, all)
<1> DEFINE L == Len(t.rootKey)
           n == Len(queue)
           v == AfterEncrypt(t)
           m == e.message
           number == t.sendMessageNumber
           start == w.starts[L]
<1>1. /\ L \in Nat /\ L >= 2 /\ number \in Nat
      /\ t \in Ratchets
  <2>1. /\ L \in Nat /\ L >= 1 /\ number \in Nat /\ t \in Ratchets
        /\ L = 1 => ~CanEncrypt(t)
    BY EndTyped
  <2>2. CanEncrypt(t)
    OBVIOUS
  <2>. HIDE DEF L
  <2>. QED BY <2>1, <2>2
<1>2. /\ \A i \in 1 .. n : Follow(w, L, queue[i].message)
      /\ Sent(w, t, k)
      /\ Cursor(w, s, L, LastOf(h))
      /\ all => Cursor(w, s, L, k - n)
  BY DEF Direction
<1>3. /\ k = start + number
      /\ Closes(w, L, t.previousSendingChainLength)
      /\ start \in Nat
  BY <1>1, <1>2 DEF Sent, Script
<1>4. /\ v.rootKey = t.rootKey
      /\ v.sendMessageNumber = number + 1
      /\ v.previousSendingChainLength = t.previousSendingChainLength
  BY <1>1 DEF AfterEncrypt, Ratchets, RatchetStates
<1>5. n \in Nat /\ Len(Append(queue, e)) = n + 1
      /\ \A i \in 1 .. n : Append(queue, e)[i] = queue[i]
      /\ Append(queue, e)[n + 1] = e
  BY AppendProperties, LenProperties
<1>6. SealedAt(m, w.secret, w.ks, L)
  <2>1. /\ t \in RatchetStates(Keys, Secrets, Seq(Keys)) /\ Len(t.rootKey) >= 1
        /\ InStep(t, w.secret, w.ks) /\ CanEncrypt(t)
    BY <1>1 DEF AtEnd, Ratchets
  <2>2. SealedAt(EncryptedMessage(t, k + 1), w.secret, w.ks, Len(t.rootKey))
    BY <2>1, EncryptKeepsInStep
  <2>. QED BY <2>2
<1>7. /\ m.seal.key = t.sendingChainKey
      /\ m.seal.plaintext = k + 1
      /\ m.seal.associatedData = t.associatedData
      /\ m.header.messageNumber = number
      /\ m.header.previousChainLength = t.previousSendingChainLength
  BY DEF EncryptedMessage, HeaderOf
<1>8. ChainOf(m) = L /\ IsOf(w, m)
  <2>1. m.seal.key = ChainAt(w.secret, w.ks, L, m.header.messageNumber)
    BY <1>6 DEF SealedAt
  <2>2. Len(m.seal.key.root) = L
    <3>1. L \in 1 .. top
      BY <1>1 DEF Script
    <3>. HIDE DEF L
    <3>. QED BY <2>1, <3>1, ScriptChain
  <2>3. RootAt(w.secret, w.ks, L)[1] = w.secret
    <3>. HIDE DEF L
    <3>. QED BY <1>1 DEF RootAt
  <2>4. m.seal.key.root = RootAt(w.secret, w.ks, L)
    BY <2>1 DEF ChainAt
  <2>. QED BY <2>2, <2>3, <2>4 DEF ChainOf, IsOf
<1>. HIDE DEF L, n, v, m, number, start
<1>9. Follow(w, L, m)
  <2>1. Passed(w, L, L, k + 1)
    BY <1>1 DEF Passed
  <2>2. k + 1 = w.starts[L] + number + 1
    <3>1. k + 1 = start + number + 1
      BY <1>1, <1>3
    <3>. QED BY <3>1 DEF start
  <2>3. L \in 2 .. L
    BY <1>1
  <2>4. t.associatedData = w.data
    BY DEF AtEnd
  <2>. QED BY <1>3, <1>6, <1>7, <1>8, <2>1, <2>2, <2>3, <2>4 DEF Follow
<1>10. \A i \in 1 .. n + 1 : Follow(w, L, Append(queue, e)[i].message)
  <2>1. \A i \in 1 .. n + 1 : i \in 1 .. n \/ i = n + 1
    BY <1>5
  <2>. QED BY <1>2, <1>5, <1>9, <2>1 DEF m
<1>11. Sent(w, v, k + 1)
  <2>1. k + 1 = start + (number + 1)
    BY <1>1, <1>3
  <2>. QED BY <1>3, <1>4, <2>1 DEF Sent, L, start
<1>12. (k + 1) - (n + 1) = k - n
  BY <1>5
<1>. QED BY <1>2, <1>4, <1>5, <1>10, <1>11, <1>12 DEF Direction, L, v
(* A message of another conversation, sent by a user that is not in this   *)
(* one yet, comes before all of this one's.                                *)
LEMMA OtherSends ==
    ASSUME NEW w, NEW s, NEW t, Len(s.rootKey) = 2, Len(t.rootKey) = 1,
           NEW queue \in Seq(Envelopes), NEW k, NEW h, NEW all,
           Direction(w, s, t, FALSE, queue, k, h, all),
           NEW e \in Envelopes, ~IsOf(w, e.message)
    PROVE  Direction(w, s, t, FALSE, Append(queue, e), k + 1, h, all)
<1> DEFINE n == Len(queue)
<1>1. n \in Nat /\ Len(Append(queue, e)) = n + 1
      /\ \A i \in 1 .. n : Append(queue, e)[i] = queue[i]
      /\ Append(queue, e)[n + 1] = e
  BY AppendProperties, LenProperties
<1>2. \A i \in 1 .. n : Follow(w, 1, queue[i].message)
  BY DEF Direction
<1>3. Follow(w, 1, e.message)
  BY DEF Follow, Passed
<1>. HIDE DEF n
<1>4. \A i \in 1 .. n + 1 : i \in 1 .. n \/ i = n + 1
  BY <1>1
<1>5. \A i \in 1 .. n + 1 : Follow(w, 1, Append(queue, e)[i].message)
  BY <1>1, <1>2, <1>3, <1>4
<1>6. \A v : Cursor(w, s, 1, v)
  BY DEF Cursor
<1>. QED BY <1>1, <1>5, <1>6 DEF Direction

(* What is left of a queue whose first message is gone.                    *)
LEMMA QueueMoves ==
    ASSUME NEW queue \in Seq(Envelopes), queue # <<>>
    PROVE  /\ 1 \in 1 .. Len(queue) /\ Head(queue) = queue[1]
           /\ RemoveAt(queue, 1) \in Seq(Envelopes)
           /\ Len(queue) \in Nat
           /\ Len(RemoveAt(queue, 1)) = Len(queue) - 1
           /\ \A i \in 1 .. Len(queue) - 1 :
                 /\ RemoveAt(queue, 1)[i] = queue[i + 1]
                 /\ i + 1 \in 1 .. Len(queue)
<1>1. Len(queue) \in Nat /\ Len(queue) # 0
  BY EmptySeq, LenProperties
<1>2. 1 \in 1 .. Len(queue)
  BY <1>1
<1>3. \A i \in 1 .. Len(queue) - 1 : ~(i < 1) /\ i + 1 \in 1 .. Len(queue)
  BY <1>1
<1>. QED BY <1>1, <1>2, <1>3, RemoveAtKeepsOthers

(* A message leaves the queue unopened: one of another conversation, or on *)
(* a way that loses messages.                                              *)
LEMMA MessageGoes ==
    ASSUME NEW w, NEW top, Script(w, top), NEW s, AtEnd(w, s), NEW t, AtEnd(w, t),
           Apart(Len(s.rootKey), Len(t.rootKey)), Len(s.rootKey) <= top,
           NEW real, NEW queue \in Seq(Envelopes), queue # <<>>,
           NEW k \in Nat, NEW h, NEW all, Direction(w, s, t, real, queue, k, h, all),
           NEW still, still => /\ all
                               /\ ~IsOf(w, queue[1].message)
                               /\ Plaintext(queue[1]) = k - Len(queue) + 1
                               /\ Plaintext(queue[1]) \in Nat
    PROVE  Direction(w, s, t, real, RemoveAt(queue, 1), k, h, still)
<1> DEFINE l == Len(s.rootKey)
           L == Len(t.rootKey)
           n == Len(queue)
           rest == RemoveAt(queue, 1)
           P == Plaintext(queue[1])
           r == s.receiveMessageNumber
<1>1. /\ l \in Nat /\ L \in Nat /\ l >= 1 /\ r \in Nat
  BY EndTyped
<1>2. /\ 1 \in 1 .. n /\ n \in Nat /\ Len(rest) = n - 1
      /\ \A i \in 1 .. n - 1 : rest[i] = queue[i + 1] /\ i + 1 \in 1 .. n
  BY QueueMoves
<1>3. /\ \A i \in 1 .. n : Follow(w, L, queue[i].message)
      /\ real => Sent(w, t, k)
      /\ Cursor(w, s, L, LastOf(h))
      /\ all => Cursor(w, s, L, k - n)
  BY DEF Direction
<1>4. /\ Apart(l, L) /\ l <= top /\ \A i \in Nat : w.starts[i] \in Nat
      /\ still => all /\ ~IsOf(w, queue[1].message) /\ P = k - n + 1 /\ P \in Nat
  BY DEF Script
<1>5. Passed(w, L, IF IsOf(w, queue[1].message) THEN ChainOf(queue[1].message) ELSE 1, P)
  BY <1>2, <1>3 DEF Follow, Plaintext
<1>. HIDE DEF l, L, n, rest, P, r
<1>6. \A i \in 1 .. Len(rest) : Follow(w, L, rest[i].message)
  BY <1>2, <1>3
<1>7. ASSUME still
      PROVE  Cursor(w, s, L, k - Len(rest))
  <2>1. k - Len(rest) = P /\ k - n < P
    BY <1>2, <1>4, <1>7
  <2>2. Passed(w, L, 1, P)
    BY <1>4, <1>5, <1>7
  <2>3. Cursor(w, s, L, k - n)
    BY <1>3, <1>4, <1>7
  <2>4. ~(l >= 3)
    <3>. SUFFICES ASSUME l >= 3 PROVE FALSE
      OBVIOUS
    <3> DEFINE start == w.starts[l - 1]
    <3>1. k - n = start + r
      BY <2>3 DEF Cursor, l, r
    <3>2. l - 1 \in 2 .. L /\ (l - 1) % 2 = L % 2 /\ l - 1 > 1
      BY <1>1, <1>4 DEF Apart
    <3>3. P <= start
      BY <2>2, <3>2 DEF Passed
    <3>4. start \in Nat
      BY <1>1, <1>4
    <3>. HIDE DEF start
    <3>. QED BY <1>1, <1>4, <1>7, <2>1, <3>1, <3>3, <3>4
  <2>5. L > l => P <= w.starts[l + 1]
    <3>1. L > l => l + 1 \in 2 .. L /\ (l + 1) % 2 = L % 2 /\ l + 1 > 1
      BY <1>1, <1>4 DEF Apart
    <3>. QED BY <2>2, <3>1 DEF Passed
  <2>. QED BY <2>1, <2>4, <2>5 DEF Cursor, l
<1>. QED BY <1>3, <1>6, <1>7 DEF Direction, L, rest

(* The receiver opens the next message of the conversation.                *)
LEMMA MessageOpens ==
    ASSUME NEW w, NEW s, NEW v, NEW t, NEW real, NEW queue \in Seq(Envelopes), queue # <<>>,
           NEW k \in Nat, NEW h \in Seq(Nat), NEW all, Direction(w, s, t, real, queue, k, h, all),
           Cursor(w, v, Len(t.rootKey), Plaintext(queue[1])), Plaintext(queue[1]) \in Nat,
           NEW still, still => Plaintext(queue[1]) = k - Len(queue) + 1
    PROVE  Direction(w, v, t, real, RemoveAt(queue, 1), k, Append(h, Plaintext(queue[1])), still)
<1> DEFINE L == Len(t.rootKey)
           n == Len(queue)
           rest == RemoveAt(queue, 1)
           P == Plaintext(queue[1])
<1>2. /\ 1 \in 1 .. n /\ n \in Nat /\ Len(rest) = n - 1
      /\ \A i \in 1 .. n - 1 : rest[i] = queue[i + 1] /\ i + 1 \in 1 .. n
  BY QueueMoves
<1>3. /\ \A i \in 1 .. n : Follow(w, L, queue[i].message)
      /\ real => Sent(w, t, k)
  BY DEF Direction
<1>4. LastOf(Append(h, P)) = P
  BY LastOfAppend
<1>5. Cursor(w, v, L, P) /\ (still => P = k - n + 1)
  OBVIOUS
<1>. HIDE DEF L, n, rest, P
<1>6. \A i \in 1 .. Len(rest) : Follow(w, L, rest[i].message)
  BY <1>2, <1>3
<1>7. still => k - Len(rest) = P
  BY <1>2, <1>5
<1>. QED BY <1>3, <1>4, <1>5, <1>6, <1>7 DEF Direction, L, rest, P

(* Ends that have not turned, and a receiver that has not received.        *)
LEMMA EndsStay ==
    ASSUME NEW w, NEW s, NEW t, NEW s2, NEW t2, NEW real, NEW queue, NEW k, NEW h,
           NEW all, NEW still, Direction(w, s, t, real, queue, k, h, all), still => all,
           Len(s2.rootKey) = Len(s.rootKey), s2.receiveMessageNumber = s.receiveMessageNumber,
           Len(t2.rootKey) = Len(t.rootKey),
           t2.sendMessageNumber = t.sendMessageNumber,
           t2.previousSendingChainLength = t.previousSendingChainLength
    PROVE  Direction(w, s2, t2, real, queue, k, h, still)
BY DEF Direction, Cursor, Sent

(* The turn of the one that is ahead.                                      *)
Longer(l, L) == IF l > L THEN l ELSE L

(* The script with its next turn: to the ratchet key k, by a user that has *)
(* posted n messages.                                                      *)
WithTurn(w, top, k, n) ==
    [secret |-> w.secret, data |-> w.data,
     ks |-> [i \in Nat |-> IF i = top + 1 THEN k ELSE w.ks[i]],
     starts |-> [i \in Nat |-> IF i = top + 1 THEN n ELSE w.starts[i]]]

(* The script with its next turn is a script.                              *)
LEMMA TurnExtends ==
    ASSUME NEW w, NEW top, Script(w, top), NEW k \in Keys, \A i \in 1 .. top : w.ks[i] # k,
           NEW n \in Nat
    PROVE  LET u == WithTurn(w, top, k, n)
           IN  /\ Script(u, top + 1)
               /\ Extends(w, u, top + 1)
               /\ u.ks[top + 1] = k
               /\ u.starts[top + 1] = n
<1> DEFINE u == WithTurn(w, top, k, n)
<1>1. top \in Nat /\ w.secret \in Secrets /\ \A i \in Nat : w.starts[i] \in Nat
  BY DEF Script
<1>2. /\ \A i \in 1 .. top : w.ks[i] \in Keys
      /\ \A i, j \in 1 .. top : w.ks[i] = w.ks[j] => i = j
  BY DEF Script, DistinctKeys
<1>3. /\ u.secret = w.secret /\ u.data = w.data
      /\ \A i \in Nat : u.ks[i] = IF i = top + 1 THEN k ELSE w.ks[i]
      /\ \A i \in Nat : u.starts[i] = IF i = top + 1 THEN n ELSE w.starts[i]
  BY DEF WithTurn
<1>. HIDE DEF u
<1>4. \A i \in 1 .. top + 1 : i \in Nat /\ (i \in 1 .. top \/ i = top + 1)
  BY <1>1
<1>5. \A i \in 1 .. top : i \in Nat /\ i # top + 1
  BY <1>1
<1>6. DistinctKeys(u.ks, top + 1, Keys)
  <2>1. \A i \in 1 .. top + 1 : u.ks[i] \in Keys
    BY <1>2, <1>3, <1>4, <1>5
  <2>2. ASSUME NEW i \in 1 .. top + 1, NEW j \in 1 .. top + 1, u.ks[i] = u.ks[j]
        PROVE  i = j
    BY <1>2, <1>3, <1>4, <1>5, <2>2
  <2>. QED BY <2>1, <2>2 DEF DistinctKeys
<1>7. \A i \in Nat : u.starts[i] \in Nat
  BY <1>1, <1>3
<1>8. \A i \in Nat : i < top + 1 => i # top + 1
  BY <1>1
<1>9. top + 1 \in Nat
  BY <1>1
<1>. QED BY <1>1, <1>3, <1>6, <1>7, <1>8, <1>9 DEF Script, Extends, u

(* What a receiver v, that was s, finds of a conversation whose next       *)
(* message it has opened.                                                  *)
Continued(w, u, s, v, t, fresh) ==
    LET l == Len(v.rootKey)
        top == Longer(l, Len(t.rootKey))
    IN  /\ u.secret = w.secret /\ u.data = w.data
        /\ Script(u, top)
        /\ AtEnd(u, v) /\ AtEnd(u, t)
        /\ Apart(l, Len(t.rootKey))
        /\ \A i \in 1 .. top :
              \/ /\ i <= Longer(Len(s.rootKey), Len(t.rootKey))
                 /\ u.ks[i] = w.ks[i]
              \/ u.ks[i] = fresh /\ v.sendingRatchetKey = fresh
        /\ s.sendingRatchetKey # fresh

(* Opening the next message continues the conversation, in both directions.*)
LEMMA OpensNext ==
    ASSUME NEW w, NEW s, AtEnd(w, s), NEW t, AtEnd(w, t), Apart(Len(s.rootKey), Len(t.rootKey)),
           NEW top, top = Longer(Len(s.rootKey), Len(t.rootKey)), Script(w, top),
           NEW fresh \in Keys, \A i \in 1 .. top : w.ks[i] # fresh,
           NEW real, NEW queue \in Seq(Envelopes), queue # <<>>, NEW k \in Nat,
           NEW h \in Seq(Nat), NEW all, Direction(w, s, t, real, queue, k, h, all),
           NEW here, NEW queue2 \in Seq(Envelopes), NEW k2 \in Nat, NEW h2, NEW all2,
           Direction(w, t, s, here, queue2, k2, h2, all2),
           here => CanEncrypt(s), ~here => Len(s.rootKey) = 1 /\ s.sendMessageNumber = 0,
           \A i \in 1 .. Len(queue2) : Plaintext(queue2[i]) <= k2, LastOf(h2) <= k2,
           queue[1].message \in Sealed, IsOf(w, queue[1].message),
           LastOf(h) \in Nat, LastOf(h) < Plaintext(queue[1]),
           RatchetDecrypt(s, queue[1].message, fresh).ok,
           NEW still, still => Plaintext(queue[1]) = k - Len(queue) + 1,
           NEW still2, still2 => all2
    PROVE  LET v == RatchetDecrypt(s, queue[1].message, fresh).state
           IN  \E u : /\ Continued(w, u, s, v, t, fresh)
                      /\ Direction(u, v, t, real, RemoveAt(queue, 1), k,
                                   Append(h, Plaintext(queue[1])), still)
                      /\ Direction(u, t, v, TRUE, queue2, k2, h2, still2)
<1> DEFINE l == Len(s.rootKey)
           L == Len(t.rootKey)
           m == queue[1].message
           P == Plaintext(queue[1])
           v == RatchetDecrypt(s, m, fresh).state
           u == WithTurn(w, top, fresh, k2)
<1>1. /\ l \in Nat /\ L \in Nat /\ l >= 1 /\ L >= 1 /\ Apart(l, L)
      /\ top = Longer(l, L) /\ Script(w, top)
  BY EndTyped
<1>2. /\ Script(u, top + 1) /\ Extends(w, u, top + 1)
      /\ u.ks[top + 1] = fresh /\ u.starts[top + 1] = k2
  BY TurnExtends
<1>3. /\ m \in Sealed /\ IsOf(w, m) /\ LastOf(h) \in Nat /\ LastOf(h) < m.seal.plaintext
      /\ RatchetDecrypt(s, m, fresh).ok /\ P = m.seal.plaintext /\ P \in Nat
  BY DEF Plaintext, Sealed, Messages
<1>. HIDE DEF l, L, m, P, v, u
<1>4. /\ top \in Nat /\ l <= top /\ L <= top /\ l < top + 1 /\ L < top + 1
      /\ top + 1 \in Nat /\ l <= top + 1 /\ L <= top + 1
      /\ L = l + 1 => top = L
  <2>1. top = IF l > L THEN l ELSE L
    BY <1>1 DEF Longer
  <2>. QED BY <1>1, <2>1
<1>5. /\ AtEnd(u, s) /\ AtEnd(u, t)
      /\ Direction(u, s, t, real, queue, k, h, all)
      /\ Direction(u, t, s, here, queue2, k2, h2, all2)
  <2>1. AtEnd(w, s) /\ AtEnd(w, t) /\ Len(s.rootKey) < top + 1 /\ Len(t.rootKey) < top + 1
        /\ Apart(Len(s.rootKey), Len(t.rootKey)) /\ Apart(Len(t.rootKey), Len(s.rootKey))
    BY <1>4 DEF l, L, Apart
  <2>2. AtEnd(u, s) /\ AtEnd(u, t)
    BY <1>2, <1>4, <2>1, ExtendsEnd
  <2>3. Direction(u, s, t, real, queue, k, h, all)
    BY <1>2, <1>4, <2>1, ExtendsDirection
  <2>4. Direction(u, t, s, here, queue2, k2, h2, all2)
    BY <1>2, <1>4, <2>1, ExtendsDirection
  <2>. QED BY <2>2, <2>3, <2>4
<1>6. IsOf(u, m) /\ Follow(u, L, m) /\ Cursor(u, s, L, LastOf(h))
  <2>1. 1 \in 1 .. Len(queue)
    BY QueueMoves
  <2>. QED BY <1>2, <1>3, <1>5, <2>1 DEF Direction, IsOf, Extends, L, m
<1>7. /\ AtEnd(u, v)
      /\ Cursor(u, v, L, P)
      /\ \/ /\ l >= 3
            /\ v.rootKey = s.rootKey
            /\ HeaderOf(v) = HeaderOf(s)
            /\ v.sendingChainKey = s.sendingChainKey
         \/ /\ L = l + 1
            /\ Len(v.rootKey) = l + 2
            /\ v.sendMessageNumber = 0
            /\ v.previousSendingChainLength = s.sendMessageNumber
  <2>1. /\ Apart(Len(s.rootKey), L) /\ Len(s.rootKey) <= top + 1
        /\ L = Len(s.rootKey) + 1 => L + 1 <= top + 1 /\ fresh = u.ks[L + 1]
    BY <1>1, <1>2, <1>4 DEF l
  <2>2. L \in Nat /\ m \in Sealed /\ LastOf(h) \in Nat /\ Script(u, top + 1) /\ AtEnd(u, s)
        /\ L <= top + 1 /\ IsOf(u, m) /\ Follow(u, L, m) /\ Cursor(u, s, L, LastOf(h))
        /\ LastOf(h) < m.seal.plaintext /\ RatchetDecrypt(s, m, fresh).ok
    BY <1>1, <1>2, <1>3, <1>4, <1>5, <1>6
  <2>. QED BY <1>3, <2>1, <2>2, OpensInScript DEF v, l
<1>8. Direction(u, v, t, real, RemoveAt(queue, 1), k, Append(h, P), still)
  BY <1>3, <1>5, <1>7, MessageOpens DEF L, P
<1>9. /\ \A i \in 1 .. top : w.ks[i] # fresh
      /\ s.sendingRatchetKey = w.ks[l]
      /\ v.sendingRatchetKey = u.ks[Len(v.rootKey)]
      /\ \A i \in Nat : i < top + 1 => u.ks[i] = w.ks[i]
  BY <1>2, <1>7 DEF AtEnd, InStep, Extends, l
<1>10. s.sendingRatchetKey # fresh
  <2>1. l \in 1 .. top
    BY <1>1, <1>4
  <2>. QED BY <1>9, <2>1
<1>11. CASE /\ l >= 3
            /\ v.rootKey = s.rootKey
            /\ HeaderOf(v) = HeaderOf(s)
            /\ v.sendingChainKey = s.sendingChainKey
  <2>1. /\ Len(v.rootKey) = l
        /\ v.sendMessageNumber = s.sendMessageNumber
        /\ v.previousSendingChainLength = s.previousSendingChainLength
    BY <1>11 DEF HeaderOf, l
  <2>2. here
    <3>1. l # 1
      BY <1>1, <1>11
    <3>. QED BY <3>1 DEF l
  <2>3. Direction(u, t, v, TRUE, queue2, k2, h2, still2)
    <3>1. Len(v.rootKey) = Len(s.rootKey) /\ t.receiveMessageNumber = t.receiveMessageNumber
      BY <2>1 DEF l
    <3>. QED BY <1>5, <2>1, <2>2, <3>1, EndsStay
  <2>4. Script(u, top)
    <3>1. \A i \in 1 .. top : i \in 1 .. top + 1
      BY <1>4
    <3>. QED BY <1>2, <1>4, <3>1 DEF Script, DistinctKeys
  <2>5. \A i \in 1 .. top : i <= top /\ u.ks[i] = w.ks[i]
    BY <1>4, <1>9
  <2>6. Continued(w, u, s, v, t, fresh)
    BY <1>1, <1>2, <1>5, <1>7, <1>10, <2>1, <2>4, <2>5 DEF Continued, Extends, l, L
  <2>. QED BY <1>8, <2>3, <2>6 DEF v, m, P
<1>12. CASE /\ L = l + 1
            /\ Len(v.rootKey) = l + 2
            /\ v.sendMessageNumber = 0
            /\ v.previousSendingChainLength = s.sendMessageNumber
  <2>1. top + 1 = l + 2 /\ Longer(Len(v.rootKey), L) = top + 1 /\ Apart(Len(v.rootKey), L)
    <3>1. top + 1 = l + 2 /\ l + 2 > L /\ l + 2 = L + 1
      BY <1>1, <1>4, <1>12
    <3>. QED BY <1>12, <3>1 DEF Longer, Apart
  <2>2. Direction(u, t, v, TRUE, queue2, k2, h2, all2)
    <3>1. /\ Len(v.rootKey) = Len(s.rootKey) + 2 /\ Len(t.rootKey) = Len(s.rootKey) + 1
          /\ Extends(w, u, Len(s.rootKey) + 2) /\ u.starts[Len(s.rootKey) + 2] = k2
      BY <1>2, <1>12, <2>1 DEF l, L
    <3>2. Len(queue2) \in Nat
      BY LenProperties
    <3>3. AtEnd(w, t) /\ AtEnd(w, s) /\ k2 \in Nat /\ LastOf(h2) <= k2
      OBVIOUS
    <3>4. v.sendMessageNumber = 0 /\ v.previousSendingChainLength = s.sendMessageNumber
      BY <1>12
    <3>5. Direction(w, t, s, here, queue2, k2, h2, all2)
      OBVIOUS
    <3>6. /\ here => CanEncrypt(s)
          /\ ~here => Len(s.rootKey) = 1 /\ s.sendMessageNumber = 0
      OBVIOUS
    <3>7. \A i \in 1 .. Len(queue2) : Plaintext(queue2[i]) <= k2
      OBVIOUS
    <3>. QED BY <3>1, <3>2, <3>3, <3>4, <3>5, <3>6, <3>7, SenderTurns
  <2>3. Direction(u, t, v, TRUE, queue2, k2, h2, still2)
    BY <2>2 DEF Direction
  <2>4. \A i \in 1 .. top + 1 :
           \/ i <= top /\ u.ks[i] = w.ks[i]
           \/ u.ks[i] = fresh /\ v.sendingRatchetKey = fresh
    <3>1. v.sendingRatchetKey = fresh
      BY <1>2, <1>9, <1>12, <2>1
    <3>2. top \in Nat
      BY <1>4
    <3>3. \A i \in 1 .. top + 1 : i = top + 1 \/ (i \in Nat /\ i <= top /\ i < top + 1)
      BY <3>2
    <3>. QED BY <1>2, <1>9, <3>1, <3>3
  <2>5. Continued(w, u, s, v, t, fresh)
    BY <1>1, <1>2, <1>5, <1>7, <1>10, <2>1, <2>4 DEF Continued, Extends, l, L
  <2>. QED BY <1>8, <2>3, <2>5 DEF v, m, P
<1>. QED BY <1>7, <1>11, <1>12
-----------------------------------------------------------------------------
(* Deliveries, one by one.                                                 *)

(* The first envelope to p leaves the queue.                               *)
Leaves(p) ==
    /\ channel[p] # <<>>
    /\ channel' = [channel EXCEPT ![p] = RemoveAt(@, 1)]
    /\ UNCHANGED <<way, pool, usedBaseKeys, generation, posted>>

(* e arrives in its place.                                                 *)
Comes(p, e) ==
    /\ Leaves(p)
    /\ e \in Envelopes /\ Resembles(e, channel[p][1])
    /\ NothingLost => e = channel[p][1]
    /\ e.message = channel[p][1].message \/ e.message.seal.associatedData = <<>>

(* It leaves no trace.                                                     *)
Dropped(p) == Leaves(p) /\ UNCHANGED <<session, pinned, oneTime, generated, handed>>

(* p opens m, which arrived, with the ratchet s.                           *)
Taken(p, s, m) ==
    LET d == RatchetDecrypt(s, m, RatchetKey(p, generated[p]))
    IN  /\ d.ok
        /\ HasSession(p)'
        /\ session'[p].ratchet = d.state
        /\ session'[Peer(p)] = session[Peer(p)]
        /\ CountGenerated(p, s, d.state)
        /\ handed' = [handed EXCEPT ![p] = Append(@, Plaintext(channel[p][1]))]
        /\ outvoted' = outvoted

(* The tie-break aside, p can open e.                                      *)
CanTake(p, e) ==
    IF e.type = "Signal"
      THEN OpensSignal(p, e)
      ELSE IF IsKnownHandshake(p, e)
      THEN Decrypted(p, session[p], e.message).ok
      ELSE HandshakeOpens(p, e)

(* p refuses e as its own handshake wins the tie-break.                    *)
Outvoted(p, e) == e.type = "PreKey" /\ ~IsKnownHandshake(p, e) /\ OurHandshakeWins(p, e)

(* p refuses e: for the tie-break, or as it cannot open it.                *)
Refuses(p, e) ==
    /\ Dropped(p)
    /\ \/ Outvoted(p, e) /\ outvoted' = [outvoted EXCEPT ![Peer(p)] = @ \cup {Plaintext(e)}]
       \/ ~Outvoted(p, e) /\ ~CanTake(p, e) /\ outvoted' = outvoted

(* p opens e in the session it has.                                        *)
OpensHere(p, e) == Opened(p, e) /\ Taken(p, session[p].ratchet, e.message)

(* The ratchet with which p answers the session that o started.            *)
AnswerTo(p, o) ==
    InitBob(SecretOf(o), SignedPreKey(p, generation[p]),
            <<IdentityKey(Peer(p), o.gen), OurIdentity(p)>>)

(* p takes over the session that o started, with the message in e.         *)
TakesOver(p, e, o) ==
    /\ SealedIn(channel[p][1], o) /\ InUse(o)
    /\ Adopts(p, e, o)
    /\ Taken(p, AnswerTo(p, o), e.message)

(* Damage leaves the message, or no associated data.                       *)
LEMMA DamageShows ==
    ASSUME NEW f \in Envelopes, NEW e \in DamagedVersions(f)
    PROVE  e.message = f.message \/ e.message.seal.associatedData = <<>>
<1> DEFINE d == [f EXCEPT !.message.seal.associatedData = <<>>]
           byKey(b) == [f EXCEPT !.baseKey = b]
<1>1. e = d \/ \E b \in BaseKeys : e = byKey(b)
  BY DEF DamagedVersions
<1>2. d.message.seal.associatedData = <<>>
  BY DEF Envelopes, Sealed, Messages
<1>3. \A b : byKey(b).message = f.message
  BY DEF Envelopes
<1>. HIDE DEF d, byKey
<1>. QED BY <1>1, <1>2, <1>3

(* On a way that keeps the order what arrives, or is lost, is the first of *)
(* the queue.                                                              *)
LEMMA DeliveryComes ==
    ASSUME Types, KeepsOrder, NEW p \in Party,
           Receive(p) \/ ReceiveCopy(p) \/ ReceiveDamaged(p) \/ Lose(p)
    PROVE  \E e : Comes(p, e) /\ (DecryptMessage(p, e) \/ (~NothingLost /\ Dropped(p)))
<1>1. \A i \in Positions(p) : i = 1 /\ 1 \in 1 .. Len(channel[p])
  BY DEF Positions, KeepsOrder
<1>2. channel[p] \in Seq(Envelopes)
  BY DEF Types
<1>3. 1 \in 1 .. Len(channel[p]) =>
         /\ channel[p] # <<>>
         /\ channel[p][1] \in Envelopes
         /\ Resembles(channel[p][1], channel[p][1])
  BY <1>2, EmptySeq DEF Resembles
<1>4. /\ ~ReceiveCopy(p)
      /\ ReceiveDamaged(p) \/ Lose(p) => ~NothingLost
  BY DEF KeepsOrder, NothingLost, ReceiveCopy, ReceiveDamaged, Lose
<1>5. CASE Receive(p)
  <2>1. PICK i \in Positions(p) : DecryptMessage(p, channel[p][i]) /\ Take(p, i)
    BY <1>5 DEF Receive
  <2>2. UNCHANGED <<way, pool, usedBaseKeys, generation, posted>>
    BY <1>5 DEF Receive, serverVars
  <2>3. i = 1 /\ 1 \in 1 .. Len(channel[p])
    BY <1>1
  <2>4. Leaves(p)
    BY <1>3, <2>1, <2>2, <2>3 DEF Leaves, Take
  <2>5. Comes(p, channel[p][1])
    BY <1>3, <2>3, <2>4 DEF Comes
  <2>. QED BY <2>1, <2>3, <2>5
<1>6. CASE ReceiveDamaged(p)
  <2>1. PICK i \in Positions(p) : \E e \in DamagedVersions(channel[p][i]) :
          DecryptMessage(p, e) /\ Take(p, i)
    BY <1>6 DEF ReceiveDamaged
  <2>2. PICK e \in DamagedVersions(channel[p][i]) : DecryptMessage(p, e) /\ Take(p, i)
    BY <2>1
  <2>3. UNCHANGED <<way, pool, usedBaseKeys, generation, posted>>
    BY <1>6 DEF ReceiveDamaged, serverVars
  <2>4. i = 1 /\ 1 \in 1 .. Len(channel[p])
    BY <1>1
  <2>5. Leaves(p)
    BY <1>3, <2>2, <2>3, <2>4 DEF Leaves, Take
  <2>6. e \in Envelopes /\ Resembles(e, channel[p][1])
    BY <1>3, <2>4, DamageKeepsSeal
  <2>7. e.message = channel[p][1].message \/ e.message.seal.associatedData = <<>>
    BY <1>3, <2>4, DamageShows
  <2>8. Comes(p, e)
    BY <1>4, <1>6, <2>5, <2>6, <2>7 DEF Comes
  <2>. QED BY <2>2, <2>8
<1>7. CASE Lose(p)
  <2>1. PICK i \in Positions(p) : Take(p, i)
    BY <1>7 DEF Lose
  <2>2. UNCHANGED <<way, userVars, serverVars, historyVars>>
    BY <1>7 DEF Lose
  <2>3. i = 1 /\ 1 \in 1 .. Len(channel[p])
    BY <1>1
  <2>4. Leaves(p)
    BY <1>3, <2>1, <2>2, <2>3 DEF Leaves, Take, userVars, serverVars, historyVars
  <2>5. Dropped(p)
    BY <2>2, <2>4 DEF Dropped, userVars, historyVars
  <2>6. Comes(p, channel[p][1])
    BY <1>3, <2>3, <2>4 DEF Comes
  <2>. QED BY <1>4, <1>7, <2>5, <2>6
<1>. QED BY <1>4, <1>5, <1>6, <1>7

(* A message that opens in the session p has.                              *)
LEMMA OpensInSession ==
    ASSUME Types, SessionsInv, NEW p \in Party, NEW e, Comes(p, e), HasSession(p),
           RepeatedHandshake(p, e) \/ AcceptSignal(p, e),
           Decrypted(p, session[p], e.message).ok
    PROVE  OpensHere(p, e)
<1> DEFINE t == Decrypted(p, session[p], e.message).state
<1>1. e \in Envelopes /\ Plaintext(e) = Plaintext(channel[p][1])
  BY DEF Comes, Resembles
<1>2. session \in [Party -> {NoSession} \cup Records] /\ session[p] \in Records
  BY SessionOrigin DEF Types
<1>3. Opened(p, e)
  <2>1. Refused(p) \/ Opened(p, e)
    BY <1>1, SignalEffect, RepeatedHandshakeEffect
  <2>2. handed' = [handed EXCEPT ![p] = Append(@, Plaintext(e))]
    BY DEF RepeatedHandshake, AcceptSignal, HandOver, Plaintext
  <2>3. handed[p] \in Seq(1 .. way.posts) /\ handed \in [Party -> Seq(1 .. way.posts)]
    BY DEF Types
  <2>4. handed'[p] # handed[p]
    <3>1. Append(handed[p], Plaintext(e)) # handed[p]
      BY <2>3, AppendProperties, LenProperties
    <3>. QED BY <2>2, <2>3, <3>1
  <2>. QED BY <2>1, <2>4 DEF Refused
<1>4. /\ session'[p].ratchet = t
      /\ CountGenerated(p, session[p].ratchet, t)
      /\ outvoted' = outvoted
  <2>1. CASE RepeatedHandshake(p, e)
    <3>1. /\ session' = [session EXCEPT ![p].ratchet = t]
          /\ CountGenerated(p, session[p].ratchet, t)
          /\ outvoted' = outvoted
      BY <2>1 DEF RepeatedHandshake
    <3>. HIDE DEF t
    <3>2. session'[p].ratchet = t
      BY <1>2, <3>1 DEF Records
    <3>. QED BY <3>1, <3>2
  <2>2. CASE AcceptSignal(p, e)
    <3>1. /\ session' = [session EXCEPT ![p].ratchet = t, ![p].pendingPreKey = NothingPending]
          /\ CountGenerated(p, session[p].ratchet, t)
          /\ outvoted' = outvoted
      BY <2>2 DEF AcceptSignal
    <3>. HIDE DEF t
    <3>2. session'[p].ratchet = t
      BY <1>2, <3>1 DEF Records
    <3>. QED BY <3>1, <3>2
  <2>. QED BY <2>1, <2>2
<1>5. HasSession(p)'
  BY <1>3, RecordsArePresent DEF Opened, Continues, HasSession
<1>6. Taken(p, session[p].ratchet, e.message)
  <2>1. Decrypted(p, session[p], e.message)
          = RatchetDecrypt(session[p].ratchet, e.message, RatchetKey(p, generated[p]))
    BY DEF Decrypted
  <2>2. /\ session'[Peer(p)] = session[Peer(p)]
        /\ handed' = [handed EXCEPT ![p] = Append(@, Plaintext(channel[p][1]))]
    BY <1>1, <1>3 DEF Opened
  <2>. QED BY <1>4, <1>5, <2>1, <2>2 DEF Taken
<1>. QED BY <1>3, <1>6 DEF OpensHere
(* The responder's session has the ratchet that answers the handshake.     *)
LEMMA ResponderAnswers ==
    ASSUME Types, NEW p \in Party, NEW e, NEW o \in Origins,
           o.by = Peer(p), o.peerGen = generation[p],
           e.baseKey = o.baseKey, e.preKeyId = o.preKeyId,
           e.identityKey = IdentityKey(Peer(p), o.gen)
    PROVE  ResponderSession(p, e).ratchet = AnswerTo(p, o)
<1>1. /\ o = OriginOf(p, o.gen, e.baseKey, e.preKeyId)
      /\ o.gen \in Nat /\ o.baseKey \in BaseKeys /\ o.preKeyId \in PreKeyIds \cup {None}
  BY DEF OriginOf, Origins
<1>2. X3dhRespond(p, e.preKeyId, e.identityKey, EphemeralKey(e.baseKey)) = SecretOf(o)
  BY <1>1, RespondsWithSecret
<1>. QED BY <1>2 DEF ResponderSession, AnswerTo

(* A handshake whose message opens is taken over.                          *)
LEMMA HandshakeTakesOver ==
    ASSUME Types, EnvelopesInv, NEW p \in Party, NEW e, Comes(p, e), AcceptHandshake(p, e)
    PROVE  \E o \in Origins : TakesOver(p, e, o)
<1>1. /\ e \in Envelopes /\ Resembles(e, channel[p][1])
      /\ Plaintext(e) = Plaintext(channel[p][1])
      /\ channel[p] \in Seq(Envelopes) /\ channel[p] # <<>>
  BY DEF Comes, Resembles, Leaves, Types
<1>2. 1 \in 1 .. Len(channel[p])
  BY <1>1, QueueMoves
<1>3. PICK o \in Origins :
        /\ SealedIn(channel[p][1], o) /\ InUse(o) /\ e.preKeyId = o.preKeyId
        /\ Adopts(p, e, o)
  BY <1>1, <1>2, AcceptHandshakeEffect
<1>4. /\ o.by = Peer(p) /\ o.peerGen = generation[p] /\ e.baseKey = o.baseKey
      /\ e.identityKey = IdentityKey(Peer(p), o.gen)
      /\ handed' = [handed EXCEPT ![p] = Append(@, Plaintext(e))]
      /\ session'[Peer(p)] = session[Peer(p)] /\ session'[p] \in Records
  BY <1>3 DEF Adopts
<1>5. ResponderSession(p, e).ratchet = AnswerTo(p, o)
  BY <1>3, <1>4, ResponderAnswers
<1> DEFINE r == ResponderSession(p, e)
           t == Decrypted(p, r, e.message).state
<1>6. /\ Decrypted(p, r, e.message).ok
      /\ session' = [session EXCEPT ![p] = [r EXCEPT !.ratchet = t]]
      /\ CountGenerated(p, r.ratchet, t)
      /\ outvoted' = outvoted
  BY DEF AcceptHandshake, HandshakeOpens, CommitResponderSession
<1>7. Decrypted(p, r, e.message)
        = RatchetDecrypt(AnswerTo(p, o), e.message, RatchetKey(p, generated[p]))
  BY <1>5 DEF Decrypted
<1>8. session'[p].ratchet = t
  <2>1. [r EXCEPT !.ratchet = t].ratchet = t
    BY DEF ResponderSession
  <2>. HIDE DEF r, t
  <2>2. session'[p] = [r EXCEPT !.ratchet = t]
    BY <1>6 DEF Types
  <2>. QED BY <2>1, <2>2
<1>9. HasSession(p)'
  BY <1>4, RecordsArePresent DEF HasSession
<1>. HIDE DEF r, t
<1>10. /\ CountGenerated(p, AnswerTo(p, o), t)
       /\ t = RatchetDecrypt(AnswerTo(p, o), e.message, RatchetKey(p, generated[p])).state
  BY <1>5, <1>6, <1>7 DEF t, r
<1>11. Taken(p, AnswerTo(p, o), e.message)
  BY <1>1, <1>4, <1>6, <1>7, <1>8, <1>9, <1>10 DEF Taken
<1>. QED BY <1>3, <1>11 DEF TakesOver

(* What a delivery, or a loss, does on a way that keeps the order.         *)
DeliveryStep(p, e) ==
    \/ ~NothingLost /\ Dropped(p)
    \/ Refuses(p, e)
    \/ OpensHere(p, e)
    \/ \E o \in Origins : TakesOver(p, e, o)

(* Every delivery, or loss, is one of these.                               *)
LEMMA DeliverySteps ==
    ASSUME Types, SessionsInv, EnvelopesInv, KeepsOrder, NEW p \in Party,
           Receive(p) \/ ReceiveCopy(p) \/ ReceiveDamaged(p) \/ Lose(p)
    PROVE  \E e : Comes(p, e) /\ DeliveryStep(p, e)
<1>1. PICK e : Comes(p, e) /\ (DecryptMessage(p, e) \/ (~NothingLost /\ Dropped(p)))
  BY DeliveryComes
<1>2. SUFFICES ASSUME DecryptMessage(p, e) PROVE DeliveryStep(p, e)
  BY <1>1 DEF DeliveryStep
<1>3. Leaves(p) /\ e \in Envelopes
  BY <1>1 DEF Comes
<1>4. e.type = "Signal" <=> e.type # "PreKey"
  BY <1>3 DEF Envelopes
<1>5. CASE AcceptSignal(p, e)
  <2>1. HasSession(p) /\ Decrypted(p, session[p], e.message).ok
    BY <1>5 DEF AcceptSignal, OpensSignal, HasSession
  <2>. QED BY <1>1, <1>5, <2>1, OpensInSession DEF DeliveryStep
<1>6. CASE RefuseSignal(p, e)
  <2>1. Refuses(p, e)
    BY <1>3, <1>4, <1>6 DEF Refuses, RefuseSignal, Dropped, CanTake, Outvoted
  <2>. QED BY <2>1 DEF DeliveryStep
<1>7. CASE RepeatedHandshake(p, e)
  <2>1. HasSession(p) /\ e.type = "PreKey" /\ IsKnownHandshake(p, e)
    BY <1>7 DEF RepeatedHandshake, IsKnownHandshake, HasSession
  <2>2. CASE Decrypted(p, session[p], e.message).ok
    BY <1>1, <1>7, <2>1, <2>2, OpensInSession DEF DeliveryStep
  <2>3. CASE ~Decrypted(p, session[p], e.message).ok
    <3>1. UNCHANGED <<session, pinned, oneTime, generated, handed, outvoted>>
      BY <1>7, <2>3 DEF RepeatedHandshake
    <3>2. Refuses(p, e)
      BY <1>3, <1>4, <2>1, <2>3, <3>1 DEF Refuses, Dropped, CanTake, Outvoted
    <3>. QED BY <3>2 DEF DeliveryStep
  <2>. QED BY <2>2, <2>3
<1>8. CASE LoseTieBreak(p, e)
  <2>1. Refuses(p, e)
    BY <1>3, <1>8 DEF Refuses, LoseTieBreak, Dropped, Outvoted, Plaintext
  <2>. QED BY <2>1 DEF DeliveryStep
<1>9. CASE AcceptHandshake(p, e)
  BY <1>1, <1>9, HandshakeTakesOver DEF DeliveryStep
<1>10. CASE RefuseHandshake(p, e)
  <2>1. Refuses(p, e)
    BY <1>3, <1>4, <1>10 DEF Refuses, RefuseHandshake, Dropped, CanTake, Outvoted
  <2>. QED BY <2>1 DEF DeliveryStep
<1>. QED BY <1>2, <1>5, <1>6, <1>7, <1>8, <1>9, <1>10 DEF DecryptMessage

(* A message opens only as it was sealed.                                  *)
LEMMA OpensAsSealed ==
    ASSUME NEW parity \in {0, 1}, NEW s, GoodRatchet(s, parity, Keys, Secrets, Seq(Keys)),
           NEW m \in Sealed, NEW fresh \in Keys, RatchetDecrypt(s, m, fresh).ok
    PROVE  m.seal.associatedData = s.associatedData
<1> DEFINE t == Turned(s, m.header, fresh)
           A == Seq(Keys)
           closed == SkipReceivingMessageKeys(s, m.header.previousChainLength)
           at == SkipReceivingMessageKeys(t, m.header.messageNumber)
<1>1. \A n : \A x \in RatchetStates(Keys, Secrets, A) :
         SkipReceivingMessageKeys(x, n).associatedData = x.associatedData
  BY DEF SkipReceivingMessageKeys, RatchetStates
<1>2. /\ s \in RatchetStates(Keys, Secrets, A) /\ t \in RatchetStates(Keys, Secrets, A)
      /\ closed \in RatchetStates(Keys, Secrets, A)
  <2>1. GoodRatchet(t, parity, Keys, Secrets, A)
    BY SecretsClosed, TurnedKeepsRatchetGood DEF Sealed
  <2>2. m.header.previousChainLength \in Nat
    BY DEF Sealed, Messages, MessageHeaders
  <2>3. GoodRatchet(closed, parity, Keys, Secrets, A)
    BY <2>2, SkipKeepsRatchetGood
  <2>. QED BY <2>1, <2>3 DEF GoodRatchet
<1>3. t.associatedData = s.associatedData
  <2>1. closed.associatedData = s.associatedData
    BY <1>1, <1>2
  <2>2. t = s \/ t = DhRatchetStep(closed, m.header.publicKey, fresh)
    BY DEF Turned
  <2>. HIDE DEF closed, t
  <2>3. DhRatchetStep(closed, m.header.publicKey, fresh).associatedData = closed.associatedData
    BY <1>2 DEF DhRatchetStep, RatchetStates
  <2>. QED BY <2>1, <2>2, <2>3
<1>4. \/ \E key : Opens(s, m, key)
      \/ \E key : Opens(at, m, key)
  <2>1. DecryptInternal(s, m, fresh).ok
    BY DEF RatchetDecrypt
  <2>2. DecryptSkipped(s, m).ok => \E key : Opens(s, m, key)
    BY DEF DecryptSkipped
  <2>3. DecryptOnChain(t, m).ok => \E key : Opens(at, m, key)
    <3>. HIDE DEF t
    <3>. QED BY DEF DecryptOnChain
  <2>4. DecryptSkipped(s, m).ok \/ DecryptOnChain(t, m).ok
    <3>. HIDE DEF at
    <3>. QED BY <2>1 DEF DecryptInternal
  <2>. QED BY <2>2, <2>3, <2>4
<1>5. at.associatedData = t.associatedData
  <2>. HIDE DEF t
  <2>. QED BY <1>1, <1>2
<1>. HIDE DEF at, t
<1>. QED BY <1>3, <1>4, <1>5 DEF Opens
-----------------------------------------------------------------------------
(* The queues.                                                             *)

(* Messages arrive in the order they were posted in, and none of them after*)
(* a later one was taken.                                                  *)
Ordered(p) ==
    /\ \A i, j \in 1 .. Len(channel[p]) :
          i < j => Plaintext(channel[p][i]) < Plaintext(channel[p][j])
    /\ \A i \in 1 .. Len(channel[p]) : LastOf(handed[p]) < Plaintext(channel[p][i])
    /\ \A i \in 1 .. Len(handed[p]) : handed[p][i] <= LastOf(handed[p])

(* Who has no session has posted nothing, and who is no responder holds    *)
(* all its one-time prekeys.                                               *)
Untouched(p) ==
    /\ ~HasSession(p) => posted[p] = 0
    /\ ~Responder(p) => oneTime[p] = PreKeyIds

(* A Signal message is one of the session its addressee has.               *)
AtHome(p) ==
    \A i \in 1 .. Len(channel[p]) :
        channel[p][i].type = "Signal" =>
            HasSession(p) /\ channel[p][i].message.seal.key.root[1] = SharedSecret(p)

(* Nothing is missing from a queue, and what was outvoted has left it.     *)
Complete(p) ==
    NothingLost =>
        /\ \A i \in 1 .. Len(channel[p]) :
              Plaintext(channel[p][i]) + Len(channel[p]) = posted[Peer(p)] + i
        /\ \A n \in outvoted[Peer(p)] : n <= posted[Peer(p)] - Len(channel[p])

(* What holds of the queue to p.                                           *)
QueueInv(p) == Ordered(p) /\ Untouched(p) /\ AtHome(p) /\ Complete(p)

(* The last message that was taken is one the peer has posted.             *)
LEMMA LastOfTyped ==
    ASSUME Types, NEW p \in Party
    PROVE  /\ LastOf(handed[p]) \in Nat /\ LastOf(handed[p]) <= posted[Peer(p)]
           /\ posted[Peer(p)] \in Nat
           /\ handed[p] \in Seq(Nat)
<1>1. /\ handed[p] \in Seq(1 .. way.posts) /\ posted[Peer(p)] \in 0 .. way.posts
      /\ \A i \in 1 .. Len(handed[p]) : handed[p][i] \in 1 .. posted[Peer(p)]
  BY PartyFacts DEF Types
<1>2. way.posts \in Nat
  BY SessionAssumption DEF Types
<1>3. Len(handed[p]) \in Nat /\ (handed[p] # <<>> => Len(handed[p]) # 0)
  BY <1>1, EmptySeq, LenProperties
<1>4. handed[p] # <<>> => Len(handed[p]) \in 1 .. Len(handed[p])
  BY <1>3
<1>5. handed[p] \in Seq(Nat)
  <2>1. \A i \in 1 .. Len(handed[p]) : handed[p][i] \in Nat
    BY <1>1, <1>2
  <2>. QED BY <1>1, <2>1, ElementOfSeq, SeqDef
<1>. QED BY <1>1, <1>2, <1>4, <1>5 DEF LastOf

(* Sending.                                                                *)
LEMMA SendQueues ==
    ASSUME Types, NEW p \in Party, NEW x \in Party, QueueInv(x),
           NEW o \in Origins, NEW f, Sends(p, o, f),
           HasSession(p) => SharedSecret(p)' = SharedSecret(p),
           Responder(p) => Responder(p)',
           f.type = "Signal" =>
              /\ HasSession(Peer(p))
              /\ f.message.seal.key.root[1] = SharedSecret(Peer(p))
    PROVE  QueueInv(x)'
<1> DEFINE q == Peer(p)
           n == Len(channel[q])
<1>1. q \in Party /\ q # p /\ Peer(q) = p /\ (x = p \/ x = q)
  BY PartyFacts
<1>2. /\ channel' \in [Party -> Seq(Envelopes)] /\ channel'[p] = channel[p]
      /\ n \in Nat /\ Len(channel'[q]) = n + 1
      /\ \A j \in 1 .. n : channel'[q][j] = channel[q][j]
      /\ channel'[q][n + 1] = f
      /\ \A j \in 1 .. n + 1 : j \in 1 .. n \/ j = n + 1
  BY SendAppends
<1>3. /\ Plaintext(f) = posted[p] + 1
      /\ posted' = [posted EXCEPT ![p] = @ + 1]
      /\ session'[q] = session[q] /\ session'[p] \in Records
      /\ UNCHANGED <<way, oneTime, generation, published, handed, outvoted>>
  BY DEF Sends
<1>4. /\ posted'[p] = posted[p] + 1 /\ posted'[q] = posted[q] /\ posted[p] \in Nat
  <2>1. posted \in [Party -> 0 .. way.posts]
    BY DEF Types
  <2>. QED BY <1>1, <1>3, <2>1
<1>5. HasSession(p)'
  BY <1>3, RecordsArePresent DEF HasSession
<1>6. /\ NothingLost' <=> NothingLost
      /\ Responder(q)' <=> Responder(q)
      /\ HasSession(q)' <=> HasSession(q)
      /\ SharedSecret(q)' = SharedSecret(q)
  BY <1>3 DEF NothingLost, Responder, HasSession, SharedSecret
<1>7. \A i \in 1 .. n : Plaintext(channel[q][i]) \in 1 .. posted[p]
  BY <1>1 DEF Types
<1>. HIDE DEF n, q
<1>8. CASE x = p
  <2>1. Ordered(p)'
    BY <1>2, <1>3, <1>8 DEF QueueInv, Ordered
  <2>2. Untouched(p)'
    BY <1>3, <1>5, <1>8 DEF QueueInv, Untouched
  <2>3. AtHome(p)'
    BY <1>2, <1>5, <1>8 DEF QueueInv, AtHome
  <2>4. Complete(p)'
    BY <1>2, <1>3, <1>4, <1>6, <1>8 DEF QueueInv, Complete, q
  <2>. QED BY <1>8, <2>1, <2>2, <2>3, <2>4 DEF QueueInv
<1>9. CASE x = q
  <2>1. Ordered(q)'
    <3>1. \A i \in 1 .. n + 1 : \A j \in 1 .. n + 1 :
             i < j => i \in 1 .. n /\ (j \in 1 .. n \/ j = n + 1)
      BY <1>2
    <3>2. /\ \A i, j \in 1 .. n : i < j => Plaintext(channel[q][i]) < Plaintext(channel[q][j])
          /\ \A i \in 1 .. n : LastOf(handed[q]) < Plaintext(channel[q][i])
      BY <1>9 DEF QueueInv, Ordered, n
    <3>3. \A i \in 1 .. n : Plaintext(channel[q][i]) < Plaintext(f)
      BY <1>3, <1>4, <1>7
    <3>4. LastOf(handed[q]) < Plaintext(f)
      BY <1>1, <1>3, <1>4, LastOfTyped
    <3>5. \A i, j \in 1 .. n + 1 : i < j => Plaintext(channel'[q][i]) < Plaintext(channel'[q][j])
      BY <1>2, <3>1, <3>2, <3>3
    <3>6. \A i \in 1 .. n + 1 : LastOf(handed'[q]) < Plaintext(channel'[q][i])
      BY <1>2, <1>3, <3>2, <3>4
    <3>7. \A i \in 1 .. Len(handed'[q]) : handed'[q][i] <= LastOf(handed'[q])
      BY <1>3, <1>9 DEF QueueInv, Ordered
    <3>. QED BY <1>2, <3>5, <3>6, <3>7 DEF Ordered, Plaintext
  <2>2. Untouched(q)'
    BY <1>3, <1>4, <1>6, <1>9 DEF QueueInv, Untouched
  <2>3. AtHome(q)'
    BY <1>2, <1>6, <1>9 DEF QueueInv, AtHome, q, n
  <2>4. Complete(q)'
    <3>. SUFFICES ASSUME NothingLost
                  PROVE  /\ \A i \in 1 .. n + 1 :
                              Plaintext(channel'[q][i]) + (n + 1) = (posted[p] + 1) + i
                         /\ \A k \in outvoted'[p] : k <= (posted[p] + 1) - (n + 1)
      BY <1>1, <1>2, <1>4, <1>6 DEF Complete, Plaintext
    <3>1. /\ \A i \in 1 .. n : Plaintext(channel[q][i]) + n = posted[p] + i
          /\ \A k \in outvoted[p] : k <= posted[p] - n
      BY <1>1, <1>9 DEF QueueInv, Complete, n
    <3>2. ASSUME NEW i \in 1 .. n
          PROVE  Plaintext(channel'[q][i]) + (n + 1) = (posted[p] + 1) + i
      <4> DEFINE P == Plaintext(channel[q][i])
                 k == posted[p]
      <4>1. P \in Nat /\ k \in Nat /\ n \in Nat /\ P + n = k + i
        BY <1>2, <1>4, <1>7, <3>1
      <4>2. Plaintext(channel'[q][i]) = P
        BY <1>2
      <4>. HIDE DEF P, k
      <4>3. P + (n + 1) = (k + 1) + i
        BY <4>1
      <4>. QED BY <4>2, <4>3 DEF k
    <3>3. Plaintext(channel'[q][n + 1]) + (n + 1) = (posted[p] + 1) + (n + 1)
      BY <1>2, <1>3, <1>4
    <3>4. (posted[p] + 1) - (n + 1) = posted[p] - n
      <4>1. n \in Nat /\ posted[p] \in Nat
        BY <1>2, <1>4
      <4>. QED BY <4>1
    <3>. QED BY <1>2, <1>3, <3>1, <3>2, <3>3, <3>4
  <2>. QED BY <1>9, <2>1, <2>2, <2>3, <2>4 DEF QueueInv
<1>. QED BY <1>1, <1>8, <1>9
(* The first envelope leaves its queue.                                    *)
LEMMA LeaveQueues ==
    ASSUME Types, NEW p \in Party, NEW x \in Party, QueueInv(x), Leaves(p),
           session'[Peer(p)] = session[Peer(p)], oneTime'[Peer(p)] = oneTime[Peer(p)],
           \/ handed' = handed
           \/ handed' = [handed EXCEPT ![p] = Append(@, Plaintext(channel[p][1]))],
           HasSession(p) => HasSession(p)',
           Responder(p)' \/ (oneTime'[p] = oneTime[p] /\ ~Responder(p)),
           \/ SharedSecret(p)' = SharedSecret(p)
           \/ \A i \in 1 .. Len(channel[p]) : channel[p][i].type # "Signal",
           NothingLost =>
              \/ outvoted' = outvoted
              \/ outvoted' = [outvoted EXCEPT ![Peer(p)] = @ \cup {Plaintext(channel[p][1])}]
    PROVE  QueueInv(x)'
<1> DEFINE q == Peer(p)
           n == Len(channel[p])
           P == Plaintext(channel[p][1])
<1>1. q \in Party /\ q # p /\ Peer(q) = p /\ (x = p \/ x = q)
  BY PartyFacts
<1>2. /\ channel[p] \in Seq(Envelopes) /\ channel[p] # <<>>
      /\ channel' = [channel EXCEPT ![p] = RemoveAt(@, 1)]
      /\ UNCHANGED <<way, posted>>
      /\ channel \in [Party -> Seq(Envelopes)] /\ handed \in [Party -> Seq(1 .. way.posts)]
      /\ outvoted \in [Party -> SUBSET (1 .. way.posts)]
  BY DEF Leaves, Types
<1>3. /\ n \in Nat /\ 1 \in 1 .. n
      /\ Len(RemoveAt(channel[p], 1)) = n - 1
      /\ \A i \in 1 .. n - 1 : RemoveAt(channel[p], 1)[i] = channel[p][i + 1] /\ i + 1 \in 1 .. n
  BY <1>2, QueueMoves
<1>4. /\ channel'[p] = RemoveAt(channel[p], 1) /\ channel'[q] = channel[q]
  BY <1>1, <1>2
<1>5. /\ NothingLost' <=> NothingLost
      /\ Responder(q)' <=> Responder(q)
      /\ HasSession(q)' <=> HasSession(q)
      /\ SharedSecret(q)' = SharedSecret(q)
  BY <1>2 DEF NothingLost, Responder, HasSession, SharedSecret
<1>6. \A i \in 1 .. n : Plaintext(channel[p][i]) \in 1 .. posted[q]
  BY DEF Types
<1>7. /\ handed'[q] = handed[q]
      /\ NothingLost => outvoted'[p] = outvoted[p]
  BY <1>1, <1>2
<1>8. CASE x = q
  <2>1. Ordered(q)'
    BY <1>4, <1>7, <1>8 DEF QueueInv, Ordered
  <2>3. AtHome(q)'
    BY <1>4, <1>5, <1>8 DEF QueueInv, AtHome
  <2>4. Untouched(q)'
    BY <1>2, <1>5, <1>8 DEF QueueInv, Untouched
  <2>2. Complete(q)'
    BY <1>1, <1>2, <1>4, <1>5, <1>7, <1>8 DEF QueueInv, Complete
  <2>. QED BY <1>8, <2>1, <2>2, <2>3, <2>4 DEF QueueInv
<1>9. CASE x = p
  <2>1. /\ \A i, j \in 1 .. n : i < j => Plaintext(channel[p][i]) < Plaintext(channel[p][j])
        /\ \A i \in 1 .. n : LastOf(handed[p]) < Plaintext(channel[p][i])
        /\ \A i \in 1 .. Len(handed[p]) : handed[p][i] <= LastOf(handed[p])
    BY <1>9 DEF QueueInv, Ordered
  <2>2. LastOf(handed'[p]) = LastOf(handed[p]) \/ LastOf(handed'[p]) = P
    <3>1. CASE handed' = handed
      BY <3>1
    <3>2. CASE handed' = [handed EXCEPT ![p] = Append(@, P)]
      <4>1. handed'[p] = Append(handed[p], P)
        BY <1>2, <3>2
      <4>2. /\ Append(handed[p], P) # <<>> /\ Len(Append(handed[p], P)) = Len(handed[p]) + 1
            /\ Append(handed[p], P)[Len(handed[p]) + 1] = P
        <5>1. handed[p] \in Seq(Nat) /\ P \in Nat
          BY <1>1, <1>3, <1>6, LastOfTyped
        <5>. QED BY <5>1, AppendProperties
      <4>. QED BY <4>1, <4>2 DEF LastOf
    <3>. QED BY <3>1, <3>2
  <2>7. \A i \in 1 .. Len(handed'[p]) : handed'[p][i] <= LastOf(handed'[p])
    <3>1. CASE handed' = handed
      BY <2>1, <3>1
    <3>2. CASE handed' = [handed EXCEPT ![p] = Append(@, P)]
      <4> DEFINE h == handed[p]
                 g == Append(h, P)
                 k == Len(h)
      <4>1. handed'[p] = g
        BY <1>2, <3>2
      <4>2. h \in Seq(Nat) /\ P \in Nat /\ LastOf(h) \in Nat
        BY <1>1, <1>3, <1>6, LastOfTyped
      <4>3. LastOf(h) < P
        BY <1>3, <2>1
      <4>4. /\ k \in Nat /\ Len(g) = k + 1 /\ g # <<>> /\ g[k + 1] = P
            /\ \A i \in 1 .. k : g[i] = h[i] /\ h[i] \in Nat
        <5>1. /\ k \in Nat /\ Len(g) = k + 1 /\ g # <<>> /\ g[k + 1] = P
              /\ \A i \in 1 .. k : g[i] = h[i]
          BY <4>2, AppendProperties, LenProperties
        <5>. HIDE DEF h, g, k, P
        <5>2. \A i \in 1 .. Len(h) : h[i] \in Nat
          BY <4>2
        <5>. QED BY <5>1, <5>2 DEF k
      <4>5. \A i \in 1 .. k : h[i] <= LastOf(h)
        BY <2>1
      <4>. HIDE DEF h, g, k, P
      <4>6. LastOf(g) = P
        BY <4>4 DEF LastOf
      <4>7. \A i \in 1 .. k : g[i] <= P
        BY <4>2, <4>3, <4>4, <4>5
      <4>8. \A i \in 1 .. Len(g) : i \in 1 .. k \/ i = k + 1
        BY <4>4
      <4>9. \A i \in 1 .. Len(g) : g[i] <= LastOf(g)
        BY <4>2, <4>4, <4>6, <4>7, <4>8
      <4>. QED BY <4>1, <4>9
    <3>. QED BY <3>1, <3>2
  <2>. HIDE DEF n, P
  <2>3. Ordered(p)'
    <3>1. \A i, j \in 1 .. n - 1 : i < j => i + 1 < j + 1
      BY <1>3
    <3>2. \A i \in 1 .. n - 1 : 1 < i + 1
      BY <1>3
    <3>3. \A i, j \in 1 .. n - 1 : i < j => Plaintext(channel'[p][i]) < Plaintext(channel'[p][j])
      BY <1>3, <1>4, <2>1, <3>1
    <3>4. \A i \in 1 .. n - 1 : LastOf(handed'[p]) < Plaintext(channel'[p][i])
      BY <1>3, <1>4, <2>1, <2>2, <3>2 DEF P
    <3>. QED BY <1>3, <1>4, <2>7, <3>3, <3>4 DEF Ordered, Plaintext
  <2>4. Untouched(p)'
    BY <1>2, <1>9 DEF QueueInv, Untouched
  <2>5. AtHome(p)'
    <3>1. \A i \in 1 .. n : channel[p][i].type = "Signal" =>
             HasSession(p) /\ channel[p][i].message.seal.key.root[1] = SharedSecret(p)
      BY <1>9 DEF QueueInv, AtHome, n
    <3>2. ASSUME NEW i \in 1 .. n - 1, channel'[p][i].type = "Signal"
          PROVE  HasSession(p)' /\ channel'[p][i].message.seal.key.root[1] = SharedSecret(p)'
      <4>1. channel'[p][i] = channel[p][i + 1] /\ i + 1 \in 1 .. n
        BY <1>3, <1>4
      <4>2. HasSession(p) /\ channel'[p][i].message.seal.key.root[1] = SharedSecret(p)
        BY <3>1, <3>2, <4>1
      <4>3. SharedSecret(p)' = SharedSecret(p)
        BY <3>2, <4>1 DEF n
      <4>. QED BY <4>2, <4>3
    <3>. QED BY <1>3, <1>4, <3>2 DEF AtHome
  <2>6. Complete(p)'
    <3>. SUFFICES ASSUME NothingLost
                  PROVE  /\ \A i \in 1 .. n - 1 :
                              Plaintext(channel'[p][i]) + (n - 1) = posted[q] + i
                         /\ \A k \in outvoted'[q] : k <= posted[q] - (n - 1)
      BY <1>1, <1>2, <1>3, <1>4, <1>5 DEF Complete, Plaintext
    <3>1. /\ \A i \in 1 .. n : Plaintext(channel[p][i]) + n = posted[q] + i
          /\ \A k \in outvoted[q] : k <= posted[q] - n
      BY <1>9 DEF QueueInv, Complete, n
    <3>2. posted[q] \in Nat /\ n \in Nat
      BY <1>1, <1>3, LastOfTyped
    <3>3. ASSUME NEW i \in 1 .. n - 1
          PROVE  Plaintext(channel'[p][i]) + (n - 1) = posted[q] + i
      <4> DEFINE R == Plaintext(channel[p][i + 1])
                 k == posted[q]
      <4>1. R \in Nat /\ k \in Nat /\ n \in Nat /\ R + n = k + (i + 1)
        <5>1. i + 1 \in 1 .. n
          BY <1>3
        <5>. QED BY <1>6, <3>1, <3>2, <5>1 DEF n
      <4>2. Plaintext(channel'[p][i]) = R
        BY <1>3, <1>4
      <4>. HIDE DEF R, k
      <4>3. R + (n - 1) = k + i
        BY <4>1
      <4>. QED BY <4>2, <4>3 DEF k
    <3>4. P <= posted[q] - (n - 1)
      <4>1. P \in Nat /\ P + n = posted[q] + 1
        BY <1>3, <1>6, <3>1 DEF P
      <4>. QED BY <3>2, <4>1
    <3>5. \A k \in outvoted'[q] : k \in outvoted[q] \/ k = P
      BY <1>1, <1>2 DEF P
    <3>6. \A k \in outvoted[q] : k \in Nat
      BY <1>1, <1>2
    <3>7. \A k \in outvoted[q] : k <= posted[q] - (n - 1)
      BY <3>1, <3>2, <3>6
    <3>. QED BY <3>3, <3>4, <3>5, <3>7
  <2>. QED BY <1>9, <2>3, <2>4, <2>5, <2>6 DEF QueueInv
<1>. QED BY <1>1, <1>8, <1>9
-----------------------------------------------------------------------------
(* Who is in a conversation.                                               *)

(* The session that a started: its associated data, whether x has it, and  *)
(* the ratchet x has, or will answer it with.                              *)
Data(a) == <<IdentityKey(a, 0), IdentityKey(Peer(a), 0)>>
Has(a, x) == x = a \/ Responder(x)
Blank(a) == InitBob(SharedSecret(a), SignedPreKey(Peer(a), 0), Data(a))
End(a, x) == IF Has(a, x) THEN session[x].ratchet ELSE Blank(a)

(* Nothing is lost, and x does not refuse it for its own handshake.        *)
WillTake(a, x) ==
    /\ NothingLost
    /\ \/ Has(a, x)
       \/ ~HasSession(x)
       \/ session[a].pendingPreKey.baseKey < session[x].pendingPreKey.baseKey

(* Two ratchets are at the ends of a script, whose ratchet keys have been  *)
(* generated.                                                              *)
Ends(w, s, t, count) ==
    LET top == Longer(Len(s.rootKey), Len(t.rootKey))
    IN  /\ AtEnd(w, s) /\ AtEnd(w, t)
        /\ Apart(Len(s.rootKey), Len(t.rootKey))
        /\ Script(w, top)
        /\ \A i \in 1 .. top : \A z \in Party : \A n \in Nat :
              w.ks[i] = RatchetKey(z, n) => n < count[z]

(* What is on its way to x is what the script has next for x.              *)
Towards(a, w, x) ==
    Direction(w, End(a, x), End(a, Peer(x)), Has(a, Peer(x)),
              channel[x], posted[Peer(x)], handed[x], WillTake(a, x))

(* The session that a started follows the script w.                        *)
Conversation(a, w) ==
    /\ w.secret = SharedSecret(a)
    /\ w.data = Data(a)
    /\ Ends(w, End(a, a), End(a, Peer(a)), generated)
    /\ \A x \in Party : Towards(a, w, x)

(* It does not matter which end is named first.                            *)
LEMMA EndsSwap ==
    ASSUME NEW w, NEW s, NEW t, NEW count, Ends(w, s, t, count)
    PROVE  Ends(w, t, s, count)
<1>1. Len(s.rootKey) \in Nat /\ Len(t.rootKey) \in Nat
  BY EndTyped DEF Ends
<1>2. Longer(Len(s.rootKey), Len(t.rootKey)) = Longer(Len(t.rootKey), Len(s.rootKey))
  BY <1>1 DEF Longer
<1>3. Apart(Len(t.rootKey), Len(s.rootKey)) <=> Apart(Len(s.rootKey), Len(t.rootKey))
  BY DEF Apart
<1>. QED BY <1>2, <1>3 DEF Ends

(* A conversation, seen from either end.                                   *)
LEMMA ConversationFrom ==
    ASSUME NEW a \in Party, NEW x \in Party, NEW w
    PROVE  Conversation(a, w) <=>
              /\ w.secret = SharedSecret(a)
              /\ w.data = Data(a)
              /\ Ends(w, End(a, x), End(a, Peer(x)), generated)
              /\ Towards(a, w, x) /\ Towards(a, w, Peer(x))
<1>1. x = a \/ (x = Peer(a) /\ Peer(x) = a)
  BY PartyFacts
<1>2. Peer(x) \in Party /\ \A y \in Party : y = x \/ y = Peer(x)
  BY PartyFacts
<1>3. Ends(w, End(a, x), End(a, Peer(x)), generated)
        <=> Ends(w, End(a, a), End(a, Peer(a)), generated)
  BY <1>1, EndsSwap
<1>. QED BY <1>2, <1>3 DEF Conversation

(* The invariant of the ways that keep the order, until someone reloads.   *)
Conversations == \A a \in Party : Initiator(a) => \E w : Conversation(a, w)

(* The queues and the conversations together.                              *)
LockstepInv == (\A p \in Party : QueueInv(p)) /\ Conversations

(* What SignalSessionProofs has shown of the states before a reload.       *)
Sound == Types /\ SessionsInv /\ EnvelopesInv /\ OriginsInv /\ TogetherInv /\ NoReload

(* Before a reload a responder shares the session its peer started.        *)
LEMMA Paired ==
    ASSUME Sound, NEW p \in Party
    PROVE  /\ Responder(p) => Initiator(Peer(p)) /\ SharedSecret(Peer(p)) = SharedSecret(p)
           /\ Initiator(p) /\ ~IsPending(session[p]) => Responder(Peer(p))
           /\ Initiator(p) => \E o \in Origins : Holds(p, o) /\ InUse(o) /\ Own(p, o)
           /\ HasSession(p) => Initiator(p) \/ Responder(p)
           /\ ~(Initiator(p) /\ Responder(p))
<1> DEFINE q == Peer(p)
<1>1. q \in Party /\ q # p
  BY PartyFacts
<1>2. Types /\ SessionsInv /\ OriginsInv /\ NoReload
  BY DEF Sound
<1>3. /\ Initiator(p) /\ ~IsPending(session[p]) => Responder(q)
      /\ Responder(p) => Initiator(q)
  BY DEF Sound, TogetherInv
<1>4. \A x \in Party : HasSession(x) =>
         \E o \in Origins : Holds(x, o) /\ InUse(o) /\ (Own(x, o) \/ Adopted(x, o))
  BY <1>2, SessionOrigin
<1>5. \A x \in Party, o \in Origins : Holds(x, o) => (Initiator(x) <=> o.by = x)
                                                     /\ (Responder(x) <=> o.by = Peer(x))
  BY <1>2, RoleOfOrigin
<1>6. ASSUME Initiator(p)
      PROVE  \E o \in Origins : Holds(p, o) /\ InUse(o) /\ Own(p, o)
  <2>1. HasSession(p)
    BY <1>6 DEF Initiator
  <2>2. PICK o \in Origins : Holds(p, o) /\ InUse(o) /\ (Own(p, o) \/ Adopted(p, o))
    BY <1>4, <2>1
  <2>3. o.by = p
    BY <1>5, <1>6, <2>2
  <2>. QED BY <1>1, <2>2, <2>3 DEF Adopted
<1>7. ASSUME Responder(p)
      PROVE  SharedSecret(q) = SharedSecret(p)
  <2>1. HasSession(p) /\ HasSession(q) /\ Initiator(q)
    BY <1>3, <1>7 DEF Responder, Initiator
  <2>2. PICK o \in Origins : Holds(p, o) /\ InUse(o)
    BY <1>4, <2>1
  <2>3. PICK u \in Origins : Holds(q, u) /\ InUse(u)
    BY <1>1, <1>4, <2>1
  <2>4. o.by = q /\ u.by = q
    BY <1>1, <1>5, <1>7, <2>1, <2>2, <2>3
  <2>5. o = u
    BY <1>1, <1>2, <2>2, <2>3, <2>4, StartedOnce
  <2>. QED BY <2>2, <2>3, <2>5 DEF Holds
<1>. QED BY <1>3, <1>6, <1>7 DEF Initiator, Responder

(* Whoever gets a handshake it does not refuse has answered none, and its  *)
(* peer started this session.                                              *)
LEMMA HandshakeRoles ==
    ASSUME Sound, NEW p \in Party, NEW e, NEW o \in Origins, channel[p] # <<>>, AtHome(p),
           SealedIn(channel[p][1], o), InUse(o), o.by = Peer(p),
           e.baseKey = o.baseKey, e.identityKey = IdentityKey(Peer(p), o.gen),
           ~IsKnownHandshake(p, e), ~OurHandshakeWins(p, e)
    PROVE  /\ Initiator(Peer(p)) /\ ~Responder(p)
           /\ SharedSecret(Peer(p)) = SecretOf(o)
           /\ AnswerTo(p, o) = Blank(Peer(p))
           /\ \A i \in 1 .. Len(channel[p]) : channel[p][i].type # "Signal"
<1> DEFINE q == Peer(p)
<1>1. q \in Party /\ q # p /\ Peer(q) = p
  BY PartyFacts
<1>2. /\ Types /\ SessionsInv /\ OriginsInv /\ NoReload /\ EnvelopesInv
      /\ generation[p] = 0 /\ generation[q] = 0
  BY <1>1 DEF Sound, NoReload
<1>3. /\ SealedIn(channel[p][1], o) /\ InUse(o)
      /\ o.by = q /\ e.baseKey = o.baseKey /\ e.identityKey = IdentityKey(q, o.gen)
      /\ ~IsKnownHandshake(p, e) /\ ~OurHandshakeWins(p, e)
  OBVIOUS
<1>4. channel[p] \in Seq(Envelopes) /\ channel[p] # <<>>
  BY <1>2 DEF Types
<1>5. 1 \in 1 .. Len(channel[p])
  BY <1>4, QueueMoves
<1>6. o.gen = 0
  BY <1>1, <1>2, <1>3 DEF OriginsInv, Origins
<1>7. ~SealedBy(channel[p][1], p)
  BY <1>1, <1>3, SealedByOne
<1>. HIDE DEF q
<1>8. ASSUME NEW x \in Party, HasSession(x)
      PROVE  \E u \in Origins : Holds(x, u) /\ InUse(u) /\ (Own(x, u) \/ Adopted(x, u))
  BY <1>2, <1>8, SessionOrigin
<1>9. ~Responder(p)
  <2>. SUFFICES ASSUME Responder(p) PROVE FALSE
    OBVIOUS
  <2>1. HasSession(p)
    BY DEF Responder
  <2>2. PICK u \in Origins : Holds(p, u) /\ InUse(u) /\ (Own(p, u) \/ Adopted(p, u))
    BY <1>8, <2>1
  <2>3. u.by = q
    BY <1>2, <2>2, RoleOfOrigin DEF q
  <2>4. u = o
    BY <1>1, <1>2, <1>3, <2>2, <2>3, StartedOnce
  <2>5. Adopted(p, o)
    BY <1>1, <2>2, <2>3, <2>4 DEF Own
  <2>6. session[p].theirBaseKey = e.baseKey /\ pinned[p] = e.identityKey
    BY <1>3, <2>5 DEF Adopted, q
  <2>7. session[p].theirIdentityKey = pinned[p]
    BY <1>2, <2>1 DEF SessionsInv
  <2>. QED BY <1>3, <2>1, <2>6, <2>7 DEF IsKnownHandshake, HasSession
<1>10. ASSUME Initiator(p)
       PROVE  ~Responder(q) /\ \A i \in 1 .. Len(channel[p]) : ~SealedBy(channel[p][i], p)
  <2>1. IsPending(session[p])
    BY <1>5, <1>7, <1>10 DEF Sound, TogetherInv
  <2>2. PICK u \in Origins : Holds(p, u) /\ InUse(u) /\ Own(p, u)
    BY <1>10, Paired
  <2>3. u.by = p /\ session[p].pendingPreKey.baseKey = u.baseKey /\ HasSession(p)
    BY <2>1, <2>2 DEF Own, Holds
  <2>4. ~(u.baseKey < o.baseKey)
    <3>1. ~(o.baseKey > u.baseKey)
      BY <1>3, <2>1, <2>3 DEF OurHandshakeWins, HasSession
    <3>2. o.baseKey \in Nat /\ u.baseKey \in Nat
      BY SessionAssumption DEF Origins
    <3>. QED BY <3>1, <3>2
  <2>5. ~Responder(q)
    <3>1. Responder(q) => u.baseKey < o.baseKey
      BY <1>1, <1>3, <2>2, <2>3 DEF Sound, TogetherInv
    <3>. QED BY <2>4, <3>1
  <2>6. \A i \in 1 .. Len(channel[p]) : SealedBy(channel[p][i], p) => Responder(q)
    BY DEF Sound, TogetherInv, q
  <2>. QED BY <2>5, <2>6
<1>11. Initiator(q) /\ SharedSecret(q) = SecretOf(o)
  <2>1. HasSession(q)
    BY <1>1, <1>2, <1>3, StartedOnce
  <2>2. PICK u \in Origins : Holds(q, u) /\ InUse(u) /\ (Own(q, u) \/ Adopted(q, u))
    BY <1>1, <1>8, <2>1
  <2>3. ~Responder(q)
    <3>1. Responder(q) => Initiator(p)
      BY <1>1, Paired
    <3>. QED BY <1>10, <3>1
  <2>4. Initiator(q)
    BY <2>1, <2>3 DEF Initiator, Responder
  <2>5. u.by = q
    BY <1>1, <1>2, <2>2, <2>4, RoleOfOrigin
  <2>6. u = o
    BY <1>1, <1>2, <1>3, <2>2, <2>5, StartedOnce
  <2>. QED BY <2>2, <2>4, <2>6 DEF Holds
<1>12. AnswerTo(p, o) = Blank(q)
  BY <1>1, <1>2, <1>6, <1>11 DEF AnswerTo, Blank, Data, OurIdentity, q
<1>13. ASSUME NEW i \in 1 .. Len(channel[p]), channel[p][i].type = "Signal"
       PROVE  FALSE
  <2>1. HasSession(p) /\ channel[p][i].message.seal.key.root[1] = SharedSecret(p)
    BY <1>13 DEF AtHome
  <2>2. Initiator(p)
    BY <1>9, <2>1 DEF Initiator, Responder
  <2>3. PICK u \in Origins : Holds(p, u) /\ InUse(u) /\ Own(p, u)
    BY <2>2, Paired
  <2>4. SealedIn(channel[p][i], u) /\ u.by = p
    BY <2>1, <2>3 DEF Holds, SealedIn, Own
  <2>. QED BY <1>10, <2>2, <2>4, SealedByOne
<1>. QED BY <1>9, <1>11, <1>12, <1>13 DEF q

(* Whoever takes over a session gets such a handshake.                     *)
LEMMA TakesOverRoles ==
    ASSUME Sound, NEW p \in Party, NEW e, NEW o \in Origins, Leaves(p), TakesOver(p, e, o),
           AtHome(p)
    PROVE  /\ Initiator(Peer(p)) /\ ~Responder(p)
           /\ SharedSecret(Peer(p)) = SecretOf(o)
           /\ AnswerTo(p, o) = Blank(Peer(p))
           /\ \A i \in 1 .. Len(channel[p]) : channel[p][i].type # "Signal"
<1>1. /\ SealedIn(channel[p][1], o) /\ InUse(o) /\ o.by = Peer(p)
      /\ e.baseKey = o.baseKey /\ e.identityKey = IdentityKey(Peer(p), o.gen)
      /\ ~IsKnownHandshake(p, e) /\ ~OurHandshakeWins(p, e)
      /\ channel[p] # <<>>
  BY DEF TakesOver, Adopts, Leaves
<1>. QED BY <1>1, HandshakeRoles
-----------------------------------------------------------------------------
(* Conversations go on.                                                    *)

(* What one direction tells, whoever it is asked for.                      *)
LEMMA TowardsFacts ==
    ASSUME NEW a \in Party, NEW w, NEW x \in Party, Towards(a, w, x)
    PROVE  /\ Direction(w, End(a, x), End(a, Peer(x)), FALSE, channel[x], posted[Peer(x)],
                        handed[x], FALSE)
           /\ Has(a, Peer(x)) =>
                Direction(w, End(a, x), End(a, Peer(x)), TRUE, channel[x], posted[Peer(x)],
                          handed[x], FALSE)
           /\ WillTake(a, x) =>
                Direction(w, End(a, x), End(a, Peer(x)), FALSE, channel[x], posted[Peer(x)],
                          handed[x], TRUE)
BY DEF Towards, Direction

(* Conversely, a direction from its parts.                                 *)
LEMMA TowardsFrom ==
    ASSUME NEW w, NEW s, NEW t, NEW queue, NEW n, NEW h, NEW real, NEW all,
           Direction(w, s, t, FALSE, queue, n, h, FALSE),
           real => Direction(w, s, t, TRUE, queue, n, h, FALSE),
           all => Direction(w, s, t, FALSE, queue, n, h, TRUE)
    PROVE  Direction(w, s, t, real, queue, n, h, all)
BY DEF Direction

(* The ratchet of a user that has not answered yet.                        *)
LEMMA BlankFacts ==
    ASSUME NEW a, NEW x, ~Has(a, x)
    PROVE  Len(End(a, x).rootKey) = 1 /\ End(a, x).sendMessageNumber = 0
BY DEF End, Blank, InitBob

(* p opens the first message to it, and the conversation goes on.          *)
LEMMA ConversationTaken ==
    ASSUME Types, NEW a \in Party, NEW p \in Party, NEW w, Conversation(a, w),
           Has(a, Peer(p)), Has(a, p) => CanEncrypt(End(a, p)),
           NEW e, Comes(p, e), Taken(p, End(a, p), e.message),
           e.message.seal.key.root[1] = SharedSecret(a), QueueInv(p),
           SharedSecret(a)' = SharedSecret(a), Has(a, p)', Has(a, Peer(p))'
    PROVE  \E u : Conversation(a, u)'
<1> DEFINE q == Peer(p)
           s == End(a, p)
           t == End(a, q)
           f == channel[p][1]
           m == f.message
           P == Plaintext(f)
           fresh == RatchetKey(p, generated[p])
           v == RatchetDecrypt(s, m, fresh).state
           top == Longer(Len(s.rootKey), Len(t.rootKey))
           n == posted[q]
           n2 == posted[p]
           here == Has(a, p)
           all == WillTake(a, p)
           all2 == WillTake(a, q)
           still == NothingLost
<1>1. /\ q \in Party /\ q # p /\ Peer(q) = p
      /\ channel[p] \in Seq(Envelopes) /\ channel[q] \in Seq(Envelopes) /\ channel[p] # <<>>
  BY PartyFacts DEF Types, Comes, Leaves
<1>2. /\ 1 \in 1 .. Len(channel[p]) /\ f \in Envelopes /\ m \in Sealed
      /\ m.seal.key = e.message.seal.key
  <2>1. 1 \in 1 .. Len(channel[p])
    BY <1>1, QueueMoves
  <2>. QED BY <1>1, <2>1 DEF Envelopes, Comes, Resembles
<1>3. /\ w.secret = SharedSecret(a) /\ w.data = Data(a)
      /\ Ends(w, s, t, generated)
      /\ Towards(a, w, p) /\ Towards(a, w, q)
  BY ConversationFrom
<1>4. fresh \in Keys /\ generated \in [Party -> Nat]
  BY KeysAreKeys DEF Types
<1>5. e.message = m
  <2>1. \/ e.message = m \/ e.message.seal.associatedData = <<>>
    BY DEF Comes
  <2>2. PICK parity \in {0, 1} : GoodRatchet(s, parity, Keys, Secrets, Seq(Keys))
    BY <1>3 DEF Ends, AtEnd
  <2>3. s.associatedData = Data(a)
    BY <1>3 DEF Ends, AtEnd
  <2>4. e.message \in Sealed /\ RatchetDecrypt(s, e.message, fresh).ok
    BY DEF Comes, Envelopes, Taken
  <2>5. e.message.seal.associatedData = s.associatedData
    BY <1>4, <2>2, <2>4, OpensAsSealed
  <2>6. Data(a) # <<>>
    BY DEF Data
  <2>. QED BY <2>1, <2>3, <2>5, <2>6
<1>6. /\ RatchetDecrypt(s, m, fresh).ok
      /\ session'[p].ratchet = v /\ session'[q] = session[q]
      /\ CountGenerated(p, s, v)
      /\ handed' = [handed EXCEPT ![p] = Append(@, P)]
      /\ channel' = [channel EXCEPT ![p] = RemoveAt(@, 1)]
      /\ UNCHANGED <<way, generation, posted>>
  BY <1>5 DEF Taken, Comes, Leaves
<1>7. /\ n \in Nat /\ n2 \in Nat /\ handed[p] \in Seq(Nat)
      /\ LastOf(handed[p]) \in Nat /\ LastOf(handed[q]) <= n2
      /\ LastOf(handed[p]) < P
      /\ \A i \in 1 .. Len(channel[q]) : Plaintext(channel[q][i]) <= n2
      /\ NothingLost => P = n - Len(channel[p]) + 1
  <2>1. /\ n \in Nat /\ n2 \in Nat /\ handed[p] \in Seq(Nat)
        /\ LastOf(handed[p]) \in Nat /\ LastOf(handed[q]) <= n2
    BY <1>1, LastOfTyped
  <2>2. LastOf(handed[p]) < P
    BY <1>2 DEF QueueInv, Ordered
  <2>3. \A i \in 1 .. Len(channel[q]) : Plaintext(channel[q][i]) \in 1 .. n2
    BY <1>1 DEF Types
  <2>4. NothingLost => P + Len(channel[p]) = n + 1
    BY <1>2 DEF QueueInv, Complete
  <2>5. P \in Nat /\ Len(channel[p]) \in Nat
    BY <1>1, <1>2, LenProperties DEF Plaintext, Sealed, Messages
  <2>. HIDE DEF n, n2, P
  <2>6. \A i \in 1 .. Len(channel[q]) : Plaintext(channel[q][i]) <= n2
    BY <2>1, <2>3
  <2>7. NothingLost => P = n - Len(channel[p]) + 1
    BY <2>1, <2>4, <2>5
  <2>. QED BY <2>1, <2>2, <2>6, <2>7
<1>8. /\ AtEnd(w, s) /\ AtEnd(w, t) /\ Apart(Len(s.rootKey), Len(t.rootKey))
      /\ Script(w, top)
      /\ \A i \in 1 .. top : \A z \in Party : \A g \in Nat :
            w.ks[i] = RatchetKey(z, g) => g < generated[z]
  BY <1>3 DEF Ends
<1>9. \A i \in 1 .. top : w.ks[i] # fresh
  <2>1. \A i \in 1 .. top : w.ks[i] = fresh => generated[p] < generated[p]
    BY <1>4, <1>8
  <2>2. generated[p] \in Nat
    BY <1>4
  <2>. QED BY <2>1, <2>2
<1>10. /\ Direction(w, s, t, TRUE, channel[p], n, handed[p], FALSE)
       /\ Direction(w, t, s, here, channel[q], n2, handed[q], all2)
       /\ NothingLost => all2
  <2>1. Direction(w, s, t, TRUE, channel[p], n, handed[p], FALSE)
    BY <1>1, <1>3, TowardsFacts
  <2>2. Direction(w, t, s, here, channel[q], n2, handed[q], all2)
    BY <1>1, <1>3 DEF Towards
  <2>. QED BY <2>1, <2>2 DEF WillTake
<1>11. /\ here => CanEncrypt(s)
       /\ ~here => Len(s.rootKey) = 1 /\ s.sendMessageNumber = 0
  BY BlankFacts
<1>12. IsOf(w, m)
  BY <1>2, <1>3 DEF IsOf
<1>. HIDE DEF s, t, q, m, P, fresh, v, top, n, n2, here, all, all2, f
<1>13. \E u : /\ Continued(w, u, s, v, t, fresh)
              /\ Direction(u, v, t, TRUE, RemoveAt(channel[p], 1), n, Append(handed[p], P), still)
              /\ Direction(u, t, v, TRUE, channel[q], n2, handed[q], still)
  <2>1. top = Longer(Len(s.rootKey), Len(t.rootKey))
    BY DEF top
  <2>2. channel[p][1].message = m /\ Plaintext(channel[p][1]) = P
    BY DEF m, P, f
  <2>. HIDE DEF still
  <2>3. still => P = n - Len(channel[p]) + 1
    BY <1>7 DEF still
  <2>4. still => all2
    BY <1>10 DEF still
  <2>5. /\ AtEnd(w, s) /\ AtEnd(w, t) /\ Apart(Len(s.rootKey), Len(t.rootKey))
        /\ Script(w, top) /\ fresh \in Keys /\ \A i \in 1 .. top : w.ks[i] # fresh
    BY <1>4, <1>8, <1>9
  <2>6. /\ channel[p] \in Seq(Envelopes) /\ channel[p] # <<>> /\ n \in Nat
        /\ handed[p] \in Seq(Nat)
        /\ Direction(w, s, t, TRUE, channel[p], n, handed[p], FALSE)
    BY <1>1, <1>7, <1>10
  <2>7. /\ channel[q] \in Seq(Envelopes) /\ n2 \in Nat
        /\ Direction(w, t, s, here, channel[q], n2, handed[q], all2)
        /\ here => CanEncrypt(s)
        /\ ~here => Len(s.rootKey) = 1 /\ s.sendMessageNumber = 0
        /\ \A i \in 1 .. Len(channel[q]) : Plaintext(channel[q][i]) <= n2
        /\ LastOf(handed[q]) <= n2
    BY <1>1, <1>7, <1>10, <1>11
  <2>8. /\ channel[p][1].message \in Sealed /\ IsOf(w, channel[p][1].message)
        /\ LastOf(handed[p]) \in Nat /\ LastOf(handed[p]) < Plaintext(channel[p][1])
        /\ RatchetDecrypt(s, channel[p][1].message, fresh).ok
        /\ still => Plaintext(channel[p][1]) = n - Len(channel[p]) + 1
    BY <1>2, <1>6, <1>7, <1>12, <2>2, <2>3
  <2> DEFINE queue == channel[p]
             queue2 == channel[q]
             h == handed[p]
             h2 == handed[q]
             x == RatchetDecrypt(s, queue[1].message, fresh).state
  <2>9. \E u : /\ Continued(w, u, s, x, t, fresh)
               /\ Direction(u, x, t, TRUE, RemoveAt(queue, 1), n,
                            Append(h, Plaintext(queue[1])), still)
               /\ Direction(u, t, x, TRUE, queue2, n2, h2, still)
    <3>. HIDE DEF queue, queue2, h, h2
    <3>1. /\ queue \in Seq(Envelopes) /\ queue # <<>> /\ n \in Nat /\ h \in Seq(Nat)
          /\ Direction(w, s, t, TRUE, queue, n, h, FALSE)
      BY <2>6 DEF queue, h
    <3>2. /\ queue2 \in Seq(Envelopes) /\ n2 \in Nat
          /\ Direction(w, t, s, here, queue2, n2, h2, all2)
          /\ \A i \in 1 .. Len(queue2) : Plaintext(queue2[i]) <= n2
          /\ LastOf(h2) <= n2
      BY <2>7 DEF queue2, h2
    <3>3. /\ queue[1].message \in Sealed /\ IsOf(w, queue[1].message)
          /\ LastOf(h) \in Nat /\ LastOf(h) < Plaintext(queue[1])
          /\ RatchetDecrypt(s, queue[1].message, fresh).ok
          /\ still => Plaintext(queue[1]) = n - Len(queue) + 1
      BY <2>8 DEF queue, h
    <3>. QED BY <2>1, <2>4, <2>5, <2>7, <3>1, <3>2, <3>3, OpensNext
  <2>. QED BY <2>2, <2>9 DEF v, queue, queue2, h, h2
<1>14. PICK u : /\ Continued(w, u, s, v, t, fresh)
                /\ Direction(u, v, t, TRUE, RemoveAt(channel[p], 1), n, Append(handed[p], P),
                             still)
                /\ Direction(u, t, v, TRUE, channel[q], n2, handed[q], still)
  BY <1>13
<1>15. End(a, p)' = v /\ End(a, q)' = t
  <2>1. q = a \/ (Responder(q) /\ Responder(q)')
    <3>1. q = a \/ Responder(q)
      BY DEF Has, q
    <3>2. q = a \/ Responder(q)'
      BY DEF Has, q
    <3>. QED BY <3>1, <3>2
  <2>2. p = a \/ Responder(p)'
    BY DEF Has
  <2>. QED BY <1>6, <2>1, <2>2 DEF End, Has, t, v
<1>16. /\ channel'[p] = RemoveAt(channel[p], 1) /\ channel'[q] = channel[q]
       /\ posted'[p] = n2 /\ posted'[q] = n
       /\ handed'[p] = Append(handed[p], P) /\ handed'[q] = handed[q]
       /\ NothingLost' <=> NothingLost
  <2>1. channel \in [Party -> Seq(Envelopes)] /\ handed \in [Party -> Seq(1 .. way.posts)]
    BY DEF Types
  <2>. QED BY <1>1, <1>6, <2>1 DEF NothingLost, n, n2
<1>17. Ends(u, v, t, generated')
  <2>1. /\ Script(u, Longer(Len(v.rootKey), Len(t.rootKey)))
        /\ AtEnd(u, v) /\ AtEnd(u, t) /\ Apart(Len(v.rootKey), Len(t.rootKey))
        /\ \A i \in 1 .. Longer(Len(v.rootKey), Len(t.rootKey)) :
              \/ i <= top /\ u.ks[i] = w.ks[i]
              \/ u.ks[i] = fresh /\ v.sendingRatchetKey = fresh
        /\ s.sendingRatchetKey # fresh
    BY <1>14 DEF Continued, top
  <2>2. \A z \in Party : /\ generated'[z] \in Nat /\ generated[z] \in Nat
                         /\ generated[z] <= generated'[z]
    BY <1>4, <1>6 DEF CountGenerated
  <2>3. v.sendingRatchetKey = fresh => generated'[p] = generated[p] + 1
    BY <1>4, <1>6, <2>1 DEF CountGenerated
  <2>4. ASSUME NEW i \in 1 .. Longer(Len(v.rootKey), Len(t.rootKey)), NEW z \in Party,
               NEW g \in Nat, u.ks[i] = RatchetKey(z, g)
        PROVE  g < generated'[z]
    <3>1. CASE i <= top /\ u.ks[i] = w.ks[i]
      <4>1. i \in 1 .. top
        BY <1>8, <3>1 DEF Script
      <4>2. g < generated[z]
        BY <1>8, <2>4, <3>1, <4>1
      <4>. QED BY <2>2, <4>2
    <3>2. CASE u.ks[i] = fresh /\ v.sendingRatchetKey = fresh
      <4>1. RatchetKey(z, g) = RatchetKey(p, generated[p])
        BY <2>4, <3>2 DEF fresh
      <4>2. z = p /\ g = generated[p]
        BY <4>1 DEF RatchetKey
      <4>. QED BY <2>2, <2>3, <3>2, <4>2
    <3>. QED BY <2>1, <3>1, <3>2
  <2>5. \A i \in 1 .. Longer(Len(v.rootKey), Len(t.rootKey)) : \A z \in Party : \A g \in Nat :
           u.ks[i] = RatchetKey(z, g) => g < generated'[z]
    BY <2>4
  <2>. QED BY <2>1, <2>5 DEF Ends
<1>18. Towards(a, u, p)'
  <2>1. Direction(u, v, t, Has(a, q)', channel'[p], posted'[q], handed'[p], WillTake(a, p)')
    BY <1>14, <1>16 DEF Direction, WillTake, q, still
  <2>. QED BY <1>15, <2>1 DEF Towards, q
<1>19. Towards(a, u, q)'
  <2>1. Direction(u, t, v, Has(a, p)', channel'[q], posted'[p], handed'[q], WillTake(a, q)')
    BY <1>14, <1>16 DEF Direction, WillTake, q, still
  <2>. QED BY <1>1, <1>15, <2>1 DEF Towards
<1>20. u.secret = SharedSecret(a)' /\ u.data = Data(a)
  BY <1>3, <1>14 DEF Continued
<1>21. Ends(u, End(a, a)', End(a, Peer(a))', generated')
  <2>1. (a = p /\ Peer(a) = q) \/ (a = q /\ Peer(a) = p)
    <3>1. a = p \/ a = q
      BY PartyFacts DEF q
    <3>. QED BY <1>1, <3>1 DEF q
  <2>2. Ends(u, End(a, p)', End(a, q)', generated') /\ Ends(u, End(a, q)', End(a, p)', generated')
    BY <1>15, <1>17, EndsSwap
  <2>. QED BY <2>1, <2>2
<1>22. \A x \in Party : x = p \/ x = q
  BY PartyFacts DEF q
<1>. QED BY <1>18, <1>19, <1>20, <1>21, <1>22 DEF Conversation, Data
(* The first message to p goes: one of another conversation, one p will    *)
(* not take, or on a way that loses messages.                              *)
LEMMA ConversationDropped ==
    ASSUME Types, NEW a \in Party, NEW p \in Party, NEW w, Conversation(a, w),
           Dropped(p), QueueInv(p),
           WillTake(a, p) => channel[p][1].message.seal.key.root[1] # SharedSecret(a)
    PROVE  Conversation(a, w)'
<1> DEFINE q == Peer(p)
           s == End(a, p)
           t == End(a, q)
           P == Plaintext(channel[p][1])
           k == posted[q]
           top == Longer(Len(s.rootKey), Len(t.rootKey))
           real == Has(a, q)
           all == WillTake(a, p)
<1>1. /\ q \in Party /\ q # p /\ Peer(q) = p
      /\ channel \in [Party -> Seq(Envelopes)]
      /\ channel[p] \in Seq(Envelopes) /\ channel[p] # <<>>
      /\ channel' = [channel EXCEPT ![p] = RemoveAt(@, 1)]
      /\ UNCHANGED <<way, pool, usedBaseKeys, generation, posted>>
      /\ UNCHANGED <<session, pinned, oneTime, generated, handed>>
  BY PartyFacts DEF Types, Dropped, Leaves
<1>2. channel'[p] = RemoveAt(channel[p], 1) /\ channel'[q] = channel[q]
  BY <1>1
<1>3. /\ w.secret = SharedSecret(a) /\ w.data = Data(a)
      /\ Ends(w, s, t, generated)
      /\ Towards(a, w, p) /\ Towards(a, w, q)
  BY ConversationFrom
<1>4. \A x \in Party : /\ End(a, x)' = End(a, x) /\ (Has(a, x)' <=> Has(a, x))
                       /\ (WillTake(a, x)' <=> WillTake(a, x))
  BY <1>1 DEF End, Has, Blank, SharedSecret, Responder, HasSession, WillTake, NothingLost
<1>5. SharedSecret(a)' = SharedSecret(a)
  BY <1>1 DEF SharedSecret
<1>6. /\ AtEnd(w, s) /\ AtEnd(w, t) /\ Apart(Len(s.rootKey), Len(t.rootKey))
      /\ Script(w, top)
  BY <1>3 DEF Ends
<1>7. Len(s.rootKey) <= top
  <2>1. Len(s.rootKey) \in Nat /\ Len(t.rootKey) \in Nat
    BY <1>6, EndTyped
  <2>. QED BY <2>1 DEF Longer
<1>8. k \in Nat /\ P \in Nat /\ (NothingLost => P = k - Len(channel[p]) + 1)
  <2>1. k \in Nat
    BY LastOfTyped
  <2>2. 1 \in 1 .. Len(channel[p]) /\ Len(channel[p]) \in Nat
    BY <1>1, QueueMoves
  <2>3. P \in Nat
    BY <2>2 DEF Types
  <2>4. NothingLost => P + Len(channel[p]) = k + 1
    BY <2>2 DEF QueueInv, Complete
  <2>. HIDE DEF P, k
  <2>. QED BY <2>1, <2>2, <2>3, <2>4
<1>9. Direction(w, s, t, real, channel[p], k, handed[p], all)
  BY <1>3 DEF Towards
<1>10. all => NothingLost /\ ~IsOf(w, channel[p][1].message)
  BY <1>3 DEF WillTake, IsOf
<1>11. Plaintext(channel[p][1]) = P
  OBVIOUS
<1>. HIDE DEF s, t, P, k, top, real, all
<1>12. Direction(w, s, t, real, RemoveAt(channel[p], 1), k, handed[p], all)
  <2>1. all => /\ all
               /\ ~IsOf(w, channel[p][1].message)
               /\ Plaintext(channel[p][1]) = k - Len(channel[p]) + 1
               /\ Plaintext(channel[p][1]) \in Nat
    BY <1>8, <1>10, <1>11
  <2>. QED BY <1>1, <1>6, <1>7, <1>8, <1>9, <2>1, MessageGoes
<1>13. Towards(a, w, p)'
  <2>1. Direction(w, s, t, Has(a, q)', RemoveAt(channel[p], 1), k, handed[p], WillTake(a, p)')
    BY <1>1, <1>4, <1>12 DEF Direction, real, all
  <2>. QED BY <1>1, <1>2, <1>4, <2>1 DEF Towards, s, t, k
<1>14. Towards(a, w, q)'
  <2>1. Direction(w, t, s, Has(a, p)', channel[q], posted[p], handed[q], WillTake(a, q)')
    BY <1>1, <1>3, <1>4 DEF Direction, Towards, s, t
  <2>. QED BY <1>1, <1>2, <1>4, <2>1 DEF Towards, s, t
<1>15. Ends(w, End(a, a)', End(a, Peer(a))', generated')
  <2>1. Ends(w, End(a, a), End(a, Peer(a)), generated)
    BY DEF Conversation
  <2>. QED BY <1>1, <1>4, <2>1, PartyFacts
<1>16. \A x \in Party : x = p \/ x = q
  BY PartyFacts
<1>. HIDE DEF q
<1>. QED BY <1>3, <1>5, <1>13, <1>14, <1>15, <1>16 DEF Conversation, Data
-----------------------------------------------------------------------------
(* Sending.                                                                *)

(* p has sealed f with the ratchet s and sent it.                          *)
Posts(p, s, f) ==
    /\ f \in Envelopes /\ f.message = EncryptedMessage(s, posted[p] + 1)
    /\ channel' = [channel EXCEPT ![Peer(p)] = Append(@, f)]
    /\ posted' = [posted EXCEPT ![p] = @ + 1]
    /\ session'[p].ratchet = AfterEncrypt(s)
    /\ session'[Peer(p)] = session[Peer(p)]
    /\ UNCHANGED <<way, oneTime, generation, published, handed, outvoted>>

(* What transmitting on a record sends.                                    *)
LEMMA TransmitPosts ==
    ASSUME Types, NEW p \in Party, NEW record \in Records, SoundRecord(record),
           NEW o \in Origins, Derived(record.ratchet, SecretOf(o)),
           IsPending(record) =>
              /\ o.by = p /\ o.gen = generation[p]
              /\ record.pendingPreKey = [preKeyId |-> o.preKeyId, baseKey |-> o.baseKey],
           posted[p] < way.posts, Transmit(p, record),
           UNCHANGED <<way, oneTime, generation, published, handed, outvoted>>
    PROVE  /\ session'[p].theirBaseKey = record.theirBaseKey
           /\ session'[p].pendingPreKey = record.pendingPreKey
           /\ \E f : /\ Sends(p, o, f) /\ Posts(p, record.ratchet, f)
                     /\ f.type = "Signal" => ~IsPending(record)
<1> DEFINE q == Peer(p)
           x == Envelope(p, record)
           s == record.ratchet
<1>1. /\ Continues(record, session'[p])
      /\ session'[p].pendingPreKey = record.pendingPreKey
      /\ \E f : Sends(p, o, f)
  BY TransmitSends
<1>2. PICK f : Sends(p, o, f)
  BY <1>1
<1>3. /\ x.message = EncryptedMessage(s, posted[p] + 1)
      /\ x.type = "Signal" => ~IsPending(record)
  BY DEF Envelope
<1>4. channel' = [channel EXCEPT ![q] = Append(@, x)]
      /\ session' = [session EXCEPT ![p] = [record EXCEPT !.ratchet = AfterEncrypt(@)]]
  BY DEF Transmit
<1>5. q \in Party /\ q # p /\ channel \in [Party -> Seq(Envelopes)]
      /\ session \in [Party -> {NoSession} \cup Records]
  BY PartyFacts DEF Types
<1>. HIDE DEF x
<1>6. f = x
  <2>1. Append(channel[q], f) = Append(channel[q], x)
    BY <1>2, <1>4, <1>5 DEF Sends
  <2> DEFINE S == Envelopes \cup {x}
  <2>2. channel[q] \in Seq(S) /\ f \in S /\ x \in S
    BY <1>2, <1>5 DEF Sends
  <2>. HIDE DEF S
  <2>3. /\ Append(channel[q], f)[Len(channel[q]) + 1] = f
        /\ Append(channel[q], x)[Len(channel[q]) + 1] = x
    BY <2>2, AppendProperties
  <2>. QED BY <2>1, <2>3
<1>7. session'[p].ratchet = AfterEncrypt(s)
  <2>1. [record EXCEPT !.ratchet = AfterEncrypt(@)].ratchet = AfterEncrypt(s)
    BY DEF Records
  <2>2. session'[p] = [record EXCEPT !.ratchet = AfterEncrypt(@)]
    BY <1>4, <1>5
  <2>. QED BY <2>1, <2>2
<1>8. session'[p].theirBaseKey = record.theirBaseKey
  BY <1>1 DEF Continues
<1>9. Posts(p, s, f)
  BY <1>2, <1>3, <1>6, <1>7 DEF Posts, Sends
<1>. QED BY <1>1, <1>2, <1>3, <1>6, <1>8, <1>9

(* What sending adds to the queue of a user, and to no other.              *)
LEMMA PostAppends ==
    ASSUME Types, NEW p \in Party, NEW s, NEW f, Posts(p, s, f)
    PROVE  /\ channel'[Peer(p)] = Append(channel[Peer(p)], f) /\ channel'[p] = channel[p]
           /\ posted'[p] = posted[p] + 1 /\ posted'[Peer(p)] = posted[Peer(p)]
           /\ handed' = handed
           /\ NothingLost' <=> NothingLost
           /\ channel[p] \in Seq(Envelopes) /\ channel[Peer(p)] \in Seq(Envelopes)
           /\ posted[p] \in Nat
<1>1. Peer(p) \in Party /\ Peer(p) # p
  BY PartyFacts
<1>2. /\ channel \in [Party -> Seq(Envelopes)] /\ posted \in [Party -> 0 .. way.posts]
  BY DEF Types
<1>3. posted[p] \in Nat
  BY <1>2
<1>. QED BY <1>1, <1>2, <1>3 DEF Posts, NothingLost

(* Encrypting moves an end of the conversation along its chain.            *)
LEMMA EndEncrypts ==
    ASSUME NEW w, NEW s, AtEnd(w, s), CanEncrypt(s)
    PROVE  /\ AtEnd(w, AfterEncrypt(s))
           /\ AfterEncrypt(s).rootKey = s.rootKey
           /\ AfterEncrypt(s).receiveMessageNumber = s.receiveMessageNumber
<1> DEFINE v == AfterEncrypt(s)
<1>1. s \in Ratchets /\ Len(s.rootKey) >= 1
  BY EndTyped
<1>2. /\ v.rootKey = s.rootKey /\ v.receiveMessageNumber = s.receiveMessageNumber
      /\ v.associatedData = s.associatedData
  BY <1>1 DEF AfterEncrypt, Ratchets, RatchetStates
<1>3. /\ InStep(s, w.secret, w.ks) /\ s.associatedData = w.data
      /\ \E parity \in {0, 1} : GoodRatchet(s, parity, Keys, Secrets, Seq(Keys))
  BY DEF AtEnd
<1>4. InStep(v, w.secret, w.ks)
  BY <1>1, <1>3, EncryptKeepsInStep DEF Ratchets
<1>5. \E parity \in {0, 1} : GoodRatchet(v, parity, Keys, Secrets, Seq(Keys))
  BY <1>3, EncryptKeepsRatchetGood
<1>. HIDE DEF v
<1>. QED BY <1>2, <1>3, <1>4, <1>5 DEF AtEnd, v

(* An end of the conversation sends its next message.                      *)
LEMMA ConversationSends ==
    ASSUME Types, NEW a \in Party, NEW p \in Party, NEW w, Conversation(a, w),
           Has(a, p), CanEncrypt(End(a, p)), NEW f, Posts(p, End(a, p), f),
           generated' = generated, SharedSecret(a)' = SharedSecret(a),
           \A x \in Party : Has(a, x)' <=> Has(a, x),
           \A x \in Party : WillTake(a, x)' => WillTake(a, x)
    PROVE  Conversation(a, w)'
<1> DEFINE q == Peer(p)
           s == End(a, p)
           t == End(a, q)
           v == AfterEncrypt(s)
           top == Longer(Len(s.rootKey), Len(t.rootKey))
           k == posted[p]
<1>1. /\ q \in Party /\ q # p /\ Peer(q) = p
  BY PartyFacts
<1>2. /\ w.secret = SharedSecret(a) /\ w.data = Data(a)
      /\ Ends(w, s, t, generated)
      /\ Towards(a, w, p) /\ Towards(a, w, q)
  BY ConversationFrom
<1>3. /\ AtEnd(w, s) /\ AtEnd(w, t) /\ Apart(Len(s.rootKey), Len(t.rootKey)) /\ Script(w, top)
      /\ CanEncrypt(s)
  BY <1>2 DEF Ends
<1>4. /\ AtEnd(w, v) /\ v.rootKey = s.rootKey
      /\ v.receiveMessageNumber = s.receiveMessageNumber
  BY <1>3, EndEncrypts
<1>5. /\ channel'[q] = Append(channel[q], f) /\ channel'[p] = channel[p]
      /\ posted'[p] = k + 1 /\ posted'[q] = posted[q]
      /\ handed' = handed
      /\ channel[q] \in Seq(Envelopes) /\ k \in Nat
  BY PostAppends
<1>6. /\ f \in Envelopes /\ f.message = EncryptedMessage(s, k + 1)
      /\ session'[p].ratchet = v /\ session'[q] = session[q]
  BY DEF Posts
<1>7. End(a, p)' = v
  <2>1. Has(a, p)'
    OBVIOUS
  <2>. QED BY <1>6, <2>1 DEF End
<1>8. End(a, q)' = t
  <2>1. Has(a, q)' <=> Has(a, q)
    BY <1>1
  <2>2. Blank(a)' = Blank(a)
    BY DEF Blank, Data
  <2>. HIDE DEF q
  <2>. QED BY <1>6, <2>1, <2>2 DEF End, t
<1>9. Len(s.rootKey) <= top
  <2>1. Len(s.rootKey) \in Nat /\ Len(t.rootKey) \in Nat
    BY <1>3, EndTyped
  <2>. QED BY <2>1 DEF Longer
<1>. HIDE DEF s, t, v, k, q, top
<1>10. Ends(w, v, t, generated')
  BY <1>2, <1>3, <1>4 DEF Ends
<1>11. Towards(a, w, q)'
  <2>1. Direction(w, t, s, TRUE, channel[q], k, handed[q], WillTake(a, q))
    BY <1>1, <1>2 DEF Towards, Direction, s, t, k
  <2>2. Direction(w, t, v, TRUE, Append(channel[q], f), k + 1, handed[q], WillTake(a, q))
    BY <1>3, <1>5, <1>6, <1>9, <2>1, SenderSends DEF v
  <2>3. WillTake(a, q)' => WillTake(a, q)
    BY <1>1
  <2>4. Direction(w, t, v, Has(a, p)', channel'[q], posted'[p], handed'[q], WillTake(a, q)')
    BY <1>5, <2>2, <2>3 DEF Direction
  <2>. QED BY <1>1, <1>7, <1>8, <2>4 DEF Towards
<1>12. Towards(a, w, p)'
  <2>1. Direction(w, s, t, Has(a, q), channel[p], posted[q], handed[p], WillTake(a, p))
    BY <1>2 DEF Towards, s, t, q
  <2>2. Direction(w, v, t, Has(a, q), channel[p], posted[q], handed[p], WillTake(a, p)')
    BY <1>4, <2>1, EndsStay
  <2>3. Direction(w, v, t, Has(a, q)', channel'[p], posted'[q], handed'[p], WillTake(a, p)')
    BY <1>1, <1>5, <2>2 DEF Direction
  <2>. QED BY <1>7, <1>8, <2>3 DEF Towards, q
<1>13. w.secret = SharedSecret(a)' /\ w.data = Data(a)'
  BY <1>2 DEF Data
<1>14. Ends(w, End(a, p)', End(a, q)', generated')
  BY <1>7, <1>8, <1>10
<1>15. p = a \/ q = a
  BY PartyFacts DEF q
<1>16. Ends(w, End(a, a)', End(a, Peer(a))', generated')
  <2>1. Ends(w, End(a, q)', End(a, p)', generated')
    BY <1>14, EndsSwap
  <2>2. CASE p = a
    BY <1>14, <2>2 DEF q
  <2>3. CASE q = a
    BY <1>1, <2>1, <2>3
  <2>. QED BY <1>15, <2>2, <2>3
<1>17. \A x \in Party : x = p \/ x = q
  BY PartyFacts DEF q
<1>. QED BY <1>11, <1>12, <1>13, <1>16, <1>17 DEF Conversation

(* A user that is not in the conversation yet sends a message of another.  *)
LEMMA ConversationOverhears ==
    ASSUME Types, NEW p \in Party, NEW w, Conversation(Peer(p), w), ~Has(Peer(p), p),
           NEW s, NEW f, Posts(p, s, f),
           f.message.seal.key.root[1] # SharedSecret(Peer(p)), ~Has(Peer(p), p)',
           \A z \in Party : generated[z] \in Nat /\ generated'[z] \in Nat
                               /\ generated[z] <= generated'[z],
           \A x \in Party : WillTake(Peer(p), x)' => WillTake(Peer(p), x)
    PROVE  Conversation(Peer(p), w)'
<1> DEFINE a == Peer(p)
           t == End(a, a)
           b == End(a, p)
           k == posted[p]
<1>1. /\ a \in Party /\ a # p /\ Peer(a) = p /\ \A x \in Party : x = a \/ x = p
  BY PartyFacts
<1>2. /\ w.secret = SharedSecret(a) /\ w.data = Data(a)
      /\ Ends(w, t, b, generated)
      /\ Towards(a, w, p) /\ Towards(a, w, a)
  BY <1>1 DEF Conversation
<1>3. /\ channel'[a] = Append(channel[a], f) /\ channel'[p] = channel[p]
      /\ posted'[p] = k + 1 /\ posted'[a] = posted[a]
      /\ handed' = handed
      /\ channel[a] \in Seq(Envelopes) /\ k \in Nat
  BY PostAppends
<1>4. f \in Envelopes /\ session'[a] = session[a]
  BY DEF Posts
<1>5. /\ Has(a, a) /\ Has(a, a)' /\ ~Has(a, p) /\ ~Has(a, p)'
  BY DEF Has
<1>6. SharedSecret(a)' = SharedSecret(a) /\ Data(a)' = Data(a)
  BY <1>4 DEF SharedSecret, Data
<1>7. End(a, a)' = t /\ End(a, p)' = b
  <2>1. t = session[a].ratchet /\ End(a, a)' = session'[a].ratchet
    BY <1>5 DEF End
  <2>2. b = Blank(a) /\ End(a, p)' = Blank(a)'
    BY <1>5 DEF End
  <2>3. Blank(a)' = Blank(a)
    BY <1>6 DEF Blank, Data
  <2>. QED BY <1>4, <2>1, <2>2, <2>3
<1>8. Len(b.rootKey) = 1
  BY <1>5, BlankFacts
<1>9. /\ AtEnd(w, t) /\ Apart(Len(t.rootKey), Len(b.rootKey))
  BY <1>2 DEF Ends
<1>10. Len(t.rootKey) = 2
  <2>1. Len(t.rootKey) \in Nat /\ Len(t.rootKey) >= 1
    BY <1>9, EndTyped
  <2>. HIDE DEF t, b
  <2>. QED BY <1>8, <1>9, <2>1 DEF Apart
<1>11. ~IsOf(w, f.message)
  BY <1>2 DEF IsOf
<1>12. /\ WillTake(a, a)' => WillTake(a, a)
       /\ WillTake(a, p)' => WillTake(a, p)
  BY <1>1
<1>13. \A z \in Party : generated[z] \in Nat /\ generated'[z] \in Nat
                               /\ generated[z] <= generated'[z]
  OBVIOUS
<1>. HIDE DEF t, b, k, a
<1>14. Towards(a, w, a)'
  <2>1. Direction(w, t, b, FALSE, channel[a], k, handed[a], WillTake(a, a))
    BY <1>1, <1>2, <1>5 DEF Towards, Direction, t, b, k
  <2>2. Direction(w, t, b, FALSE, Append(channel[a], f), k + 1, handed[a], WillTake(a, a))
    BY <1>3, <1>4, <1>8, <1>10, <1>11, <2>1, OtherSends
  <2>3. Direction(w, t, b, Has(a, p)', channel'[a], posted'[p], handed'[a], WillTake(a, a)')
    BY <1>3, <1>5, <1>12, <2>2 DEF Direction
  <2>. QED BY <1>1, <1>7, <2>3 DEF Towards
<1>15. Towards(a, w, p)'
  <2>1. Direction(w, b, t, Has(a, a), channel[p], posted[a], handed[p], WillTake(a, p))
    BY <1>2 DEF Towards, b, t, a
  <2>2. Direction(w, b, t, Has(a, a)', channel'[p], posted'[a], handed'[p], WillTake(a, p)')
    BY <1>3, <1>5, <1>12, <2>1 DEF Direction
  <2>. QED BY <1>7, <2>2 DEF Towards, a
<1>16. Ends(w, t, b, generated')
  <2> DEFINE top == Longer(Len(t.rootKey), Len(b.rootKey))
  <2>1. \A i \in 1 .. top : \A z \in Party : \A n \in Nat :
           w.ks[i] = RatchetKey(z, n) => n < generated[z]
    BY <1>2 DEF Ends
  <2>2. \A z \in Party : \A n \in Nat : n < generated[z] => n < generated'[z]
    BY <1>13
  <2>3. \A i \in 1 .. top : \A z \in Party : \A n \in Nat :
           w.ks[i] = RatchetKey(z, n) => n < generated'[z]
    BY <2>1, <2>2
  <2>. QED BY <1>2, <2>3 DEF Ends
<1>17. Ends(w, End(a, a)', End(a, Peer(a))', generated')
  BY <1>1, <1>7, <1>16
<1>18. \A x \in Party : Towards(a, w, x)'
  BY <1>1, <1>14, <1>15
<1>. QED BY <1>2, <1>6, <1>17, <1>18 DEF Conversation, a
(* The script of a conversation that begins, from the ratchet key of its   *)
(* responder and of its initiator.                                         *)
Beginning(secret, data, theirs, ours) ==
    [secret |-> secret, data |-> data,
     ks |-> [i \in Nat |-> IF i = 1 THEN theirs ELSE ours],
     starts |-> [i \in Nat |-> 0]]

(* A conversation begins with two ratchets at its ends, and nothing sent.  *)
LEMMA EndsBegin ==
    ASSUME NEW secret \in Secrets, NEW data \in Seq(Keys),
           NEW theirs \in Keys, NEW ours \in Keys, ours # theirs
    PROVE  LET w == Beginning(secret, data, theirs, ours)
               alice == InitAlice(secret, ours, theirs, data)
               bob == InitBob(secret, theirs, data)
           IN  /\ Script(w, 2)
               /\ AtEnd(w, alice) /\ CanEncrypt(alice)
               /\ Len(alice.rootKey) = 2 /\ alice.rootKey[1] = secret
               /\ AtEnd(w, bob) /\ Len(bob.rootKey) = 1
               /\ Direction(w, bob, alice, TRUE, <<>>, 0, <<>>, TRUE)
<1> DEFINE w == Beginning(secret, data, theirs, ours)
           ks == w.ks
           alice == InitAlice(secret, ours, theirs, data)
           bob == InitBob(secret, theirs, data)
           root == KdfRootKey(<<secret>>, Dh(ours, theirs))
<1>1. /\ w.secret = secret /\ w.data = data
      /\ ks[1] = theirs /\ ks[2] = ours
      /\ \A i \in Nat : w.starts[i] = 0
  BY DEF Beginning
<1>2. RootAt(secret, ks, 1) = <<secret>> /\ Len(<<secret>>) = 1
  BY DEF RootAt
<1>3. /\ alice.rootKey = root
      /\ alice.sendingRatchetKey = ours /\ alice.receivingRatchetKey = theirs
      /\ alice.sendingChainKey = FirstChainKey(root)
      /\ alice.receivingChainKey = NoChain
      /\ alice.sendMessageNumber = 0 /\ alice.receiveMessageNumber = 0
      /\ alice.previousSendingChainLength = 0
      /\ Len(alice.skippedMessageKeys) = 0
      /\ alice.associatedData = data
  BY DEF InitAlice, root
<1>4. /\ bob.rootKey = <<secret>>
      /\ bob.sendingRatchetKey = theirs /\ bob.receivingRatchetKey = NoKey
      /\ bob.sendingChainKey = NoChain /\ bob.receivingChainKey = NoChain
      /\ bob.sendMessageNumber = 0 /\ bob.receiveMessageNumber = 0
      /\ bob.previousSendingChainLength = 0
      /\ Len(bob.skippedMessageKeys) = 0
      /\ bob.associatedData = data
  BY DEF InitBob
<1>5. /\ GoodRatchet(alice, 0, Keys, Secrets, Seq(Keys)) /\ CanEncrypt(alice)
      /\ Derived(alice, secret)
  BY SecretsClosed, InitAliceGood
<1>6. GoodRatchet(bob, 1, Keys, Secrets, Seq(Keys))
  BY SecretsClosed, InitBobGood
<1>. HIDE DEF w, ks, alice, bob
<1>7. /\ \A i \in 1 .. 2 : ks[i] \in Keys /\ (i = 1 \/ i = 2)
      /\ \A i \in 1 .. 1 : ks[i] \in Keys
      /\ 1 \in Nat \ {0} /\ 2 \in Nat \ {0} /\ 1 + 1 = 2
  BY <1>1
<1>9. DistinctKeys(ks, 2, Keys)
  BY <1>1, <1>7 DEF DistinctKeys
<1>10. Script(w, 2)
  BY <1>1, <1>9 DEF Script, ks
<1>8. root = RootAt(secret, ks, 2) /\ Len(root) = 2
  <2>1. \A k \in Keys : ks[1 + 1] = k =>
          Append(RootAt(secret, ks, 1), Dh(k, ks[1])) = RootAt(secret, ks, 1 + 1)
    BY <1>7, SecretsClosed, RootFacts
  <2>2. Len(RootAt(secret, ks, 2)) = 2
    <3>1. \A n \in 1 .. 2 : Len(ChainAt(w.secret, w.ks, n, 0).root) = n
      BY <1>10, ScriptChain
    <3>2. \A n \in 1 .. 2 : Len(RootAt(secret, ks, n)) = n
      BY <1>1, <3>1 DEF ChainAt, ks
    <3>. QED BY <3>2
  <2>3. Append(<<secret>>, Dh(ours, theirs)) = RootAt(secret, ks, 2)
    BY <1>1, <1>2, <1>7, <2>1
  <2>. QED BY <2>2, <2>3 DEF KdfRootKey
<1>. HIDE DEF root
<1>11. InStep(alice, secret, ks)
  <2>1. /\ Len(alice.rootKey) = 2
        /\ alice.sendingChainKey = ChainAt(secret, ks, 2, 0)
    BY <1>3, <1>8 DEF FirstChainKey, ChainAt
  <2>2. /\ alice.rootKey = RootAt(secret, ks, 2)
        /\ alice.sendingRatchetKey = ks[2]
        /\ alice.receivingRatchetKey = ks[2 - 1]
        /\ alice.sendingChainKey = ChainAt(secret, ks, 2, alice.sendMessageNumber)
        /\ 1 .. Len(alice.skippedMessageKeys) = {}
    BY <1>1, <1>3, <1>8, <2>1
  <2>. QED BY <1>3, <2>1, <2>2 DEF InStep
<1>12. InStep(bob, secret, ks)
  BY <1>1, <1>2, <1>4 DEF InStep
<1>13. AtEnd(w, alice) /\ AtEnd(w, bob)
  BY <1>1, <1>3, <1>4, <1>5, <1>6, <1>11, <1>12 DEF AtEnd, ks
<1>14. Len(alice.rootKey) = 2 /\ Len(bob.rootKey) = 1
  BY <1>2, <1>3, <1>4, <1>8
<1>15. Direction(w, bob, alice, TRUE, <<>>, 0, <<>>, TRUE)
  <2>1. Sent(w, alice, 0)
    BY <1>1, <1>3, <1>14 DEF Sent, Closes
  <2>2. \A v : v = 0 => Cursor(w, bob, 2, v)
    BY <1>1, <1>14 DEF Cursor
  <2>3. LastOf(<<>>) = 0 /\ Len(<<>>) = 0 /\ 0 - 0 = 0 /\ 1 .. 0 = {}
    BY DEF LastOf
  <2>. QED BY <1>14, <2>1, <2>2, <2>3 DEF Direction
<1>16. alice.rootKey[1] = secret
  BY <1>5 DEF Derived
<1>. QED BY <1>5, <1>10, <1>13, <1>14, <1>15, <1>16 DEF w, alice, bob

(* A user starts a session with its first message.                         *)
LEMMA ConversationBegins ==
    ASSUME Types, NEW p \in Party, NEW secret \in Secrets, NEW s, NEW f,
           s = InitAlice(secret, RatchetKey(p, generated[p]), SignedPreKey(Peer(p), 0), Data(p)),
           Posts(p, s, f), posted[p] = 0, ~Responder(Peer(p))',
           generated' = [generated EXCEPT ![p] = @ + 1],
           \A i \in 1 .. Len(channel[p]) : channel[p][i].message.seal.key.root[1] # secret
    PROVE  \E w : Conversation(p, w)'
<1> DEFINE q == Peer(p)
           ours == RatchetKey(p, generated[p])
           theirs == SignedPreKey(q, 0)
           data == Data(p)
           b == InitBob(secret, theirs, data)
           v == AfterEncrypt(s)
<1>1. /\ q \in Party /\ q # p /\ Peer(q) = p /\ \A x \in Party : x = p \/ x = q
      /\ generated \in [Party -> Nat] /\ generated[p] \in Nat
  BY PartyFacts DEF Types
<1>2. /\ ours \in Keys /\ theirs \in Keys /\ data \in Seq(Keys)
      /\ ours # theirs
  <2>1. ours \in Keys /\ theirs \in Keys /\ IdentityKey(p, 0) \in Keys /\ IdentityKey(q, 0) \in Keys
    BY <1>1, KeysAreKeys
  <2>2. ours # theirs
    BY DEF RatchetKey, SignedPreKey
  <2>. QED BY <2>1, <2>2 DEF Data
<1>3. s = InitAlice(secret, ours, theirs, data)
  OBVIOUS
<1>0. PICK w : w = Beginning(secret, data, theirs, ours)
  OBVIOUS
<1>4. /\ w.secret = secret /\ w.data = data
      /\ w.ks[1] = theirs /\ w.ks[2] = ours
  BY <1>0 DEF Beginning
<1>5. /\ channel'[q] = Append(channel[q], f) /\ channel'[p] = channel[p]
      /\ posted'[p] = 0 + 1 /\ posted'[q] = posted[q] /\ handed' = handed
      /\ channel[q] \in Seq(Envelopes)
  BY PostAppends
<1>6. /\ f \in Envelopes /\ f.message = EncryptedMessage(s, 0 + 1)
      /\ session'[p].ratchet = v /\ session'[q] = session[q]
  BY DEF Posts
<1>7. channel[q] = <<>> /\ handed[q] = <<>>
  <2>1. \A i \in 1 .. Len(channel[q]) : Plaintext(channel[q][i]) \in 1 .. posted[p]
    BY <1>1 DEF Types
  <2>2. \A i \in 1 .. Len(handed[q]) : handed[q][i] \in 1 .. posted[p]
    BY <1>1 DEF Types
  <2>3. 1 .. posted[p] = {}
    OBVIOUS
  <2>4. handed[q] \in Seq(1 .. way.posts)
    BY <1>1 DEF Types
  <2>. HIDE DEF q
  <2>5. \A n \in Nat : n # 0 => 1 \in 1 .. n
    OBVIOUS
  <2>6. Len(channel[q]) \in Nat /\ Len(handed[q]) \in Nat
    BY <1>5, <2>4, LenProperties
  <2>7. Len(channel[q]) = 0 /\ Len(handed[q]) = 0
    BY <2>1, <2>2, <2>3, <2>5, <2>6
  <2>. QED BY <1>5, <2>4, <2>7, EmptySeq
<1>. HIDE DEF q, ours, theirs, data, b, v
<1>8. /\ Script(w, 2)
      /\ AtEnd(w, s) /\ CanEncrypt(s)
      /\ Len(s.rootKey) = 2 /\ s.rootKey[1] = secret
      /\ AtEnd(w, b) /\ Len(b.rootKey) = 1
      /\ Direction(w, b, s, TRUE, <<>>, 0, <<>>, TRUE)
  <2>1. LET x == Beginning(secret, data, theirs, ours)
            alice == InitAlice(secret, ours, theirs, data)
            bob == InitBob(secret, theirs, data)
        IN  /\ Script(x, 2)
            /\ AtEnd(x, alice) /\ CanEncrypt(alice)
            /\ Len(alice.rootKey) = 2 /\ alice.rootKey[1] = secret
            /\ AtEnd(x, bob) /\ Len(bob.rootKey) = 1
            /\ Direction(x, bob, alice, TRUE, <<>>, 0, <<>>, TRUE)
    BY <1>2, EndsBegin
  <2>. QED BY <1>0, <1>3, <2>1 DEF b
<1>9. AtEnd(w, v) /\ v.rootKey = s.rootKey
  BY <1>8, EndEncrypts DEF v
<1>10. SharedSecret(p)' = secret
  BY <1>6, <1>8, <1>9 DEF SharedSecret
<1>11. Has(p, p)' /\ ~Has(p, q)'
  BY <1>1 DEF Has, q
<1>12. End(p, p)' = v
  BY <1>6, <1>11 DEF End
<1>13. End(p, q)' = b
  <2>1. End(p, q)' = Blank(p)'
    BY <1>11 DEF End
  <2>2. Blank(p)' = InitBob(SharedSecret(p)', SignedPreKey(Peer(p), 0), Data(p))
    BY DEF Blank, Data
  <2>. QED BY <1>10, <2>1, <2>2 DEF b, theirs, data, q
<1>14. Direction(w, b, v, TRUE, channel'[q], posted'[p], handed'[q], TRUE)
  <2>3. <<>> \in Seq(Envelopes)
    BY EmptySeq
  <2>4. Len(s.rootKey) = 2
    BY <1>8
  <2>1. PICK top \in Nat : top = 2
    OBVIOUS
  <2>5. Len(s.rootKey) <= top /\ Script(w, top) /\ 0 \in Nat
    <3>1. Len(s.rootKey) = top
      BY <2>1, <2>4
    <3>2. top <= top
      BY <2>1
    <3>3. Len(s.rootKey) <= top
      BY <3>1, <3>2
    <3>. QED BY <1>8, <2>1, <3>3
  <2>2. Direction(w, b, v, TRUE, Append(<<>>, f), 0 + 1, <<>>, TRUE)
    BY <1>6, <1>8, <2>3, <2>5, SenderSends DEF v
  <2>. QED BY <1>5, <1>7, <2>2
<1>15. ASSUME NEW k, NEW h, NEW all
       PROVE  Direction(w, v, b, FALSE, channel[p], k, h, all)
  <2>1. \A i \in 1 .. Len(channel[p]) : ~IsOf(w, channel[p][i].message)
    BY <1>4 DEF IsOf
  <2>2. \A m : ~IsOf(w, m) => Follow(w, 1, m)
    BY DEF Follow, Passed
  <2>3. \A x : Cursor(w, v, 1, x)
    <3>1. Len(v.rootKey) = 2
      BY <1>8, <1>9
    <3>. QED BY <3>1 DEF Cursor
  <2>. QED BY <1>8, <2>1, <2>2, <2>3 DEF Direction
<1>16. Towards(p, w, q)'
  <2>1. Direction(w, b, v, Has(p, p)', channel'[q], posted'[p], handed'[q], WillTake(p, q)')
    BY <1>11, <1>14 DEF Direction
  <2>. QED BY <1>1, <1>12, <1>13, <2>1 DEF Towards
<1>17. Towards(p, w, p)'
  <2>1. Direction(w, v, b, FALSE, channel[p], posted'[q], handed'[p], WillTake(p, p)')
    BY <1>15
  <2>2. Direction(w, v, b, Has(p, q)', channel'[p], posted'[q], handed'[p], WillTake(p, p)')
    BY <1>5, <1>11, <2>1 DEF Direction
  <2>. QED BY <1>12, <1>13, <2>2 DEF Towards, q
<1>18. Ends(w, v, b, generated')
  <2>1. Len(v.rootKey) = 2 /\ Len(b.rootKey) = 1 /\ Longer(2, 1) = 2 /\ Apart(2, 1)
    BY <1>8, <1>9 DEF Longer, Apart
  <2>2. ASSUME NEW i \in 1 .. 2, NEW z \in Party, NEW n \in Nat, w.ks[i] = RatchetKey(z, n)
        PROVE  n < generated'[z]
    <3>1. i = 1 \/ i = 2
      OBVIOUS
    <3>2. i # 1
      BY <1>4, <2>2 DEF theirs, RatchetKey, SignedPreKey
    <3>3. RatchetKey(z, n) = RatchetKey(p, generated[p])
      BY <1>4, <2>2, <3>1, <3>2 DEF ours
    <3>4. z = p /\ n = generated[p]
      BY <3>3 DEF RatchetKey
    <3>. QED BY <1>1, <3>4
  <2>. QED BY <1>8, <1>9, <2>1, <2>2 DEF Ends
<1>19. Ends(w, End(p, p)', End(p, Peer(p))', generated')
  BY <1>12, <1>13, <1>18 DEF q
<1>20. w.secret = SharedSecret(p)' /\ w.data = Data(p)'
  BY <1>4, <1>10 DEF Data, data
<1>21. \A x \in Party : Towards(p, w, x)'
  BY <1>1, <1>16, <1>17
<1>22. Conversation(p, w)'
  BY <1>19, <1>20, <1>21 DEF Conversation
<1>. QED BY <1>22
(* Starting a session, and sending its first message.                      *)
LEMMA FirstKeepsLockstep ==
    ASSUME Sound, LockstepInv, NEW p \in Party, EncryptFirst(p)
    PROVE  LockstepInv'
<1> DEFINE q == Peer(p)
<1>1. /\ Types /\ SessionsInv /\ OriginsInv /\ NoReload
      /\ \A x \in Party : QueueInv(x)
      /\ Conversations
  BY DEF Sound, LockstepInv
<1>2. q \in Party /\ q # p /\ Peer(q) = p /\ (\A x \in Party : x = p \/ x = q)
  BY PartyFacts
<1>3. PICK bundle \in Bundles(q), baseKey \in BaseKeys \ usedBaseKeys :
        /\ Transmit(p, StartedSession(p, bundle, baseKey))
        /\ generated' = [generated EXCEPT ![p] = @ + 1]
  BY DEF EncryptFirst
<1>4. /\ ~HasSession(p) /\ posted[p] < way.posts
      /\ UNCHANGED <<way, oneTime, generation, published, handed, outvoted>>
  BY DEF EncryptFirst, HasSession
<1>5. generation[p] = 0 /\ generation[q] = 0 /\ published[q] = 0
  BY <1>1, <1>2 DEF NoReload, Types
<1>6. PICK id \in IF pool[q] = {} THEN {None} ELSE pool[q] :
        bundle = BundleOf(q, published[q], id)
  BY DEF Bundles, BundleOf
<1>7. id \in PreKeyIds \cup {None}
  BY <1>1, <1>2 DEF Types
<1> DEFINE start == [by |-> p, gen |-> generation[p], peerGen |-> published[q],
                     baseKey |-> baseKey, preKeyId |-> id]
           r == StartedSession(p, bundle, baseKey)
<1>8. /\ start \in Origins /\ r \in Records /\ SoundRecord(r)
      /\ Derived(r.ratchet, SecretOf(start))
      /\ r.theirBaseKey = None
      /\ r.pendingPreKey = [preKeyId |-> id, baseKey |-> baseKey] /\ IsPending(r)
  BY <1>1, <1>6, <1>7, StartedSessionGood
<1>9. /\ start.by = p /\ start.gen = generation[p] /\ start.peerGen = published[q]
      /\ start.baseKey = baseKey /\ start.preKeyId = id
  OBVIOUS
<1>10. r.ratchet = InitAlice(SecretOf(start), RatchetKey(p, generated[p]), SignedPreKey(q, 0),
                             Data(p))
  <2>1. X3dhInitiate(OurIdentity(p), EphemeralKey(baseKey), bundle) = SecretOf(start)
    BY <1>6, <1>9 DEF SecretOf, OurIdentity
  <2>2. bundle.signedPreKey = SignedPreKey(q, 0) /\ bundle.identityKey = IdentityKey(q, 0)
    BY <1>5, <1>6 DEF BundleOf
  <2>3. OurIdentity(p) = IdentityKey(p, 0)
    BY <1>5 DEF OurIdentity
  <2>. HIDE DEF start
  <2>. QED BY <2>1, <2>2, <2>3 DEF StartedSession, Data
<1>. HIDE DEF start, r
<1>11. PICK o \in Origins : o = start
  BY <1>8
<1>12. /\ r \in Records /\ SoundRecord(r) /\ Derived(r.ratchet, SecretOf(o))
       /\ IsPending(r) => /\ o.by = p /\ o.gen = generation[p]
                          /\ r.pendingPreKey = [preKeyId |-> o.preKeyId, baseKey |-> o.baseKey]
       /\ Transmit(p, r)
  BY <1>3, <1>8, <1>9, <1>11 DEF r
<1>13. /\ session'[p].theirBaseKey = r.theirBaseKey
       /\ session'[p].pendingPreKey = r.pendingPreKey
       /\ \E f : /\ Sends(p, o, f) /\ Posts(p, r.ratchet, f)
                 /\ f.type = "Signal" => ~IsPending(r)
  BY <1>1, <1>4, <1>12, TransmitPosts
<1>14. PICK f : Sends(p, o, f) /\ Posts(p, r.ratchet, f) /\ f.type # "Signal"
  BY <1>8, <1>13
<1>15. ~InUse(o)
  BY <1>1, <1>3, <1>9, <1>11 DEF OriginsInv
<1>16. ~Responder(q) /\ ~Responder(p) /\ ~Initiator(p)
  BY <1>2, <1>4, Paired DEF Initiator, Responder
<1>17. /\ session'[q] = session[q]
       /\ (Responder(q)' <=> Responder(q)) /\ (Initiator(q)' <=> Initiator(q))
       /\ ~Responder(p)'
  <2>1. session'[q] = session[q]
    BY <1>14 DEF Sends
  <2>2. session'[p].theirBaseKey = None
    BY <1>8, <1>13
  <2>. QED BY <2>1, <2>2 DEF Responder, Initiator, HasSession
<1>18. NothingLost' <=> NothingLost
  BY <1>4 DEF NothingLost
<1>19. \A x \in Party : QueueInv(x)'
  <2>. SUFFICES ASSUME NEW x \in Party PROVE QueueInv(x)'
    OBVIOUS
  <2>1. QueueInv(x) /\ Sends(p, o, f) /\ Types
    BY <1>1, <1>14
  <2>2. HasSession(p) => SharedSecret(p)' = SharedSecret(p)
    BY <1>4
  <2>3. Responder(p) => Responder(p)'
    BY <1>16
  <2>4. f.type = "Signal" =>
              /\ HasSession(Peer(p))
              /\ f.message.seal.key.root[1] = SharedSecret(Peer(p))
    BY <1>14
  <2>. QED BY <2>1, <2>2, <2>3, <2>4, SendQueues
<1>20. Initiator(p)' => \E w : Conversation(p, w)'
  <2>1. PICK secret \in Secrets : secret = SecretOf(o)
    BY SecretForm
  <2>2. r.ratchet = InitAlice(secret, RatchetKey(p, generated[p]), SignedPreKey(Peer(p), 0),
                              Data(p))
    BY <1>10, <1>11, <2>1
  <2>3. posted[p] = 0
    BY <1>1, <1>4 DEF QueueInv, Untouched
  <2>4. \A i \in 1 .. Len(channel[p]) : channel[p][i].message.seal.key.root[1] # secret
    BY <1>15, <2>1 DEF InUse, SealedIn
  <2>5. ~Responder(Peer(p))'
    BY <1>16, <1>17
  <2>. QED BY <1>1, <1>3, <1>14, <2>2, <2>3, <2>4, <2>5, ConversationBegins
<1>21. Initiator(q)' => \E w : Conversation(q, w)'
  <2>. SUFFICES ASSUME Initiator(q) PROVE \E w : Conversation(q, w)'
    BY <1>17
  <2>1. PICK w : Conversation(q, w)
    BY <1>1, <1>2 DEF Conversations
  <2>2. ~Has(q, p) /\ ~Has(q, p)'
    BY <1>2, <1>16, <1>17 DEF Has
  <2>3. f.message.seal.key.root[1] # SharedSecret(q)
    <3>1. f.message.seal.key.root[1] = SecretOf(o)
      BY <1>14 DEF Sends, SealedIn
    <3>2. HasSession(q)
      BY DEF Initiator
    <3>3. SharedSecret(q) # SecretOf(o)
      BY <1>2, <1>15, <3>2 DEF InUse, Holds
    <3>. QED BY <3>1, <3>3
  <2>4. \A z \in Party : generated[z] \in Nat /\ generated'[z] \in Nat
                               /\ generated[z] <= generated'[z]
    <3>. SUFFICES ASSUME NEW z \in Party
                  PROVE  /\ generated[z] \in Nat /\ generated'[z] \in Nat
                         /\ generated[z] <= generated'[z]
      OBVIOUS
    <3>1. generated[z] \in Nat /\ generated \in [Party -> Nat]
      BY <1>1 DEF Types
    <3>2. generated'[z] = generated[z] \/ generated'[z] = generated[z] + 1
      BY <1>3, <3>1
    <3>. QED BY <3>1, <3>2
  <2>5. \A x \in Party : WillTake(q, x)' => WillTake(q, x)
    BY <1>2, <1>4, <1>18 DEF WillTake, Has
  <2>6. Conversation(q, w)'
    BY <1>1, <1>14, <2>1, <2>2, <2>3, <2>4, <2>5, ConversationOverhears
  <2>. QED BY <2>6
<1>. QED BY <1>2, <1>19, <1>20, <1>21 DEF LockstepInv, Conversations

(* Encrypting in a session.                                                *)
LEMMA NextKeepsLockstep ==
    ASSUME Sound, LockstepInv, NEW p \in Party, EncryptNext(p)
    PROVE  LockstepInv'
<1> DEFINE q == Peer(p)
           s == session[p].ratchet
<1>1. /\ Types /\ SessionsInv /\ OriginsInv /\ NoReload
      /\ \A x \in Party : QueueInv(x)
      /\ Conversations
  BY DEF Sound, LockstepInv
<1>2. q \in Party /\ q # p /\ Peer(q) = p /\ (\A x \in Party : x = p \/ x = q)
  BY PartyFacts
<1>3. /\ HasSession(p) /\ posted[p] < way.posts /\ Transmit(p, session[p])
      /\ UNCHANGED <<way, oneTime, generation, published, generated, handed, outvoted>>
  BY DEF EncryptNext, HasSession, serverVars
<1>4. PICK o \in Origins : /\ Derived(s, SecretOf(o))
                           /\ Holds(p, o) /\ InUse(o)
                           /\ Own(p, o) \/ Adopted(p, o)
  BY <1>1, <1>3, SessionOrigin
<1>5. session[p] \in Records /\ SoundRecord(session[p])
  BY <1>1, <1>3, SessionOrigin
<1>6. IsPending(session[p]) =>
        /\ o.by = p /\ o.gen = generation[p]
        /\ session[p].pendingPreKey = [preKeyId |-> o.preKeyId, baseKey |-> o.baseKey]
  BY <1>4 DEF Own, Adopted
<1>7. /\ session'[p].theirBaseKey = session[p].theirBaseKey
      /\ session'[p].pendingPreKey = session[p].pendingPreKey
      /\ \E f : /\ Sends(p, o, f) /\ Posts(p, s, f)
                /\ f.type = "Signal" => ~IsPending(session[p])
  BY <1>1, <1>3, <1>4, <1>5, <1>6, TransmitPosts
<1>8. PICK f : /\ Sends(p, o, f) /\ Posts(p, s, f)
               /\ f.type = "Signal" => ~IsPending(session[p])
  BY <1>7
<1>9. /\ session'[q] = session[q] /\ session'[p].ratchet = AfterEncrypt(s)
      /\ HasSession(p)' /\ (HasSession(q)' <=> HasSession(q))
  BY <1>8, RecordsArePresent DEF Sends, Posts, HasSession
<1>10. SharedSecret(p)' = SharedSecret(p) /\ SharedSecret(q)' = SharedSecret(q)
  <2>1. AfterEncrypt(s).rootKey = s.rootKey
    BY <1>5 DEF AfterEncrypt, Records, Ratchets, RatchetStates
  <2>. HIDE DEF s
  <2>. QED BY <1>9, <2>1 DEF SharedSecret, s
<1>. HIDE DEF q, s
<1>11. \A x \in Party :
         /\ Responder(x)' <=> Responder(x)
         /\ Initiator(x)' <=> Initiator(x)
         /\ HasSession(x)' <=> HasSession(x)
         /\ session'[x].pendingPreKey = session[x].pendingPreKey
         /\ SharedSecret(x)' = SharedSecret(x)
  BY <1>2, <1>3, <1>7, <1>9, <1>10 DEF Responder, Initiator
<1>12. NothingLost' <=> NothingLost
  BY <1>3 DEF NothingLost
<1>13. \A a \in Party : \A x \in Party :
         /\ Has(a, x)' <=> Has(a, x)
         /\ WillTake(a, x)' => WillTake(a, x)
  BY <1>11, <1>12 DEF Has, WillTake
<1>14. f.message.seal.key.root[1] = SharedSecret(p)
  BY <1>4, <1>8 DEF Sends, SealedIn, Holds
<1>15. f.type = "Signal" => HasSession(q) /\ SharedSecret(q) = SharedSecret(p)
  <2>. SUFFICES ASSUME ~IsPending(session[p])
                PROVE  HasSession(q) /\ SharedSecret(q) = SharedSecret(p)
    BY <1>8
  <2>1. CASE Initiator(p)
    <3>1. Responder(q)
      BY <2>1, Paired DEF q
    <3>2. SharedSecret(Peer(q)) = SharedSecret(q)
      BY <1>2, <3>1, Paired
    <3>. QED BY <1>2, <3>1, <3>2 DEF Responder
  <2>2. CASE Responder(p)
    <3>1. Initiator(q) /\ SharedSecret(q) = SharedSecret(p)
      BY <2>2, Paired DEF q
    <3>. QED BY <3>1 DEF Initiator
  <2>. QED BY <1>3, <2>1, <2>2, Paired
<1>16. \A x \in Party : QueueInv(x)'
  <2>. SUFFICES ASSUME NEW x \in Party PROVE QueueInv(x)'
    OBVIOUS
  <2>1. QueueInv(x) /\ Sends(p, o, f) /\ Types
    BY <1>1, <1>8
  <2>2. HasSession(p) => SharedSecret(p)' = SharedSecret(p)
    BY <1>10
  <2>3. Responder(p) => Responder(p)'
    BY <1>11
  <2>4. f.type = "Signal" =>
              /\ HasSession(Peer(p))
              /\ f.message.seal.key.root[1] = SharedSecret(Peer(p))
    BY <1>14, <1>15 DEF q
  <2>. QED BY <2>1, <2>2, <2>3, <2>4, SendQueues
<1>17. ASSUME NEW a \in Party, Initiator(a)
       PROVE  \E w : Conversation(a, w)'
  <2>1. PICK w : Conversation(a, w)
    BY <1>1, <1>17 DEF Conversations
  <2>2. CASE Has(a, p)
    <3>1. End(a, p) = s
      BY <2>2 DEF End, s
    <3>2. CanEncrypt(End(a, p)) /\ Posts(p, End(a, p), f)
      BY <1>5, <1>8, <3>1 DEF SoundRecord, s
    <3>3. generated' = generated /\ SharedSecret(a)' = SharedSecret(a)
      BY <1>3, <1>11
    <3>4. /\ \A x \in Party : Has(a, x)' <=> Has(a, x)
          /\ \A x \in Party : WillTake(a, x)' => WillTake(a, x)
      BY <1>13
    <3>5. Conversation(a, w)'
      BY <1>1, <2>1, <2>2, <3>2, <3>3, <3>4, ConversationSends
    <3>. QED BY <3>5
  <2>3. CASE ~Has(a, p)
    <3>1. a = q /\ ~Responder(p)
      BY <1>2, <2>3 DEF Has
    <3>2. Initiator(p)
      BY <1>3, <3>1, Paired
    <3>3. o.by = p
      BY <1>1, <1>4, <3>2, RoleOfOrigin
    <3>4. PICK u \in Origins : Holds(q, u) /\ Own(q, u)
      BY <1>2, <1>17, <3>1, Paired
    <3>5. SharedSecret(p) # SharedSecret(q)
      <4>1. o # u
        BY <1>2, <3>3, <3>4 DEF Own
      <4>. QED BY <1>4, <3>4, <4>1, SecretTells DEF Holds
    <3>6. /\ Conversation(Peer(p), w) /\ ~Has(Peer(p), p) /\ ~Has(Peer(p), p)'
          /\ f.message.seal.key.root[1] # SharedSecret(Peer(p))
      BY <1>13, <1>14, <2>1, <2>3, <3>1, <3>5 DEF q
    <3>7. \A z \in Party : generated[z] \in Nat /\ generated'[z] \in Nat
                               /\ generated[z] <= generated'[z]
      BY <1>1, <1>3 DEF Types
    <3>8. \A x \in Party : WillTake(Peer(p), x)' => WillTake(Peer(p), x)
      BY <1>2, <1>13 DEF q
    <3>9. Conversation(Peer(p), w)'
      BY <1>1, <1>8, <3>6, <3>7, <3>8, ConversationOverhears
    <3>. QED BY <3>1, <3>9 DEF q
  <2>. QED BY <2>2, <2>3
<1>. QED BY <1>11, <1>16, <1>17 DEF LockstepInv, Conversations
-----------------------------------------------------------------------------
(* Receiving.                                                              *)

(* The first message of a queue opens, if it is of the conversation and    *)
(* not more than MAX_SKIP before it were missed.                           *)
LEMMA HeadOpens ==
    ASSUME NEW w, NEW s, AtEnd(w, s), NEW t, AtEnd(w, t), Apart(Len(s.rootKey), Len(t.rootKey)),
           NEW top, top = Longer(Len(s.rootKey), Len(t.rootKey)), Script(w, top),
           NEW fresh \in Keys, \A i \in 1 .. top : w.ks[i] # fresh,
           NEW real, NEW queue \in Seq(Envelopes), queue # <<>>, NEW k, NEW h, NEW all,
           Direction(w, s, t, real, queue, k, h, all),
           queue[1].message \in Sealed, IsOf(w, queue[1].message),
           NEW v \in Nat, v = LastOf(h) \/ (all /\ v = k - Len(queue)),
           v < Plaintext(queue[1]), Plaintext(queue[1]) <= v + 1 + MAX_SKIP
    PROVE  RatchetDecrypt(s, queue[1].message, fresh).ok
<1> DEFINE l == Len(s.rootKey)
           L == Len(t.rootKey)
           m == queue[1].message
<1>1. /\ l \in Nat /\ L \in Nat /\ Apart(l, L)
      /\ top = Longer(l, L) /\ Script(w, top) /\ top \in Nat
  BY EndTyped DEF Script
<1>2. 1 \in 1 .. Len(queue)
  BY QueueMoves
<1>3. m \in Sealed /\ IsOf(w, m) /\ v < m.seal.plaintext /\ m.seal.plaintext <= v + 1 + MAX_SKIP
  BY DEF Plaintext
<1>. HIDE DEF l, L, m
<1>4. /\ l <= top /\ L <= top /\ (L = l + 1 => top = L)
      /\ l < top + 1 /\ L < top + 1 /\ top + 1 \in Nat /\ l <= top + 1 /\ L <= top + 1
  BY <1>1 DEF Longer
<1>5. PICK u : /\ Script(u, top + 1) /\ Extends(w, u, top + 1)
               /\ u.ks[top + 1] = fresh
  BY <1>1, TurnExtends
<1>6. AtEnd(u, s) /\ AtEnd(u, t)
  BY <1>4, <1>5, ExtendsEnd DEF l, L
<1>7. Direction(u, s, t, real, queue, k, h, all)
  BY <1>4, <1>5, ExtendsDirection DEF l, L
<1>8. Follow(u, L, m) /\ Cursor(u, s, L, v)
  BY <1>2, <1>7 DEF Direction, L, m
<1>9. IsOf(u, m)
  BY <1>3, <1>5 DEF IsOf, Extends
<1>10. L = l + 1 => L + 1 <= top + 1 /\ fresh = u.ks[L + 1]
  BY <1>1, <1>4, <1>5
<1>11. RatchetDecrypt(s, m, fresh).ok
  <2>1. /\ Script(u, top + 1) /\ AtEnd(u, s) /\ Apart(Len(s.rootKey), L)
        /\ Len(s.rootKey) <= top + 1 /\ L <= top + 1 /\ L \in Nat
        /\ L = Len(s.rootKey) + 1 => L + 1 <= top + 1 /\ fresh = u.ks[L + 1]
    BY <1>1, <1>4, <1>5, <1>6, <1>10 DEF l
  <2>. QED BY <1>3, <1>8, <1>9, <2>1, NextOpens
<1>. QED BY <1>11 DEF m

(* A ratchet key that is generated next is in no script yet.               *)
LEMMA FreshInScript ==
    ASSUME Types, NEW p \in Party, NEW w, NEW s, NEW t, Ends(w, s, t, generated)
    PROVE  /\ RatchetKey(p, generated[p]) \in Keys
           /\ \A i \in 1 .. Longer(Len(s.rootKey), Len(t.rootKey)) :
                 w.ks[i] # RatchetKey(p, generated[p])
<1>1. generated[p] \in Nat
  BY DEF Types
<1>2. \A i \in 1 .. Longer(Len(s.rootKey), Len(t.rootKey)) :
         w.ks[i] = RatchetKey(p, generated[p]) => generated[p] < generated[p]
  BY <1>1 DEF Ends
<1>. QED BY <1>1, <1>2, KeysAreKeys

(* The first message to p opens with p's ratchet of its conversation, if p *)
(* has opened all before it or not too many were missed.                   *)
LEMMA ConversationOpens ==
    ASSUME Types, NEW a \in Party, NEW p \in Party, NEW w, Conversation(a, w), QueueInv(p),
           channel[p] # <<>>,
           channel[p][1].message.seal.key.root[1] = SharedSecret(a),
           \/ WillTake(a, p)
           \/ Plaintext(channel[p][1]) <= LastOf(handed[p]) + 1 + MAX_SKIP
    PROVE  RatchetDecrypt(End(a, p), channel[p][1].message, RatchetKey(p, generated[p])).ok
<1> DEFINE q == Peer(p)
           s == End(a, p)
           t == End(a, q)
           P == Plaintext(channel[p][1])
           k == posted[q]
           n == Len(channel[p])
           h == handed[p]
           top == Longer(Len(s.rootKey), Len(t.rootKey))
           fresh == RatchetKey(p, generated[p])
<1>1. /\ w.secret = SharedSecret(a) /\ Ends(w, s, t, generated) /\ Towards(a, w, p)
  BY ConversationFrom
<1>2. /\ AtEnd(w, s) /\ AtEnd(w, t) /\ Apart(Len(s.rootKey), Len(t.rootKey)) /\ Script(w, top)
  BY <1>1 DEF Ends
<1>3. fresh \in Keys /\ \A i \in 1 .. top : w.ks[i] # fresh
  BY <1>1, FreshInScript
<1>4. /\ channel[p] \in Seq(Envelopes) /\ 1 \in 1 .. n /\ n \in Nat
      /\ channel[p][1].message \in Sealed
      /\ P \in 1 .. k /\ k \in Nat /\ LastOf(h) \in Nat
  <2>1. channel[p] \in Seq(Envelopes)
    BY DEF Types
  <2>2. 1 \in 1 .. n /\ n \in Nat
    BY <2>1, QueueMoves
  <2>3. channel[p][1] \in Envelopes
    BY <2>1, <2>2
  <2>4. P \in 1 .. k
    BY <2>2 DEF Types
  <2>5. k \in Nat /\ LastOf(h) \in Nat
    BY LastOfTyped
  <2>. QED BY <2>1, <2>2, <2>3, <2>4, <2>5 DEF Envelopes
<1>5. Direction(w, s, t, Has(a, q), channel[p], k, h, WillTake(a, p))
  BY <1>1 DEF Towards
<1>6. IsOf(w, channel[p][1].message)
  BY <1>1 DEF IsOf
<1>7. LastOf(h) < P
  BY <1>4 DEF QueueInv, Ordered
<1>8. WillTake(a, p) => P + n = k + 1
  BY <1>4 DEF WillTake, QueueInv, Complete
<1>9. Plaintext(channel[p][1]) = P /\ Len(channel[p]) = n
  OBVIOUS
<1>10. WillTake(a, p) \/ P <= LastOf(h) + 1 + MAX_SKIP
  OBVIOUS
<1>. HIDE DEF s, t, P, k, n, h, top, fresh, q
<1>11. PICK v \in Nat : /\ v = LastOf(h) \/ (WillTake(a, p) /\ v = k - n)
                        /\ v < P /\ P <= v + 1 + MAX_SKIP
  <2>1. CASE WillTake(a, p)
    <3>1. k - n \in Nat /\ k - n < P /\ P <= (k - n) + 1 + MAX_SKIP
      BY <1>4, <1>8, <2>1, MaxSkipAssumption
    <3>. QED BY <2>1, <3>1
  <2>2. CASE P <= LastOf(h) + 1 + MAX_SKIP
    BY <1>4, <1>7, <2>2
  <2>. QED BY <1>10, <2>1, <2>2
<1>12. RatchetDecrypt(s, channel[p][1].message, fresh).ok
  <2>1. /\ v < Plaintext(channel[p][1]) /\ Plaintext(channel[p][1]) <= v + 1 + MAX_SKIP
        /\ v = LastOf(h) \/ (WillTake(a, p) /\ v = k - Len(channel[p]))
    BY <1>9, <1>11
  <2>2. top = Longer(Len(s.rootKey), Len(t.rootKey))
    BY DEF top
  <2>. QED BY <1>2, <1>3, <1>4, <1>5, <1>6, <2>1, <2>2, HeadOpens
<1>. QED BY <1>12 DEF s, fresh
(* Whoever has a session is in the conversation of it.                     *)
LEMMA InConversation ==
    ASSUME Sound, LockstepInv, NEW p \in Party, HasSession(p)
    PROVE  \E a \in Party : \E w :
              /\ Initiator(a) /\ Conversation(a, w) /\ Has(a, p)
              /\ SharedSecret(a) = SharedSecret(p) /\ End(a, p) = session[p].ratchet
<1>1. PICK a \in Party : Initiator(a) /\ Has(a, p) /\ SharedSecret(a) = SharedSecret(p)
  <2>1. CASE Initiator(p)
    BY <2>1 DEF Has
  <2>2. CASE Responder(p)
    BY <2>2, Paired, PartyFacts DEF Has
  <2>. QED BY <2>1, <2>2, Paired
<1>2. PICK w : Conversation(a, w)
  BY <1>1 DEF LockstepInv, Conversations
<1>3. End(a, p) = session[p].ratchet
  BY <1>1 DEF End
<1>. QED BY <1>1, <1>2, <1>3

(* The first message to p opens in p's session if it is of it.             *)
LEMMA HeadOpensHere ==
    ASSUME Sound, LockstepInv, NEW p \in Party, HasSession(p), channel[p] # <<>>,
           channel[p][1].message.seal.key.root[1] = SharedSecret(p),
           \/ NothingLost
           \/ Plaintext(channel[p][1]) <= LastOf(handed[p]) + 1 + MAX_SKIP
    PROVE  Decrypted(p, session[p], channel[p][1].message).ok
<1>1. PICK a \in Party : \E w :
              /\ Initiator(a) /\ Conversation(a, w) /\ Has(a, p)
              /\ SharedSecret(a) = SharedSecret(p) /\ End(a, p) = session[p].ratchet
  BY InConversation
<1>2. PICK w :
              /\ Initiator(a) /\ Conversation(a, w) /\ Has(a, p)
              /\ SharedSecret(a) = SharedSecret(p) /\ End(a, p) = session[p].ratchet
  BY <1>1
<1>3. Types /\ QueueInv(p) /\ Conversation(a, w)
  BY <1>2 DEF Sound, LockstepInv
<1>4. channel[p][1].message.seal.key.root[1] = SharedSecret(a)
  BY <1>2
<1>5. WillTake(a, p) \/ Plaintext(channel[p][1]) <= LastOf(handed[p]) + 1 + MAX_SKIP
  BY <1>2 DEF WillTake
<1>6. RatchetDecrypt(End(a, p), channel[p][1].message, RatchetKey(p, generated[p])).ok
  BY <1>3, <1>4, <1>5, ConversationOpens
<1>. QED BY <1>2, <1>6 DEF Decrypted

(* What the first envelope to p tells of its origin.                       *)
LEMMA HeadOrigin ==
    ASSUME Sound, NEW p \in Party, channel[p] # <<>>
    PROVE  /\ 1 \in 1 .. Len(channel[p]) /\ channel[p][1] \in Envelopes
           /\ \E o \in Origins :
                /\ SealedIn(channel[p][1], o) /\ InUse(o) /\ o.gen = 0 /\ o.peerGen = 0
                /\ channel[p][1].type = "PreKey" =>
                      /\ o.by = Peer(p)
                      /\ channel[p][1].baseKey = o.baseKey
                      /\ channel[p][1].preKeyId = o.preKeyId
                      /\ channel[p][1].identityKey = IdentityKey(Peer(p), o.gen)
<1>1. Types /\ EnvelopesInv /\ OriginsInv /\ channel[p] \in Seq(Envelopes)
  BY DEF Sound, Types
<1>2. 1 \in 1 .. Len(channel[p])
  BY <1>1, QueueMoves
<1>3. channel[p][1] \in Envelopes
  BY <1>1, <1>2
<1>4. PICK o \in Origins :
        /\ SealedIn(channel[p][1], o) /\ InUse(o)
        /\ channel[p][1].type = "PreKey" =>
              /\ o.by = Peer(p)
              /\ channel[p][1].baseKey = o.baseKey
              /\ channel[p][1].preKeyId = o.preKeyId
              /\ channel[p][1].identityKey = IdentityKey(Peer(p), o.gen)
  BY <1>1, <1>2, EnvelopeOrigin
<1>5. o.gen = 0 /\ o.peerGen = 0
  <2>1. o.by \in Party /\ o.gen \in Nat /\ o.peerGen \in Nat
    BY DEF Origins
  <2>2. generation[o.by] = 0 /\ published[Peer(o.by)] = 0
    BY <2>1, PartyFacts DEF Sound, NoReload, Types
  <2>3. o.gen <= generation[o.by] /\ o.peerGen <= published[Peer(o.by)]
    BY <1>1, <1>4 DEF OriginsInv
  <2>. QED BY <2>1, <2>2, <2>3
<1>. QED BY <1>2, <1>3, <1>4, <1>5

(* An own handshake is pending before its session is answered.             *)
LEMMA PendingHandshake ==
    ASSUME Sound, NEW p \in Party, Initiator(p), ~Responder(Peer(p))
    PROVE  /\ IsPending(session[p])
           /\ \E u \in Origins : /\ Holds(p, u) /\ InUse(u) /\ u.by = p
                                 /\ session[p].pendingPreKey.baseKey = u.baseKey
<1>1. IsPending(session[p])
  BY Paired
<1>2. PICK u \in Origins : Holds(p, u) /\ InUse(u) /\ Own(p, u)
  BY Paired
<1>3. u.by = p /\ session[p].pendingPreKey.baseKey = u.baseKey
  BY <1>1, <1>2 DEF Own
<1>. QED BY <1>1, <1>2, <1>3
(* A way that loses nothing brings only what is refused for the tie-break, *)
(* or can be taken.                                                        *)
LEMMA HeadIsTaken ==
    ASSUME Sound, PinsInv, LockstepInv, NEW p \in Party, channel[p] # <<>>, NothingLost,
           ~Outvoted(p, channel[p][1])
    PROVE  CanTake(p, channel[p][1])
<1> DEFINE q == Peer(p)
           e == channel[p][1]
<1>1. q \in Party /\ q # p /\ Peer(q) = p
  BY PartyFacts
<1>2. 1 \in 1 .. Len(channel[p]) /\ e \in Envelopes
  BY HeadOrigin
<1>3. PICK o \in Origins :
        /\ SealedIn(e, o) /\ InUse(o) /\ o.gen = 0 /\ o.peerGen = 0
        /\ e.type = "PreKey" =>
              /\ o.by = q /\ e.baseKey = o.baseKey /\ e.preKeyId = o.preKeyId
              /\ e.identityKey = IdentityKey(q, o.gen)
  BY HeadOrigin
<1>4. /\ Types /\ SessionsInv /\ OriginsInv /\ NoReload /\ QueueInv(p)
      /\ generation[p] = 0 /\ generation[q] = 0
  BY <1>1 DEF Sound, LockstepInv, NoReload
<1>5. e.type = "Signal" <=> e.type # "PreKey"
  BY <1>2 DEF Envelopes
<1>. HIDE DEF q
<1>6. CASE e.type = "Signal"
  <2>1. HasSession(p) /\ e.message.seal.key.root[1] = SharedSecret(p)
    BY <1>2, <1>4, <1>6 DEF QueueInv, AtHome
  <2>2. Decrypted(p, session[p], e.message).ok
    BY <2>1, HeadOpensHere
  <2>. QED BY <1>6, <2>1, <2>2 DEF CanTake, OpensSignal, HasSession
<1>7. CASE e.type = "PreKey" /\ IsKnownHandshake(p, e)
  <2>1. Responder(p) /\ HasSession(p)
    <3>1. session[p] # NoSession /\ session[p].theirBaseKey = o.baseKey
      BY <1>3, <1>7 DEF IsKnownHandshake
    <3>2. o.baseKey # None
      BY SessionAssumption DEF Origins, None
    <3>. QED BY <3>1, <3>2 DEF Responder, HasSession
  <2>2. PICK u \in Origins : Holds(p, u) /\ InUse(u)
    BY <1>4, <2>1, SessionOrigin
  <2>3. u.by = q
    BY <1>4, <2>1, <2>2, RoleOfOrigin DEF q
  <2>4. u = o
    BY <1>1, <1>3, <1>4, <1>7, <2>2, <2>3, StartedOnce
  <2>5. e.message.seal.key.root[1] = SharedSecret(p)
    BY <1>3, <2>2, <2>4 DEF SealedIn, Holds
  <2>6. Decrypted(p, session[p], e.message).ok
    BY <2>1, <2>5, HeadOpensHere
  <2>. QED BY <1>5, <1>7, <2>6 DEF CanTake
<1>8. CASE e.type = "PreKey" /\ ~IsKnownHandshake(p, e)
  <2>1. ~OurHandshakeWins(p, e)
    BY <1>8 DEF Outvoted
  <2>2. /\ o.by = q /\ e.baseKey = o.baseKey /\ e.preKeyId = o.preKeyId
        /\ e.identityKey = IdentityKey(q, o.gen)
    BY <1>3, <1>8
  <2>3. /\ Initiator(q) /\ ~Responder(p)
        /\ SharedSecret(q) = SecretOf(o)
        /\ AnswerTo(p, o) = Blank(q)
    BY <1>3, <1>4, <1>8, <2>1, <2>2, HandshakeRoles DEF QueueInv, q
  <2>4. Trusts(p, e.identityKey)
    <3>1. pinned[p] = NotPinned \/ pinned[p] \in {IdentityKey(q, g) : g \in 0 .. 0}
      BY <1>4 DEF PinsInv, q
    <3>2. \A g \in 0 .. 0 : g = 0
      OBVIOUS
    <3>. QED BY <1>3, <2>2, <3>1, <3>2 DEF Trusts
  <2>5. e.preKeyId # None => e.preKeyId \in oneTime[p]
    BY <1>4, <2>2, <2>3 DEF QueueInv, Untouched, Origins
  <2>6. ~Has(q, p)
    BY <1>1, <2>3 DEF Has
  <2>7. HasSession(p) => session[q].pendingPreKey.baseKey < session[p].pendingPreKey.baseKey
    <3>. SUFFICES ASSUME HasSession(p)
                  PROVE  session[q].pendingPreKey.baseKey < session[p].pendingPreKey.baseKey
      OBVIOUS
    <3>1. Initiator(p) /\ ~Responder(q)
      BY <2>3, Paired DEF Initiator, Responder
    <3>2. PICK v \in Origins : /\ Holds(q, v) /\ InUse(v) /\ v.by = q
                               /\ session[q].pendingPreKey.baseKey = v.baseKey
      BY <1>1, <2>3, PendingHandshake
    <3>3. v = o
      BY <1>1, <1>3, <1>4, <2>2, <3>2, StartedOnce
    <3>4. IsPending(session[p])
      BY <3>1, PendingHandshake DEF q
    <3>5. PICK u \in Origins : /\ Holds(p, u) /\ InUse(u) /\ u.by = p
                               /\ session[p].pendingPreKey.baseKey = u.baseKey
      BY <3>1, PendingHandshake DEF q
    <3>6. ~(o.baseKey > u.baseKey)
      BY <2>1, <2>2, <3>4, <3>5 DEF OurHandshakeWins, HasSession
    <3>7. o.baseKey # u.baseKey
      BY <1>1, <1>3, <1>4, <2>2, <3>5 DEF OriginsInv
    <3>8. o.baseKey \in Nat /\ u.baseKey \in Nat
      BY SessionAssumption DEF Origins
    <3>9. o.baseKey < u.baseKey
      BY <3>6, <3>7, <3>8
    <3>. QED BY <3>2, <3>3, <3>5, <3>9
  <2>8. WillTake(q, p)
    BY <2>7 DEF WillTake
  <2>9. PICK w : Conversation(q, w)
    BY <1>1, <2>3 DEF LockstepInv, Conversations
  <2>10. RatchetDecrypt(End(q, p), e.message, RatchetKey(p, generated[p])).ok
    <3>1. e.message.seal.key.root[1] = SharedSecret(q)
      BY <1>3, <2>3 DEF SealedIn
    <3>. QED BY <1>1, <1>4, <2>8, <2>9, <3>1, ConversationOpens
  <2>11. ResponderSession(p, e).ratchet = End(q, p)
    <3>1. ResponderSession(p, e).ratchet = AnswerTo(p, o)
      BY <1>3, <1>4, <2>2, ResponderAnswers DEF q
    <3>. QED BY <2>3, <2>6, <3>1 DEF End
  <2>12. HandshakeOpens(p, e)
    BY <2>4, <2>5, <2>10, <2>11 DEF HandshakeOpens, CanBuildResponderSession, Decrypted
  <2>. QED BY <1>5, <1>8, <2>12 DEF CanTake
<1>. QED BY <1>5, <1>6, <1>7, <1>8

(* Who outvotes a handshake has started a session, which is not that of the*)
(* handshake, and will not take that one.                                  *)
LEMMA OutvotedRoles ==
    ASSUME Sound, LockstepInv, NEW p \in Party, channel[p] # <<>>, Outvoted(p, channel[p][1]),
           NEW a \in Party, Initiator(a), WillTake(a, p)
    PROVE  channel[p][1].message.seal.key.root[1] # SharedSecret(a)
<1> DEFINE q == Peer(p)
           e == channel[p][1]
<1>1. q \in Party /\ q # p /\ Peer(q) = p /\ (a = p \/ a = q)
  BY PartyFacts
<1>2. Types /\ SessionsInv /\ OriginsInv /\ NoReload
  BY DEF Sound
<1>3. /\ HasSession(p) /\ IsPending(session[p])
      /\ e.baseKey > session[p].pendingPreKey.baseKey /\ e.type = "PreKey"
  BY DEF Outvoted, OurHandshakeWins, HasSession
<1>4. PICK o \in Origins : /\ SealedIn(e, o) /\ InUse(o) /\ o.by = q /\ e.baseKey = o.baseKey
  BY <1>3, HeadOrigin
<1>. HIDE DEF q
<1>5. PICK u \in Origins : Holds(p, u) /\ InUse(u) /\ (Own(p, u) \/ Adopted(p, u))
  BY <1>2, <1>3, SessionOrigin
<1>6. Own(p, u) /\ u.by = p /\ session[p].pendingPreKey.baseKey = u.baseKey
  BY <1>3, <1>5 DEF Own, Adopted
<1>7. Initiator(p) /\ ~Responder(p)
  BY <1>3, <1>6 DEF Own, Initiator, Responder
<1>8. o # u
  BY <1>1, <1>4, <1>6
<1>9. CASE a = p
  <2>1. SecretOf(o) # SecretOf(u)
    BY <1>8, SecretTells
  <2>. QED BY <1>4, <1>5, <1>9, <2>1 DEF SealedIn, Holds
<1>10. CASE a = q
  <2>1. Initiator(q) /\ ~Has(q, p)
    BY <1>1, <1>7, <1>10 DEF Has
  <2>2. session[q].pendingPreKey.baseKey < session[p].pendingPreKey.baseKey
    BY <1>3, <1>10, <2>1 DEF WillTake
  <2>3. PICK v \in Origins : /\ Holds(q, v) /\ InUse(v) /\ v.by = q
                             /\ session[q].pendingPreKey.baseKey = v.baseKey
    BY <1>1, <1>7, <2>1, PendingHandshake
  <2>4. v = o
    BY <1>1, <1>2, <1>4, <2>3, StartedOnce
  <2>5. o.baseKey < u.baseKey /\ o.baseKey > u.baseKey
    BY <1>3, <1>4, <1>6, <2>2, <2>3, <2>4
  <2>6. o.baseKey \in Nat /\ u.baseKey \in Nat
    BY SessionAssumption DEF Origins
  <2>. QED BY <2>5, <2>6
<1>. QED BY <1>1, <1>9, <1>10
(* The first message to p is refused, or lost.                             *)
LEMMA DroppedKeepsLockstep ==
    ASSUME Sound, LockstepInv, NEW p \in Party, Dropped(p),
           \A a \in Party : Initiator(a) /\ WillTake(a, p)
              => channel[p][1].message.seal.key.root[1] # SharedSecret(a),
           NothingLost =>
              \/ outvoted' = outvoted
              \/ outvoted' = [outvoted EXCEPT ![Peer(p)] = @ \cup {Plaintext(channel[p][1])}]
    PROVE  LockstepInv'
<1>1. Types /\ (\A x \in Party : QueueInv(x)) /\ Conversations
  BY DEF Sound, LockstepInv
<1>2. Leaves(p) /\ UNCHANGED <<session, pinned, oneTime, generated, handed>>
  BY DEF Dropped
<1>3. \A x \in Party : /\ Responder(x)' <=> Responder(x)
                       /\ Initiator(x)' <=> Initiator(x)
                       /\ HasSession(x)' <=> HasSession(x)
                       /\ SharedSecret(x)' = SharedSecret(x)
  BY <1>2 DEF Responder, Initiator, HasSession, SharedSecret
<1>4. ASSUME NEW x \in Party
      PROVE  QueueInv(x)'
  <2>1. QueueInv(x) /\ session'[Peer(p)] = session[Peer(p)] /\ oneTime'[Peer(p)] = oneTime[Peer(p)]
        /\ handed' = handed /\ SharedSecret(p)' = SharedSecret(p)
        /\ (HasSession(p) => HasSession(p)')
        /\ (Responder(p)' \/ (oneTime'[p] = oneTime[p] /\ ~Responder(p)))
    BY <1>1, <1>2, <1>3
  <2>. QED BY <1>1, <1>2, <2>1, LeaveQueues
<1>5. ASSUME NEW a \in Party, Initiator(a)
      PROVE  \E w : Conversation(a, w)'
  <2>1. PICK w : Conversation(a, w)
    BY <1>1, <1>5 DEF Conversations
  <2>2. WillTake(a, p) => channel[p][1].message.seal.key.root[1] # SharedSecret(a)
    BY <1>5
  <2>3. Conversation(a, w)'
    BY <1>1, <2>1, <2>2, ConversationDropped
  <2>. QED BY <2>3
<1>. QED BY <1>3, <1>4, <1>5 DEF LockstepInv, Conversations

(* p opens the first message to it in the session it has.                  *)
LEMMA OpensKeepsLockstep ==
    ASSUME Sound, LockstepInv, NEW p \in Party, NEW e, Comes(p, e), OpensHere(p, e)
    PROVE  LockstepInv'
<1> DEFINE q == Peer(p)
<1>1. Types /\ SessionsInv /\ (\A x \in Party : QueueInv(x)) /\ Conversations
  BY DEF Sound, LockstepInv
<1>2. q \in Party /\ q # p /\ Peer(q) = p /\ (\A x \in Party : x = p \/ x = q)
  BY PartyFacts
<1>3. /\ Leaves(p) /\ e.message.seal.key = channel[p][1].message.seal.key
      /\ channel[p] # <<>>
  BY DEF Comes, Leaves, Resembles
<1>4. /\ HasSession(p) /\ e.message.seal.key.root[1] = SharedSecret(p)
      /\ Continues(session[p], session'[p])
      /\ session'[q] = session[q]
      /\ handed' = [handed EXCEPT ![p] = Append(@, Plaintext(channel[p][1]))]
      /\ outvoted' = outvoted
      /\ UNCHANGED <<pinned, oneTime>>
      /\ Taken(p, session[p].ratchet, e.message)
  BY DEF OpensHere, Opened, Taken
<1>5. PICK o \in Origins : /\ Derived(session[p].ratchet, SecretOf(o))
                           /\ Holds(p, o) /\ InUse(o) /\ (Own(p, o) \/ Adopted(p, o))
  BY <1>1, <1>4, SessionOrigin
<1>. HIDE DEF q
<1>6. HasSession(p)' /\ session'[p].theirBaseKey = session[p].theirBaseKey
  BY <1>4, RecordsArePresent DEF Continues, HasSession
<1>7. SharedSecret(p)' = SharedSecret(p)
  <2>1. Derived(session'[p].ratchet, SecretOf(o))
    BY <1>4, <1>5 DEF Continues
  <2>. QED BY <1>5, <2>1 DEF Derived, SharedSecret
<1>8. \A x \in Party : /\ Responder(x)' <=> Responder(x)
                       /\ Initiator(x)' <=> Initiator(x)
                       /\ SharedSecret(x)' = SharedSecret(x)
  BY <1>2, <1>4, <1>6, <1>7 DEF Responder, Initiator, HasSession, SharedSecret
<1>9. ASSUME NEW x \in Party
      PROVE  QueueInv(x)'
  <2>1. /\ QueueInv(x) /\ session'[Peer(p)] = session[Peer(p)]
        /\ oneTime'[Peer(p)] = oneTime[Peer(p)]
        /\ HasSession(p) => HasSession(p)'
        /\ Responder(p)' \/ (oneTime'[p] = oneTime[p] /\ ~Responder(p))
    BY <1>1, <1>4, <1>6, <1>8 DEF q
  <2>. QED BY <1>1, <1>3, <1>4, <1>7, <2>1, LeaveQueues
<1>10. Initiator(p) => Responder(q)
  <2>. SUFFICES ASSUME Initiator(p) PROVE Responder(q)
    OBVIOUS
  <2>1. o.by = p
    BY <1>1, <1>5, RoleOfOrigin
  <2>2. SealedBy(channel[p][1], p)
    BY <1>3, <1>4, <1>5, <2>1 DEF SealedBy, SealedIn, Holds
  <2>3. 1 \in 1 .. Len(channel[p])
    BY <1>3, HeadOrigin
  <2>. QED BY <2>2, <2>3 DEF Sound, TogetherInv, q
<1>11. PICK a \in Party : \E w :
              /\ Initiator(a) /\ Conversation(a, w) /\ Has(a, p)
              /\ SharedSecret(a) = SharedSecret(p) /\ End(a, p) = session[p].ratchet
  BY <1>4, InConversation
<1>12. PICK w :
              /\ Initiator(a) /\ Conversation(a, w) /\ Has(a, p)
              /\ SharedSecret(a) = SharedSecret(p) /\ End(a, p) = session[p].ratchet
  BY <1>11
<1>13. Has(a, q)
  BY <1>2, <1>10, <1>12 DEF Has
<1>14. \E u : Conversation(a, u)'
  <2>1. Has(a, Peer(p)) /\ Has(a, Peer(p))' /\ Has(a, p)'
    BY <1>2, <1>8, <1>12, <1>13 DEF Has, q
  <2>2. Has(a, p) => CanEncrypt(End(a, p))
    BY <1>1, <1>4, <1>12 DEF SessionsInv, SoundRecord
  <2>3. e.message.seal.key.root[1] = SharedSecret(a) /\ SharedSecret(a)' = SharedSecret(a)
    BY <1>4, <1>8, <1>12
  <2>4. Taken(p, End(a, p), e.message) /\ QueueInv(p) /\ Conversation(a, w)
    BY <1>1, <1>4, <1>12
  <2>. QED BY <1>1, <2>1, <2>2, <2>3, <2>4, ConversationTaken
<1>15. \A b \in Party : Initiator(b)' => b = a
  <2>1. \A b \in Party : Initiator(b) => ~Responder(b)
    BY Paired
  <2>. QED BY <1>2, <1>8, <1>12, <1>13, <2>1 DEF Has
<1>. QED BY <1>9, <1>14, <1>15 DEF LockstepInv, Conversations

(* p takes over the session of its peer.                                   *)
LEMMA TakeOverKeepsLockstep ==
    ASSUME Sound, LockstepInv, NEW p \in Party, NEW e, NEW o \in Origins,
           Comes(p, e), TakesOver(p, e, o)
    PROVE  LockstepInv'
<1> DEFINE q == Peer(p)
<1>1. Types /\ SessionsInv /\ (\A x \in Party : QueueInv(x)) /\ Conversations
  BY DEF Sound, LockstepInv
<1>2. q \in Party /\ q # p /\ Peer(q) = p /\ (\A x \in Party : x = p \/ x = q)
  BY PartyFacts
<1>3. Leaves(p)
  BY DEF Comes
<1>4. /\ o.by = q /\ session'[p].theirBaseKey = o.baseKey /\ session'[q] = session[q]
      /\ SealedIn(e, o) /\ oneTime' = [oneTime EXCEPT ![p] = @ \ {o.preKeyId}]
      /\ Taken(p, AnswerTo(p, o), e.message)
  BY DEF TakesOver, Adopts
<1>5. /\ HasSession(p)' /\ outvoted' = outvoted
      /\ handed' = [handed EXCEPT ![p] = Append(@, Plaintext(channel[p][1]))]
  BY <1>4 DEF Taken
<1>6. /\ Initiator(q) /\ ~Responder(p)
      /\ SharedSecret(q) = SecretOf(o)
      /\ AnswerTo(p, o) = Blank(q)
      /\ \A i \in 1 .. Len(channel[p]) : channel[p][i].type # "Signal"
  BY <1>1, <1>3, TakesOverRoles DEF QueueInv
<1>. HIDE DEF q
<1>7. Responder(p)' /\ ~Initiator(p)'
  <2>1. o.baseKey # None
    BY SessionAssumption DEF Origins, None
  <2>. QED BY <1>4, <1>5, <2>1 DEF Responder, Initiator
<1>8. oneTime'[q] = oneTime[q]
  BY <1>1, <1>2, <1>4 DEF Types
<1>9. ASSUME NEW x \in Party
      PROVE  QueueInv(x)'
  <2>1. /\ QueueInv(x) /\ session'[Peer(p)] = session[Peer(p)]
        /\ oneTime'[Peer(p)] = oneTime[Peer(p)]
        /\ HasSession(p) => HasSession(p)'
        /\ Responder(p)' \/ (oneTime'[p] = oneTime[p] /\ ~Responder(p))
    BY <1>1, <1>4, <1>5, <1>7, <1>8 DEF q
  <2>. QED BY <1>1, <1>3, <1>5, <1>6, <2>1, LeaveQueues
<1>10. PICK w : Conversation(q, w)
  BY <1>1, <1>2, <1>6 DEF Conversations
<1>11. \E u : Conversation(q, u)'
  <2>1. /\ Has(q, Peer(p)) /\ Has(q, Peer(p))' /\ Has(q, p)'
        /\ ~Has(q, p)
    BY <1>2, <1>6, <1>7 DEF Has, q
  <2>2. e.message.seal.key.root[1] = SharedSecret(q) /\ SharedSecret(q)' = SharedSecret(q)
    BY <1>4, <1>6 DEF SealedIn, SharedSecret
  <2>3. Taken(p, End(q, p), e.message) /\ QueueInv(p)
    BY <1>1, <1>4, <1>6, <2>1 DEF End
  <2>. QED BY <1>1, <1>2, <1>10, <2>1, <2>2, <2>3, ConversationTaken
<1>. QED BY <1>2, <1>7, <1>9, <1>11 DEF LockstepInv, Conversations

(* What arrives, or is lost.                                               *)
LEMMA DeliveryKeepsLockstep ==
    ASSUME Sound, PinsInv, LockstepInv, KeepsOrder, NEW p \in Party,
           Receive(p) \/ ReceiveCopy(p) \/ ReceiveDamaged(p) \/ Lose(p)
    PROVE  LockstepInv'
<1>1. Types /\ SessionsInv /\ EnvelopesInv
  BY DEF Sound
<1>2. PICK e : Comes(p, e) /\ DeliveryStep(p, e)
  BY <1>1, DeliverySteps
<1>3. /\ Plaintext(e) = Plaintext(channel[p][1]) /\ channel[p] # <<>>
      /\ NothingLost => e = channel[p][1]
  BY <1>2 DEF Comes, Resembles, Leaves
<1>4. CASE ~NothingLost /\ Dropped(p)
  BY <1>4, DroppedKeepsLockstep DEF WillTake
<1>5. CASE Refuses(p, e)
  <2>1. /\ Dropped(p)
        /\ \/ outvoted' = [outvoted EXCEPT ![Peer(p)] = @ \cup {Plaintext(channel[p][1])}]
           \/ outvoted' = outvoted
    BY <1>3, <1>5 DEF Refuses
  <2>2. NothingLost => Outvoted(p, channel[p][1])
    BY <1>3, <1>5, HeadIsTaken DEF Refuses
  <2>3. \A a \in Party : Initiator(a) /\ WillTake(a, p)
           => channel[p][1].message.seal.key.root[1] # SharedSecret(a)
    BY <1>3, <2>2, OutvotedRoles DEF WillTake
  <2>. QED BY <2>1, <2>3, DroppedKeepsLockstep
<1>6. CASE OpensHere(p, e)
  BY <1>2, <1>6, OpensKeepsLockstep
<1>7. CASE \E o \in Origins : TakesOver(p, e, o)
  BY <1>2, <1>7, TakeOverKeepsLockstep
<1>. QED BY <1>2, <1>4, <1>5, <1>6, <1>7 DEF DeliveryStep
-----------------------------------------------------------------------------
(* The invariant of the ways that keep the order.                          *)

(* It holds initially.                                                     *)
LEMMA InitInLockstep == Init => LockstepInv
<1>. SUFFICES ASSUME Init PROVE LockstepInv
  OBVIOUS
<1>1. /\ session = [p \in Party |-> NoSession] /\ posted = [p \in Party |-> 0]
      /\ channel = [p \in Party |-> <<>>] /\ handed = [p \in Party |-> <<>>]
      /\ outvoted = [p \in Party |-> {}] /\ oneTime = [p \in Party |-> PreKeyIds]
  BY DEF Init
<1>2. ASSUME NEW p \in Party
      PROVE  /\ Len(channel[p]) = 0 /\ Len(handed[p]) = 0 /\ outvoted[Peer(p)] = {}
             /\ ~HasSession(p) /\ posted[p] = 0 /\ oneTime[p] = PreKeyIds
  BY <1>1, PartyFacts DEF HasSession
<1>3. 1 .. 0 = {}
  OBVIOUS
<1>4. \A p \in Party : QueueInv(p)
  BY <1>2, <1>3 DEF QueueInv, Ordered, Untouched, AtHome, Complete
<1>. QED BY <1>2, <1>4 DEF LockstepInv, Conversations, Initiator

(* A step that changes nothing.                                            *)
LEMMA StutterKeepsLockstep ==
    ASSUME LockstepInv, UNCHANGED vars
    PROVE  LockstepInv'
<1>1. UNCHANGED <<way, session, oneTime, generated, channel, posted, handed, outvoted>>
  BY DEF vars, userVars, serverVars, historyVars
<1>2. \A p \in Party : QueueInv(p)'
  BY <1>1 DEF LockstepInv, QueueInv, Ordered, Untouched, AtHome, Complete, HasSession, Responder,
              SharedSecret, Plaintext, NothingLost
<1>3. \A a \in Party : \A x \in Party :
         /\ Has(a, x)' <=> Has(a, x)
         /\ End(a, x)' = End(a, x)
         /\ WillTake(a, x)' <=> WillTake(a, x)
  BY <1>1 DEF Has, End, WillTake, Blank, SharedSecret, Responder, HasSession, NothingLost
<1>4. ASSUME NEW a \in Party, NEW w, Conversation(a, w)
      PROVE  Conversation(a, w)'
  <2>1. /\ w.secret = SharedSecret(a)' /\ w.data = Data(a)
    BY <1>1, <1>4 DEF Conversation, SharedSecret
  <2>2. Ends(w, End(a, a)', End(a, Peer(a))', generated')
    BY <1>1, <1>3, <1>4, PartyFacts DEF Conversation
  <2>3. \A x \in Party : Towards(a, w, x)'
    <3>. SUFFICES ASSUME NEW x \in Party PROVE Towards(a, w, x)'
      OBVIOUS
    <3>1. Towards(a, w, x) /\ Peer(x) \in Party
      BY <1>4, PartyFacts DEF Conversation
    <3>2. Direction(w, End(a, x)', End(a, Peer(x))', Has(a, Peer(x))', channel'[x],
                    posted'[Peer(x)], handed'[x], WillTake(a, x)')
      BY <1>1, <1>3, <3>1 DEF Towards, Direction
    <3>. QED BY <3>2 DEF Towards
  <2>. QED BY <2>1, <2>2, <2>3 DEF Conversation, Data
<1>5. \A a \in Party : Initiator(a)' <=> Initiator(a)
  BY <1>1 DEF Initiator, HasSession
<1>. QED BY <1>2, <1>4, <1>5 DEF LockstepInv, Conversations

(* The way stays what it is, and who has not reloaded before has not now,  *)
(* and has nothing to publish.                                             *)
LEMMA StepKeepsWay ==
    ASSUME SessionInv, [Next]_vars
    PROVE  /\ way' = way
           /\ NoReload' => NoReload /\ ~(\E p \in Party : Reload(p) \/ PublishKeys(p))
<1>1. /\ generation \in [Party -> Nat] /\ published \in [Party -> Nat]
      /\ \A p \in Party : published[p] <= generation[p]
  BY DEF SessionInv, Types
<1>2. way' = way
  BY DEF Next, vars, EncryptFirst, EncryptNext, Receive, ReceiveCopy, ReceiveDamaged, Lose, Reload,
         PublishKeys
<1>3. generation' = generation \/ \E p \in Party : Reload(p)
  BY DEF Next, vars, userVars, EncryptFirst, EncryptNext, Receive, ReceiveCopy, ReceiveDamaged, Lose,
         PublishKeys
<1>4. ASSUME NEW p \in Party, Reload(p)
      PROVE  ~NoReload'
  <2>1. generation'[p] = generation[p] + 1 /\ generation[p] \in Nat
    BY <1>1, <1>4 DEF Reload
  <2>2. generation'[p] # 0
    BY <2>1
  <2>. QED BY <2>2 DEF NoReload
<1>5. ASSUME NoReload, NEW p \in Party
      PROVE  ~PublishKeys(p)
  BY <1>1, <1>5 DEF PublishKeys, Ready, NoReload
<1>. QED BY <1>2, <1>3, <1>4, <1>5 DEF NoReload

(* Every step preserves it.                                                *)
LEMMA NextKeepsAllInStep ==
    ASSUME SessionInv, KeepsOrder /\ NoReload => LockstepInv, [Next]_vars
    PROVE  (KeepsOrder /\ NoReload => LockstepInv)'
<1>. SUFFICES ASSUME KeepsOrder', NoReload' PROVE LockstepInv'
  OBVIOUS
<1>1. KeepsOrder /\ NoReload /\ ~(\E p \in Party : Reload(p) \/ PublishKeys(p))
  BY StepKeepsWay DEF KeepsOrder
<1>2. Sound /\ PinsInv /\ LockstepInv
  BY <1>1 DEF SessionInv, Sound
<1>3. CASE UNCHANGED vars
  BY <1>2, <1>3, StutterKeepsLockstep
<1>4. ASSUME NEW p \in Party, EncryptFirst(p) PROVE LockstepInv'
  BY <1>2, <1>4, FirstKeepsLockstep
<1>5. ASSUME NEW p \in Party, EncryptNext(p) PROVE LockstepInv'
  BY <1>2, <1>5, NextKeepsLockstep
<1>6. ASSUME NEW p \in Party, Receive(p) \/ ReceiveCopy(p) \/ ReceiveDamaged(p) \/ Lose(p)
      PROVE  LockstepInv'
  BY <1>1, <1>2, <1>6, DeliveryKeepsLockstep
<1>. QED BY <1>1, <1>3, <1>4, <1>5, <1>6 DEF Next
-----------------------------------------------------------------------------
(* Where the messages are.                                                 *)

(* Every message of p was handed over, refused for the tie-break, or is on *)
(* its way.                                                                *)
Accounts(p) ==
    posted[p] = Len(handed[Peer(p)]) + Cardinality(outvoted[p]) + Len(channel[Peer(p)])

(* The numbers that are added up.                                          *)
LEMMA AccountsTyped ==
    ASSUME Types, NEW p \in Party
    PROVE  /\ posted[p] \in Nat /\ handed[p] \in Seq(Nat) /\ Len(handed[p]) \in Nat
           /\ channel[p] \in Seq(Envelopes) /\ Len(channel[p]) \in Nat
           /\ IsFiniteSet(outvoted[p]) /\ Cardinality(outvoted[p]) \in Nat
<1>1. /\ way.posts \in Nat /\ outvoted[p] \in SUBSET (1 .. way.posts)
      /\ posted[p] \in 0 .. way.posts /\ channel[p] \in Seq(Envelopes)
  BY SessionAssumption DEF Types
<1>2. IsFiniteSet(outvoted[p])
  <2>1. PICK n \in Nat : n = way.posts
    BY <1>1
  <2>2. 1 \in Int /\ n \in Int
    OBVIOUS
  <2>3. IsFiniteSet(1 .. n)
    BY <2>2, FS_Interval
  <2>. QED BY <1>1, <2>1, <2>3, FS_Subset
<1>3. handed[p] \in Seq(Nat)
  BY LastOfTyped
<1>. QED BY <1>1, <1>2, <1>3, LenProperties, FS_CardinalityType

(* A message that is posted is on its way.                                 *)
LEMMA SendAccounts ==
    ASSUME Types, NEW p \in Party, EncryptFirst(p) \/ EncryptNext(p),
           \A x \in Party : Accounts(x)
    PROVE  \A x \in Party : Accounts(x)'
<1> DEFINE q == Peer(p)
<1>1. q \in Party /\ q # p /\ Peer(q) = p /\ (\A x \in Party : x = p \/ x = q)
  BY PartyFacts
<1>2. (\E record : Transmit(p, record)) /\ UNCHANGED <<handed, outvoted>>
  BY DEF EncryptFirst, EncryptNext
<1>3. PICK record : Transmit(p, record)
  BY <1>2
<1>4. PICK f : /\ channel' = [channel EXCEPT ![q] = Append(@, f)]
               /\ posted' = [posted EXCEPT ![p] = @ + 1]
  BY <1>3 DEF Transmit
<1>5. /\ channel \in [Party -> Seq(Envelopes)] /\ posted \in [Party -> 0 .. way.posts]
  BY DEF Types
<1>. HIDE DEF q
<1>6. /\ channel'[p] = channel[p] /\ posted'[q] = posted[q] /\ posted'[p] = posted[p] + 1
      /\ channel'[q] = Append(channel[q], f)
  BY <1>1, <1>4, <1>5
<1>7. Len(Append(channel[q], f)) = Len(channel[q]) + 1
  <2> DEFINE S == Envelopes \cup {f}
  <2>1. channel[q] \in Seq(S) /\ f \in S
    BY <1>1, <1>5
  <2>. HIDE DEF S
  <2>. QED BY <2>1, AppendProperties
<1>8. Accounts(q)'
  BY <1>1, <1>2, <1>6 DEF Accounts
<1>9. Accounts(p)'
  <2>1. /\ posted[p] \in Nat /\ Len(handed[q]) \in Nat /\ Len(channel[q]) \in Nat
        /\ Cardinality(outvoted[p]) \in Nat
    BY <1>1, AccountsTyped
  <2>2. posted[p] = Len(handed[q]) + Cardinality(outvoted[p]) + Len(channel[q])
    BY DEF Accounts, q
  <2>3. posted[p] + 1 = Len(handed[q]) + Cardinality(outvoted[p]) + (Len(channel[q]) + 1)
    <3> DEFINE a == posted[p]
               b == Len(handed[q])
               c == Len(channel[q])
               d == Cardinality(outvoted[p])
    <3>1. a \in Nat /\ b \in Nat /\ c \in Nat /\ d \in Nat /\ a = b + d + c
      BY <2>1, <2>2
    <3>. HIDE DEF a, b, c, d
    <3>2. a + 1 = b + d + (c + 1)
      BY <3>1
    <3>. QED BY <3>2 DEF a, b, c, d
  <2>. QED BY <1>2, <1>6, <1>7, <2>3 DEF Accounts, q
<1>. QED BY <1>1, <1>8, <1>9

(* A message that arrives is handed over, or refused for the tie-break.    *)
LEMMA DeliveryAccounts ==
    ASSUME Sound, PinsInv, LockstepInv, KeepsOrder, NothingLost, NEW p \in Party,
           Receive(p) \/ ReceiveCopy(p) \/ ReceiveDamaged(p) \/ Lose(p),
           \A x \in Party : Accounts(x)
    PROVE  \A x \in Party : Accounts(x)'
<1> DEFINE q == Peer(p)
           n == Len(channel[p])
           P == Plaintext(channel[p][1])
<1>1. q \in Party /\ q # p /\ Peer(q) = p /\ (\A x \in Party : x = p \/ x = q)
  BY PartyFacts
<1>2. Types /\ SessionsInv /\ EnvelopesInv /\ QueueInv(p)
  BY DEF Sound, LockstepInv
<1>3. PICK e : Comes(p, e) /\ DeliveryStep(p, e)
  BY <1>2, DeliverySteps
<1>4. Leaves(p) /\ channel[p] # <<>> /\ e = channel[p][1]
  BY <1>3 DEF Comes, Leaves
<1>5. /\ channel \in [Party -> Seq(Envelopes)] /\ handed \in [Party -> Seq(1 .. way.posts)]
      /\ outvoted \in [Party -> SUBSET (1 .. way.posts)]
      /\ channel' = [channel EXCEPT ![p] = RemoveAt(@, 1)] /\ posted' = posted
  BY <1>2, <1>4 DEF Types, Leaves
<1>6. /\ 1 \in 1 .. n /\ n \in Nat /\ Len(RemoveAt(channel[p], 1)) = n - 1
      /\ channel'[p] = RemoveAt(channel[p], 1) /\ channel'[q] = channel[q]
  BY <1>1, <1>4, <1>5, QueueMoves
<1>7. /\ posted[q] \in Nat /\ Len(handed[p]) \in Nat /\ handed[p] \in Seq(Nat)
      /\ IsFiniteSet(outvoted[q]) /\ Cardinality(outvoted[q]) \in Nat
      /\ P \in Nat
  <2>1. P \in 1 .. posted[q]
    BY <1>2, <1>6 DEF Types
  <2>. QED BY <1>1, <1>2, <2>1, AccountsTyped
<1>8. posted[q] = Len(handed[p]) + Cardinality(outvoted[q]) + n
  BY <1>1 DEF Accounts
<1>9. P \notin outvoted[q]
  <2>1. P + n = posted[q] + 1 /\ \A k \in outvoted[q] : k <= posted[q] - n
    BY <1>6, <1>2 DEF QueueInv, Complete
  <2>. HIDE DEF P, n, q
  <2>2. ~(P <= posted[q] - n)
    BY <1>6, <1>7, <2>1
  <2>. QED BY <2>1, <2>2
<1>. HIDE DEF P, n, q
<1>10. CASE handed' = handed /\ outvoted' = [outvoted EXCEPT ![q] = @ \cup {P}]
  <2>1. outvoted'[q] = outvoted[q] \cup {P} /\ outvoted'[p] = outvoted[p]
    BY <1>1, <1>5, <1>10
  <2>2. Cardinality(outvoted[q] \cup {P}) = Cardinality(outvoted[q]) + 1
    BY <1>7, <1>9, FS_AddElement
  <2> DEFINE h == Len(handed[p])
             c == Cardinality(outvoted[q])
  <2>3. posted[q] = h + (c + 1) + (n - 1)
    <3>. HIDE DEF h, c
    <3>1. posted[q] = h + c + n /\ h \in Nat /\ c \in Nat /\ n \in Nat
      BY <1>6, <1>7, <1>8 DEF h, c
    <3>. QED BY <3>1
  <2>4. Accounts(q)'
    BY <1>1, <1>5, <1>6, <1>10, <2>1, <2>2, <2>3 DEF Accounts
  <2>5. Accounts(p)'
    BY <1>1, <1>5, <1>6, <1>10, <2>1 DEF Accounts, q
  <2>. QED BY <1>1, <2>4, <2>5
<1>11. CASE outvoted' = outvoted /\ handed' = [handed EXCEPT ![p] = Append(@, P)]
  <2>1. handed'[p] = Append(handed[p], P) /\ handed'[q] = handed[q]
    BY <1>1, <1>5, <1>11
  <2>2. Len(Append(handed[p], P)) = Len(handed[p]) + 1
    BY <1>7, AppendProperties
  <2>3. posted[q] = (Len(handed[p]) + 1) + Cardinality(outvoted[q]) + (n - 1)
    BY <1>6, <1>7, <1>8
  <2>4. Accounts(q)'
    BY <1>1, <1>5, <1>6, <1>11, <2>1, <2>2, <2>3 DEF Accounts
  <2>5. Accounts(p)'
    BY <1>1, <1>5, <1>6, <1>11, <2>1 DEF Accounts, q
  <2>. QED BY <1>1, <2>4, <2>5
<1>12. CASE Refuses(p, e)
  <2>1. Outvoted(p, e)
    BY <1>4, <1>12, HeadIsTaken DEF Refuses
  <2>2. handed' = handed /\ outvoted' = [outvoted EXCEPT ![q] = @ \cup {P}]
    BY <1>4, <1>12, <2>1 DEF Refuses, Dropped, P, q
  <2>. QED BY <1>10, <2>2
<1>13. CASE OpensHere(p, e)
  BY <1>11, <1>13 DEF OpensHere, Taken, P
<1>14. CASE \E o \in Origins : TakesOver(p, e, o)
  BY <1>11, <1>14 DEF TakesOver, Taken, P
<1>. QED BY <1>3, <1>12, <1>13, <1>14 DEF DeliveryStep
-----------------------------------------------------------------------------
(* Theorems.                                                               *)

(* A Signal message that is next opens, unless a way that loses messages   *)
(* put more than MAX_SKIP of them in front of it.                          *)
LEMMA LockstepOpensSignals ==
    ASSUME SessionInv, KeepsOrder /\ NoReload => LockstepInv
    PROVE  SignalOpens
<1>. SUFFICES ASSUME KeepsOrder, NoReload, NEW p \in Party, channel[p] # <<>>,
                     channel[p][1].type = "Signal",
                     NothingLost \/ ~(Cardinality(Missed(p, channel[p][1])) > MAX_SKIP)
              PROVE  OpensSignal(p, channel[p][1])
  <2>1. \A p \in Party : Head(channel[p]) = channel[p][1]
    OBVIOUS
  <2>. QED BY <2>1 DEF SignalOpens
<1> DEFINE P == Plaintext(channel[p][1])
           l == LastOf(handed[p])
           lost == Missed(p, channel[p][1])
<1>1. Sound /\ LockstepInv /\ Types /\ QueueInv(p)
  BY DEF SessionInv, Sound, LockstepInv
<1>2. 1 \in 1 .. Len(channel[p])
  BY <1>1, HeadOrigin
<1>3. HasSession(p) /\ channel[p][1].message.seal.key.root[1] = SharedSecret(p)
  BY <1>1, <1>2 DEF QueueInv, AtHome
<1>4. P \in Nat /\ l \in Nat /\ MAX_SKIP \in Nat /\ handed[p] \in Seq(Nat)
  <2>1. P \in 1 .. posted[Peer(p)] /\ posted[Peer(p)] \in Nat
    BY <1>1, <1>2, LastOfTyped DEF Types
  <2>. QED BY <1>1, <2>1, LastOfTyped, MaxSkipAssumption
<1>5. \A i \in 1 .. Len(handed[p]) : handed[p][i] <= l
  BY <1>1 DEF QueueInv, Ordered
<1>6. lost = (1 .. P - 1) \ ToSet(handed[p])
  BY DEF Missed, Plaintext
<1>. HIDE DEF P, l, lost
<1>7. ~NothingLost => P <= l + 1 + MAX_SKIP
  <2>. SUFFICES ASSUME ~NothingLost, P > l + 1 + MAX_SKIP PROVE FALSE
    BY <1>4
  <2>1. ~(Cardinality(lost) > MAX_SKIP)
    BY DEF lost
  <2>2. IsFiniteSet(lost)
    <3>1. IsFiniteSet(1 .. P - 1)
      BY <1>4, FS_Interval
    <3>2. lost \in SUBSET (1 .. P - 1)
      BY <1>6
    <3>. QED BY <3>1, <3>2, FS_Subset
  <2>3. (l + 1 .. P - 1) \in SUBSET lost
    <3>. SUFFICES ASSUME NEW n \in l + 1 .. P - 1 PROVE n \in lost
      OBVIOUS
    <3>1. n \in 1 .. P - 1 /\ ~(n <= l)
      BY <1>4
    <3>2. n \notin ToSet(handed[p])
      BY <1>5, <3>1 DEF ToSet
    <3>. QED BY <1>6, <3>1, <3>2
  <2>4. Cardinality(l + 1 .. P - 1) <= Cardinality(lost)
    BY <2>2, <2>3, FS_Subset
  <2>5. Cardinality(l + 1 .. P - 1) = (P - 1) - (l + 1) + 1
    <3>1. l + 1 \in Int /\ P - 1 \in Int /\ ~(l + 1 > P - 1)
      BY <1>4
    <3>. QED BY <3>1, FS_Interval
  <2>6. Cardinality(lost) \in Nat
    BY <2>2, FS_CardinalityType
  <2>. QED BY <1>4, <2>1, <2>4, <2>5, <2>6
<1>8. NothingLost \/ Plaintext(channel[p][1]) <= LastOf(handed[p]) + 1 + MAX_SKIP
  BY <1>7 DEF P, l
<1>9. Decrypted(p, session[p], channel[p][1].message).ok
  BY <1>1, <1>3, <1>8, HeadOpensHere
<1>. QED BY <1>3, <1>9 DEF OpensSignal, HasSession

(* The invariant of all ways.                                              *)
InStepInv == SessionInv /\ (KeepsOrder /\ NoReload => LockstepInv)

(* On a way that keeps the order, until someone reloads, the two ratchets  *)
(* of every session are at the ends of one script, and every message on    *)
(* its way is one of the script (session-cipher.ts:40-143 over             *)
(* ratchet.ts:92-201): crossing messages, lost messages and a handshake    *)
(* that replaces another do not set the two ratchets apart.                *)
THEOREM SessionsInStep == Spec => []InStepInv
<1>1. Init => InStepInv
  BY InitSatisfiesInv, InitInLockstep DEF InStepInv
<1>2. InStepInv /\ [Next]_vars => InStepInv'
  BY NextKeepsInv, NextKeepsAllInStep DEF InStepInv
<1>. QED BY <1>1, <1>2, PTL DEF Spec

(* Any Signal envelope that is next in its queue can be opened by its      *)
(* addressee (session-cipher.ts:129-137), unless more than MAX_SKIP        *)
(* messages before it were lost (ratchet.ts:170-172): two ratchets that    *)
(* take turns keep in step across crossing messages, lost messages and     *)
(* sessions that replace one another.                                      *)
THEOREM SignalMessagesOpen == Spec => []SignalOpens
<1>1. InStepInv => SignalOpens
  BY LockstepOpensSignals DEF InStepInv
<1>. QED BY <1>1, SessionsInStep, PTL

(* Every step keeps the account.                                           *)
LEMMA NextKeepsAccounts ==
    ASSUME InStepInv, OnlyTieBreakRefuses, [Next]_vars
    PROVE  OnlyTieBreakRefuses'
<1>. SUFFICES ASSUME NothingLost', NoReload' PROVE \A x \in Party : Accounts(x)'
  BY DEF OnlyTieBreakRefuses, Accounts
<1>1. KeepsOrder /\ NothingLost /\ NoReload /\ ~(\E p \in Party : Reload(p) \/ PublishKeys(p))
  BY StepKeepsWay DEF InStepInv, KeepsOrder, NothingLost
<1>2. Sound /\ PinsInv /\ LockstepInv /\ Types
  BY <1>1 DEF InStepInv, SessionInv, Sound
<1>3. \A x \in Party : Accounts(x)
  BY <1>1 DEF OnlyTieBreakRefuses, Accounts
<1>4. CASE UNCHANGED vars
  BY <1>3, <1>4 DEF Accounts, vars, historyVars
<1>5. ASSUME NEW p \in Party, EncryptFirst(p) \/ EncryptNext(p)
      PROVE  \A x \in Party : Accounts(x)'
  BY <1>2, <1>3, <1>5, SendAccounts
<1>6. ASSUME NEW p \in Party, Receive(p) \/ ReceiveCopy(p) \/ ReceiveDamaged(p) \/ Lose(p)
      PROVE  \A x \in Party : Accounts(x)'
  BY <1>1, <1>2, <1>3, <1>6, DeliveryAccounts
<1>. QED BY <1>1, <1>4, <1>5, <1>6 DEF Next

(* On a way that loses nothing and keeps the order, every message that was *)
(* encrypted is handed over, still on its way, or was refused for the      *)
(* tie-break (session-cipher.ts:105-119): no other refusal happens.        *)
THEOREM TieBreakAloneRefuses == Spec => []OnlyTieBreakRefuses
<1>1. Init => OnlyTieBreakRefuses
  <2>. SUFFICES ASSUME Init, NEW p \in Party
                PROVE  posted[p] = Len(handed[Peer(p)]) + Cardinality(outvoted[p])
                                     + Len(channel[Peer(p)])
    BY DEF OnlyTieBreakRefuses
  <2>1. /\ posted[p] = 0 /\ handed[Peer(p)] = <<>> /\ outvoted[p] = {} /\ channel[Peer(p)] = <<>>
    BY PartyFacts DEF Init
  <2>2. Cardinality({}) = 0
    BY FS_EmptySet
  <2>3. Len(<<>>) = 0
    OBVIOUS
  <2>. QED BY <2>1, <2>2, <2>3
<1>2. InStepInv /\ OnlyTieBreakRefuses /\ [Next]_vars => OnlyTieBreakRefuses'
  BY NextKeepsAccounts
<1>. QED BY <1>1, <1>2, SessionsInStep, PTL DEF Spec
=============================================================================
