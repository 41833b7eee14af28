----------------------------- MODULE SignalSession -----------------------------
(***************************************************************************)
(* Session establishment between two users: SignalProtocolManager's        *)
(* encryptMessage and decryptMessage (signal/index.ts), the session builder*)
(* and cipher (signal/session), X3DH (signal/x3dh), the store they keep    *)
(* their state in and the key server they fetch bundles from, over the     *)
(* WebSocket relay.  The ratchets are those of DoubleRatchet.              *)
(*                                                                         *)
(* The manager runs the operations of one peer one after the other         *)
(* (index.ts:111-117), so each is one action.  All a user keeps is in the  *)
(* in-memory store: a page reload starts from a new identity.              *)
(***************************************************************************)
EXTENDS DoubleRatchet, Integers, FiniteSets

CONSTANTS BaseKeys,        \* ephemeral public keys, numbered in byte order
          PreKeyIds,       \* ids of the one-time prekeys each user publishes
          Ways             \* ways from one user to the other, each with
                           \*   faults: what it may do to envelopes,
                           \*   posts: bound, messages each user encrypts,
                           \*   reloads: bound, page reloads of both users together

ASSUME SessionAssumption ==
    /\ BaseKeys \subseteq Nat \ {0}
    /\ PreKeyIds \subseteq Nat \ {0}
    /\ Ways \subseteq [faults : SUBSET {"lose", "reorder", "duplicate", "damage"},
                       posts : Nat, reloads : Nat]

VARIABLES way,          \* the way the users have, one of Ways, throughout
          session,      \* session[p]: p's record for its peer, or NoSession
          pinned,       \* pinned[p]: the identity p trusts for its peer, or NotPinned
          oneTime,      \* oneTime[p]: ids of the one-time prekeys p holds
          generation,   \* generation[p]: how often p has started afresh
          published,    \* published[p]: the start whose keys the key server has of p
          pool,         \* pool[p]: one-time prekey ids the key server has of p
          usedBaseKeys, \* ephemeral keys generated so far
          generated,    \* generated[p]: ratchet key pairs p has generated
          channel,      \* channel[p]: envelopes on their way to p
          posted,       \* posted[p]: how many messages p has encrypted
          handed,       \* handed[p]: numbers of the messages decrypted by p
          outvoted      \* outvoted[p]: numbers of p's messages the peer refused as
                        \* its own handshake wins the tie-break (history)

userVars == <<session, pinned, oneTime, generation, generated>>
serverVars == <<published, pool, usedBaseKeys>>
historyVars == <<posted, handed, outvoted>>
vars == <<way, userVars, serverVars, channel, historyVars>>

Party == {"alice", "bob"}
Peer(p) == IF p = "alice" THEN "bob" ELSE "alice"

None == 0                       \* an absent preKeyId, pendingPreKey or theirBaseKey
NotPinned == <<>>
NoSession == [none |-> TRUE]

-----------------------------------------------------------------------------
(* Keys.  A user that reloads has new keys under the same ids.             *)

IdentityKey(p, g) == <<"identity", p, g>>
SignedPreKey(p, g) == <<"signed", p, g>>
OneTimePreKey(p, g, id) == <<"oneTime", p, g, id>>
EphemeralKey(baseKey) == <<"ephemeral", baseKey>>
RatchetKey(p, n) == <<"ratchet", p, n>>

OurIdentity(p) == IdentityKey(p, generation[p])

(* DH4 is left out when the bundle had no one-time prekey.                 *)
X3dhInitiate(ours, ephemeral, bundle) ==
    <<Dh(ours, bundle.signedPreKey),
      Dh(ephemeral, bundle.identityKey),
      Dh(ephemeral, bundle.signedPreKey)>>
    \o IF bundle.preKeyId = None THEN <<>> ELSE <<Dh(ephemeral, bundle.oneTimePreKey)>>

X3dhRespond(p, preKeyId, theirIdentity, theirEphemeral) ==
    LET g == generation[p]
    IN  <<Dh(SignedPreKey(p, g), theirIdentity),
          Dh(IdentityKey(p, g), theirEphemeral),
          Dh(SignedPreKey(p, g), theirEphemeral)>>
        \o IF preKeyId = None
             THEN <<>>
             ELSE <<Dh(OneTimePreKey(p, g, preKeyId), theirEphemeral)>>

(* GET /keys/:userId: one one-time prekey, or none when the pool is empty. *)
(* The keys are those last published, whether or not p still has them.     *)
Bundles(p) ==
    {[identityKey |-> IdentityKey(p, published[p]),
      signedPreKey |-> SignedPreKey(p, published[p]),
      preKeyId |-> id,
      oneTimePreKey |-> OneTimePreKey(p, published[p], id)] :
        id \in IF pool[p] = {} THEN {None} ELSE pool[p]}

(* Plausible slip: a changed identity is accepted.                         *)
TrustsAnyone(p, identityKey) == TRUE

(* isTrustedIdentity: trust on first use.                                  *)
Trusts(p, identityKey) == pinned[p] = NotPinned \/ pinned[p] = identityKey

Init ==
    /\ way \in Ways
    /\ session = [p \in Party |-> NoSession]
    /\ pinned = [p \in Party |-> NotPinned]
    /\ oneTime = [p \in Party |-> PreKeyIds]
    /\ generation = [p \in Party |-> 0]
    /\ published = [p \in Party |-> 0]
    /\ pool = [p \in Party |-> PreKeyIds]
    /\ usedBaseKeys = {}
    /\ generated = [p \in Party |-> 0]
    /\ channel = [p \in Party |-> <<>>]
    /\ posted = [p \in Party |-> 0]
    /\ handed = [p \in Party |-> <<>>]
    /\ outvoted = [p \in Party |-> {}]

(* The chat window, and with it the socket, is there only once initialize  *)
(* has published p's keys.                                                 *)
Ready(p) == published[p] = generation[p]

-----------------------------------------------------------------------------
(* Encrypting.                                                             *)

(* startSession: the record of an initiator, carrying its handshake.       *)
StartedSession(p, bundle, baseKey) ==
    [ratchet |-> InitAlice(X3dhInitiate(OurIdentity(p), EphemeralKey(baseKey), bundle),
                           RatchetKey(p, generated[p]),
                           bundle.signedPreKey,
                           <<OurIdentity(p), bundle.identityKey>>),
     theirIdentityKey |-> bundle.identityKey,
     pendingPreKey |-> [preKeyId |-> bundle.preKeyId, baseKey |-> baseKey],
     theirBaseKey |-> None]

NothingPending == [preKeyId |-> None, baseKey |-> None]
IsPending(record) == record.pendingPreKey # NothingPending

Envelope(p, record) ==
    LET message == EncryptedMessage(record.ratchet, posted[p] + 1)
    IN  IF IsPending(record)
          THEN [type |-> "PreKey",
                preKeyId |-> record.pendingPreKey.preKeyId,
                baseKey |-> record.pendingPreKey.baseKey,
                identityKey |-> OurIdentity(p),
                message |-> message]
          ELSE [type |-> "Signal", message |-> message]

(* SessionCipher.encrypt on a record, and the relay taking the envelope.   *)
Transmit(p, record) ==
    /\ CanEncrypt(record.ratchet)
    /\ session' = [session EXCEPT ![p] = [record EXCEPT !.ratchet = AfterEncrypt(@)]]
    /\ channel' = [channel EXCEPT ![Peer(p)] = Append(@, Envelope(p, record))]
    /\ posted' = [posted EXCEPT ![p] = @ + 1]

(* A user without a session fetches a bundle and starts one.  Users pin an *)
(* identity only together with a session, so the trust check of            *)
(* startSession cannot fail for a user that has none.                      *)
EncryptFirst(p) ==
    /\ Ready(p)
    /\ posted[p] < way.posts
    /\ session[p] = NoSession
    /\ \E bundle \in Bundles(Peer(p)), baseKey \in BaseKeys \ usedBaseKeys :
        /\ Trusts(p, bundle.identityKey)
        /\ Transmit(p, StartedSession(p, bundle, baseKey))
        /\ pinned' = [pinned EXCEPT ![p] = bundle.identityKey]
        /\ pool' = [pool EXCEPT ![Peer(p)] = @ \ {bundle.preKeyId}]
        /\ usedBaseKeys' = usedBaseKeys \cup {baseKey}
        /\ generated' = [generated EXCEPT ![p] = @ + 1]
    /\ UNCHANGED <<way, oneTime, generation, published, handed, outvoted>>

EncryptNext(p) ==
    /\ Ready(p)
    /\ posted[p] < way.posts
    /\ session[p] # NoSession
    /\ Transmit(p, session[p])
    /\ UNCHANGED <<way, pinned, oneTime, generation, generated, serverVars,
                   handed, outvoted>>

-----------------------------------------------------------------------------
(* Decrypting.                                                             *)

Decrypted(p, record, message) ==
    RatchetDecrypt(record.ratchet, message, RatchetKey(p, generated[p]))

(* The ratchet generated a key pair if its sending key is another one.     *)
CountGenerated(p, before, after) ==
    generated' = IF before.sendingRatchetKey = after.sendingRatchetKey
                   THEN generated
                   ELSE [generated EXCEPT ![p] = @ + 1]

HandOver(p, message) ==
    handed' = [handed EXCEPT ![p] = Append(@, message.seal.plaintext)]

(* decryptSignalMessage.                                                   *)
OpensSignal(p, e) ==
    /\ session[p] # NoSession
    /\ Decrypted(p, session[p], e.message).ok

AcceptSignal(p, e) ==
    /\ e.type = "Signal"
    /\ OpensSignal(p, e)
    /\ LET state == Decrypted(p, session[p], e.message).state
       IN  /\ session' = [session EXCEPT ![p].ratchet = state,
                                         ![p].pendingPreKey = NothingPending]
           /\ CountGenerated(p, session[p].ratchet, state)
    /\ HandOver(p, e.message)
    /\ UNCHANGED <<pinned, oneTime, outvoted>>

RefuseSignal(p, e) ==
    /\ e.type = "Signal"
    /\ ~OpensSignal(p, e)
    /\ UNCHANGED <<session, pinned, oneTime, generated, handed, outvoted>>

(* Plausible slip: a repeated handshake is not recognised.                 *)
IsKnownHandshakeNever(p, e) == FALSE

(* decryptPreKeyMessage, lines 89-103: the handshake of our session again. *)
IsKnownHandshake(p, e) ==
    /\ session[p] # NoSession
    /\ session[p].theirBaseKey = e.baseKey
    /\ session[p].theirIdentityKey = e.identityKey

RepeatedHandshake(p, e) ==
    /\ e.type = "PreKey"
    /\ IsKnownHandshake(p, e)
    /\ LET result == Decrypted(p, session[p], e.message)
       IN  IF result.ok
             THEN /\ session' = [session EXCEPT ![p].ratchet = result.state]
                  /\ CountGenerated(p, session[p].ratchet, result.state)
                  /\ HandOver(p, e.message)
             ELSE UNCHANGED <<session, generated, handed>>
    /\ UNCHANGED <<pinned, oneTime, outvoted>>

(* Plausible slip: whoever has a handshake of its own refuses the other's. *)
OurHandshakeAlwaysWins(p, e) == session[p] # NoSession /\ IsPending(session[p])

(* Plausible slip: every handshake replaces the session.                   *)
OurHandshakeNeverWins(p, e) == FALSE

(* Lines 105-119: the lower base key wins.                                 *)
OurHandshakeWins(p, e) ==
    /\ session[p] # NoSession
    /\ IsPending(session[p])
    /\ e.baseKey > session[p].pendingPreKey.baseKey

LoseTieBreak(p, e) ==
    /\ e.type = "PreKey"
    /\ ~IsKnownHandshake(p, e)
    /\ OurHandshakeWins(p, e)
    /\ outvoted' = [outvoted EXCEPT ![Peer(p)] = @ \cup {e.message.seal.plaintext}]
    /\ UNCHANGED <<session, pinned, oneTime, generated, handed>>

(* buildResponderSession.                                                  *)
ResponderSession(p, e) ==
    [ratchet |-> InitBob(X3dhRespond(p, e.preKeyId, e.identityKey, EphemeralKey(e.baseKey)),
                         SignedPreKey(p, generation[p]),
                         <<e.identityKey, OurIdentity(p)>>),
     theirIdentityKey |-> e.identityKey,
     pendingPreKey |-> NothingPending,
     theirBaseKey |-> e.baseKey]

CanBuildResponderSession(p, e) ==
    /\ Trusts(p, e.identityKey)
    /\ e.preKeyId # None => e.preKeyId \in oneTime[p]

HandshakeOpens(p, e) ==
    /\ CanBuildResponderSession(p, e)
    /\ Decrypted(p, ResponderSession(p, e), e.message).ok

(* Plausible slip: the record is stored as it was before it decrypted.     *)
CommitUndecrypted(p, e) ==
    /\ session' = [session EXCEPT ![p] = ResponderSession(p, e)]
    /\ pinned' = [pinned EXCEPT ![p] = e.identityKey]
    /\ oneTime' = [oneTime EXCEPT ![p] = @ \ {e.preKeyId}]
    /\ HandOver(p, e.message)
    /\ UNCHANGED generated

(* commitResponderSession, after the first message has been decrypted.     *)
CommitResponderSession(p, e) ==
    LET record == ResponderSession(p, e)
        state  == Decrypted(p, record, e.message).state
    IN  /\ session' = [session EXCEPT ![p] = [record EXCEPT !.ratchet = state]]
        /\ pinned' = [pinned EXCEPT ![p] = e.identityKey]
        /\ oneTime' = [oneTime EXCEPT ![p] = @ \ {e.preKeyId}]
        /\ CountGenerated(p, record.ratchet, state)
        /\ HandOver(p, e.message)

AcceptHandshake(p, e) ==
    /\ e.type = "PreKey"
    /\ ~IsKnownHandshake(p, e)
    /\ ~OurHandshakeWins(p, e)
    /\ HandshakeOpens(p, e)
    /\ CommitResponderSession(p, e)
    /\ UNCHANGED outvoted

(* Plausible slip: the session is committed before its message is opened.  *)
RefuseHandshakeCommitted(p, e) ==
    /\ e.type = "PreKey"
    /\ ~IsKnownHandshake(p, e)
    /\ ~OurHandshakeWins(p, e)
    /\ ~HandshakeOpens(p, e)
    /\ IF CanBuildResponderSession(p, e)
         THEN /\ session' = [session EXCEPT ![p] = ResponderSession(p, e)]
              /\ pinned' = [pinned EXCEPT ![p] = e.identityKey]
              /\ oneTime' = [oneTime EXCEPT ![p] = @ \ {e.preKeyId}]
         ELSE UNCHANGED <<session, pinned, oneTime>>
    /\ UNCHANGED <<generated, handed, outvoted>>

RefuseHandshake(p, e) ==
    /\ e.type = "PreKey"
    /\ ~IsKnownHandshake(p, e)
    /\ ~OurHandshakeWins(p, e)
    /\ ~HandshakeOpens(p, e)
    /\ UNCHANGED <<session, pinned, oneTime, generated, handed, outvoted>>

DecryptMessage(p, e) ==
    \/ AcceptSignal(p, e)
    \/ RefuseSignal(p, e)
    \/ RepeatedHandshake(p, e)
    \/ LoseTieBreak(p, e)
    \/ AcceptHandshake(p, e)
    \/ RefuseHandshake(p, e)

-----------------------------------------------------------------------------
(* The way between the users.  The relay and the queues keep the order of  *)
(* the envelopes to one user, and drop those to a user who is not          *)
(* connected; the library itself is meant to stand more than that.         *)

Positions(p) == IF "reorder" \in way.faults THEN 1 .. Len(channel[p])
                                        ELSE 1 .. Len(channel[p]) \cap {1}

(* An envelope damaged on the way: its ciphertext, or its base key.        *)
DamagedVersions(e) ==
    {[e EXCEPT !.message.seal.associatedData = <<>>]}
      \cup IF e.type = "PreKey"
             THEN {[e EXCEPT !.baseKey = b] : b \in BaseKeys \ {e.baseKey}}
             ELSE {}

Take(p, i) == channel' = [channel EXCEPT ![p] = RemoveAt(@, i)]

Receive(p) ==
    /\ Ready(p)
    /\ \E i \in Positions(p) : DecryptMessage(p, channel[p][i]) /\ Take(p, i)
    /\ UNCHANGED <<way, serverVars, generation, posted>>

ReceiveCopy(p) ==
    /\ Ready(p)
    /\ "duplicate" \in way.faults
    /\ \E i \in Positions(p) : DecryptMessage(p, channel[p][i])
    /\ UNCHANGED <<way, serverVars, generation, posted, channel>>

ReceiveDamaged(p) ==
    /\ Ready(p)
    /\ "damage" \in way.faults
    /\ \E i \in Positions(p) : \E e \in DamagedVersions(channel[p][i]) :
          DecryptMessage(p, e) /\ Take(p, i)
    /\ UNCHANGED <<way, serverVars, generation, posted>>

Lose(p) ==
    /\ "lose" \in way.faults
    /\ \E i \in Positions(p) : Take(p, i)
    /\ UNCHANGED <<way, userVars, serverVars, historyVars>>

(* The page is loaded again: initialize finds an empty store and makes new *)
(* keys.  The key server goes on handing out the old ones.                 *)
Reload(p) ==
    /\ generation["alice"] + generation["bob"] < way.reloads
    /\ session' = [session EXCEPT ![p] = NoSession]
    /\ pinned' = [pinned EXCEPT ![p] = NotPinned]
    /\ oneTime' = [oneTime EXCEPT ![p] = PreKeyIds]
    /\ generation' = [generation EXCEPT ![p] = @ + 1]
    /\ UNCHANGED <<way, generated, serverVars, channel, historyVars>>

(* The POST /keys of initialize commits: the new keys replace the old.  A  *)
(* user whose POST fails stays without a chat window until the next reload.*)
PublishKeys(p) ==
    /\ ~Ready(p)
    /\ published' = [published EXCEPT ![p] = generation[p]]
    /\ pool' = [pool EXCEPT ![p] = PreKeyIds]
    /\ UNCHANGED <<way, userVars, usedBaseKeys, channel, historyVars>>

Next ==
    \E p \in Party :
        \/ EncryptFirst(p)
        \/ EncryptNext(p)
        \/ Receive(p)
        \/ ReceiveCopy(p)
        \/ ReceiveDamaged(p)
        \/ Lose(p)
        \/ Reload(p)
        \/ PublishKeys(p)

NothingLost == way.faults = {}

Spec == Init /\ [][Next]_vars

(* Both queues go on being served: what arrives is decrypted.  Assumed only*)
(* of the way that loses nothing, the only one a property needs it of.     *)
FairSpec == Spec /\ \A p \in Party : WF_vars(NothingLost /\ Receive(p))

-----------------------------------------------------------------------------
(* Properties.                                                             *)

(* Types, and what holds of a session that is stored: its peer's identity  *)
(* is the one pinned, and it can send (ratchet.ts:100-105), as a responder *)
(* is stored only once its first message has turned it.                    *)
TypeOK ==
    /\ way \in Ways
    /\ \A p \in Party :
        /\ session[p] # NoSession =>
            /\ session[p].pendingPreKey
                 \in [preKeyId : PreKeyIds \cup {None}, baseKey : BaseKeys \cup {None}]
            /\ session[p].theirBaseKey \in BaseKeys \cup {None}
            /\ session[p].theirIdentityKey = pinned[p]
            /\ CanEncrypt(session[p].ratchet)
        /\ pinned[p] \in {NotPinned} \cup {IdentityKey(Peer(p), g) : g \in 0 .. way.reloads}
        /\ \A i \in 1 .. Len(channel[p]) : channel[p][i].type \in {"PreKey", "Signal"}
    /\ oneTime \in [Party -> SUBSET PreKeyIds]
    /\ pool \in [Party -> SUBSET PreKeyIds]
    /\ \A p \in Party : published[p] \in 0 .. generation[p]
    /\ usedBaseKeys \subseteq BaseKeys
    /\ posted \in [Party -> 0 .. way.posts]
    /\ handed \in [Party -> Seq(1 .. way.posts)]
    /\ outvoted \in [Party -> SUBSET (1 .. way.posts)]
    /\ {generation, generated} \subseteq [Party -> Nat]

KeepsOrder == way.faults \cap {"reorder", "duplicate"} = {}
NoReload == \A p \in Party : generation[p] = 0

SharedSecret(p) == session[p].ratchet.rootKey[1]

Established(p) == session[p] # NoSession /\ ~IsPending(session[p])

OneSession ==
    /\ \A p \in Party : session[p] # NoSession
    /\ SharedSecret("alice") = SharedSecret("bob")

(* The pair converges on one session (signal/README.md:65-67,              *)
(* session-cipher.ts:105-111): once both users are past their handshake,   *)
(* they share one secret.                                                  *)
Converged == (\A p \in Party : Established(p)) => OneSession

(* A session is one both users hold, or its initiator still sends its      *)
(* handshake along: on a way that keeps the order, a user past its         *)
(* handshake is never alone in a session, until someone reloads.           *)
NeverAlone ==
    KeepsOrder /\ NoReload => \A p \in Party :
        Established(p) =>
            \/ OneSession
            \/ session[Peer(p)] # NoSession /\ IsPending(session[Peer(p)])

(* The messages of its peer before the one in e that p has not got.        *)
Missed(p, e) == (1 .. e.message.seal.plaintext - 1) \ ToSet(handed[p])

(* Any Signal envelope is sent on a session its addressee holds: on a way  *)
(* that keeps the order, the addressee can open it when it is next         *)
(* (session-cipher.ts:129-137), until someone reloads.  The one exception  *)
(* is a way that loses messages: more than MAX_SKIP of them in front of it *)
(* may put it out of reach (ratchet.ts:170-172).                           *)
SignalOpens ==
    KeepsOrder /\ NoReload => \A p \in Party :
        channel[p] # <<>> /\ Head(channel[p]).type = "Signal"
            => \/ OpensSignal(p, Head(channel[p]))
               \/ ~NothingLost /\ Cardinality(Missed(p, Head(channel[p]))) > MAX_SKIP

(* The server hands out no one-time prekey of a user whose publication     *)
(* stands that the user has already deleted (session-builder.ts:91-97,     *)
(* "already consumed?"): handshakes refused, repeated or made with the keys*)
(* of an earlier start take none from the store.  It does hand out lost    *)
(* ones while a reloaded page has not published.                           *)
PoolBacked == \A p \in Party : Ready(p) => pool[p] \subseteq oneTime[p]

(* On a way that loses nothing and keeps the order, the tie-break is the   *)
(* only reason a message is refused.                                       *)
OnlyTieBreakRefuses ==
    NothingLost /\ NoReload => \A p \in Party :
        posted[p] = Len(handed[Peer(p)]) + Cardinality(outvoted[p]) + Len(channel[Peer(p)])

(* session-cipher.ts:109, README.md:66-67: the loser of a concurrent       *)
(* initiation loses its first payload.                                     *)
LoserLosesOnePayload == \A p \in Party : Cardinality(outvoted[p]) <= 1

(* A message that cannot be opened leaves no trace (session-builder.ts:    *)
(* 71-73, session-cipher.ts:122-123): unless a step hands a message to p,  *)
(* encrypts one of p's or reloads p's page, p's session, pinned identity   *)
(* and one-time prekeys stay as they are.                                  *)
LeavesNoTrace(p) ==
    /\ handed'[p] = handed[p]
    /\ posted'[p] = posted[p]
    /\ generation'[p] = generation[p]
    => UNCHANGED <<session[p], pinned[p], oneTime[p]>>

RefusalLeavesNoTrace == [][\A p \in Party : LeavesNoTrace(p)]_vars

(* Trust on first use (README.md:63-64): an identity once pinned is not    *)
(* replaced by another until the user starts afresh.                       *)
PinHolds(p) ==
    pinned[p] # NotPinned => \/ pinned'[p] = pinned[p]
                             \/ generation'[p] # generation[p]

PinsHold == [][\A p \in Party : PinHolds(p)]_vars

(* Across handshakes, replaced sessions and reloads, on a way that repeats *)
(* and reorders, no message is handed over twice.                          *)
Abstract == INSTANCE AtMostOnceChannel WITH posted <- posted, handed <- handed

AtMostOnce == Abstract!Spec

(* On a way that loses nothing and keeps the order, whoever has a session  *)
(* eventually shares it, or the one that replaces it, with the peer, unless*)
(* someone reloads.                                                        *)
SessionEventuallyShared ==
    \A p \in Party : NothingLost /\ session[p] # NoSession ~> OneSession \/ ~NoReload
=============================================================================
