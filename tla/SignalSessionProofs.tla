------------------------- MODULE SignalSessionProofs -------------------------
(***************************************************************************)
(* Theorems about SignalSession, for every way between the two users, any  *)
(* base keys and one-time prekeys, and any number of messages and reloads. *)
(*                                                                         *)
(* A session is named by its origin: who started it, in which generation,  *)
(* with which base key, and the generation and one-time prekey of the      *)
(* bundle.  Its X3DH secret is the first element of every root key of its  *)
(* ratchets and of every message sealed in it, and it tells the origin.    *)
(***************************************************************************)
EXTENDS SignalSession, DoubleRatchetProofs

Keys ==
    {IdentityKey(p, g) : p \in Party, g \in Nat}
      \cup {SignedPreKey(p, g) : p \in Party, g \in Nat}
      \cup {OneTimePreKey(p, g, id) : p \in Party, g \in Nat, id \in PreKeyIds \cup {None}}
      \cup {EphemeralKey(b) : b \in BaseKeys}
      \cup {RatchetKey(p, n) : p \in Party, n \in Nat}

Secrets == (SUBSET Keys) \cup Seq(SUBSET Keys)

Ratchets == RatchetStates(Keys, Secrets, Seq(Keys))
Sealed == Messages(Keys, Secrets, Seq(Keys))

Handshakes == [preKeyId : PreKeyIds \cup {None}, baseKey : BaseKeys \cup {None}]

Records ==
    [ratchet : Ratchets, theirIdentityKey : Keys, pendingPreKey : Handshakes,
     theirBaseKey : BaseKeys \cup {None}]

Envelopes ==
    [type : {"PreKey"}, preKeyId : PreKeyIds \cup {None}, baseKey : BaseKeys,
     identityKey : Keys, message : Sealed]
      \cup [type : {"Signal"}, message : Sealed]

-----------------------------------------------------------------------------
(* Origins.                                                                *)

Origins ==
    [by : Party, gen : Nat, peerGen : Nat, baseKey : BaseKeys,
     preKeyId : PreKeyIds \cup {None}]

BundleOf(p, g, id) ==
    [identityKey |-> IdentityKey(p, g), signedPreKey |-> SignedPreKey(p, g),
     preKeyId |-> id, oneTimePreKey |-> OneTimePreKey(p, g, id)]

SecretOf(o) ==
    X3dhInitiate(IdentityKey(o.by, o.gen), EphemeralKey(o.baseKey),
                 BundleOf(Peer(o.by), o.peerGen, o.preKeyId))

HasSession(p) == session[p] # NoSession

(* p's session, or the message, is of the session that o started.          *)
Holds(p, o) == HasSession(p) /\ SharedSecret(p) = SecretOf(o)
SealedIn(e, o) == e.message.seal.key.root[1] = SecretOf(o)

InUse(o) ==
    \E p \in Party : \/ Holds(p, o)
                     \/ \E i \in 1 .. Len(channel[p]) : SealedIn(channel[p][i], o)

-----------------------------------------------------------------------------
(* The invariant, in layers.                                               *)

Plaintext(e) == e.message.seal.plaintext

Types ==
    /\ way \in Ways
    /\ session \in [Party -> {NoSession} \cup Records]
    /\ pinned \in [Party -> {NotPinned} \cup Keys]
    /\ oneTime \in [Party -> SUBSET PreKeyIds]
    /\ generation \in [Party -> Nat]
    /\ generation["alice"] + generation["bob"] <= way.reloads
    /\ published \in [Party -> Nat]
    /\ \A p \in Party : published[p] <= generation[p]
    /\ pool \in [Party -> SUBSET PreKeyIds]
    /\ usedBaseKeys \subseteq BaseKeys
    /\ generated \in [Party -> Nat]
    /\ channel \in [Party -> Seq(Envelopes)]
    /\ posted \in [Party -> 0 .. way.posts]
    /\ handed \in [Party -> Seq(1 .. way.posts)]
    /\ outvoted \in [Party -> SUBSET (1 .. way.posts)]
    /\ \A p \in Party :
        /\ \A i \in 1 .. Len(handed[p]) : handed[p][i] \in 1 .. posted[Peer(p)]
        /\ \A i \in 1 .. Len(channel[p]) : Plaintext(channel[p][i]) \in 1 .. posted[Peer(p)]
        /\ \A i, j \in 1 .. Len(channel[p]) :
              i < j => Plaintext(channel[p][i]) # Plaintext(channel[p][j])

(* The session of an initiator, and that of a responder.                   *)
Own(p, o) ==
    /\ o.by = p /\ o.gen = generation[p]
    /\ session[p].theirBaseKey = None
    /\ pinned[p] = IdentityKey(Peer(p), o.peerGen)
    /\ IsPending(session[p]) =>
          session[p].pendingPreKey = [preKeyId |-> o.preKeyId, baseKey |-> o.baseKey]

Adopted(p, o) ==
    /\ o.by = Peer(p) /\ o.peerGen = generation[p]
    /\ session[p].theirBaseKey = o.baseKey
    /\ pinned[p] = IdentityKey(Peer(p), o.gen)
    /\ ~IsPending(session[p])
    /\ o.preKeyId \notin oneTime[p]

RatchetParity(record) == IF record.theirBaseKey = None THEN 0 ELSE 1

SoundRecord(record) ==
    /\ GoodRatchet(record.ratchet, RatchetParity(record), Keys, Secrets, Seq(Keys))
    /\ CanEncrypt(record.ratchet)

SessionsInv ==
    \A p \in Party : HasSession(p) =>
        /\ SoundRecord(session[p])
        /\ session[p].theirIdentityKey = pinned[p]
        /\ \E o \in Origins : /\ Derived(session[p].ratchet, SecretOf(o))
                              /\ Own(p, o) \/ Adopted(p, o)

PinsInv ==
    \A p \in Party :
        /\ ~HasSession(p) => pinned[p] = NotPinned
        /\ HasSession(p) => pinned[p] \in {IdentityKey(Peer(p), g) : g \in 0 .. generation[Peer(p)]}

(* A message tells the session it was sealed in, and its handshake, if it  *)
(* carries one, that of the session.                                       *)
EnvelopesInv ==
    \A p \in Party : \A i \in 1 .. Len(channel[p]) :
        \E o \in Origins :
            /\ SealedIn(channel[p][i], o)
            /\ channel[p][i].type = "PreKey" =>
                  /\ o.by = Peer(p)
                  /\ channel[p][i].baseKey = o.baseKey
                  /\ channel[p][i].preKeyId = o.preKeyId
                  /\ channel[p][i].identityKey = IdentityKey(Peer(p), o.gen)

(* A user starts one session in a generation, with a base key and a        *)
(* one-time prekey of its own.                                             *)
OriginsInv ==
    /\ \A o \in Origins : InUse(o) =>
        /\ o.baseKey \in usedBaseKeys
        /\ o.gen <= generation[o.by]
        /\ o.peerGen <= published[Peer(o.by)]
        /\ o.gen = generation[o.by] => HasSession(o.by)
        /\ o.peerGen = published[Peer(o.by)] => o.preKeyId \notin pool[Peer(o.by)]
    /\ \A o, u \in Origins :
        /\ InUse(o) /\ InUse(u)
        /\ o.baseKey = u.baseKey \/ (o.by = u.by /\ o.gen = u.gen)
        => o = u

(* What has been handed over cannot be opened again: its key is spent, or  *)
(* its session is over and cannot be adopted any more.                     *)
Gone(p, e) ==
    \A o \in Origins : SealedIn(e, o) =>
        IF Holds(p, o)
          THEN Spent(session[p].ratchet, e.message.seal.key)
          ELSE o.by = p \/ o.peerGen < generation[p]

HandedInv ==
    \A p \in Party : \A i \in 1 .. Len(channel[p]) :
        Plaintext(channel[p][i]) \in ToSet(handed[p]) => Gone(p, channel[p][i])

-----------------------------------------------------------------------------
(* Who shares a session with whom, on a way that keeps the order and before*)
(* anyone reloads.                                                         *)

Initiator(p) == HasSession(p) /\ session[p].theirBaseKey = None
Responder(p) == HasSession(p) /\ session[p].theirBaseKey # None

SealedBy(e, p) == \E o \in Origins : SealedIn(e, o) /\ o.by = p

TogetherInv ==
    \A p \in Party :
        LET q == Peer(p)
        IN  /\ Initiator(p) /\ ~IsPending(session[p]) =>
                  /\ Responder(q)
                  /\ \A i \in 1 .. Len(channel[p]) : SealedBy(channel[p][i], p)
            /\ Responder(p) => Initiator(q)
            /\ \A i \in 1 .. Len(channel[p]) : SealedBy(channel[p][i], p) =>
                  /\ Responder(q)
                  /\ \A j \in i .. Len(channel[p]) : SealedBy(channel[p][j], p)
            /\ \A o, u \in Origins :
                  Responder(p) /\ InUse(o) /\ InUse(u) /\ o.by = q /\ u.by = p
                      => o.baseKey < u.baseKey

SessionInv ==
    /\ Types
    /\ SessionsInv
    /\ PinsInv
    /\ EnvelopesInv
    /\ OriginsInv
    /\ HandedInv
    /\ KeepsOrder /\ NoReload => TogetherInv
-----------------------------------------------------------------------------
(* Lemmas about users, keys and origins.                                   *)

(* There are two users, each the other's peer.                             *)
LEMMA PartyFacts ==
    ASSUME NEW p \in Party
    PROVE  /\ Peer(p) \in Party /\ Peer(p) # p /\ Peer(Peer(p)) = p
           /\ \A x \in Party : x = p \/ x = Peer(p)
  BY DEF Party, Peer

(* The secrets include the DH of any two keys.                             *)
LEMMA SecretsClosed == ClosedUnderDh(Keys, Secrets)
  BY DEF ClosedUnderDh, Dh, Secrets

(* Every kind of key is a key.                                             *)
LEMMA KeysAreKeys ==
    /\ \A p \in Party, g \in Nat :
          IdentityKey(p, g) \in Keys /\ SignedPreKey(p, g) \in Keys /\ RatchetKey(p, g) \in Keys
    /\ \A p \in Party, g \in Nat, id \in PreKeyIds \cup {None} : OneTimePreKey(p, g, id) \in Keys
    /\ \A b \in BaseKeys : EphemeralKey(b) \in Keys
  BY DEF Keys

(* A key names its user, its generation and its number.                    *)
LEMMA KeysTell ==
    /\ \A p, q, g, h : IdentityKey(p, g) = IdentityKey(q, h) => p = q /\ g = h
    /\ \A p, q, g, h : SignedPreKey(p, g) = SignedPreKey(q, h) => p = q /\ g = h
    /\ \A p, q, g, h, i, j : OneTimePreKey(p, g, i) = OneTimePreKey(q, h, j) => i = j
    /\ \A b, c : EphemeralKey(b) = EphemeralKey(c) => b = c
    /\ \A p, q, g, h : IdentityKey(p, g) # SignedPreKey(q, h)
    /\ \A p, g, b : IdentityKey(p, g) # EphemeralKey(b)
    /\ \A p, g, b : SignedPreKey(p, g) # EphemeralKey(b)
    /\ \A p, g, i, b : OneTimePreKey(p, g, i) # EphemeralKey(b)
  BY DEF IdentityKey, SignedPreKey, OneTimePreKey, EphemeralKey

(* No key is the absent one.                                               *)
LEMMA KeysArePresent == \A k \in Keys : k # NoKey /\ k # NotPinned
  BY DEF Keys, NoKey, NotPinned, IdentityKey, SignedPreKey, OneTimePreKey, EphemeralKey,
         RatchetKey

(* The four secrets, or three, of a handshake.                             *)
LEMMA SecretForm ==
    ASSUME NEW o \in Origins
    PROVE  /\ SecretOf(o) =
                 IF o.preKeyId = None
                   THEN <<Dh(IdentityKey(o.by, o.gen), SignedPreKey(Peer(o.by), o.peerGen)),
                          Dh(EphemeralKey(o.baseKey), IdentityKey(Peer(o.by), o.peerGen)),
                          Dh(EphemeralKey(o.baseKey), SignedPreKey(Peer(o.by), o.peerGen))>>
                   ELSE <<Dh(IdentityKey(o.by, o.gen), SignedPreKey(Peer(o.by), o.peerGen)),
                          Dh(EphemeralKey(o.baseKey), IdentityKey(Peer(o.by), o.peerGen)),
                          Dh(EphemeralKey(o.baseKey), SignedPreKey(Peer(o.by), o.peerGen)),
                          Dh(EphemeralKey(o.baseKey),
                             OneTimePreKey(Peer(o.by), o.peerGen, o.preKeyId))>>
           /\ SecretOf(o) \in Secrets
  <1>1. SecretOf(o) =
          <<Dh(IdentityKey(o.by, o.gen), SignedPreKey(Peer(o.by), o.peerGen)),
            Dh(EphemeralKey(o.baseKey), IdentityKey(Peer(o.by), o.peerGen)),
            Dh(EphemeralKey(o.baseKey), SignedPreKey(Peer(o.by), o.peerGen))>>
          \o IF o.preKeyId = None
               THEN <<>>
               ELSE <<Dh(EphemeralKey(o.baseKey),
                         OneTimePreKey(Peer(o.by), o.peerGen, o.preKeyId))>>
    BY DEF SecretOf, X3dhInitiate, BundleOf
  <1>2. /\ o.by \in Party /\ Peer(o.by) \in Party /\ o.gen \in Nat /\ o.peerGen \in Nat
        /\ o.baseKey \in BaseKeys /\ o.preKeyId \in PreKeyIds \cup {None}
    BY PartyFacts DEF Origins
  <1>. DEFINE a == Dh(IdentityKey(o.by, o.gen), SignedPreKey(Peer(o.by), o.peerGen))
              b == Dh(EphemeralKey(o.baseKey), IdentityKey(Peer(o.by), o.peerGen))
              c == Dh(EphemeralKey(o.baseKey), SignedPreKey(Peer(o.by), o.peerGen))
              d == Dh(EphemeralKey(o.baseKey), OneTimePreKey(Peer(o.by), o.peerGen, o.preKeyId))
  <1>3. {a, b, c, d} \subseteq SUBSET Keys
    BY <1>2, KeysAreKeys DEF Dh
  <1>. HIDE DEF a, b, c, d
  <1>4. <<a, b, c>> \o <<>> = <<a, b, c>> /\ <<a, b, c>> \o <<d>> = <<a, b, c, d>>
    <2>1. <<a, b, c>> \o <<>> = <<a, b, c>>
      <3>1. <<a, b, c>> \in Seq({a, b, c})
        OBVIOUS
      <3>2. \A S : \A s \in Seq(S) : s \o <<>> = s
        OBVIOUS
      <3>. QED BY <3>1, <3>2
    <2>2. <<a, b, c>> \o <<d>> = Append(<<a, b, c>>, d)
      OBVIOUS
    <2>3. Append(<<a, b, c>>, d) = <<a, b, c, d>>
      <3>. DEFINE S == {a, b, c, d}
                  s == <<a, b, c>>
                  t == <<a, b, c, d>>
      <3>1. s \in Seq(S) /\ t \in Seq(S) /\ d \in S /\ Len(s) = 3 /\ Len(t) = 4
        OBVIOUS
      <3>2. s[1] = t[1] /\ s[2] = t[2] /\ s[3] = t[3] /\ d = t[4]
        OBVIOUS
      <3>. HIDE DEF S, s, t
      <3>3. /\ Append(s, d) \in Seq(S) /\ Len(Append(s, d)) = 4
            /\ \A i \in 1 .. 3 : Append(s, d)[i] = s[i]
            /\ Append(s, d)[4] = d
        <4>1. /\ Append(s, d) \in Seq(S) /\ Len(Append(s, d)) = Len(s) + 1
              /\ \A i \in 1 .. Len(s) : Append(s, d)[i] = s[i]
              /\ Append(s, d)[Len(s) + 1] = d
          <5>1. s \in Seq(S) /\ d \in S
            BY <3>1
          <5>. QED BY <5>1, AppendProperties
        <4>. QED BY <3>1, <4>1
      <3>4. \A i \in 1 .. 4 : Append(s, d)[i] = t[i]
        BY <3>2, <3>3
      <3>5. Append(s, d) = t
        BY <3>1, <3>3, <3>4, SeqEqual
      <3>. QED BY <3>5 DEF s, t
    <2>. QED BY <2>1, <2>2, <2>3
  <1>5. <<a, b, c>> \in Seq(SUBSET Keys) /\ <<a, b, c, d>> \in Seq(SUBSET Keys)
    BY <1>3
  <1>6. SecretOf(o) = IF o.preKeyId = None THEN <<a, b, c>> ELSE <<a, b, c, d>>
    BY <1>1, <1>4 DEF a, b, c, d
  <1>7. SecretOf(o) \in Secrets
    <2>. DEFINE three == <<a, b, c>>
                four == <<a, b, c, d>>
                Sets == SUBSET Keys
    <2>1. (SecretOf(o) = three \/ SecretOf(o) = four) /\ three \in Seq(Sets) /\ four \in Seq(Sets)
      BY <1>5, <1>6
    <2>. HIDE DEF three, four, Sets
    <2>2. SecretOf(o) \in Seq(Sets)
      BY <2>1
    <2>. QED BY <2>2 DEF Secrets, Sets
  <1>. QED BY <1>6, <1>7 DEF a, b, c, d

(* An X3DH secret tells where the session comes from.                      *)
LEMMA SecretTells ==
    ASSUME NEW o \in Origins, NEW u \in Origins, SecretOf(o) = SecretOf(u)
    PROVE  o = u
  <1>. DEFINE q == Peer(o.by)
              r == Peer(u.by)
  <1>1. /\ SecretOf(o)[1] = Dh(IdentityKey(o.by, o.gen), SignedPreKey(q, o.peerGen))
        /\ SecretOf(o)[3] = Dh(EphemeralKey(o.baseKey), SignedPreKey(q, o.peerGen))
        /\ o.preKeyId # None =>
              SecretOf(o)[4] = Dh(EphemeralKey(o.baseKey), OneTimePreKey(q, o.peerGen, o.preKeyId))
        /\ Len(SecretOf(o)) = IF o.preKeyId = None THEN 3 ELSE 4
    BY SecretForm
  <1>2. /\ SecretOf(u)[1] = Dh(IdentityKey(u.by, u.gen), SignedPreKey(r, u.peerGen))
        /\ SecretOf(u)[3] = Dh(EphemeralKey(u.baseKey), SignedPreKey(r, u.peerGen))
        /\ u.preKeyId # None =>
              SecretOf(u)[4] = Dh(EphemeralKey(u.baseKey), OneTimePreKey(r, u.peerGen, u.preKeyId))
        /\ Len(SecretOf(u)) = IF u.preKeyId = None THEN 3 ELSE 4
    BY SecretForm
  <1>. HIDE DEF q, r
  <1>3. o.by = u.by /\ o.gen = u.gen /\ o.peerGen = u.peerGen
    <2>1. Dh(IdentityKey(o.by, o.gen), SignedPreKey(q, o.peerGen))
            = Dh(IdentityKey(u.by, u.gen), SignedPreKey(r, u.peerGen))
      BY <1>1, <1>2
    <2>2. /\ IdentityKey(o.by, o.gen) = IdentityKey(u.by, u.gen)
          /\ SignedPreKey(q, o.peerGen) = SignedPreKey(r, u.peerGen)
      BY <2>1, KeysTell DEF Dh
    <2>. QED BY <2>2, KeysTell
  <1>4. o.baseKey = u.baseKey
    <2>1. Dh(EphemeralKey(o.baseKey), SignedPreKey(q, o.peerGen))
            = Dh(EphemeralKey(u.baseKey), SignedPreKey(r, u.peerGen))
      BY <1>1, <1>2
    <2>2. EphemeralKey(o.baseKey) = EphemeralKey(u.baseKey)
      BY <2>1, KeysTell DEF Dh
    <2>. QED BY <2>2, KeysTell
  <1>5. o.preKeyId = u.preKeyId
    <2>1. o.preKeyId = None <=> u.preKeyId = None
      BY <1>1, <1>2
    <2>2. CASE o.preKeyId # None
      <3>1. Dh(EphemeralKey(o.baseKey), OneTimePreKey(q, o.peerGen, o.preKeyId))
              = Dh(EphemeralKey(u.baseKey), OneTimePreKey(r, u.peerGen, u.preKeyId))
        BY <1>1, <1>2, <2>1, <2>2
      <3>2. OneTimePreKey(q, o.peerGen, o.preKeyId) = OneTimePreKey(r, u.peerGen, u.preKeyId)
        BY <3>1, KeysTell DEF Dh
      <3>. QED BY <3>2, KeysTell
    <2>. QED BY <2>1, <2>2
  <1>. QED BY <1>3, <1>4, <1>5 DEF Origins

OriginOf(p, g, b, id) ==
    [by |-> Peer(p), gen |-> g, peerGen |-> generation[p], baseKey |-> b, preKeyId |-> id]

(* What a responder of this generation computes from a handshake is the    *)
(* secret of the session the handshake starts.                             *)
LEMMA RespondsWithSecret ==
    ASSUME Types, NEW p \in Party, NEW g \in Nat, NEW b \in BaseKeys,
           NEW id \in PreKeyIds \cup {None}
    PROVE  /\ OriginOf(p, g, b, id) \in Origins
           /\ X3dhRespond(p, id, IdentityKey(Peer(p), g), EphemeralKey(b))
                = SecretOf(OriginOf(p, g, b, id))
  <1>. DEFINE o == OriginOf(p, g, b, id)
              h == generation[p]
  <1>1. o \in Origins /\ Peer(o.by) = p /\ o.by = Peer(p) /\ o.gen = g /\ o.peerGen = h
        /\ o.baseKey = b /\ o.preKeyId = id
    BY PartyFacts DEF OriginOf, Origins, Types
  <1>. HIDE DEF o
  <1>2. \A x, y : Dh(x, y) = Dh(y, x)
    BY DEF Dh
  <1>3. X3dhRespond(p, id, IdentityKey(Peer(p), g), EphemeralKey(b)) =
          <<Dh(IdentityKey(Peer(p), g), SignedPreKey(p, h)),
            Dh(EphemeralKey(b), IdentityKey(p, h)),
            Dh(EphemeralKey(b), SignedPreKey(p, h))>>
          \o IF id = None THEN <<>> ELSE <<Dh(EphemeralKey(b), OneTimePreKey(p, h, id))>>
    BY <1>2 DEF X3dhRespond
  <1>4. SecretOf(o) =
          <<Dh(IdentityKey(Peer(p), g), SignedPreKey(p, h)),
            Dh(EphemeralKey(b), IdentityKey(p, h)),
            Dh(EphemeralKey(b), SignedPreKey(p, h))>>
          \o IF id = None THEN <<>> ELSE <<Dh(EphemeralKey(b), OneTimePreKey(p, h, id))>>
    BY <1>1 DEF SecretOf, X3dhInitiate, BundleOf
  <1>. QED BY <1>1, <1>3, <1>4 DEF o
-----------------------------------------------------------------------------
(* Sessions and envelopes, and where they come from.                       *)

(* A stored record is not the absent one.                                  *)
LEMMA RecordsArePresent ==
    ASSUME NEW r \in Records
    PROVE  r # NoSession
  <1>1. "ratchet" \in DOMAIN r
    BY DEF Records
  <1>2. DOMAIN NoSession = {"none"}
    BY DEF NoSession
  <1>. QED BY <1>1, <1>2

(* A user holds a session of at most one origin, and a message is of one.  *)
LEMMA OneOrigin ==
    ASSUME NEW o \in Origins, NEW u \in Origins
    PROVE  /\ \A p \in Party : Holds(p, o) /\ Holds(p, u) => o = u
           /\ \A e : SealedIn(e, o) /\ SealedIn(e, u) => o = u
           /\ \A e : \A p \in Party :
                 Holds(p, o) /\ SealedIn(e, u) /\ e.message.seal.key.root[1] = SharedSecret(p)
                     => o = u
  <1>1. SecretOf(o) = SecretOf(u) => o = u
    BY SecretTells
  <1>. QED BY <1>1 DEF Holds, SealedIn

(* The origin of the session p holds.                                      *)
LEMMA SessionOrigin ==
    ASSUME Types, SessionsInv, NEW p \in Party, HasSession(p)
    PROVE  /\ session[p] \in Records
           /\ SoundRecord(session[p])
           /\ session[p].theirIdentityKey = pinned[p]
           /\ \E o \in Origins :
                /\ Derived(session[p].ratchet, SecretOf(o))
                /\ Holds(p, o)
                /\ InUse(o)
                /\ Own(p, o) \/ Adopted(p, o)
  <1>1. session[p] \in Records
    BY DEF Types, HasSession
  <1>2. PICK o \in Origins : /\ Derived(session[p].ratchet, SecretOf(o))
                             /\ Own(p, o) \/ Adopted(p, o)
    BY DEF SessionsInv
  <1>3. SharedSecret(p) = SecretOf(o)
    BY <1>2 DEF Derived, SharedSecret
  <1>4. Holds(p, o) /\ InUse(o)
    BY <1>3 DEF Holds, InUse
  <1>. QED BY <1>1, <1>2, <1>4 DEF SessionsInv

(* The session p holds, if its origin is known.                            *)
LEMMA SessionOf ==
    ASSUME Types, SessionsInv, NEW p \in Party, NEW o \in Origins, Holds(p, o)
    PROVE  /\ HasSession(p)
           /\ Derived(session[p].ratchet, SecretOf(o))
           /\ Own(p, o) \/ Adopted(p, o)
  <1>1. HasSession(p)
    BY DEF Holds
  <1>2. PICK u \in Origins : /\ Derived(session[p].ratchet, SecretOf(u))
                             /\ Holds(p, u)
                             /\ Own(p, u) \/ Adopted(p, u)
    BY <1>1, SessionOrigin
  <1>3. o = u
    BY <1>2, OneOrigin
  <1>. QED BY <1>1, <1>2, <1>3

(* The origin of an envelope on its way.                                   *)
LEMMA EnvelopeOrigin ==
    ASSUME Types, EnvelopesInv, NEW p \in Party, NEW i \in 1 .. Len(channel[p])
    PROVE  LET e == channel[p][i]
           IN  /\ e \in Envelopes
               /\ Plaintext(e) \in 1 .. posted[Peer(p)]
               /\ \E o \in Origins :
                    /\ SealedIn(e, o)
                    /\ InUse(o)
                    /\ e.type = "PreKey" =>
                          /\ o.by = Peer(p)
                          /\ e.baseKey = o.baseKey
                          /\ e.preKeyId = o.preKeyId
                          /\ e.identityKey = IdentityKey(Peer(p), o.gen)
  <1>1. channel[p] \in Seq(Envelopes)
    BY DEF Types
  <1>2. channel[p][i] \in Envelopes
    BY <1>1
  <1>3. Plaintext(channel[p][i]) \in 1 .. posted[Peer(p)]
    BY DEF Types
  <1>4. PICK o \in Origins : /\ SealedIn(channel[p][i], o)
                             /\ channel[p][i].type = "PreKey" =>
                                  /\ o.by = Peer(p)
                                  /\ channel[p][i].baseKey = o.baseKey
                                  /\ channel[p][i].preKeyId = o.preKeyId
                                  /\ channel[p][i].identityKey = IdentityKey(Peer(p), o.gen)
    BY DEF EnvelopesInv
  <1>5. InUse(o)
    BY <1>4 DEF InUse
  <1>. QED BY <1>2, <1>3, <1>4, <1>5

(* e arrives in place of f: itself, or damaged on the way.                 *)
Resembles(e, f) ==
    /\ e.type = f.type
    /\ e.message.seal.key = f.message.seal.key
    /\ Plaintext(e) = Plaintext(f)
    /\ e.type = "PreKey" => e.preKeyId = f.preKeyId /\ e.identityKey = f.identityKey

(* Damage leaves an envelope that names the same keys.                     *)
LEMMA DamageKeepsSeal ==
    ASSUME NEW f \in Envelopes, NEW e \in DamagedVersions(f)
    PROVE  e \in Envelopes /\ Resembles(e, f)
  <1>1. f.message \in Sealed /\ f.type \in {"PreKey", "Signal"}
    BY DEF Envelopes
  <1>2. /\ [f.message EXCEPT !.seal.associatedData = <<>>] \in Sealed
        /\ [f.message EXCEPT !.seal.associatedData = <<>>].seal.key = f.message.seal.key
        /\ [f.message EXCEPT !.seal.associatedData = <<>>].seal.plaintext
              = f.message.seal.plaintext
    <2>. DEFINE Seals == [key : ChainKeys(Secrets), header : MessageHeaders(Keys),
                          associatedData : Seq(Keys), plaintext : Nat]
                Headers == MessageHeaders(Keys)
                s == [f.message.seal EXCEPT !.associatedData = <<>>]
                m == [f.message EXCEPT !.seal = s]
    <2>1. f.message.seal \in Seals /\ f.message \in [header : Headers, seal : Seals]
      BY <1>1 DEF Sealed, Messages
    <2>2. s \in Seals /\ s.key = f.message.seal.key /\ s.plaintext = f.message.seal.plaintext
      <3>1. <<>> \in Seq(Keys)
        OBVIOUS
      <3>. QED BY <2>1, <3>1
    <2>3. m \in [header : Headers, seal : Seals] /\ m.seal = s
      <3>. HIDE DEF s, Seals, Headers
      <3>. QED BY <2>1, <2>2
    <2>4. [f.message EXCEPT !.seal.associatedData = <<>>] = m
      OBVIOUS
    <2>5. Sealed = [header : Headers, seal : Seals]
      BY DEF Sealed, Messages
    <2>. HIDE DEF s, m, Seals, Headers
    <2>. QED BY <2>2, <2>3, <2>4, <2>5
  <1>3. CASE e = [f EXCEPT !.message.seal.associatedData = <<>>]
    <2>. DEFINE m == [f.message EXCEPT !.seal.associatedData = <<>>]
    <2>1. e = [f EXCEPT !.message = m]
      BY <1>3
    <2>. HIDE DEF m
    <2>2. m \in Sealed /\ m.seal.key = f.message.seal.key
          /\ m.seal.plaintext = f.message.seal.plaintext
      BY <1>2 DEF m
    <2>3. e \in Envelopes /\ e.message = m
      BY <2>1, <2>2 DEF Envelopes
    <2>4. e.type = f.type /\ (e.type = "PreKey" => e.preKeyId = f.preKeyId
                                                  /\ e.identityKey = f.identityKey)
      BY <2>1 DEF Envelopes
    <2>. QED BY <2>2, <2>3, <2>4 DEF Resembles, Plaintext
  <1>4. CASE f.type = "PreKey" /\ \E b \in BaseKeys : e = [f EXCEPT !.baseKey = b]
    <2>1. PICK b \in BaseKeys : e = [f EXCEPT !.baseKey = b]
      BY <1>4
    <2>2. f \in [type : {"PreKey"}, preKeyId : PreKeyIds \cup {None}, baseKey : BaseKeys,
                 identityKey : Keys, message : Sealed]
      BY <1>4 DEF Envelopes
    <2>. QED BY <2>1, <2>2 DEF Envelopes, Resembles, Plaintext
  <1>. QED BY <1>3, <1>4 DEF DamagedVersions
-----------------------------------------------------------------------------
(* What the operations do to a session.                                    *)

(* r is the session s after its ratchet has moved.                         *)
Continues(s, r) ==
    /\ r \in Records
    /\ r.theirIdentityKey = s.theirIdentityKey
    /\ r.theirBaseKey = s.theirBaseKey
    /\ r.pendingPreKey = s.pendingPreKey \/ ~IsPending(r)
    /\ SoundRecord(r)
    /\ \A o \in Origins : Derived(s.ratchet, SecretOf(o)) => Derived(r.ratchet, SecretOf(o))
    /\ Follows(s.ratchet, r.ratchet, Secrets)

GoodIn(s, record) == GoodRatchet(s, RatchetParity(record), Keys, Secrets, Seq(Keys))

(* The parity of a record's ratchet is one.                                *)
LEMMA ParityOfRecord == \A record : RatchetParity(record) \in {0, 1}
  BY DEF RatchetParity

(* A record whose ratchet has moved, and whose handshake may be over, goes *)
(* on with its session.                                                    *)
LEMMA MovedRatchetContinues ==
    ASSUME NEW s \in Records, NEW t, GoodIn(t, s), CanEncrypt(t),
           \A o \in Origins : Derived(s.ratchet, SecretOf(o)) => Derived(t, SecretOf(o)),
           Follows(s.ratchet, t, Secrets)
    PROVE  /\ Continues(s, [s EXCEPT !.ratchet = t])
           /\ Continues(s, [s EXCEPT !.ratchet = t, !.pendingPreKey = NothingPending])
           /\ [s EXCEPT !.ratchet = t].ratchet = t
           /\ [s EXCEPT !.ratchet = t, !.pendingPreKey = NothingPending].ratchet = t
  <1>1. t \in Ratchets
    BY DEF GoodIn, GoodRatchet, Ratchets
  <1>2. NothingPending \in Handshakes
    BY DEF NothingPending, Handshakes
  <1>3. ASSUME NEW r, r = [s EXCEPT !.ratchet = t]
                      \/ r = [s EXCEPT !.ratchet = t, !.pendingPreKey = NothingPending]
        PROVE  Continues(s, r) /\ r.ratchet = t
    <2>1. /\ r \in Records /\ r.ratchet = t
          /\ r.theirIdentityKey = s.theirIdentityKey /\ r.theirBaseKey = s.theirBaseKey
          /\ r.pendingPreKey = s.pendingPreKey \/ r.pendingPreKey = NothingPending
      BY <1>1, <1>2, <1>3 DEF Records
    <2>2. RatchetParity(r) = RatchetParity(s)
      BY <2>1 DEF RatchetParity
    <2>3. SoundRecord(r)
      BY <2>1, <2>2 DEF SoundRecord, GoodIn
    <2>4. r.pendingPreKey = NothingPending => ~IsPending(r)
      BY DEF IsPending
    <2>. QED BY <2>1, <2>3, <2>4 DEF Continues
  <1>. QED BY <1>3

(* A session that opens a message spends its key, and the message was      *)
(* sealed in that session.                                                 *)
LEMMA SessionOpens ==
    ASSUME Types, SessionsInv, NEW p \in Party, HasSession(p),
           NEW e \in Envelopes, Decrypted(p, session[p], e.message).ok
    PROVE  LET s == session[p]
               t == Decrypted(p, session[p], e.message).state
           IN  /\ GoodIn(t, s)
               /\ CanEncrypt(t)
               /\ \A o \in Origins : Derived(s.ratchet, SecretOf(o)) => Derived(t, SecretOf(o))
               /\ Follows(s.ratchet, t, Secrets)
               /\ SpendsKey(s.ratchet, t, e.message.seal.key)
               /\ e.message.seal.key.root[1] = SharedSecret(p)
  <1>. DEFINE s == session[p].ratchet
              m == e.message
              fresh == RatchetKey(p, generated[p])
              parity == RatchetParity(session[p])
              r == RatchetDecrypt(s, m, fresh)
              A == Seq(Keys)
  <1>1. GoodRatchet(s, parity, Keys, Secrets, A) /\ CanEncrypt(s)
    BY SessionOrigin DEF SoundRecord
  <1>2. m \in Messages(Keys, Secrets, A)
    BY DEF Envelopes, Sealed
  <1>3. fresh \in Keys
    BY KeysAreKeys DEF Types
  <1>4. r.ok /\ r = Decrypted(p, session[p], e.message)
    BY DEF Decrypted
  <1>5. parity \in {0, 1}
    BY ParityOfRecord
  <1>. HIDE DEF s, m, fresh, parity, A, r
  <1>6. /\ GoodRatchet(r.state, parity, Keys, Secrets, A)
        /\ Follows(s, r.state, Secrets)
        /\ SpendsKey(s, r.state, m.seal.key)
    BY <1>1, <1>2, <1>3, <1>4, <1>5, SecretsClosed, RatchetDecryptKeepsRatchetGood DEF r
  <1>7. ASSUME NEW o \in Origins, Derived(s, SecretOf(o))
        PROVE  /\ Derived(r.state, SecretOf(o))
               /\ m.seal.key.root[1] = SecretOf(o)
               /\ CanEncrypt(r.state)
    <2>. DEFINE secret == SecretOf(o)
    <2>. HIDE DEF secret
    <2>1. Derived(s, secret)
      BY <1>7 DEF secret
    <2>2. Derived(r.state, secret) /\ m.seal.key.root[1] = secret /\ CanEncrypt(r.state)
      BY <1>1, <1>2, <1>3, <1>4, <1>5, <2>1, SecretsClosed, DecryptKeepsDerived DEF r
    <2>. QED BY <2>2 DEF secret
  <1>8. PICK o \in Origins : Derived(s, SecretOf(o)) /\ Holds(p, o)
    BY SessionOrigin DEF s
  <1>9. m.seal.key.root[1] = SharedSecret(p) /\ CanEncrypt(r.state)
    BY <1>7, <1>8 DEF Holds
  <1>. QED BY <1>4, <1>6, <1>7, <1>9 DEF s, m, parity, A, GoodIn
(* e is opened in the session p has.                                       *)
Opened(p, e) ==
    /\ HasSession(p)
    /\ e.message.seal.key.root[1] = SharedSecret(p)
    /\ Continues(session[p], session'[p])
    /\ SpendsKey(session[p].ratchet, session'[p].ratchet, e.message.seal.key)
    /\ session'[Peer(p)] = session[Peer(p)]
    /\ handed' = [handed EXCEPT ![p] = Append(@, Plaintext(e))]
    /\ UNCHANGED <<pinned, oneTime>>

(* p takes over the session that o started, by its handshake e.            *)
Adopts(p, e, o) ==
    /\ o.by = Peer(p) /\ o.peerGen = generation[p]
    /\ SealedIn(e, o)
    /\ e.baseKey = o.baseKey /\ e.identityKey = IdentityKey(Peer(p), o.gen)
    /\ pinned[p] = NotPinned \/ pinned[p] = IdentityKey(Peer(p), o.gen)
    /\ ~IsKnownHandshake(p, e)
    /\ ~OurHandshakeWins(p, e)
    /\ session'[p] \in Records
    /\ session'[p].theirIdentityKey = IdentityKey(Peer(p), o.gen)
    /\ session'[p].theirBaseKey = o.baseKey
    /\ ~IsPending(session'[p])
    /\ SoundRecord(session'[p])
    /\ Derived(session'[p].ratchet, SecretOf(o))
    /\ Spent(session'[p].ratchet, e.message.seal.key)
    /\ session'[Peer(p)] = session[Peer(p)]
    /\ handed' = [handed EXCEPT ![p] = Append(@, Plaintext(e))]
    /\ pinned' = [pinned EXCEPT ![p] = IdentityKey(Peer(p), o.gen)]
    /\ oneTime' = [oneTime EXCEPT ![p] = @ \ {o.preKeyId}]

Refused(p) == UNCHANGED <<session, pinned, oneTime, generated, handed>>

(* What the bookkeeping of a delivery leaves typed.                        *)
Booked ==
    /\ session' \in [Party -> {NoSession} \cup Records]
    /\ generated' \in [Party -> Nat]
    /\ outvoted' \in [Party -> SUBSET (1 .. way.posts)]

(* Counting a key pair leaves a count.                                     *)
LEMMA CountGeneratedTyped ==
    ASSUME Types, NEW p \in Party, NEW before, NEW after, CountGenerated(p, before, after)
    PROVE  generated' \in [Party -> Nat]
<1>1. generated \in [Party -> Nat]
  BY DEF Types
<1>. QED BY <1>1 DEF CountGenerated

(* A Signal message either opens in the session or changes nothing.        *)
LEMMA SignalEffect ==
    ASSUME Types, SessionsInv, NEW p \in Party, NEW e \in Envelopes,
           AcceptSignal(p, e) \/ RefuseSignal(p, e)
    PROVE  Booked /\ (Refused(p) \/ Opened(p, e))
  <1>1. CASE RefuseSignal(p, e)
    BY <1>1 DEF RefuseSignal, Refused, Booked, Types
  <1>2. CASE AcceptSignal(p, e)
    <2>. DEFINE s == session[p]
                t == Decrypted(p, session[p], e.message).state
                r == [s EXCEPT !.ratchet = t, !.pendingPreKey = NothingPending]
    <2>1. HasSession(p) /\ Decrypted(p, session[p], e.message).ok
      BY <1>2 DEF AcceptSignal, OpensSignal, HasSession
    <2>2. /\ session' = [session EXCEPT ![p].ratchet = t, ![p].pendingPreKey = NothingPending]
          /\ CountGenerated(p, session[p].ratchet, t)
          /\ handed' = [handed EXCEPT ![p] = Append(@, Plaintext(e))]
          /\ UNCHANGED <<pinned, oneTime, outvoted>>
      BY <1>2 DEF AcceptSignal, HandOver, Plaintext
    <2>3. /\ GoodIn(t, s) /\ CanEncrypt(t)
          /\ \A o \in Origins : Derived(s.ratchet, SecretOf(o)) => Derived(t, SecretOf(o))
          /\ Follows(s.ratchet, t, Secrets)
          /\ SpendsKey(s.ratchet, t, e.message.seal.key)
          /\ e.message.seal.key.root[1] = SharedSecret(p)
      BY <2>1, SessionOpens
    <2>4. s \in Records
      BY <2>1, SessionOrigin
    <2>. HIDE DEF t
    <2>5. [session EXCEPT ![p].ratchet = t, ![p].pendingPreKey = NothingPending]
            = [session EXCEPT ![p] = r]
      BY DEF Types
    <2>. HIDE DEF s
    <2>6. Continues(s, r) /\ r.ratchet = t
      BY <2>3, <2>4, MovedRatchetContinues
    <2>. HIDE DEF r
    <2>7. session' = [session EXCEPT ![p] = r]
      BY <2>2, <2>5
    <2>8. r \in Records
      BY <2>6 DEF Continues
    <2>9. /\ session' \in [Party -> {NoSession} \cup Records]
          /\ session'[p] = r /\ session'[Peer(p)] = session[Peer(p)]
      BY <2>7, <2>8, PartyFacts DEF Types
    <2>10. Booked
      <3>1. generated' \in [Party -> Nat]
        BY <2>2, CountGeneratedTyped
      <3>2. outvoted' \in [Party -> SUBSET (1 .. way.posts)]
        BY <2>2 DEF Types
      <3>. QED BY <2>9, <3>1, <3>2 DEF Booked
    <2>. QED BY <2>1, <2>2, <2>3, <2>6, <2>9, <2>10 DEF Opened, s
  <1>. QED BY <1>1, <1>2

(* A repeated handshake opens in the session or changes nothing.           *)
LEMMA RepeatedHandshakeEffect ==
    ASSUME Types, SessionsInv, NEW p \in Party, NEW e \in Envelopes,
           RepeatedHandshake(p, e)
    PROVE  Booked /\ (Refused(p) \/ Opened(p, e))
  <1>. DEFINE s == session[p]
              t == Decrypted(p, session[p], e.message).state
              r == [s EXCEPT !.ratchet = t]
  <1>1. HasSession(p)
    BY DEF RepeatedHandshake, IsKnownHandshake, HasSession
  <1>2. CASE ~Decrypted(p, session[p], e.message).ok
    BY <1>2 DEF RepeatedHandshake, Refused, Booked, Types
  <1>3. CASE Decrypted(p, session[p], e.message).ok
    <2>2. /\ session' = [session EXCEPT ![p].ratchet = t]
          /\ CountGenerated(p, session[p].ratchet, t)
          /\ handed' = [handed EXCEPT ![p] = Append(@, Plaintext(e))]
          /\ UNCHANGED <<pinned, oneTime, outvoted>>
      BY <1>3 DEF RepeatedHandshake, HandOver, Plaintext
    <2>3. /\ GoodIn(t, s) /\ CanEncrypt(t)
          /\ \A o \in Origins : Derived(s.ratchet, SecretOf(o)) => Derived(t, SecretOf(o))
          /\ Follows(s.ratchet, t, Secrets)
          /\ SpendsKey(s.ratchet, t, e.message.seal.key)
          /\ e.message.seal.key.root[1] = SharedSecret(p)
      BY <1>1, <1>3, SessionOpens
    <2>4. s \in Records
      BY <1>1, SessionOrigin
    <2>. HIDE DEF t
    <2>5. [session EXCEPT ![p].ratchet = t] = [session EXCEPT ![p] = r]
      BY DEF Types
    <2>. HIDE DEF s
    <2>6. Continues(s, r) /\ r.ratchet = t
      BY <2>3, <2>4, MovedRatchetContinues
    <2>. HIDE DEF r
    <2>7. session' = [session EXCEPT ![p] = r]
      BY <2>2, <2>5
    <2>8. r \in Records
      BY <2>6 DEF Continues
    <2>9. /\ session' \in [Party -> {NoSession} \cup Records]
          /\ session'[p] = r /\ session'[Peer(p)] = session[Peer(p)]
      BY <2>7, <2>8, PartyFacts DEF Types
    <2>10. Booked
      <3>1. generated' \in [Party -> Nat]
        BY <2>2, CountGeneratedTyped
      <3>2. outvoted' \in [Party -> SUBSET (1 .. way.posts)]
        BY <2>2 DEF Types
      <3>. QED BY <2>9, <3>1, <3>2 DEF Booked
    <2>. QED BY <1>1, <2>2, <2>3, <2>6, <2>9, <2>10 DEF Opened, s
  <1>. QED BY <1>2, <1>3
(* A responder's session before it has opened anything.                    *)
LEMMA ResponderSessionGood ==
    ASSUME Types, NEW p \in Party, NEW e \in Envelopes, e.type = "PreKey",
           NEW g \in Nat, e.identityKey = IdentityKey(Peer(p), g)
    PROVE  LET u == OriginOf(p, g, e.baseKey, e.preKeyId)
               r == ResponderSession(p, e)
           IN  /\ u \in Origins
               /\ GoodRatchet(r.ratchet, 1, Keys, Secrets, Seq(Keys))
               /\ Derived(r.ratchet, SecretOf(u))
               /\ r.ratchet.receivingRatchetKey = NoKey
               /\ r.ratchet.skippedMessageKeys = <<>>
               /\ r \in Records
               /\ r.theirIdentityKey = e.identityKey
               /\ r.pendingPreKey = NothingPending
               /\ r.theirBaseKey = e.baseKey
               /\ e.baseKey # None
  <1>. DEFINE u == OriginOf(p, g, e.baseKey, e.preKeyId)
              secret == SecretOf(u)
              ours == SignedPreKey(p, generation[p])
              data == <<e.identityKey, OurIdentity(p)>>
              b == InitBob(secret, ours, data)
              A == Seq(Keys)
  <1>1. /\ e.baseKey \in BaseKeys /\ e.preKeyId \in PreKeyIds \cup {None}
        /\ e.identityKey \in Keys
    BY DEF Envelopes
  <1>2. /\ u \in Origins
        /\ X3dhRespond(p, e.preKeyId, e.identityKey, EphemeralKey(e.baseKey)) = secret
    BY <1>1, RespondsWithSecret
  <1>3. ours \in Keys /\ OurIdentity(p) \in Keys
    BY KeysAreKeys DEF Types, OurIdentity
  <1>4. data \in A
    BY <1>1, <1>3
  <1>. HIDE DEF u
  <1>5. secret \in Secrets
    BY <1>2, SecretForm
  <1>6. e.baseKey # None
    BY <1>1, SessionAssumption DEF None
  <1>7. ResponderSession(p, e) =
          [ratchet |-> b, theirIdentityKey |-> e.identityKey,
           pendingPreKey |-> NothingPending, theirBaseKey |-> e.baseKey]
    BY <1>2 DEF ResponderSession
  <1>. HIDE DEF secret, ours, data, A, b
  <1>8. /\ GoodRatchet(b, 1, Keys, Secrets, A) /\ Derived(b, secret)
        /\ b.receivingRatchetKey = NoKey /\ b.skippedMessageKeys = <<>>
    BY <1>3, <1>4, <1>5, InitBobGood DEF b
  <1>9. b \in Ratchets /\ NothingPending \in Handshakes
    BY <1>8 DEF GoodRatchet, Ratchets, A, NothingPending, Handshakes
  <1>10. ResponderSession(p, e) \in Records
    BY <1>1, <1>7, <1>9 DEF Records
  <1>. QED BY <1>2, <1>6, <1>7, <1>8, <1>10 DEF u, secret, A

(* A handshake that is accepted is the undamaged handshake of a session    *)
(* started with this generation of p.                                      *)
LEMMA AcceptHandshakeEffect ==
    ASSUME Types, EnvelopesInv, NEW p \in Party, NEW i \in 1 .. Len(channel[p]),
           NEW e \in Envelopes, Resembles(e, channel[p][i]), AcceptHandshake(p, e)
    PROVE  /\ Booked
           /\ e.preKeyId # None => e.preKeyId \in oneTime[p]
           /\ \E o \in Origins :
                SealedIn(channel[p][i], o) /\ InUse(o) /\ e.preKeyId = o.preKeyId /\ Adopts(p, e, o)
  <1>. DEFINE f == channel[p][i]
              r == ResponderSession(p, e)
              m == e.message
              fresh == RatchetKey(p, generated[p])
              A == Seq(Keys)
              d == RatchetDecrypt(r.ratchet, m, fresh)
              new == [r EXCEPT !.ratchet = d.state]
  <1>1. /\ e.type = "PreKey" /\ ~IsKnownHandshake(p, e) /\ ~OurHandshakeWins(p, e)
        /\ Trusts(p, e.identityKey) /\ (e.preKeyId # None => e.preKeyId \in oneTime[p])
        /\ d.ok
        /\ session' = [session EXCEPT ![p] = new]
        /\ pinned' = [pinned EXCEPT ![p] = e.identityKey]
        /\ oneTime' = [oneTime EXCEPT ![p] = @ \ {e.preKeyId}]
        /\ CountGenerated(p, r.ratchet, d.state)
        /\ handed' = [handed EXCEPT ![p] = Append(@, Plaintext(e))]
        /\ outvoted' = outvoted
    BY DEF AcceptHandshake, HandshakeOpens, CanBuildResponderSession, CommitResponderSession,
           Decrypted, HandOver, Plaintext
  <1>2. PICK o \in Origins :
          /\ SealedIn(f, o) /\ InUse(o)
          /\ f.type = "PreKey" => /\ o.by = Peer(p) /\ f.baseKey = o.baseKey
                                  /\ f.preKeyId = o.preKeyId
                                  /\ f.identityKey = IdentityKey(Peer(p), o.gen)
    BY EnvelopeOrigin
  <1>3. /\ o.by = Peer(p) /\ e.preKeyId = o.preKeyId
        /\ e.identityKey = IdentityKey(Peer(p), o.gen)
        /\ SealedIn(e, o)
    BY <1>1, <1>2 DEF Resembles, SealedIn
  <1>4. o.gen \in Nat
    BY DEF Origins
  <1>. DEFINE u == OriginOf(p, o.gen, e.baseKey, e.preKeyId)
              secret == SecretOf(u)
  <1>5. /\ u \in Origins
        /\ GoodRatchet(r.ratchet, 1, Keys, Secrets, A) /\ Derived(r.ratchet, secret)
        /\ r.ratchet.receivingRatchetKey = NoKey /\ r.ratchet.skippedMessageKeys = <<>>
        /\ r \in Records /\ r.theirIdentityKey = e.identityKey
        /\ r.pendingPreKey = NothingPending /\ r.theirBaseKey = e.baseKey /\ e.baseKey # None
    BY <1>1, <1>3, <1>4, ResponderSessionGood
  <1>6. u.peerGen = generation[p] /\ u.baseKey = e.baseKey
    BY DEF OriginOf
  <1>7. m \in Messages(Keys, Secrets, A) /\ m.header.publicKey \in Keys
    BY DEF Envelopes, Sealed, Messages, MessageHeaders
  <1>8. fresh \in Keys
    BY KeysAreKeys DEF Types
  <1>. HIDE DEF f, r, m, fresh, A, d, u
  <1>9. /\ GoodRatchet(d.state, 1, Keys, Secrets, A)
        /\ SpendsKey(r.ratchet, d.state, m.seal.key)
    BY <1>1, <1>5, <1>7, <1>8, SecretsClosed, RatchetDecryptKeepsRatchetGood DEF d
  <1>10. r.ratchet.receivingRatchetKey # m.header.publicKey
    BY <1>5, <1>7, KeysArePresent
  <1>11. Derived(d.state, secret) /\ m.seal.key.root[1] = secret /\ CanEncrypt(d.state)
    <2>. HIDE DEF secret
    <2>. QED BY <1>1, <1>5, <1>7, <1>8, <1>10, SecretsClosed, DecryptKeepsDerived DEF d
  <1>12. u = o
    <2>1. SecretOf(u) = SecretOf(o)
      BY <1>3, <1>11 DEF SealedIn, m
    <2>. QED BY <1>5, <2>1, SecretTells
  <1>13. d.state \in Ratchets
    BY <1>9 DEF GoodRatchet, Ratchets, A
  <1>14. /\ new \in Records /\ new.ratchet = d.state
         /\ new.theirIdentityKey = e.identityKey /\ new.theirBaseKey = e.baseKey
         /\ new.pendingPreKey = NothingPending
    BY <1>5, <1>13 DEF Records
  <1>. HIDE DEF new
  <1>15. SoundRecord(new)
    BY <1>5, <1>9, <1>11, <1>14 DEF SoundRecord, RatchetParity, A
  <1>16. /\ session' \in [Party -> {NoSession} \cup Records]
         /\ session'[p] = new /\ session'[Peer(p)] = session[Peer(p)]
    BY <1>1, <1>14, PartyFacts DEF Types
  <1>17. Booked
    <2>1. generated' \in [Party -> Nat]
      BY <1>1, CountGeneratedTyped
    <2>2. outvoted' \in [Party -> SUBSET (1 .. way.posts)]
      BY <1>1 DEF Types
    <2>. QED BY <1>16, <2>1, <2>2 DEF Booked
  <1>18. Adopts(p, e, o)
    <2>1. pinned[p] = NotPinned \/ pinned[p] = IdentityKey(Peer(p), o.gen)
      BY <1>1, <1>3 DEF Trusts
    <2>2. o.peerGen = generation[p] /\ e.baseKey = o.baseKey
      BY <1>6, <1>12
    <2>3. ~IsPending(session'[p])
      BY <1>14, <1>16 DEF IsPending
    <2>4. Spent(session'[p].ratchet, e.message.seal.key)
      BY <1>9, <1>14, <1>16 DEF SpendsKey, m
    <2>5. Derived(session'[p].ratchet, SecretOf(o))
      BY <1>11, <1>12, <1>14, <1>16
    <2>. QED BY <1>1, <1>3, <1>14, <1>15, <1>16, <2>1, <2>2, <2>3, <2>4, <2>5 DEF Adopts
  <1>. QED BY <1>1, <1>2, <1>3, <1>17, <1>18 DEF f

(* What any delivery does.                                                 *)
LEMMA DecryptEffect ==
    ASSUME Types, SessionsInv, EnvelopesInv, NEW p \in Party, NEW i \in 1 .. Len(channel[p]),
           NEW e \in Envelopes, Resembles(e, channel[p][i]), DecryptMessage(p, e)
    PROVE  /\ Booked
           /\ \/ Refused(p)
              \/ Opened(p, e)
              \/ \E o \in Origins : /\ SealedIn(channel[p][i], o) /\ InUse(o)
                                    /\ Adopts(p, e, o)
  <1>1. CASE AcceptSignal(p, e) \/ RefuseSignal(p, e)
    BY <1>1, SignalEffect
  <1>2. CASE RepeatedHandshake(p, e)
    BY <1>2, RepeatedHandshakeEffect
  <1>3. CASE LoseTieBreak(p, e)
    <2>1. Plaintext(e) \in 1 .. posted[Peer(p)]
      BY EnvelopeOrigin DEF Resembles
    <2>2. posted[Peer(p)] \in 0 .. way.posts /\ way.posts \in Nat
      BY PartyFacts, SessionAssumption DEF Types
    <2>3. Plaintext(e) \in 1 .. way.posts
      BY <2>1, <2>2
    <2>4. outvoted' \in [Party -> SUBSET (1 .. way.posts)]
      BY <1>3, <2>3, PartyFacts DEF Types, LoseTieBreak, Plaintext
    <2>. QED BY <1>3, <2>4 DEF LoseTieBreak, Booked, Refused, Types
  <1>4. CASE AcceptHandshake(p, e)
    BY <1>4, AcceptHandshakeEffect
  <1>5. CASE RefuseHandshake(p, e)
    BY <1>5 DEF RefuseHandshake, Booked, Refused, Types
  <1>. QED BY <1>1, <1>2, <1>3, <1>4, <1>5 DEF DecryptMessage
-----------------------------------------------------------------------------
(* A delivery, or a loss.                                                  *)

(* new keeps some of the elements of old, in their order.                  *)
Thinned(new, old) ==
    /\ \A j \in 1 .. Len(new) : \E i \in 1 .. Len(old) : new[j] = old[i]
    /\ \A j, l \in 1 .. Len(new) : j < l =>
          \E i, k \in 1 .. Len(old) : i < k /\ new[j] = old[i] /\ new[l] = old[k]

(* What p does when e arrives in place of the i-th envelope to it.         *)
Effect(p, i, e) ==
    \/ Refused(p)
    \/ Opened(p, e)
    \/ \E o \in Origins : SealedIn(channel[p][i], o) /\ InUse(o) /\ Adopts(p, e, o)

Arrival(p, i, e) ==
    /\ i \in 1 .. Len(channel[p])
    /\ KeepsOrder => i = 1
    /\ e \in Envelopes /\ Resembles(e, channel[p][i])
    /\ Booked
    /\ Effect(p, i, e)
    /\ UNCHANGED <<way, published, pool, usedBaseKeys, generation, posted>>
    /\ channel' \in [Party -> Seq(Envelopes)]
    /\ \A x \in Party : Thinned(channel'[x], channel[x])

(* Removing an element thins a sequence.                                   *)
LEMMA RemovalThins ==
    ASSUME NEW S, NEW q \in Seq(S), NEW n \in 1 .. Len(q)
    PROVE  RemoveAt(q, n) \in Seq(S) /\ Thinned(RemoveAt(q, n), q)
  <1>. DEFINE t == RemoveAt(q, n)
  <1>1. /\ t \in Seq(S) /\ Len(t) = Len(q) - 1 /\ Len(q) \in Nat
        /\ \A i \in 1 .. Len(q) - 1 : t[i] = IF i < n THEN q[i] ELSE q[i + 1]
    BY RemoveAtKeepsOthers
  <1>. HIDE DEF t
  <1>. DEFINE from(j) == IF j < n THEN j ELSE j + 1
  <1>2. \A j \in 1 .. Len(t) : from(j) \in 1 .. Len(q) /\ t[j] = q[from(j)]
    BY <1>1
  <1>3. \A j, l \in 1 .. Len(t) : j < l => from(j) < from(l)
    BY <1>1
  <1>. HIDE DEF from
  <1>. QED BY <1>1, <1>2, <1>3 DEF Thinned, t

(* A sequence is a thinning of itself.                                     *)
LEMMA ThinnedItself ==
    ASSUME NEW q
    PROVE  Thinned(q, q)
  BY DEF Thinned

(* Taking an envelope off the channel thins it.                            *)
LEMMA TakeThins ==
    ASSUME Types, NEW p \in Party, NEW i \in 1 .. Len(channel[p]), Take(p, i)
    PROVE  /\ channel' \in [Party -> Seq(Envelopes)]
           /\ \A x \in Party : Thinned(channel'[x], channel[x])
  <1>1. channel \in [Party -> Seq(Envelopes)]
    BY DEF Types
  <1>2. /\ RemoveAt(channel[p], i) \in Seq(Envelopes)
        /\ Thinned(RemoveAt(channel[p], i), channel[p])
    BY <1>1, RemovalThins
  <1>3. channel' = [channel EXCEPT ![p] = RemoveAt(channel[p], i)]
    BY DEF Take
  <1>4. \A x \in Party : channel'[x] = IF x = p THEN RemoveAt(channel[p], i) ELSE channel[x]
    BY <1>1, <1>3
  <1>5. channel' \in [Party -> Seq(Envelopes)]
    BY <1>1, <1>2, <1>3
  <1>. QED BY <1>2, <1>4, <1>5, ThinnedItself

(* Every delivery and every loss is an arrival.                            *)
LEMMA DeliveryArrives ==
    ASSUME Types, SessionsInv, EnvelopesInv, NEW p \in Party,
           Receive(p) \/ ReceiveCopy(p) \/ ReceiveDamaged(p) \/ Lose(p)
    PROVE  \E i \in 1 .. Len(channel[p]) : \E e \in Envelopes : Arrival(p, i, e)
  <1>1. \A i \in Positions(p) : i \in 1 .. Len(channel[p]) /\ (KeepsOrder => i = 1)
    BY DEF Positions, KeepsOrder
  <1>2. \A i \in 1 .. Len(channel[p]) :
          channel[p][i] \in Envelopes /\ Resembles(channel[p][i], channel[p][i])
    BY DEF Types, Resembles
  <1>3. channel \in [Party -> Seq(Envelopes)]
    BY DEF Types
  <1>4. CASE Receive(p)
    <2>1. PICK i \in Positions(p) : DecryptMessage(p, channel[p][i]) /\ Take(p, i)
      BY <1>4 DEF Receive
    <2>2. UNCHANGED <<way, published, pool, usedBaseKeys, generation, posted>>
      BY <1>4 DEF Receive, serverVars
    <2>3. i \in 1 .. Len(channel[p]) /\ (KeepsOrder => i = 1)
      BY <1>1
    <2>4. Booked /\ Effect(p, i, channel[p][i])
      BY <1>2, <2>1, <2>3, DecryptEffect DEF Effect
    <2>5. /\ channel' \in [Party -> Seq(Envelopes)]
          /\ \A x \in Party : Thinned(channel'[x], channel[x])
      BY <2>1, <2>3, TakeThins
    <2>. QED BY <1>2, <2>2, <2>3, <2>4, <2>5 DEF Arrival
  <1>5. CASE ReceiveCopy(p)
    <2>1. PICK i \in Positions(p) : DecryptMessage(p, channel[p][i])
      BY <1>5 DEF ReceiveCopy
    <2>2. UNCHANGED <<way, published, pool, usedBaseKeys, generation, posted, channel>>
      BY <1>5 DEF ReceiveCopy, serverVars
    <2>3. i \in 1 .. Len(channel[p]) /\ (KeepsOrder => i = 1)
      BY <1>1
    <2>4. Booked /\ Effect(p, i, channel[p][i])
      BY <1>2, <2>1, <2>3, DecryptEffect DEF Effect
    <2>5. /\ channel' \in [Party -> Seq(Envelopes)]
          /\ \A x \in Party : Thinned(channel'[x], channel[x])
      BY <1>3, <2>2, ThinnedItself
    <2>. QED BY <1>2, <2>2, <2>3, <2>4, <2>5 DEF Arrival
  <1>6. CASE ReceiveDamaged(p)
    <2>1. PICK i \in Positions(p) : \E e \in DamagedVersions(channel[p][i]) :
            DecryptMessage(p, e) /\ Take(p, i)
      BY <1>6 DEF ReceiveDamaged
    <2>2. PICK e \in DamagedVersions(channel[p][i]) : DecryptMessage(p, e) /\ Take(p, i)
      BY <2>1
    <2>3. UNCHANGED <<way, published, pool, usedBaseKeys, generation, posted>>
      BY <1>6 DEF ReceiveDamaged, serverVars
    <2>4. i \in 1 .. Len(channel[p]) /\ (KeepsOrder => i = 1)
      BY <1>1
    <2>5. e \in Envelopes /\ Resembles(e, channel[p][i])
      BY <1>2, <2>4, DamageKeepsSeal
    <2>6. Booked /\ Effect(p, i, e)
      BY <2>2, <2>4, <2>5, DecryptEffect DEF Effect
    <2>7. /\ channel' \in [Party -> Seq(Envelopes)]
          /\ \A x \in Party : Thinned(channel'[x], channel[x])
      BY <2>2, <2>4, TakeThins
    <2>. QED BY <2>3, <2>4, <2>5, <2>6, <2>7 DEF Arrival
  <1>7. CASE Lose(p)
    <2>1. PICK i \in Positions(p) : Take(p, i)
      BY <1>7 DEF Lose
    <2>2. UNCHANGED <<way, userVars, serverVars, historyVars>>
      BY <1>7 DEF Lose
    <2>3. i \in 1 .. Len(channel[p]) /\ (KeepsOrder => i = 1)
      BY <1>1
    <2>4. Booked /\ Effect(p, i, channel[p][i])
      BY <2>2 DEF Types, Booked, Effect, Refused, userVars, historyVars
    <2>5. /\ channel' \in [Party -> Seq(Envelopes)]
          /\ \A x \in Party : Thinned(channel'[x], channel[x])
      BY <2>1, <2>3, TakeThins
    <2>6. UNCHANGED <<way, published, pool, usedBaseKeys, generation, posted>>
      BY <2>2 DEF userVars, serverVars, historyVars
    <2>. QED BY <1>2, <2>3, <2>4, <2>5, <2>6 DEF Arrival
  <1>. QED BY <1>4, <1>5, <1>6, <1>7
(* An arrival brings no session into use.                                  *)
LEMMA ArrivalUsesKnown ==
    ASSUME SessionInv, NEW p \in Party, NEW i, NEW e, Arrival(p, i, e)
    PROVE  \A o \in Origins : InUse(o)' => InUse(o)
  <1>1. Types /\ SessionsInv /\ EnvelopesInv
    BY DEF SessionInv
  <1>2. ASSUME NEW o \in Origins, NEW x \in Party,
               NEW j \in 1 .. Len(channel'[x]), SealedIn(channel'[x][j], o)
        PROVE  InUse(o)
    <2>1. PICK k \in 1 .. Len(channel[x]) : channel'[x][j] = channel[x][k]
      BY DEF Arrival, Thinned
    <2>. QED BY <1>2, <2>1 DEF InUse
  <1>3. ASSUME NEW o \in Origins, NEW x \in Party, Holds(x, o)'
        PROVE  InUse(o)
    <2>1. CASE session'[x] = session[x]
      BY <1>3, <2>1 DEF Holds, HasSession, SharedSecret, InUse
    <2>2. CASE x = p /\ Opened(p, e)
      <3>1. PICK u \in Origins : Derived(session[p].ratchet, SecretOf(u)) /\ InUse(u)
        BY <1>1, <2>2, SessionOrigin DEF Opened
      <3>2. Derived(session'[p].ratchet, SecretOf(u))
        BY <2>2, <3>1 DEF Opened, Continues
      <3>3. SecretOf(u) = SecretOf(o)
        BY <1>3, <2>2, <3>2 DEF Derived, Holds, SharedSecret
      <3>. QED BY <3>1, <3>3, SecretTells
    <2>3. CASE x = p /\ \E u \in Origins : InUse(u) /\ Adopts(p, e, u)
      <3>1. PICK u \in Origins : InUse(u) /\ Adopts(p, e, u)
        BY <2>3, SMTT(30)
      <3>2. SecretOf(u) = SecretOf(o)
        BY <1>3, <2>3, <3>1 DEF Derived, Holds, SharedSecret, Adopts
      <3>. QED BY <3>1, <3>2, SecretTells
    <2>4. x = p \/ x = Peer(p)
      BY PartyFacts
    <2>. QED BY <2>1, <2>2, <2>3, <2>4 DEF Arrival, Effect, Refused, Opened, Adopts
  <1>4. ASSUME NEW o \in Origins, InUse(o)'
        PROVE  InUse(o)
    <2>1. PICK x \in Party : \/ Holds(x, o)'
                             \/ \E j \in 1 .. Len(channel'[x]) : SealedIn(channel'[x][j], o)
      BY <1>4 DEF InUse, SealedIn
    <2>. QED BY <1>2, <1>3, <2>1, SMTT(30)
  <1>. QED BY <1>4

(* An arrival preserves the types.                                         *)
LEMMA ArrivalTypes ==
    ASSUME SessionInv, NEW p \in Party, NEW i, NEW e, Arrival(p, i, e)
    PROVE  Types'
  <1>. USE DEF Arrival
  <1>1. Types /\ EnvelopesInv
    BY DEF SessionInv
  <1>2. /\ UNCHANGED <<way, published, pool, usedBaseKeys, generation, posted>>
        /\ Booked
        /\ channel' \in [Party -> Seq(Envelopes)]
    OBVIOUS
  <1>3. /\ i \in 1 .. Len(channel[p])
        /\ Plaintext(e) \in 1 .. posted[Peer(p)]
    BY <1>1, EnvelopeOrigin DEF Resembles
  <1>4. posted[Peer(p)] \in 0 .. way.posts /\ way.posts \in Nat
    BY <1>1, PartyFacts, SessionAssumption DEF Types
  <1>5. /\ pinned' \in [Party -> {NotPinned} \cup Keys]
        /\ oneTime' \in [Party -> SUBSET PreKeyIds]
    <2>1. CASE UNCHANGED <<pinned, oneTime>>
      BY <1>1, <2>1 DEF Types
    <2>2. CASE \E o \in Origins : Adopts(p, e, o)
      <3>1. PICK o \in Origins : Adopts(p, e, o)
        BY <2>2
      <3>2. IdentityKey(Peer(p), o.gen) \in Keys
        BY PartyFacts, KeysAreKeys DEF Origins
      <3>. QED BY <1>1, <3>1, <3>2 DEF Adopts, Types
    <2>. QED BY <2>1, <2>2 DEF Effect, Refused, Opened
  <1>6. /\ handed' \in [Party -> Seq(1 .. way.posts)]
        /\ \A x \in Party : \A j \in 1 .. Len(handed'[x]) : handed'[x][j] \in 1 .. posted[Peer(x)]
    <2>1. CASE handed' = handed
      BY <1>1, <2>1 DEF Types
    <2>2. CASE handed' = [handed EXCEPT ![p] = Append(@, Plaintext(e))]
      <3>. DEFINE h == Append(handed[p], Plaintext(e))
      <3>1. Plaintext(e) \in 1 .. way.posts
        BY <1>3, <1>4
      <3>2. handed \in [Party -> Seq(1 .. way.posts)] /\ handed[p] \in Seq(1 .. way.posts)
        BY <1>1 DEF Types
      <3>3. /\ h \in Seq(1 .. way.posts) /\ Len(h) = Len(handed[p]) + 1
            /\ Len(handed[p]) \in Nat
            /\ \A j \in 1 .. Len(handed[p]) : h[j] = handed[p][j]
            /\ h[Len(handed[p]) + 1] = Plaintext(e)
        BY <3>1, <3>2, AppendProperties, LenProperties
      <3>4. handed' = [handed EXCEPT ![p] = h]
        BY <2>2
      <3>. HIDE DEF h
      <3>5. \A j \in 1 .. Len(h) : h[j] \in 1 .. posted[Peer(p)]
        <4>1. \A j \in 1 .. Len(handed[p]) : handed[p][j] \in 1 .. posted[Peer(p)]
          BY <1>1 DEF Types
        <4>2. \A j \in 1 .. Len(h) : j \in 1 .. Len(handed[p]) \/ j = Len(handed[p]) + 1
          BY <3>3
        <4>. QED BY <1>3, <3>3, <4>1, <4>2
      <3>6. \A x \in Party : handed'[x] = IF x = p THEN h ELSE handed[x]
        BY <3>2, <3>4
      <3>7. handed' \in [Party -> Seq(1 .. way.posts)]
        BY <3>2, <3>3, <3>4
      <3>. QED BY <1>1, <3>5, <3>6, <3>7 DEF Types
    <2>. QED BY <2>1, <2>2 DEF Effect, Refused, Opened, Adopts
  <1>7. \A x \in Party : \A j \in 1 .. Len(channel'[x]) :
          Plaintext(channel'[x][j]) \in 1 .. posted[Peer(x)]
    <2>. SUFFICES ASSUME NEW x \in Party, NEW j \in 1 .. Len(channel'[x])
                  PROVE  Plaintext(channel'[x][j]) \in 1 .. posted[Peer(x)]
      OBVIOUS
    <2>1. PICK k \in 1 .. Len(channel[x]) : channel'[x][j] = channel[x][k]
      BY DEF Thinned
    <2>. QED BY <1>1, <2>1 DEF Types
  <1>8. \A x \in Party : \A j, l \in 1 .. Len(channel'[x]) :
          j < l => Plaintext(channel'[x][j]) # Plaintext(channel'[x][l])
    <2>. SUFFICES ASSUME NEW x \in Party,
                         NEW j \in 1 .. Len(channel'[x]), NEW l \in 1 .. Len(channel'[x]), j < l
                  PROVE  Plaintext(channel'[x][j]) # Plaintext(channel'[x][l])
      OBVIOUS
    <2>1. PICK k \in 1 .. Len(channel[x]), n \in 1 .. Len(channel[x]) :
            k < n /\ channel'[x][j] = channel[x][k] /\ channel'[x][l] = channel[x][n]
      BY DEF Thinned
    <2>. QED BY <1>1, <2>1 DEF Types
  <1>. QED BY <1>1, <1>2, <1>5, <1>6, <1>7, <1>8 DEF Types, Booked, Plaintext
(* An arrival leaves each session with its origin.                         *)
LEMMA ArrivalSessions ==
    ASSUME SessionInv, NEW p \in Party, NEW i, NEW e, Arrival(p, i, e)
    PROVE  SessionsInv'
  <1>1. Types /\ SessionsInv
    BY DEF SessionInv
  <1>2. generation' = generation
    BY DEF Arrival
  <1>3. ASSUME NEW x \in Party, HasSession(x)', session'[x] = session[x],
               pinned'[x] = pinned[x], oneTime'[x] = oneTime[x]
        PROVE  /\ SoundRecord(session'[x])
               /\ session'[x].theirIdentityKey = pinned'[x]
               /\ \E o \in Origins : /\ Derived(session'[x].ratchet, SecretOf(o))
                                     /\ Own(x, o)' \/ Adopted(x, o)'
    BY <1>1, <1>2, <1>3 DEF SessionsInv, HasSession, Own, Adopted
  <1>4. CASE Refused(p)
    BY <1>3, <1>4 DEF Refused, SessionsInv
  <1>5. \A x \in Party : x = p \/ x = Peer(p)
    BY PartyFacts
  <1>6. CASE Opened(p, e)
    <2>1. PICK o \in Origins : /\ Derived(session[p].ratchet, SecretOf(o))
                               /\ Own(p, o) \/ Adopted(p, o)
      BY <1>1, <1>6 DEF Opened, SessionsInv
    <2>2. /\ Continues(session[p], session'[p]) /\ pinned' = pinned /\ oneTime' = oneTime
          /\ session[p].theirIdentityKey = pinned[p]
      BY <1>1, <1>6 DEF Opened, SessionsInv
    <2>3. Own(p, o) => Own(p, o)'
      BY <1>2, <2>2 DEF Own, Continues, IsPending
    <2>4. Adopted(p, o) => Adopted(p, o)'
      BY <1>2, <2>2 DEF Adopted, Continues, IsPending
    <2>5. Derived(session'[p].ratchet, SecretOf(o)) /\ SoundRecord(session'[p])
          /\ session'[p].theirIdentityKey = pinned'[p]
      BY <2>1, <2>2 DEF Continues
    <2>6. session'[Peer(p)] = session[Peer(p)]
      BY <1>6 DEF Opened
    <2>. QED BY <1>3, <1>5, <2>1, <2>2, <2>3, <2>4, <2>5, <2>6 DEF SessionsInv
  <1>7. CASE \E o \in Origins : Adopts(p, e, o)
    <2>1. PICK o \in Origins : Adopts(p, e, o)
      BY <1>7
    <2>2. pinned'[p] = IdentityKey(Peer(p), o.gen) /\ pinned'[Peer(p)] = pinned[Peer(p)]
      BY <1>1, <2>1, PartyFacts DEF Adopts, Types
    <2>3. /\ o.preKeyId \notin oneTime'[p] /\ oneTime'[Peer(p)] = oneTime[Peer(p)]
      BY <1>1, <2>1, PartyFacts DEF Adopts, Types
    <2>4. Adopted(p, o)'
      BY <1>2, <2>1, <2>2, <2>3 DEF Adopts, Adopted
    <2>5. /\ SoundRecord(session'[p]) /\ Derived(session'[p].ratchet, SecretOf(o))
          /\ session'[p].theirIdentityKey = pinned'[p]
          /\ session'[Peer(p)] = session[Peer(p)]
      BY <2>1, <2>2 DEF Adopts
    <2>. QED BY <1>3, <1>5, <2>2, <2>3, <2>4, <2>5 DEF SessionsInv
  <1>. QED BY <1>4, <1>6, <1>7 DEF Arrival, Effect

(* An arrival pins an identity the peer has had.                           *)
LEMMA ArrivalPins ==
    ASSUME SessionInv, NEW p \in Party, NEW i, NEW e, Arrival(p, i, e)
    PROVE  PinsInv'
  <1>1. Types /\ PinsInv /\ OriginsInv /\ generation' = generation
    BY DEF SessionInv, Arrival
  <1>2. CASE Refused(p)
    BY <1>1, <1>2 DEF Refused, PinsInv, HasSession
  <1>3. \A x \in Party : x = p \/ x = Peer(p)
    BY PartyFacts
  <1>4. CASE Opened(p, e)
    <2>1. HasSession(p) /\ pinned' = pinned /\ session'[Peer(p)] = session[Peer(p)]
          /\ session'[p] \in Records
      BY <1>4 DEF Opened, Continues
    <2>2. session'[p] # NoSession
      BY <2>1, RecordsArePresent
    <2>. QED BY <1>1, <1>3, <2>1, <2>2 DEF PinsInv, HasSession
  <1>5. CASE \E o \in Origins : InUse(o) /\ Adopts(p, e, o)
    <2>1. PICK o \in Origins : InUse(o) /\ Adopts(p, e, o)
      BY <1>5
    <2>2. pinned'[p] = IdentityKey(Peer(p), o.gen) /\ pinned'[Peer(p)] = pinned[Peer(p)]
      BY <1>1, <2>1, PartyFacts DEF Adopts, Types
    <2>3. session'[p] # NoSession /\ session'[Peer(p)] = session[Peer(p)]
      BY <2>1, RecordsArePresent DEF Adopts
    <2>4. o.gen <= generation[Peer(p)] /\ o.gen \in Nat
      BY <1>1, <2>1 DEF OriginsInv, Adopts, Origins
    <2>5. generation[Peer(p)] \in Nat
      BY <1>1, PartyFacts DEF Types
    <2>6. o.gen \in 0 .. generation[Peer(p)]
      BY <2>4, <2>5
    <2>. QED BY <1>1, <1>3, <2>2, <2>3, <2>6 DEF PinsInv, HasSession
  <1>. QED BY <1>2, <1>4, <1>5 DEF Arrival, Effect

(* The envelopes left after an arrival are those there were.               *)
LEMMA ArrivalEnvelopes ==
    ASSUME SessionInv, NEW p \in Party, NEW i, NEW e, Arrival(p, i, e)
    PROVE  EnvelopesInv'
  <1>1. EnvelopesInv
    BY DEF SessionInv
  <1>2. ASSUME NEW x \in Party, NEW j \in 1 .. Len(channel'[x])
        PROVE  \E o \in Origins :
                  /\ SealedIn(channel'[x][j], o)
                  /\ channel'[x][j].type = "PreKey" =>
                        /\ o.by = Peer(x)
                        /\ channel'[x][j].baseKey = o.baseKey
                        /\ channel'[x][j].preKeyId = o.preKeyId
                        /\ channel'[x][j].identityKey = IdentityKey(Peer(x), o.gen)
    <2>1. PICK k \in 1 .. Len(channel[x]) : channel'[x][j] = channel[x][k]
      BY DEF Arrival, Thinned
    <2>. QED BY <1>1, <2>1 DEF EnvelopesInv
  <1>. QED BY <1>2 DEF EnvelopesInv, SealedIn

(* An arrival keeps the sessions in use apart.                             *)
LEMMA ArrivalOrigins ==
    ASSUME SessionInv, NEW p \in Party, NEW i, NEW e, Arrival(p, i, e)
    PROVE  OriginsInv'
  <1>1. OriginsInv /\ UNCHANGED <<usedBaseKeys, generation, published, pool>>
    BY DEF SessionInv, Arrival
  <1>2. \A o \in Origins : InUse(o)' => InUse(o)
    BY ArrivalUsesKnown
  <1>3. \A x \in Party : HasSession(x) => HasSession(x)'
    <2>1. \A x \in Party : x = p \/ x = Peer(p)
      BY PartyFacts
    <2>2. CASE Refused(p)
      BY <2>2 DEF Refused, HasSession
    <2>3. CASE ~Refused(p)
      <3>1. session'[p] \in Records /\ session'[Peer(p)] = session[Peer(p)]
        BY <2>3 DEF Arrival, Effect, Opened, Continues, Adopts
      <3>. QED BY <2>1, <3>1, RecordsArePresent DEF HasSession
    <2>. QED BY <2>2, <2>3
  <1>4. ASSUME NEW o \in Origins, InUse(o)'
        PROVE  /\ o.baseKey \in usedBaseKeys'
               /\ o.gen <= generation'[o.by]
               /\ o.peerGen <= published'[Peer(o.by)]
               /\ o.gen = generation'[o.by] => HasSession(o.by)'
               /\ o.peerGen = published'[Peer(o.by)] => o.preKeyId \notin pool'[Peer(o.by)]
    <2>1. o.by \in Party
      BY DEF Origins
    <2>2. InUse(o)
      BY <1>2, <1>4
    <2>. QED BY <1>1, <1>3, <2>1, <2>2 DEF OriginsInv
  <1>5. ASSUME NEW o \in Origins, NEW u \in Origins, InUse(o)', InUse(u)',
               o.baseKey = u.baseKey \/ (o.by = u.by /\ o.gen = u.gen)
        PROVE  o = u
    BY <1>1, <1>2, <1>5 DEF OriginsInv
  <1>. QED BY <1>4, <1>5 DEF OriginsInv
(* What an arrival hands over has not been handed over before.             *)
LEMMA ArrivalHandsOverOnce ==
    ASSUME SessionInv, NEW p \in Party, NEW i, NEW e, Arrival(p, i, e), ~Refused(p)
    PROVE  Plaintext(e) \notin ToSet(handed[p])
  <1>1. Types /\ SessionsInv /\ EnvelopesInv /\ HandedInv
    BY DEF SessionInv
  <1>2. i \in 1 .. Len(channel[p]) /\ Resembles(e, channel[p][i])
    BY DEF Arrival
  <1>3. SUFFICES ~Gone(p, channel[p][i])
    BY <1>1, <1>2 DEF HandedInv, Resembles
  <1>4. CASE Opened(p, e)
    <2>1. PICK o \in Origins : Holds(p, o)
      BY <1>1, <1>4, SessionOrigin DEF Opened
    <2>2. SealedIn(channel[p][i], o)
      BY <1>2, <1>4, <2>1 DEF Opened, SealedIn, Holds, Resembles
    <2>3. ~Spent(session[p].ratchet, channel[p][i].message.seal.key)
      BY <1>2, <1>4 DEF Opened, SpendsKey, Resembles
    <2>. QED BY <2>1, <2>2, <2>3 DEF Gone
  <1>5. CASE \E o \in Origins : SealedIn(channel[p][i], o) /\ Adopts(p, e, o)
    <2>1. PICK o \in Origins : SealedIn(channel[p][i], o) /\ Adopts(p, e, o)
      BY <1>5
    <2>2. ~Holds(p, o)
      <3>. SUFFICES ASSUME Holds(p, o)  PROVE FALSE
        OBVIOUS
      <3>1. HasSession(p) /\ (Own(p, o) \/ Adopted(p, o))
        BY <1>1, SessionOf
      <3>2. Adopted(p, o)
        BY <2>1, <3>1, PartyFacts DEF Own, Adopts
      <3>3. session[p].theirIdentityKey = pinned[p]
        BY <1>1, <3>1 DEF SessionsInv
      <3>4. IsKnownHandshake(p, e)
        BY <2>1, <3>1, <3>2, <3>3 DEF IsKnownHandshake, Adopted, Adopts, HasSession
      <3>. QED BY <2>1, <3>4 DEF Adopts
    <2>3. o.by # p /\ ~(o.peerGen < generation[p])
      <3>1. generation[p] \in Nat
        BY <1>1 DEF Types
      <3>. QED BY <2>1, <3>1, PartyFacts DEF Adopts
    <2>. QED BY <2>1, <2>2, <2>3 DEF Gone
  <1>. QED BY <1>4, <1>5 DEF Arrival, Effect

(* A message that is gone for its addressee stays gone.                    *)
LEMMA ArrivalKeepsGone ==
    ASSUME SessionInv, NEW p \in Party, NEW i, NEW e, Arrival(p, i, e),
           NEW x \in Party, NEW f \in Envelopes, Gone(x, f),
           \E v \in Origins : SealedIn(f, v) /\ InUse(v)
    PROVE  Gone(x, f)'
  <1>1. Types /\ SessionsInv /\ EnvelopesInv /\ OriginsInv
    BY DEF SessionInv
  <1>2. generation' = generation
    BY DEF Arrival
  <1>3. ASSUME session'[x] = session[x]
        PROVE  Gone(x, f)'
    BY <1>2, <1>3 DEF Gone, Holds, HasSession, SharedSecret, SealedIn
  <1>4. f.message.seal.key \in ChainKeys(Secrets)
    BY DEF Envelopes, Sealed, Messages
  <1>5. CASE x = p /\ Opened(p, e)
    <2>1. PICK u \in Origins : Derived(session[p].ratchet, SecretOf(u)) /\ Holds(p, u)
      BY <1>1, <1>5, SessionOrigin DEF Opened
    <2>2. Continues(session[p], session'[p])
      BY <1>5 DEF Opened
    <2>3. \A o \in Origins : Holds(p, o)' <=> Holds(p, o)
      <3>1. SharedSecret(p)' = SharedSecret(p)
        BY <2>1, <2>2 DEF Continues, Derived, SharedSecret
      <3>2. HasSession(p) /\ HasSession(p)'
        BY <1>5, <2>2, RecordsArePresent DEF Opened, Continues, HasSession
      <3>. QED BY <3>1, <3>2 DEF Holds
    <2>4. Spent(session[p].ratchet, f.message.seal.key)
            => Spent(session'[p].ratchet, f.message.seal.key)
      BY <1>4, <2>2 DEF Continues, Follows
    <2>. QED BY <1>2, <1>5, <2>3, <2>4 DEF Gone, SealedIn
  <1>6. CASE x = p /\ \E o \in Origins : SealedIn(channel[p][i], o) /\ InUse(o) /\ Adopts(p, e, o)
    <2>1. PICK o \in Origins : SealedIn(channel[p][i], o) /\ InUse(o) /\ Adopts(p, e, o)
      BY <1>6
    <2>. SUFFICES ASSUME NEW v \in Origins, SealedIn(f, v)
                  PROVE  IF Holds(p, v)'
                           THEN Spent(session'[p].ratchet, f.message.seal.key)
                           ELSE v.by = p \/ v.peerGen < generation'[p]
      BY <1>6 DEF Gone, SealedIn
    <2>2. InUse(v)
      BY OneOrigin
    <2>3. Holds(p, v)' => v = o
      <3>1. session'[p].ratchet.rootKey[1] = SecretOf(o)
        BY <2>1 DEF Adopts, Derived
      <3>. QED BY <3>1, SecretTells DEF Holds, SharedSecret
    <2>4. v # o
      <3>. SUFFICES ASSUME v = o  PROVE FALSE
        OBVIOUS
      <3>1. ~Holds(p, o)
        <4>. SUFFICES ASSUME Holds(p, o)  PROVE FALSE
          OBVIOUS
        <4>1. HasSession(p) /\ (Own(p, o) \/ Adopted(p, o))
          BY <1>1, SessionOf
        <4>2. Adopted(p, o)
          BY <2>1, <4>1, PartyFacts DEF Own, Adopts
        <4>3. session[p].theirIdentityKey = pinned[p]
          BY <1>1, <4>1 DEF SessionsInv
        <4>4. IsKnownHandshake(p, e)
          BY <2>1, <4>1, <4>2, <4>3 DEF IsKnownHandshake, Adopted, Adopts, HasSession
        <4>. QED BY <2>1, <4>4 DEF Adopts
      <3>2. o.by = p \/ o.peerGen < generation[p]
        BY <1>6, <3>1 DEF Gone
      <3>3. generation[p] \in Nat
        BY <1>1 DEF Types
      <3>. QED BY <2>1, <3>2, <3>3, PartyFacts DEF Adopts
    <2>5. v.by = p \/ v.peerGen < generation[p]
      <3>1. CASE ~Holds(p, v)
        BY <1>6, <3>1 DEF Gone
      <3>2. CASE Holds(p, v)
        <4>1. Own(p, v) \/ Adopted(p, v)
          BY <1>1, <3>2, SessionOf
        <4>2. CASE Own(p, v)
          BY <4>2 DEF Own
        <4>3. CASE Adopted(p, v)
          <5>1. IdentityKey(Peer(p), v.gen) = IdentityKey(Peer(p), o.gen)
            <6>1. pinned[p] = IdentityKey(Peer(p), v.gen)
              BY <4>3 DEF Adopted
            <6>2. pinned[p] # NotPinned
              BY <6>1 DEF IdentityKey, NotPinned
            <6>. QED BY <2>1, <6>1, <6>2 DEF Adopts
          <5>2. v.by = o.by /\ v.gen = o.gen
            BY <2>1, <4>3, <5>1, KeysTell DEF Adopts, Adopted
          <5>3. v = o
            BY <1>1, <2>1, <2>2, <5>2 DEF OriginsInv
          <5>. QED BY <2>4, <5>3
        <4>. QED BY <4>1, <4>2, <4>3
      <3>. QED BY <3>1, <3>2
    <2>. QED BY <1>2, <2>3, <2>4, <2>5
  <1>7. x = p \/ x = Peer(p)
    BY PartyFacts
  <1>. QED BY <1>3, <1>5, <1>6, <1>7 DEF Arrival, Effect, Refused, Opened, Adopts

(* What is handed over cannot be opened again after an arrival either.     *)
LEMMA ArrivalHanded ==
    ASSUME SessionInv, NEW p \in Party, NEW i, NEW e, Arrival(p, i, e)
    PROVE  HandedInv'
  <1>1. Types /\ SessionsInv /\ EnvelopesInv /\ HandedInv
    BY DEF SessionInv
  <1>2. i \in 1 .. Len(channel[p]) /\ Resembles(e, channel[p][i])
    BY DEF Arrival
  <1>. SUFFICES ASSUME NEW x \in Party, NEW j \in 1 .. Len(channel'[x]),
                       Plaintext(channel'[x][j]) \in ToSet(handed'[x]),
                       NEW g, g = channel'[x][j]
                PROVE  Gone(x, g)'
    BY DEF HandedInv, Plaintext, Gone, SealedIn, ToSet
  <1>3. PICK k \in 1 .. Len(channel[x]) : g = channel[x][k]
    BY DEF Arrival, Thinned
  <1>4. g \in Envelopes /\ \E v \in Origins : SealedIn(g, v) /\ InUse(v)
    BY <1>1, <1>3, EnvelopeOrigin
  <1>5. CASE Plaintext(g) \in ToSet(handed[x])
    <2>1. Gone(x, g)
      BY <1>1, <1>3, <1>5 DEF HandedInv
    <2>. QED BY <1>4, <2>1, ArrivalKeepsGone
  <1>6. CASE Plaintext(g) \notin ToSet(handed[x])
    <2>1. x = p /\ handed' = [handed EXCEPT ![p] = Append(@, Plaintext(e))] /\ ~Refused(p)
      BY <1>1, <1>6 DEF Arrival, Effect, Refused, Opened, Adopts, Types
    <2>2. Plaintext(g) = Plaintext(e)
      <3>1. handed[p] \in Seq(1 .. way.posts)
        BY <1>1 DEF Types
      <3>2. handed'[p] = Append(handed[p], Plaintext(e))
        BY <1>1, <2>1 DEF Types
      <3>3. \A y : y \in ToSet(Append(handed[p], Plaintext(e)))
                    => y \in ToSet(handed[p]) \/ y = Plaintext(e)
        BY <3>1 DEF ToSet
      <3>. QED BY <1>6, <2>1, <3>2, <3>3
    <2>3. k = i
      <3>1. Plaintext(channel[p][k]) = Plaintext(channel[p][i])
        BY <1>2, <1>3, <2>1, <2>2 DEF Resembles
      <3>2. \A n, l \in 1 .. Len(channel[p]) :
              n < l => Plaintext(channel[p][n]) # Plaintext(channel[p][l])
        BY <1>1 DEF Types
      <3>3. k < i \/ i < k \/ k = i
        BY <1>2, <1>3, <2>1
      <3>. QED BY <1>2, <1>3, <2>1, <3>1, <3>2, <3>3
    <2>4. g.message.seal.key = e.message.seal.key
      BY <1>2, <1>3, <2>1, <2>3 DEF Resembles
    <2>. SUFFICES ASSUME NEW o \in Origins, SealedIn(g, o)
                  PROVE  Holds(p, o)' /\ Spent(session'[p].ratchet, g.message.seal.key)
      BY <2>1 DEF Gone, SealedIn
    <2>5. CASE Opened(p, e)
      <3>1. PICK u \in Origins : Derived(session[p].ratchet, SecretOf(u)) /\ Holds(p, u)
        BY <1>1, <2>5, SessionOrigin DEF Opened
      <3>2. Derived(session'[p].ratchet, SecretOf(u)) /\ session'[p] \in Records
        BY <2>5, <3>1 DEF Opened, Continues
      <3>3. SecretOf(o) = SecretOf(u)
        BY <2>4, <2>5, <3>1 DEF Opened, Holds, SealedIn
      <3>4. Holds(p, o)'
        BY <3>2, <3>3, RecordsArePresent DEF Holds, HasSession, SharedSecret, Derived
      <3>. QED BY <2>4, <2>5, <3>4 DEF Opened, SpendsKey
    <2>6. CASE \E u \in Origins : Adopts(p, e, u)
      <3>1. PICK u \in Origins : Adopts(p, e, u)
        BY <2>6
      <3>2. SecretOf(o) = SecretOf(u)
        BY <2>4, <3>1 DEF Adopts, SealedIn
      <3>3. Holds(p, o)'
        BY <3>1, <3>2, RecordsArePresent DEF Adopts, Holds, HasSession, SharedSecret, Derived
      <3>. QED BY <2>4, <3>1, <3>3 DEF Adopts
    <2>. QED BY <2>1, <2>5, <2>6 DEF Arrival, Effect
  <1>. QED BY <1>5, <1>6
(* Before a reload a user has started at most one session.                 *)
LEMMA StartedOnce ==
    ASSUME Types, OriginsInv, NoReload, NEW p \in Party,
           NEW o \in Origins, NEW u \in Origins, InUse(o), InUse(u), o.by = p, u.by = p
    PROVE  o = u /\ HasSession(p)
  <1>1. o.gen \in Nat /\ u.gen \in Nat /\ generation[p] = 0
    BY DEF Origins, NoReload
  <1>2. o.gen <= generation[p] /\ u.gen <= generation[p]
    BY DEF OriginsInv
  <1>3. o.gen = 0 /\ u.gen = 0
    BY <1>1, <1>2
  <1>. QED BY <1>1, <1>3 DEF OriginsInv

(* Whose session a user holds tells its role.                              *)
LEMMA RoleOfOrigin ==
    ASSUME Types, SessionsInv, NEW p \in Party, NEW o \in Origins, Holds(p, o)
    PROVE  /\ Initiator(p) <=> o.by = p
           /\ Responder(p) <=> o.by = Peer(p)
           /\ Initiator(p) \/ Responder(p)
           /\ InUse(o)
  <1>1. HasSession(p) /\ (Own(p, o) \/ Adopted(p, o))
    BY SessionOf
  <1>2. o.baseKey # None
    BY SessionAssumption DEF Origins, None
  <1>. QED BY <1>1, <1>2, PartyFacts DEF Own, Adopted, Initiator, Responder, InUse

(* A message is sealed in a session one of the users started.              *)
LEMMA SealedByOne ==
    ASSUME NEW o \in Origins, NEW e, SealedIn(e, o)
    PROVE  \A p : SealedBy(e, p) <=> o.by = p
  BY OneOrigin DEF SealedBy

(* An arrival keeps the users together.                                    *)
LEMMA ArrivalTogether ==
    ASSUME SessionInv, KeepsOrder, NoReload, NEW p \in Party, NEW i, NEW e, Arrival(p, i, e)
    PROVE  TogetherInv'
  <1>. DEFINE q == Peer(p)
  <1>1. Types /\ SessionsInv /\ EnvelopesInv /\ OriginsInv /\ TogetherInv
    BY DEF SessionInv
  <1>2. q \in Party /\ q # p /\ Peer(q) = p /\ (\A x \in Party : x = p \/ x = q)
    BY PartyFacts
  <1>3. i = 1 /\ i \in 1 .. Len(channel[p]) /\ Resembles(e, channel[p][i])
    BY DEF Arrival
  <1>4. \A o \in Origins : InUse(o)' => InUse(o)
    BY ArrivalUsesKnown
  <1>5. \A x \in Party : Thinned(channel'[x], channel[x])
    BY DEF Arrival
  <1>6. \A f, x : SealedBy(f, x)' <=> SealedBy(f, x)
    BY DEF SealedBy, SealedIn
  <1>. HIDE DEF q
  (* Who is sealed by whom in what is left of the channels.                *)
  <1>7. ASSUME NEW x \in Party, NEW y \in Party, NEW j \in 1 .. Len(channel'[x]),
               \A k \in 1 .. Len(channel[x]) : SealedBy(channel[x][k], y)
        PROVE  SealedBy(channel'[x][j], y)
    BY <1>5, <1>7 DEF Thinned
  <1>8. ASSUME NEW x \in Party, NEW j \in 1 .. Len(channel'[x]), SealedBy(channel'[x][j], x)
        PROVE  /\ Responder(Peer(x))
               /\ \A l \in j .. Len(channel'[x]) : SealedBy(channel'[x][l], x)
    <2>1. Responder(Peer(x))
      <3>1. PICK k \in 1 .. Len(channel[x]) : channel'[x][j] = channel[x][k]
        BY <1>5 DEF Thinned
      <3>2. SealedBy(channel[x][k], x)
        BY <1>8, <3>1
      <3>. QED BY <1>1, <3>2 DEF TogetherInv
    <2>2. ASSUME NEW l \in 1 .. Len(channel'[x]), j < l
          PROVE  SealedBy(channel'[x][l], x)
      <3>1. PICK k \in 1 .. Len(channel[x]), n \in 1 .. Len(channel[x]) :
              k < n /\ channel'[x][j] = channel[x][k] /\ channel'[x][l] = channel[x][n]
        BY <1>5, <2>2 DEF Thinned
      <3>2. SealedBy(channel[x][k], x)
        BY <1>8, <3>1
      <3>3. n \in k .. Len(channel[x])
        BY <3>1
      <3>4. SealedBy(channel[x][n], x)
        BY <1>1, <3>2, <3>3 DEF TogetherInv
      <3>. QED BY <3>1, <3>4
    <2>3. \A l \in j .. Len(channel'[x]) : l = j \/ (l \in 1 .. Len(channel'[x]) /\ j < l)
      BY SMTT(30)
    <2>. QED BY <1>8, <2>1, <2>2, <2>3
  <1>. DEFINE Roles(x) ==
                /\ Initiator(x)' <=> Initiator(x)
                /\ Responder(x)' <=> Responder(x)
  <1>9. ASSUME \A x \in Party : Roles(x),
               \A x \in Party : Initiator(x) /\ ~IsPending(session'[x]) =>
                  /\ Responder(Peer(x))
                  /\ \A j \in 1 .. Len(channel'[x]) : SealedBy(channel'[x][j], x)
        PROVE  TogetherInv'
    <2>1. \A x \in Party : Peer(x) \in Party
      BY PartyFacts
    <2>2. ASSUME NEW x \in Party
          PROVE  Responder(x)' => Initiator(Peer(x))'
      BY <1>1, <1>9, <2>1 DEF TogetherInv
    <2>3. ASSUME NEW x \in Party, NEW j \in 1 .. Len(channel'[x]), SealedBy(channel'[x][j], x)
          PROVE  /\ Responder(Peer(x))'
                 /\ \A l \in j .. Len(channel'[x]) : SealedBy(channel'[x][l], x)
      BY <1>8, <1>9, <2>1, <2>3
    <2>4. ASSUME NEW x \in Party, NEW o \in Origins, NEW u \in Origins,
                 Responder(x)', InUse(o)', InUse(u)', o.by = Peer(x), u.by = x
          PROVE  o.baseKey < u.baseKey
      BY <1>1, <1>4, <1>9, <2>4 DEF TogetherInv
    <2>5. ASSUME NEW x \in Party, Initiator(x)', ~IsPending(session'[x])
          PROVE  /\ Responder(Peer(x))'
                 /\ \A j \in 1 .. Len(channel'[x]) : SealedBy(channel'[x][j], x)
      BY <1>9, <2>1, <2>5
    <2>. QED BY <2>2, <2>3, <2>4, <2>5 DEF TogetherInv, SealedBy, SealedIn, IsPending
  <1>10. CASE Refused(p)
    <2>1. \A x \in Party : Roles(x)
      BY <1>10 DEF Refused, Initiator, Responder, HasSession
    <2>2. session' = session
      BY <1>10 DEF Refused
    <2>. QED BY <1>1, <1>7, <1>9, <2>1, <2>2 DEF TogetherInv
  <1>11. CASE Opened(p, e)
    <2>1. /\ session'[q] = session[q] /\ HasSession(p) /\ session'[p] \in Records
          /\ session'[p].theirBaseKey = session[p].theirBaseKey
          /\ session'[p].pendingPreKey = session[p].pendingPreKey \/ ~IsPending(session'[p])
      BY <1>11 DEF Opened, Continues, q
    <2>2. Roles(p) /\ Roles(q)
      BY <2>1, RecordsArePresent DEF Initiator, Responder, HasSession
    <2>3. PICK o \in Origins : Holds(p, o)
      BY <1>1, <1>11, SessionOrigin DEF Opened
    <2>4. SealedIn(channel[p][1], o)
      BY <1>3, <1>11, <2>3 DEF Opened, Holds, SealedIn, Resembles
    <2>5. ASSUME Initiator(p)
          PROVE  /\ Responder(q)
                 /\ \A j \in 1 .. Len(channel'[p]) : SealedBy(channel'[p][j], p)
      <3>1. SealedBy(channel[p][1], p)
        BY <1>1, <2>3, <2>4, <2>5, RoleOfOrigin, SealedByOne
      <3>2. Responder(q) /\ \A k \in 1 .. Len(channel[p]) : SealedBy(channel[p][k], p)
        BY <1>1, <1>3, <3>1 DEF TogetherInv, q
      <3>. QED BY <1>7, <3>2
    <2>6. ASSUME Initiator(q), ~IsPending(session'[q])
          PROVE  /\ Responder(p)
                 /\ \A j \in 1 .. Len(channel'[q]) : SealedBy(channel'[q][j], q)
      <3>1. Responder(p) /\ \A k \in 1 .. Len(channel[q]) : SealedBy(channel[q][k], q)
        BY <1>1, <1>2, <2>1, <2>6 DEF TogetherInv
      <3>. QED BY <1>2, <1>7, <3>1
    <2>7. \A x \in Party : Roles(x)
      BY <1>2, <2>2
    <2>8. \A x \in Party : Initiator(x) /\ ~IsPending(session'[x]) =>
            /\ Responder(Peer(x))
            /\ \A j \in 1 .. Len(channel'[x]) : SealedBy(channel'[x][j], x)
      BY <1>2, <2>5, <2>6, SMTT(30) DEF q
    <2>. QED BY <1>9, <2>7, <2>8
  <1>12. CASE \E o \in Origins : SealedIn(channel[p][i], o) /\ InUse(o) /\ Adopts(p, e, o)
    <2>1. PICK o \in Origins : SealedIn(channel[p][i], o) /\ InUse(o) /\ Adopts(p, e, o)
      BY <1>12
    <2>2. /\ o.by = q /\ o.peerGen = generation[p] /\ e.baseKey = o.baseKey
          /\ ~OurHandshakeWins(p, e)
          /\ session'[p] \in Records /\ session'[p].theirBaseKey = o.baseKey
          /\ session'[q] = session[q]
      BY <2>1 DEF Adopts, q
    <2>3. o.baseKey # None /\ o.baseKey \in Nat
      BY SessionAssumption DEF Origins, None
    <2>4. Responder(p)' /\ ~Initiator(p)'
      BY <2>2, <2>3, RecordsArePresent DEF Responder, Initiator, HasSession
    <2>5. Roles(q)
      BY <2>2 DEF Initiator, Responder, HasSession
    <2>6. SealedBy(channel[p][i], q) /\ ~SealedBy(channel[p][i], p)
      BY <1>2, <2>1, <2>2, SealedByOne
    (* p gives up a session of its own only for one with a lower base key. *)
    <2>7. ASSUME NEW u \in Origins, InUse(u), u.by = p
          PROVE  o.baseKey < u.baseKey
      <3>1. u.baseKey \in Nat /\ u.baseKey # None
        BY SessionAssumption DEF Origins, None
      <3>2. o.baseKey # u.baseKey
        BY <1>1, <1>2, <2>1, <2>2, <2>7 DEF OriginsInv
      <3>3. HasSession(p)
        BY <1>1, <2>7, StartedOnce
      <3>4. CASE Responder(p)
        BY <1>1, <2>1, <2>2, <2>7, <3>4 DEF TogetherInv, q
      <3>5. CASE Initiator(p)
        <4>1. IsPending(session[p])
          BY <1>1, <1>3, <2>6, <3>5 DEF TogetherInv
        <4>2. PICK v \in Origins : Holds(p, v) /\ InUse(v) /\ (Own(p, v) \/ Adopted(p, v))
          BY <1>1, <3>3, SessionOrigin
        <4>3. Own(p, v) /\ v.by = p
          BY <1>1, <1>2, <3>5, <4>2, RoleOfOrigin, PartyFacts DEF Adopted, Own
        <4>4. v = u
          BY <1>1, <2>7, <4>2, <4>3, StartedOnce
        <4>5. session[p].pendingPreKey = [preKeyId |-> u.preKeyId, baseKey |-> u.baseKey]
          BY <4>1, <4>3, <4>4 DEF Own
        <4>6. session[p].pendingPreKey.baseKey = u.baseKey
          BY <4>5
        <4>7. ~(e.baseKey > u.baseKey)
          BY <2>2, <3>3, <4>1, <4>6 DEF OurHandshakeWins, HasSession
        <4>. QED BY <2>2, <2>3, <3>1, <3>2, <4>7
      <3>6. Initiator(p) \/ Responder(p)
        BY <3>3 DEF Initiator, Responder
      <3>. QED BY <3>4, <3>5, <3>6
    <2>8. Initiator(q)
      <3>1. HasSession(q)
        BY <1>1, <1>2, <2>1, <2>2, StartedOnce
      <3>2. CASE Responder(q)
        <4>1. Initiator(p)
          BY <1>1, <1>2, <3>2 DEF TogetherInv
        <4>2. PICK u \in Origins : Holds(p, u) /\ InUse(u)
          BY <1>1, <4>1, SessionOrigin DEF Initiator
        <4>3. u.by = p
          BY <1>1, <4>1, <4>2, RoleOfOrigin
        <4>4. u.baseKey < o.baseKey
          BY <1>1, <1>2, <2>1, <2>2, <3>2, <4>2, <4>3 DEF TogetherInv
        <4>5. o.baseKey < u.baseKey
          BY <2>7, <4>2, <4>3
        <4>6. u.baseKey \in Nat
          BY SessionAssumption DEF Origins
        <4>. QED BY <2>3, <4>4, <4>5, <4>6
      <3>. QED BY <3>1, <3>2 DEF Initiator, Responder
    <2>9. ~Responder(q)
      BY <2>8 DEF Initiator, Responder
    <2>10. \A j \in 1 .. Len(channel'[p]) : ~SealedBy(channel'[p][j], p)
      BY <1>8, <2>9 DEF q
    <2>11. ASSUME NEW j \in 1 .. Len(channel'[q]), SealedBy(channel'[q][j], q)
           PROVE  \A l \in j .. Len(channel'[q]) : SealedBy(channel'[q][l], q)
      BY <1>2, <1>8, <2>11
    <2>12. ASSUME Initiator(q), ~IsPending(session'[q])
           PROVE  \A j \in 1 .. Len(channel'[q]) : SealedBy(channel'[q][j], q)
      <3>1. \A k \in 1 .. Len(channel[q]) : SealedBy(channel[q][k], q)
        BY <1>1, <1>2, <2>2, <2>12 DEF TogetherInv
      <3>. QED BY <1>2, <1>7, <3>1
    <2>13. ASSUME NEW v \in Origins, NEW u \in Origins, InUse(v)', InUse(u)', v.by = q, u.by = p
           PROVE  v.baseKey < u.baseKey
      <3>1. v = o
        BY <1>1, <1>2, <1>4, <2>1, <2>2, <2>13, StartedOnce
      <3>. QED BY <1>4, <2>7, <2>13, <3>1
    <2>. DEFINE Part(x) ==
            /\ Initiator(x)' /\ ~IsPending(session'[x]) =>
                  /\ Responder(Peer(x))'
                  /\ \A j \in 1 .. Len(channel'[x]) : SealedBy(channel'[x][j], x)
            /\ Responder(x)' => Initiator(Peer(x))'
            /\ \A j \in 1 .. Len(channel'[x]) : SealedBy(channel'[x][j], x) =>
                  /\ Responder(Peer(x))'
                  /\ \A l \in j .. Len(channel'[x]) : SealedBy(channel'[x][l], x)
            /\ \A v, u \in Origins :
                  Responder(x)' /\ InUse(v)' /\ InUse(u)' /\ v.by = Peer(x) /\ u.by = x
                      => v.baseKey < u.baseKey
    <2>14. Part(p)
      BY <2>4, <2>5, <2>8, <2>10, <2>13 DEF q
    <2>15. Part(q)
      BY <1>2, <2>4, <2>5, <2>8, <2>9, <2>11, <2>12
    <2>16. \A x \in Party : Part(x)
      BY <1>2, <2>14, <2>15
    <2>. QED BY <2>16 DEF TogetherInv, SealedBy, SealedIn, IsPending
  <1>. QED BY <1>10, <1>11, <1>12 DEF Arrival, Effect
-----------------------------------------------------------------------------
(* Encrypting.                                                             *)

(* p has sealed f in the session that o started and sent it.               *)
Sends(p, o, f) ==
    /\ f \in Envelopes /\ SealedIn(f, o) /\ Plaintext(f) = posted[p] + 1
    /\ f.type = "PreKey" => /\ o.by = p
                            /\ f.baseKey = o.baseKey
                            /\ f.preKeyId = o.preKeyId
                            /\ f.identityKey = IdentityKey(p, o.gen)
    /\ channel' = [channel EXCEPT ![Peer(p)] = Append(@, f)]
    /\ posted' = [posted EXCEPT ![p] = @ + 1]
    /\ posted[p] < way.posts
    /\ session' \in [Party -> {NoSession} \cup Records]
    /\ session'[p] \in Records /\ session'[Peer(p)] = session[Peer(p)]
    /\ Derived(session'[p].ratchet, SecretOf(o))
    /\ SoundRecord(session'[p])
    /\ UNCHANGED <<way, oneTime, generation, published, handed, outvoted>>

(* Transmitting on a sound record seals a message in its session.          *)
LEMMA TransmitSends ==
    ASSUME Types, NEW p \in Party, NEW record \in Records, SoundRecord(record),
           NEW o \in Origins, Derived(record.ratchet, SecretOf(o)),
           IsPending(record) =>
              /\ o.by = p /\ o.gen = generation[p]
              /\ record.pendingPreKey = [preKeyId |-> o.preKeyId, baseKey |-> o.baseKey],
           posted[p] < way.posts, Transmit(p, record),
           UNCHANGED <<way, oneTime, generation, published, handed, outvoted>>
    PROVE  /\ Continues(record, session'[p])
           /\ session'[p].pendingPreKey = record.pendingPreKey
           /\ \E f : Sends(p, o, f)
  <1>. DEFINE s == record.ratchet
              t == AfterEncrypt(s)
              m == EncryptedMessage(s, posted[p] + 1)
              new == [record EXCEPT !.ratchet = t]
              parity == RatchetParity(record)
              secret == SecretOf(o)
              n == posted[p] + 1
              A == Seq(Keys)
              f == Envelope(p, record)
  <1>1. GoodRatchet(s, parity, Keys, Secrets, A) /\ CanEncrypt(s) /\ parity \in {0, 1}
    BY ParityOfRecord DEF SoundRecord
  <1>2. n \in Nat
    <2>1. posted[p] \in 0 .. way.posts
      BY DEF Types
    <2>. QED BY <2>1
  <1>3. session' = [session EXCEPT ![p] = new]
    <2>1. new = [record EXCEPT !.ratchet = AfterEncrypt(@)]
      BY DEF Records
    <2>. QED BY <2>1 DEF Transmit
  <1>4. channel' = [channel EXCEPT ![Peer(p)] = Append(@, f)]
        /\ posted' = [posted EXCEPT ![p] = @ + 1]
    BY DEF Transmit
  <1>5. Derived(s, secret)
    OBVIOUS
  <1>. HIDE DEF s, parity, secret, n, A
  <1>6. GoodRatchet(t, parity, Keys, Secrets, A) /\ Follows(s, t, Secrets)
    <2>. HIDE DEF t
    <2>. QED BY <1>1, EncryptKeepsRatchetGood DEF t
  <1>7. /\ Derived(t, secret) /\ CanEncrypt(t)
        /\ m \in Messages(Keys, Secrets, A)
        /\ m.seal.plaintext = n
        /\ m.seal.key.root[1] = secret
    <2>1. m = EncryptedMessage(s, n)
      BY DEF n
    <2>2. /\ Derived(t, secret) /\ CanEncrypt(t)
          /\ EncryptedMessage(s, n) \in Messages(Keys, Secrets, A)
          /\ EncryptedMessage(s, n).seal.plaintext = n
          /\ EncryptedMessage(s, n).seal.key.root[1] = secret
      BY <1>1, <1>2, <1>5, EncryptKeepsDerived
    <2>. HIDE DEF m, t
    <2>. QED BY <2>1, <2>2
  <1>8. \A u \in Origins : Derived(s, SecretOf(u)) => Derived(t, SecretOf(u))
    <2>. SUFFICES ASSUME NEW u \in Origins, Derived(s, SecretOf(u))
                  PROVE  Derived(t, SecretOf(u))
      OBVIOUS
    <2>1. SecretOf(u) = secret
      BY <1>5 DEF Derived
    <2>. HIDE DEF t
    <2>. QED BY <1>7, <2>1
  <1>. HIDE DEF t, m
  <1>9. Continues(record, new) /\ new.ratchet = t
    BY <1>6, <1>7, <1>8, MovedRatchetContinues DEF GoodIn, s, parity, A
  <1>10. new \in Records /\ SoundRecord(new) /\ new.pendingPreKey = record.pendingPreKey
    BY <1>9 DEF Continues, Records
  <1>. HIDE DEF new
  <1>11. /\ session' \in [Party -> {NoSession} \cup Records]
         /\ session'[p] = new /\ session'[Peer(p)] = session[Peer(p)]
    BY <1>3, <1>10, PartyFacts DEF Types
  <1>12. /\ f \in Envelopes
         /\ f.message = m
         /\ f.type = "PreKey" => /\ o.by = p
                                 /\ f.baseKey = o.baseKey
                                 /\ f.preKeyId = o.preKeyId
                                 /\ f.identityKey = IdentityKey(p, o.gen)
    <2>1. m \in Sealed
      BY <1>7 DEF Sealed, A
    <2>2. CASE IsPending(record)
      <3>1. f = [type |-> "PreKey", preKeyId |-> o.preKeyId, baseKey |-> o.baseKey,
                 identityKey |-> IdentityKey(p, o.gen), message |-> m]
        BY <2>2 DEF Envelope, m, s, OurIdentity
      <3>2. o.preKeyId \in PreKeyIds \cup {None} /\ o.baseKey \in BaseKeys
        BY DEF Origins
      <3>3. IdentityKey(p, o.gen) \in Keys
        BY KeysAreKeys DEF Origins
      <3>4. o.by = p
        BY <2>2
      <3>. HIDE DEF f
      <3>. QED BY <2>1, <3>1, <3>2, <3>3, <3>4 DEF Envelopes
    <2>3. CASE ~IsPending(record)
      <3>1. f = [type |-> "Signal", message |-> m]
        BY <2>3 DEF Envelope, m, s
      <3>. HIDE DEF f
      <3>. QED BY <2>1, <3>1 DEF Envelopes
    <2>. QED BY <2>2, <2>3
  <1>. HIDE DEF f
  <1>13. SealedIn(f, o) /\ Plaintext(f) = posted[p] + 1
    BY <1>7, <1>12 DEF SealedIn, Plaintext, secret, n
  <1>14. Derived(session'[p].ratchet, SecretOf(o))
    BY <1>7, <1>9, <1>11 DEF secret
  <1>15. Sends(p, o, f)
    BY <1>4, <1>10, <1>11, <1>12, <1>13, <1>14 DEF Sends
  <1>. QED BY <1>9, <1>10, <1>11, <1>15

(* What sending adds to the channel.                                       *)
LEMMA SendAppends ==
    ASSUME Types, NEW p \in Party, NEW o, NEW f, Sends(p, o, f)
    PROVE  LET q == Peer(p)
               n == Len(channel[q])
           IN  /\ channel' \in [Party -> Seq(Envelopes)]
               /\ channel'[p] = channel[p]
               /\ n \in Nat
               /\ Len(channel'[q]) = n + 1
               /\ \A j \in 1 .. n : channel'[q][j] = channel[q][j]
               /\ channel'[q][n + 1] = f
               /\ \A j \in 1 .. n + 1 : j \in 1 .. n \/ j = n + 1
  <1>. DEFINE q == Peer(p)
              n == Len(channel[q])
              c == Append(channel[q], f)
  <1>1. q \in Party /\ q # p
    BY PartyFacts
  <1>2. channel \in [Party -> Seq(Envelopes)] /\ f \in Envelopes
        /\ channel' = [channel EXCEPT ![q] = c]
    BY DEF Types, Sends
  <1>. HIDE DEF q
  <1>3. /\ c \in Seq(Envelopes) /\ Len(c) = n + 1 /\ n \in Nat
        /\ (\A j \in 1 .. n : c[j] = channel[q][j]) /\ c[n + 1] = f
    BY <1>1, <1>2, AppendProperties, LenProperties
  <1>. HIDE DEF c
  <1>4. channel' \in [Party -> Seq(Envelopes)] /\ channel'[p] = channel[p] /\ channel'[q] = c
    BY <1>1, <1>2, <1>3
  <1>5. \A j \in 1 .. n + 1 : j \in 1 .. n \/ j = n + 1
    BY <1>3, SMTT(30)
  <1>. HIDE DEF n
  <1>. QED BY <1>3, <1>4, <1>5 DEF n, q

(* Sending brings at most the session it is sealed in into use.            *)
LEMMA SendUses ==
    ASSUME Types, NEW p \in Party, NEW o \in Origins, NEW f, Sends(p, o, f)
    PROVE  \A u \in Origins : InUse(u)' => InUse(u) \/ u = o
  <1>. DEFINE q == Peer(p)
  <1>1. q \in Party /\ \A x \in Party : x = p \/ x = q
    BY PartyFacts
  <1>2. ASSUME NEW u \in Origins, NEW x \in Party, Holds(x, u)'
        PROVE  InUse(u) \/ u = o
    <2>1. CASE x = p
      <3>1. SecretOf(u) = SecretOf(o)
        BY <1>2, <2>1 DEF Sends, Derived, Holds, SharedSecret
      <3>. QED BY <3>1, SecretTells
    <2>2. CASE x = q
      BY <1>2, <2>2 DEF Sends, Holds, HasSession, SharedSecret, InUse
    <2>. QED BY <1>1, <2>1, <2>2
  <1>3. ASSUME NEW u \in Origins, NEW x \in Party,
               NEW j \in 1 .. Len(channel'[x]), SealedIn(channel'[x][j], u)
        PROVE  InUse(u) \/ u = o
    <2>1. CASE x = p
      BY <1>3, <2>1, SendAppends DEF InUse
    <2>2. CASE x = q
      <3>1. \/ \E k \in 1 .. Len(channel[q]) : channel'[q][j] = channel[q][k]
            \/ channel'[q][j] = f
        BY <1>3, <2>2, SendAppends
      <3>2. SealedIn(f, o)
        BY DEF Sends
      <3>. QED BY <1>1, <1>3, <2>2, <3>1, <3>2, OneOrigin DEF InUse
    <2>. QED BY <1>1, <2>1, <2>2
  <1>. QED BY <1>2, <1>3 DEF InUse, SealedIn

(* Sending preserves the types.                                            *)
LEMMA SendTypes ==
    ASSUME Types, NEW p \in Party, NEW o \in Origins, NEW f, Sends(p, o, f),
           pinned' \in [Party -> {NotPinned} \cup Keys],
           pool' \in [Party -> SUBSET PreKeyIds],
           usedBaseKeys' \subseteq BaseKeys,
           generated' \in [Party -> Nat]
    PROVE  Types'
  <1>. DEFINE q == Peer(p)
  <1>1. q \in Party /\ q # p /\ Peer(q) = p /\ (\A x \in Party : x = p \/ x = q)
    BY PartyFacts
  <1>2. UNCHANGED <<way, oneTime, generation, published, handed, outvoted>>
        /\ session' \in [Party -> {NoSession} \cup Records]
        /\ posted' = [posted EXCEPT ![p] = @ + 1] /\ posted[p] < way.posts
        /\ Plaintext(f) = posted[p] + 1
    BY DEF Sends
  <1>3. way.posts \in Nat /\ posted[p] \in 0 .. way.posts /\ posted[q] \in 0 .. way.posts
    BY <1>1, SessionAssumption DEF Types
  <1>4. posted' \in [Party -> 0 .. way.posts]
        /\ posted'[p] = posted[p] + 1 /\ posted'[q] = posted[q]
    <2>1. posted[p] + 1 \in 0 .. way.posts
      BY <1>2, <1>3
    <2>2. posted \in [Party -> 0 .. way.posts] /\ posted' = [posted EXCEPT ![p] = posted[p] + 1]
      BY <1>2 DEF Types
    <2>. HIDE DEF q
    <2>. QED BY <1>1, <2>1, <2>2
  <1>5. channel' \in [Party -> Seq(Envelopes)]
    BY SendAppends
  <1>6. \A x \in Party : \A j \in 1 .. Len(handed[x]) : handed[x][j] \in 1 .. posted'[Peer(x)]
    <2>1. \A j \in 1 .. Len(handed[p]) : handed[p][j] \in 1 .. posted'[q]
      BY <1>4 DEF Types
    <2>2. \A j \in 1 .. Len(handed[q]) : handed[q][j] \in 1 .. posted[p]
      BY <1>1 DEF Types
    <2>3. 1 .. posted[p] \subseteq 1 .. posted'[p]
      BY <1>3, <1>4
    <2>4. Peer(p) = q
      OBVIOUS
    <2>. HIDE DEF q
    <2>. QED BY <1>1, <2>1, <2>2, <2>3, <2>4
  <1>7. \A x \in Party : \A j \in 1 .. Len(channel'[x]) :
          Plaintext(channel'[x][j]) \in 1 .. posted'[Peer(x)]
    <2>1. \A j \in 1 .. Len(channel'[p]) : Plaintext(channel'[p][j]) \in 1 .. posted'[q]
      BY <1>4, SendAppends DEF Types
    <2>2. \A j \in 1 .. Len(channel[q]) : Plaintext(channel[q][j]) \in 1 .. posted'[p]
      BY <1>1, <1>3, <1>4, SMTT(30) DEF Types
    <2>3. Plaintext(f) \in 1 .. posted'[p]
      BY <1>2, <1>3, <1>4
    <2>4. \A j \in 1 .. Len(channel'[q]) : Plaintext(channel'[q][j]) \in 1 .. posted'[p]
      <3>. HIDE DEF Sends
      <3>1. \A j \in 1 .. Len(channel'[q]) :
              \/ \E k \in 1 .. Len(channel[q]) : channel'[q][j] = channel[q][k]
              \/ channel'[q][j] = f
        <4>. DEFINE n == Len(channel[q])
        <4>1. /\ Len(channel'[q]) = n + 1
              /\ \A j \in 1 .. n : channel'[q][j] = channel[q][j]
              /\ channel'[q][n + 1] = f
              /\ \A j \in 1 .. n + 1 : j \in 1 .. n \/ j = n + 1
          BY SendAppends
        <4>. HIDE DEF q
        <4>. QED BY <4>1
      <3>. HIDE DEF q
      <3>. QED BY <2>2, <2>3, <3>1
    <2>. QED BY <1>1, <2>1, <2>4
  <1>8. \A x \in Party : \A j, l \in 1 .. Len(channel'[x]) :
          j < l => Plaintext(channel'[x][j]) # Plaintext(channel'[x][l])
    <2>1. ASSUME NEW j \in 1 .. Len(channel'[p]), NEW l \in 1 .. Len(channel'[p]), j < l
          PROVE  Plaintext(channel'[p][j]) # Plaintext(channel'[p][l])
      <3>1. channel'[p] = channel[p]
        BY SendAppends
      <3>2. \A k, m \in 1 .. Len(channel[p]) :
              k < m => Plaintext(channel[p][k]) # Plaintext(channel[p][m])
        BY DEF Types
      <3>. QED BY <2>1, <3>1, <3>2
    <2>2. ASSUME NEW j \in 1 .. Len(channel'[q]), NEW l \in 1 .. Len(channel'[q]), j < l
          PROVE  Plaintext(channel'[q][j]) # Plaintext(channel'[q][l])
      <3>. DEFINE n == Len(channel[q])
      <3>1. /\ n \in Nat /\ Len(channel'[q]) = n + 1
            /\ (\A k \in 1 .. n : channel'[q][k] = channel[q][k]) /\ channel'[q][n + 1] = f
        BY SendAppends
      <3>2. \A k \in 1 .. n : Plaintext(channel[q][k]) \in 1 .. posted[p]
        BY <1>1 DEF Types
      <3>3. \A k, m \in 1 .. n : k < m => Plaintext(channel[q][k]) # Plaintext(channel[q][m])
        BY <1>1 DEF Types
      <3>. HIDE DEF n
      <3>4. j \in 1 .. n
        BY <2>2, <3>1
      <3>5. CASE l = n + 1
        <4>1. Plaintext(channel'[q][j]) \in 1 .. posted[p]
          BY <3>1, <3>2, <3>4
        <4>. QED BY <1>2, <1>3, <3>1, <3>5, <4>1
      <3>6. CASE l # n + 1
        <4>1. l \in 1 .. n
          BY <3>1, <3>6
        <4>. QED BY <2>2, <3>1, <3>3, <3>4, <4>1
      <3>. QED BY <3>5, <3>6
    <2>. QED BY <1>1, <2>1, <2>2
  <1>. HIDE DEF q
  <1>. QED BY <1>2, <1>4, <1>5, <1>6, <1>7, <1>8 DEF Types, Plaintext

(* Sending preserves what the envelopes tell.                              *)
LEMMA SendEnvelopes ==
    ASSUME Types, EnvelopesInv, NEW p \in Party, NEW o \in Origins, NEW f, Sends(p, o, f)
    PROVE  EnvelopesInv'
  <1>. DEFINE q == Peer(p)
              Tells(e, x, v) ==
                /\ SealedIn(e, v)
                /\ e.type = "PreKey" =>
                      /\ v.by = Peer(x)
                      /\ e.baseKey = v.baseKey
                      /\ e.preKeyId = v.preKeyId
                      /\ e.identityKey = IdentityKey(Peer(x), v.gen)
  <1>1. q \in Party /\ Peer(q) = p /\ \A x \in Party : x = p \/ x = q
    BY PartyFacts
  <1>2. \A x \in Party : \A j \in 1 .. Len(channel[x]) :
            \E v \in Origins : Tells(channel[x][j], x, v)
    BY DEF EnvelopesInv
  <1>3. Tells(f, q, o)
    BY <1>1 DEF Sends
  <1>. HIDE DEF Tells
  <1>4. \A j \in 1 .. Len(channel'[p]) : \E v \in Origins : Tells(channel'[p][j], p, v)
    BY <1>2, SendAppends
  <1>5. \A j \in 1 .. Len(channel'[q]) : \E v \in Origins : Tells(channel'[q][j], q, v)
    BY <1>1, <1>2, <1>3, SendAppends
  <1>6. \A x \in Party : \A j \in 1 .. Len(channel'[x]) :
            \E v \in Origins : Tells(channel'[x][j], x, v)
    BY <1>1, <1>4, <1>5
  <1>. QED BY <1>6 DEF EnvelopesInv, Tells, SealedIn
(* Encrypting in a session preserves the invariant.                        *)
LEMMA EncryptNextKeepsInv ==
    ASSUME SessionInv, NEW p \in Party, EncryptNext(p)
    PROVE  SessionInv'
  <1>. DEFINE q == Peer(p)
  <1>1. /\ Types /\ SessionsInv /\ PinsInv /\ EnvelopesInv /\ OriginsInv /\ HandedInv
        /\ KeepsOrder /\ NoReload => TogetherInv
    BY DEF SessionInv
  <1>2. q \in Party /\ q # p /\ Peer(q) = p /\ (\A x \in Party : x = p \/ x = q)
    BY PartyFacts
  <1>3. /\ HasSession(p) /\ posted[p] < way.posts /\ Transmit(p, session[p])
        /\ UNCHANGED <<way, pinned, oneTime, generation, generated, published, pool,
                       usedBaseKeys, handed, outvoted>>
    BY DEF EncryptNext, HasSession, serverVars
  <1>4. PICK o \in Origins : /\ Derived(session[p].ratchet, SecretOf(o))
                             /\ Holds(p, o) /\ InUse(o)
                             /\ Own(p, o) \/ Adopted(p, o)
    BY <1>1, <1>3, SessionOrigin
  <1>5. session[p] \in Records /\ SoundRecord(session[p])
        /\ session[p].theirIdentityKey = pinned[p]
    BY <1>1, <1>3, SessionOrigin
  <1>6. IsPending(session[p]) =>
          /\ o.by = p /\ o.gen = generation[p]
          /\ session[p].pendingPreKey = [preKeyId |-> o.preKeyId, baseKey |-> o.baseKey]
    BY <1>4 DEF Own, Adopted
  <1>7. /\ Continues(session[p], session'[p])
        /\ session'[p].pendingPreKey = session[p].pendingPreKey
        /\ \E f : Sends(p, o, f)
    BY <1>1, <1>3, <1>4, <1>5, <1>6, TransmitSends
  <1>8. PICK f : Sends(p, o, f)
    BY <1>7
  <1>. HIDE DEF q
  <1>9. session'[q] = session[q] /\ session'[p] \in Records
    BY <1>8 DEF Sends, q
  <1>10. \A u \in Origins : InUse(u)' => InUse(u)
    BY <1>1, <1>4, <1>8, SendUses
  <1>11. HasSession(p)' /\ (HasSession(q)' <=> HasSession(q))
    BY <1>9, RecordsArePresent DEF HasSession
  <1>12. Types'
    <2>1. /\ pinned' \in [Party -> {NotPinned} \cup Keys]
          /\ pool' \in [Party -> SUBSET PreKeyIds]
          /\ usedBaseKeys' \subseteq BaseKeys
          /\ generated' \in [Party -> Nat]
      BY <1>1, <1>3 DEF Types
    <2>. QED BY <1>1, <1>8, <2>1, SendTypes
  <1>13. SessionsInv'
    <2>1. HasSession(q)' =>
            /\ SoundRecord(session'[q])
            /\ session'[q].theirIdentityKey = pinned'[q]
            /\ \E u \in Origins : /\ Derived(session'[q].ratchet, SecretOf(u))
                                  /\ Own(q, u)' \/ Adopted(q, u)'
      BY <1>1, <1>2, <1>3, <1>9 DEF SessionsInv, HasSession, Own, Adopted
    <2>2. Own(p, o) => Own(p, o)'
      BY <1>3, <1>7 DEF Own, Continues, IsPending
    <2>3. Adopted(p, o) => Adopted(p, o)'
      BY <1>3, <1>7 DEF Adopted, Continues, IsPending
    <2>4. Derived(session'[p].ratchet, SecretOf(o)) /\ SoundRecord(session'[p])
          /\ session'[p].theirIdentityKey = pinned'[p]
      BY <1>3, <1>4, <1>5, <1>7 DEF Continues
    <2>. QED BY <1>2, <1>4, <2>1, <2>2, <2>3, <2>4 DEF SessionsInv
  <1>14. PinsInv'
    BY <1>1, <1>2, <1>3, <1>11 DEF PinsInv
  <1>15. EnvelopesInv'
    BY <1>1, <1>8, SendEnvelopes
  <1>16. OriginsInv'
    <2>1. \A x \in Party : HasSession(x) => HasSession(x)'
      BY <1>2, <1>11
    <2>2. ASSUME NEW u \in Origins, InUse(u)'
          PROVE  /\ u.baseKey \in usedBaseKeys'
                 /\ u.gen <= generation'[u.by]
                 /\ u.peerGen <= published'[Peer(u.by)]
                 /\ u.gen = generation'[u.by] => HasSession(u.by)'
                 /\ u.peerGen = published'[Peer(u.by)] => u.preKeyId \notin pool'[Peer(u.by)]
      <3>1. u.by \in Party /\ InUse(u)
        BY <1>10, <2>2 DEF Origins
      <3>. QED BY <1>1, <1>3, <2>1, <3>1 DEF OriginsInv
    <2>3. \A v, u \in Origins :
            /\ InUse(v)' /\ InUse(u)'
            /\ v.baseKey = u.baseKey \/ (v.by = u.by /\ v.gen = u.gen)
            => v = u
      BY <1>1, <1>10 DEF OriginsInv
    <2>. QED BY <2>2, <2>3 DEF OriginsInv
  <1>17. HandedInv'
    <2>. SUFFICES ASSUME NEW x \in Party, NEW j \in 1 .. Len(channel'[x]),
                         Plaintext(channel'[x][j]) \in ToSet(handed[x]),
                         NEW g, g = channel'[x][j]
                  PROVE  Gone(x, g)'
      BY <1>3 DEF HandedInv, Plaintext, Gone, SealedIn, ToSet
    <2>1. \E k \in 1 .. Len(channel[x]) : g = channel[x][k]
      <3>1. CASE x = p
        BY <1>1, <1>8, <3>1, SendAppends
      <3>2. CASE x = q
        <4>1. \/ \E k \in 1 .. Len(channel[q]) : channel'[q][j] = channel[q][k]
              \/ channel'[q][j] = f
          BY <1>1, <1>8, <3>2, SendAppends DEF q
        <4>2. Plaintext(f) \notin ToSet(handed[q])
          <5>1. Plaintext(f) = posted[p] + 1 /\ posted[p] \in Nat
            BY <1>1, <1>8, SessionAssumption DEF Sends, Types
          <5>2. \A y \in ToSet(handed[q]) : y \in 1 .. posted[p]
            <6>1. \A k \in 1 .. Len(handed[q]) : handed[q][k] \in 1 .. posted[p]
              BY <1>1, <1>2 DEF Types
            <6>2. \A y \in ToSet(handed[q]) : \E k \in 1 .. Len(handed[q]) : y = handed[q][k]
              BY DEF ToSet
            <6>. QED BY <6>1, <6>2
          <5>. QED BY <5>1, <5>2
        <4>. QED BY <3>2, <4>1, <4>2
      <3>. QED BY <1>2, <3>1, <3>2
    <2>2. PICK k \in 1 .. Len(channel[x]) : g = channel[x][k]
      BY <2>1
    <2>3. Gone(x, g)
      BY <1>1, <2>2 DEF HandedInv
    <2>4. g \in Envelopes
      BY <1>1, <2>2, EnvelopeOrigin
    <2>5. g.message.seal.key \in ChainKeys(Secrets)
      BY <2>4 DEF Envelopes, Sealed, Messages
    <2>6. CASE x = q
      BY <1>3, <1>9, <2>3, <2>6 DEF Gone, Holds, HasSession, SharedSecret, SealedIn
    <2>7. CASE x = p
      <3>1. SharedSecret(p)' = SharedSecret(p)
        BY <1>4, <1>7 DEF Continues, Derived, SharedSecret
      <3>2. \A u \in Origins : Holds(p, u)' <=> Holds(p, u)
        BY <1>3, <1>11, <3>1 DEF Holds
      <3>3. Spent(session[p].ratchet, g.message.seal.key)
              => Spent(session'[p].ratchet, g.message.seal.key)
        BY <1>7, <2>5 DEF Continues, Follows
      <3>. QED BY <1>3, <2>3, <2>7, <3>2, <3>3 DEF Gone, SealedIn
    <2>. QED BY <1>2, <2>6, <2>7
  <1>18. ASSUME KeepsOrder', NoReload'
         PROVE  TogetherInv'
    <2>1. TogetherInv
      BY <1>1, <1>3, <1>18 DEF KeepsOrder, NoReload
    <2>2. \A x \in Party : /\ Initiator(x)' <=> Initiator(x)
                           /\ Responder(x)' <=> Responder(x)
                           /\ IsPending(session'[x]) <=> IsPending(session[x])
      <3>1. session'[p].theirBaseKey = session[p].theirBaseKey
        BY <1>7 DEF Continues
      <3>. QED BY <1>2, <1>3, <1>7, <1>9, <1>11, <3>1 DEF Initiator, Responder, IsPending
    <2>3. \A g, x : SealedBy(g, x)' <=> SealedBy(g, x)
      BY DEF SealedBy, SealedIn
    <2>4. SealedBy(f, q) => Responder(p)
      <3>1. SealedIn(f, o)
        BY <1>8 DEF Sends
      <3>. QED BY <1>1, <1>4, <3>1, SealedByOne, RoleOfOrigin DEF q
    <2>5. Responder(p) => SealedBy(f, q)
      <3>1. SealedIn(f, o)
        BY <1>8 DEF Sends
      <3>. QED BY <1>1, <1>4, <3>1, SealedByOne, RoleOfOrigin DEF q
    <2>. DEFINE n == Len(channel[q])
    <2>6. /\ channel'[p] = channel[p] /\ n \in Nat /\ Len(channel'[q]) = n + 1
          /\ \A j \in 1 .. n : channel'[q][j] = channel[q][j]
          /\ channel'[q][n + 1] = f
          /\ \A j \in 1 .. n + 1 : j \in 1 .. n \/ j = n + 1
      BY <1>1, <1>8, SendAppends DEF q
    <2>7. ASSUME Initiator(q), ~IsPending(session[q]), NEW j \in 1 .. Len(channel'[q])
          PROVE  SealedBy(channel'[q][j], q)
      <3>1. Responder(p) /\ \A k \in 1 .. n : SealedBy(channel[q][k], q)
        BY <1>2, <2>1, <2>7 DEF TogetherInv
      <3>. QED BY <2>5, <2>6, <3>1
    <2>8. ASSUME NEW j \in 1 .. Len(channel'[q]), SealedBy(channel'[q][j], q)
          PROVE  /\ Responder(p)
                 /\ \A l \in j .. Len(channel'[q]) : SealedBy(channel'[q][l], q)
      <3>1. CASE j = n + 1
        <4>1. \A l \in j .. Len(channel'[q]) : l = j
          BY <2>6, <3>1
        <4>. QED BY <2>4, <2>6, <2>8, <3>1, <4>1
      <3>2. CASE j \in 1 .. n
        <4>1. SealedBy(channel[q][j], q)
          BY <2>6, <2>8, <3>2
        <4>2. Responder(p) /\ \A k \in j .. n : SealedBy(channel[q][k], q)
          BY <1>2, <2>1, <3>2, <4>1 DEF TogetherInv
        <4>3. \A l \in j .. Len(channel'[q]) : (l \in j .. n /\ l \in 1 .. n) \/ l = n + 1
          BY <2>6, <3>2
        <4>. QED BY <2>5, <2>6, <4>2, <4>3
      <3>. QED BY <2>6, <3>1, <3>2
    <2>. HIDE DEF n
    <2>. DEFINE Part(x) ==
            /\ Initiator(x) /\ ~IsPending(session[x]) =>
                  /\ Responder(Peer(x))
                  /\ \A j \in 1 .. Len(channel'[x]) : SealedBy(channel'[x][j], x)
            /\ Responder(x) => Initiator(Peer(x))
            /\ \A j \in 1 .. Len(channel'[x]) : SealedBy(channel'[x][j], x) =>
                  /\ Responder(Peer(x))
                  /\ \A l \in j .. Len(channel'[x]) : SealedBy(channel'[x][l], x)
            /\ \A v, u \in Origins :
                  Responder(x) /\ InUse(v)' /\ InUse(u)' /\ v.by = Peer(x) /\ u.by = x
                      => v.baseKey < u.baseKey
    <2>9. Part(p)
      BY <1>10, <2>1, <2>6 DEF TogetherInv
    <2>10. Part(q)
      <3>1. Initiator(q) /\ ~IsPending(session[q]) => Responder(p)
        BY <1>2, <2>1 DEF TogetherInv
      <3>2. Responder(q) => Initiator(p)
        BY <1>2, <2>1 DEF TogetherInv
      <3>3. \A v, u \in Origins :
              Responder(q) /\ InUse(v)' /\ InUse(u)' /\ v.by = p /\ u.by = q
                  => v.baseKey < u.baseKey
        BY <1>2, <1>10, <2>1 DEF TogetherInv
      <3>. QED BY <1>2, <2>7, <2>8, <3>1, <3>2, <3>3
    <2>11. \A x \in Party : Part(x)
      BY <1>2, <2>9, <2>10
    <2>12. \A x \in Party : Peer(x) \in Party
      BY PartyFacts
    <2>. QED BY <2>2, <2>11, <2>12 DEF TogetherInv, SealedBy, SealedIn, IsPending
  <1>. QED BY <1>12, <1>13, <1>14, <1>15, <1>16, <1>17, <1>18 DEF SessionInv
(* A new session's record, and where it comes from.                        *)
LEMMA StartedSessionGood ==
    ASSUME Types, NEW p \in Party, NEW baseKey \in BaseKeys,
           NEW id \in PreKeyIds \cup {None}
    PROVE  LET q == Peer(p)
               o == [by |-> p, gen |-> generation[p], peerGen |-> published[q],
                     baseKey |-> baseKey, preKeyId |-> id]
               r == StartedSession(p, BundleOf(q, published[q], id), baseKey)
           IN  /\ o \in Origins
               /\ r \in Records
               /\ SoundRecord(r)
               /\ Derived(r.ratchet, SecretOf(o))
               /\ r.theirIdentityKey = IdentityKey(q, published[q])
               /\ r.theirBaseKey = None
               /\ r.pendingPreKey = [preKeyId |-> id, baseKey |-> baseKey]
               /\ IsPending(r)
  <1>. DEFINE q == Peer(p)
              o == [by |-> p, gen |-> generation[p], peerGen |-> published[q],
                    baseKey |-> baseKey, preKeyId |-> id]
              bundle == BundleOf(q, published[q], id)
              r == StartedSession(p, bundle, baseKey)
              secret == SecretOf(o)
              ours == RatchetKey(p, generated[p])
              theirs == SignedPreKey(q, published[q])
              data == <<OurIdentity(p), IdentityKey(q, published[q])>>
              a == InitAlice(secret, ours, theirs, data)
              A == Seq(Keys)
  <1>1. q \in Party
    BY PartyFacts
  <1>2. generation[p] \in Nat /\ published[q] \in Nat /\ generated[p] \in Nat
    BY <1>1 DEF Types
  <1>3. o \in Origins
    BY <1>1, <1>2 DEF Origins
  <1>4. secret \in Secrets
    BY <1>3, SecretForm
  <1>5. ours \in Keys /\ theirs \in Keys /\ IdentityKey(q, published[q]) \in Keys
        /\ OurIdentity(p) \in Keys
    BY <1>1, <1>2, KeysAreKeys DEF OurIdentity
  <1>6. data \in A
    BY <1>5
  <1>7. X3dhInitiate(OurIdentity(p), EphemeralKey(baseKey), bundle) = secret
    BY DEF SecretOf, OurIdentity
  <1>8. bundle.signedPreKey = theirs /\ bundle.identityKey = IdentityKey(q, published[q])
        /\ bundle.preKeyId = id
    BY DEF BundleOf
  <1>. HIDE DEF o, bundle, secret
  <1>9. r = [ratchet |-> a, theirIdentityKey |-> IdentityKey(q, published[q]),
             pendingPreKey |-> [preKeyId |-> id, baseKey |-> baseKey], theirBaseKey |-> None]
    BY <1>7, <1>8 DEF StartedSession
  <1>. HIDE DEF ours, theirs, data, A, a, r, q
  <1>10. GoodRatchet(a, 0, Keys, Secrets, A) /\ Derived(a, secret) /\ CanEncrypt(a)
    BY <1>4, <1>5, <1>6, SecretsClosed, InitAliceGood DEF a
  <1>11. a \in Ratchets
    BY <1>10 DEF GoodRatchet, Ratchets, A
  <1>12. r \in Records
    BY <1>5, <1>9, <1>11 DEF Records, Handshakes
  <1>13. SoundRecord(r)
    BY <1>9, <1>10 DEF SoundRecord, RatchetParity, A
  <1>14. IsPending(r)
    <2>1. baseKey # None
      BY SessionAssumption DEF None
    <2>2. r.pendingPreKey.baseKey = baseKey /\ NothingPending.baseKey = None
      BY <1>9 DEF NothingPending
    <2>. QED BY <2>1, <2>2 DEF IsPending
  <1>15. /\ r.theirIdentityKey = IdentityKey(q, published[q]) /\ r.theirBaseKey = None
         /\ r.pendingPreKey = [preKeyId |-> id, baseKey |-> baseKey]
         /\ Derived(r.ratchet, secret)
    BY <1>9, <1>10
  <1>. QED BY <1>3, <1>12, <1>13, <1>14, <1>15 DEF q, o, r, secret, bundle

(* Starting a session preserves the invariant.                             *)
LEMMA EncryptFirstKeepsInv ==
    ASSUME SessionInv, NEW p \in Party, EncryptFirst(p)
    PROVE  SessionInv'
  <1>. DEFINE q == Peer(p)
  <1>1. /\ Types /\ SessionsInv /\ PinsInv /\ EnvelopesInv /\ OriginsInv /\ HandedInv
        /\ KeepsOrder /\ NoReload => TogetherInv
    BY DEF SessionInv
  <1>2. q \in Party /\ q # p /\ Peer(q) = p /\ Peer(p) = q /\ (\A x \in Party : x = p \/ x = q)
    BY PartyFacts
  <1>3. PICK bundle \in Bundles(q), baseKey \in BaseKeys \ usedBaseKeys :
          /\ Transmit(p, StartedSession(p, bundle, baseKey))
          /\ pinned' = [pinned EXCEPT ![p] = bundle.identityKey]
          /\ pool' = [pool EXCEPT ![q] = @ \ {bundle.preKeyId}]
          /\ usedBaseKeys' = usedBaseKeys \cup {baseKey}
          /\ generated' = [generated EXCEPT ![p] = @ + 1]
    BY DEF EncryptFirst
  <1>4. /\ ~HasSession(p) /\ posted[p] < way.posts
        /\ UNCHANGED <<way, oneTime, generation, published, handed, outvoted>>
    BY DEF EncryptFirst, HasSession
  <1>5. PICK id \in IF pool[q] = {} THEN {None} ELSE pool[q] :
          bundle = BundleOf(q, published[q], id)
    BY DEF Bundles, BundleOf, OurIdentity
  <1>6. id \in PreKeyIds \cup {None} /\ pool[q] \subseteq PreKeyIds
    BY <1>1, <1>2 DEF Types
  <1>. DEFINE start == [by |-> p, gen |-> generation[p], peerGen |-> published[q],
                        baseKey |-> baseKey, preKeyId |-> id]
              r == StartedSession(p, bundle, baseKey)
  <1>7. bundle.identityKey = IdentityKey(q, published[q]) /\ bundle.preKeyId = id
    BY <1>5 DEF BundleOf
  <1>8. /\ start \in Origins /\ r \in Records /\ SoundRecord(r)
         /\ Derived(r.ratchet, SecretOf(start))
         /\ r.theirIdentityKey = IdentityKey(q, published[q]) /\ r.theirBaseKey = None
         /\ r.pendingPreKey = [preKeyId |-> id, baseKey |-> baseKey] /\ IsPending(r)
    BY <1>1, <1>5, <1>6, StartedSessionGood
  <1>9. start.by = p /\ start.gen = generation[p] /\ start.peerGen = published[q]
         /\ start.baseKey = baseKey /\ start.preKeyId = id
    OBVIOUS
  <1>. HIDE DEF start, r, q
  <1>10. PICK o \in Origins : o = start
    BY <1>8
  <1>11. /\ r \in Records /\ SoundRecord(r)
        /\ Derived(r.ratchet, SecretOf(o))
        /\ r.theirIdentityKey = IdentityKey(q, published[q]) /\ r.theirBaseKey = None
        /\ r.pendingPreKey = [preKeyId |-> id, baseKey |-> baseKey] /\ IsPending(r)
    BY <1>8, <1>10
  <1>12. o.by = p /\ o.gen = generation[p] /\ o.peerGen = published[q]
        /\ o.baseKey = baseKey /\ o.preKeyId = id
    BY <1>9, <1>10
  <1>13. Transmit(p, r)
    BY <1>3 DEF r
  <1>14. /\ Continues(r, session'[p])
         /\ session'[p].pendingPreKey = r.pendingPreKey
         /\ \E f : Sends(p, o, f)
    BY <1>1, <1>4, <1>11, <1>12, <1>13, TransmitSends
  <1>15. PICK f : Sends(p, o, f)
    BY <1>14
  <1>16. /\ session'[q] = session[q] /\ session'[p] \in Records
         /\ session'[p].theirIdentityKey = IdentityKey(q, published[q])
         /\ session'[p].theirBaseKey = None
         /\ session'[p].pendingPreKey = [preKeyId |-> id, baseKey |-> baseKey]
         /\ IsPending(session'[p])
         /\ SoundRecord(session'[p]) /\ Derived(session'[p].ratchet, SecretOf(o))
    BY <1>11, <1>14, <1>15 DEF Sends, q, Continues, IsPending
  <1>17. \A u \in Origins : InUse(u)' => InUse(u) \/ u = o
    BY <1>1, <1>11, <1>15, SendUses
  <1>18. HasSession(p)' /\ (HasSession(q)' <=> HasSession(q))
    BY <1>16, RecordsArePresent DEF HasSession
  <1>19. /\ pinned'[p] = IdentityKey(q, published[q]) /\ pinned'[q] = pinned[q]
         /\ pool'[q] = pool[q] \ {id} /\ pool'[p] = pool[p]
         /\ usedBaseKeys' = usedBaseKeys \cup {baseKey}
    BY <1>1, <1>2, <1>3, <1>7 DEF Types
  (* No session is in use that p has started, or with the new base key.    *)
  <1>20. ASSUME NEW u \in Origins, InUse(u)
         PROVE  u.baseKey # baseKey /\ ~(u.by = p /\ u.gen = generation[p])
    BY <1>1, <1>3, <1>4, <1>20 DEF OriginsInv
  <1>21. ~InUse(o)
    BY <1>11, <1>12, <1>20
  <1>22. Types'
    <2>1. generated' \in [Party -> Nat] /\ usedBaseKeys' \subseteq BaseKeys
          /\ pool' \in [Party -> SUBSET PreKeyIds]
      <3>1. generated' \in [Party -> Nat]
        BY <1>1, <1>3, SMTT(30) DEF Types
      <3>2. usedBaseKeys' \subseteq BaseKeys
        BY <1>1, <1>3 DEF Types
      <3>3. pool' \in [Party -> SUBSET PreKeyIds]
        BY <1>1, <1>2, <1>3 DEF Types
      <3>. QED BY <3>1, <3>2, <3>3
    <2>2. IdentityKey(q, published[q]) \in Keys
      BY <1>1, <1>2, KeysAreKeys DEF Types
    <2>3. pinned' \in [Party -> {NotPinned} \cup Keys]
      BY <1>1, <1>3, <1>7, <2>2 DEF Types
    <2>. QED BY <1>1, <1>11, <1>15, <2>1, <2>3, SendTypes
  <1>23. SessionsInv'
    <2>1. HasSession(q)' =>
            /\ SoundRecord(session'[q])
            /\ session'[q].theirIdentityKey = pinned'[q]
            /\ \E u \in Origins : /\ Derived(session'[q].ratchet, SecretOf(u))
                                  /\ Own(q, u)' \/ Adopted(q, u)'
      BY <1>1, <1>2, <1>4, <1>16, <1>19 DEF SessionsInv, HasSession, Own, Adopted
    <2>2. Own(p, o)'
      BY <1>2, <1>4, <1>12, <1>16, <1>19 DEF Own
    <2>. QED BY <1>2, <1>11, <1>16, <1>19, <2>1, <2>2 DEF SessionsInv
  <1>24. PinsInv'
    <2>1. published[q] \in 0 .. generation[q]
      BY <1>1, <1>2 DEF Types
    <2>2. pinned'[p] \in {IdentityKey(q, g) : g \in 0 .. generation[q]}
      BY <1>19, <2>1
    <2>. QED BY <1>1, <1>2, <1>4, <1>18, <1>19, <2>2 DEF PinsInv
  <1>25. EnvelopesInv'
    BY <1>1, <1>15, SendEnvelopes
  <1>26. OriginsInv'
    <2>1. \A x \in Party : HasSession(x) => HasSession(x)'
      BY <1>2, <1>18
    <2>2. \A x \in Party : pool'[x] \subseteq pool[x]
      BY <1>2, <1>19
    <2>3. ASSUME NEW u \in Origins, InUse(u)
          PROVE  /\ u.baseKey \in usedBaseKeys'
                 /\ u.gen <= generation'[u.by]
                 /\ u.peerGen <= published'[Peer(u.by)]
                 /\ u.gen = generation'[u.by] => HasSession(u.by)'
                 /\ u.peerGen = published'[Peer(u.by)] => u.preKeyId \notin pool'[Peer(u.by)]
      <3>1. u.by \in Party /\ Peer(u.by) \in Party
        BY PartyFacts DEF Origins
      <3>. QED BY <1>1, <1>4, <1>19, <2>1, <2>2, <2>3, <3>1 DEF OriginsInv
    <2>4. /\ o.baseKey \in usedBaseKeys'
          /\ o.gen <= generation'[o.by]
          /\ o.peerGen <= published'[Peer(o.by)]
          /\ o.gen = generation'[o.by] => HasSession(o.by)'
          /\ o.peerGen = published'[Peer(o.by)] => o.preKeyId \notin pool'[Peer(o.by)]
      <3>1. generation[p] \in Nat /\ published[q] \in Nat
        BY <1>1, <1>2 DEF Types
      <3>. QED BY <1>2, <1>4, <1>12, <1>18, <1>19, <3>1
    <2>5. ASSUME NEW v \in Origins, NEW u \in Origins, InUse(v)', InUse(u)',
                 v.baseKey = u.baseKey \/ (v.by = u.by /\ v.gen = u.gen)
          PROVE  v = u
      <3>1. CASE InUse(v) /\ InUse(u)
        BY <1>1, <2>5, <3>1 DEF OriginsInv
      <3>2. CASE v = o /\ InUse(u)
        BY <1>12, <1>20, <2>5, <3>2
      <3>3. CASE InUse(v) /\ u = o
        BY <1>12, <1>20, <2>5, <3>3
      <3>. QED BY <1>17, <2>5, <3>1, <3>2, <3>3
    <2>. QED BY <1>17, <2>3, <2>4, <2>5 DEF OriginsInv
  <1>27. HandedInv'
    <2>. SUFFICES ASSUME NEW x \in Party, NEW j \in 1 .. Len(channel'[x]),
                         Plaintext(channel'[x][j]) \in ToSet(handed[x]),
                         NEW g, g = channel'[x][j]
                  PROVE  Gone(x, g)'
      BY <1>4 DEF HandedInv, Plaintext, Gone, SealedIn, ToSet
    <2>1. \E k \in 1 .. Len(channel[x]) : g = channel[x][k]
      <3>1. CASE x = p
        BY <1>1, <1>11, <1>15, <3>1, SendAppends
      <3>2. CASE x = q
        <4>1. \/ \E k \in 1 .. Len(channel[q]) : channel'[q][j] = channel[q][k]
              \/ channel'[q][j] = f
          <5>. DEFINE n == Len(channel[q])
          <5>1. /\ Len(channel'[q]) = n + 1
                /\ \A k \in 1 .. n : channel'[q][k] = channel[q][k]
                /\ channel'[q][n + 1] = f
                /\ \A k \in 1 .. n + 1 : k \in 1 .. n \/ k = n + 1
            BY <1>1, <1>15, SendAppends DEF q
          <5>. QED BY <3>2, <5>1
        <4>2. Plaintext(f) \notin ToSet(handed[q])
          <5>1. Plaintext(f) = posted[p] + 1 /\ posted[p] \in Nat
            BY <1>1, <1>15, SessionAssumption DEF Sends, Types
          <5>2. \A y \in ToSet(handed[q]) : y \in 1 .. posted[p]
            <6>1. \A k \in 1 .. Len(handed[q]) : handed[q][k] \in 1 .. posted[p]
              BY <1>1, <1>2 DEF Types
            <6>2. \A y \in ToSet(handed[q]) : \E k \in 1 .. Len(handed[q]) : y = handed[q][k]
              BY DEF ToSet
            <6>. QED BY <6>1, <6>2
          <5>. QED BY <5>1, <5>2
        <4>. QED BY <3>2, <4>1, <4>2
      <3>. QED BY <1>2, <3>1, <3>2
    <2>2. PICK k \in 1 .. Len(channel[x]) : g = channel[x][k]
      BY <2>1
    <2>3. Gone(x, g)
      BY <1>1, <2>2 DEF HandedInv
    <2>4. CASE x = q
      BY <1>4, <1>16, <2>3, <2>4 DEF Gone, Holds, HasSession, SharedSecret, SealedIn
    <2>5. CASE x = p
      <3>. SUFFICES ASSUME NEW u \in Origins, SealedIn(g, u)
                    PROVE  ~Holds(p, u)' /\ (u.by = p \/ u.peerGen < generation[p])
        BY <1>4, <2>5 DEF Gone, SealedIn
      <3>1. u.by = p \/ u.peerGen < generation[p]
        BY <1>4, <2>3, <2>5 DEF Gone, Holds
      <3>2. InUse(u)
        BY <2>2 DEF InUse
      <3>3. u # o
        BY <1>21, <3>2
      <3>4. ~Holds(p, u)'
        <4>. SUFFICES ASSUME Holds(p, u)'  PROVE FALSE
          OBVIOUS
        <4>1. SecretOf(u) = SecretOf(o)
          BY <1>16 DEF Holds, SharedSecret, Derived
        <4>. QED BY <1>11, <3>3, <4>1, SecretTells
      <3>. QED BY <3>1, <3>4
    <2>. QED BY <1>2, <2>4, <2>5
  <1>28. ASSUME KeepsOrder', NoReload'
         PROVE  TogetherInv'
    <2>1. TogetherInv /\ NoReload
      BY <1>1, <1>4, <1>28 DEF KeepsOrder, NoReload
    <2>2. Initiator(p)' /\ ~Responder(p)' /\ ~Responder(p)
      BY <1>4, <1>16, <1>18 DEF Initiator, Responder
    <2>3. /\ Initiator(q)' <=> Initiator(q)
          /\ Responder(q)' <=> Responder(q)
      BY <1>16 DEF Initiator, Responder, HasSession
    <2>4. \A g, x : SealedBy(g, x)' <=> SealedBy(g, x)
      BY DEF SealedBy, SealedIn
    <2>5. ~(Initiator(q) /\ ~IsPending(session[q]))
      BY <1>2, <2>1, <2>2 DEF TogetherInv
    <2>6. ~Responder(q)
      BY <1>2, <1>4, <2>1 DEF TogetherInv, Initiator
    <2>7. \A j \in 1 .. Len(channel'[p]) : ~SealedBy(channel'[p][j], p)
      <3>1. ASSUME NEW j \in 1 .. Len(channel[p]), SealedBy(channel[p][j], p)
            PROVE  FALSE
        <4>1. PICK u \in Origins : SealedIn(channel[p][j], u) /\ u.by = p
          BY <3>1 DEF SealedBy
        <4>2. InUse(u)
          BY <4>1 DEF InUse
        <4>. QED BY <1>1, <1>4, <2>1, <4>1, <4>2, StartedOnce
      <3>. QED BY <1>1, <1>11, <1>15, <3>1, SendAppends
    <2>8. \A j \in 1 .. Len(channel'[q]) : ~SealedBy(channel'[q][j], q)
      <3>1. ASSUME NEW j \in 1 .. Len(channel[q]), SealedBy(channel[q][j], q)
            PROVE  FALSE
        BY <1>2, <2>1, <2>2, <3>1 DEF TogetherInv
      <3>2. SealedIn(f, o)
        BY <1>15 DEF Sends
      <3>3. ~SealedBy(f, q)
        BY <1>2, <1>11, <1>12, <3>2, SealedByOne
      <3>4. ASSUME NEW j \in 1 .. Len(channel'[q])
            PROVE  \/ \E k \in 1 .. Len(channel[q]) : channel'[q][j] = channel[q][k]
                   \/ channel'[q][j] = f
        BY <1>1, <1>11, <1>15, SendAppends DEF q
      <3>. QED BY <3>1, <3>3, <3>4
    <2>. DEFINE Part(x) ==
            /\ ~(Initiator(x)' /\ ~IsPending(session'[x]))
            /\ ~Responder(x)'
            /\ \A j \in 1 .. Len(channel'[x]) : ~SealedBy(channel'[x][j], x)
    <2>9. Part(p) /\ Part(q)
      BY <1>16, <2>2, <2>3, <2>5, <2>6, <2>7, <2>8
    <2>10. \A x \in Party : Part(x)
      BY <1>2, <2>9
    <2>. QED BY <2>10 DEF TogetherInv, SealedBy, SealedIn, IsPending
  <1>. QED BY <1>22, <1>23, <1>24, <1>25, <1>26, <1>27, <1>28 DEF SessionInv
-----------------------------------------------------------------------------
(* Starting, and starting afresh.                                          *)

(* The initial states satisfy the invariant.                               *)
LEMMA InitSatisfiesInv == Init => SessionInv
  <1>. SUFFICES ASSUME Init  PROVE SessionInv
    OBVIOUS
  <1>. USE DEF Init
  <1>1. \A p \in Party : Len(channel[p]) = 0 /\ Len(handed[p]) = 0 /\ ~HasSession(p)
    BY DEF HasSession
  <1>2. Types
    <2>1. way.posts \in Nat /\ way.reloads \in Nat
      BY SessionAssumption
    <2>2. generation \in [Party -> Nat] /\ generation["alice"] + generation["bob"] <= way.reloads
      BY <2>1 DEF Party
    <2>3. posted \in [Party -> 0 .. way.posts] /\ handed \in [Party -> Seq(1 .. way.posts)]
          /\ outvoted \in [Party -> SUBSET (1 .. way.posts)]
          /\ channel \in [Party -> Seq(Envelopes)]
      BY <2>1
    <2>4. /\ session \in [Party -> {NoSession} \cup Records]
          /\ pinned \in [Party -> {NotPinned} \cup Keys]
          /\ oneTime \in [Party -> SUBSET PreKeyIds] /\ pool \in [Party -> SUBSET PreKeyIds]
          /\ usedBaseKeys \subseteq BaseKeys /\ generated \in [Party -> Nat]
      OBVIOUS
    <2>. QED BY <1>1, <2>1, <2>2, <2>3, <2>4 DEF Types
  <1>3. \A o \in Origins : ~InUse(o)
    BY <1>1 DEF InUse, Holds
  <1>4. TogetherInv
    BY <1>1 DEF TogetherInv, Initiator, Responder
  <1>5. PinsInv
    BY <1>1 DEF PinsInv
  <1>6. SessionsInv /\ EnvelopesInv /\ OriginsInv /\ HandedInv
    BY <1>1, <1>3 DEF SessionsInv, EnvelopesInv, OriginsInv, HandedInv
  <1>. QED BY <1>2, <1>4, <1>5, <1>6 DEF SessionInv

(* A user that starts afresh leaves the other's state as it is.            *)
LEMMA ReloadKeepsInv ==
    ASSUME SessionInv, NEW p \in Party, Reload(p)
    PROVE  SessionInv'
  <1>. DEFINE q == Peer(p)
  <1>1. /\ Types /\ SessionsInv /\ PinsInv /\ EnvelopesInv /\ OriginsInv /\ HandedInv
    BY DEF SessionInv
  <1>2. q \in Party /\ q # p /\ Peer(q) = p /\ Peer(p) = q /\ (\A x \in Party : x = p \/ x = q)
    BY PartyFacts
  <1>3. /\ generation["alice"] + generation["bob"] < way.reloads
        /\ session' = [session EXCEPT ![p] = NoSession]
        /\ pinned' = [pinned EXCEPT ![p] = NotPinned]
        /\ oneTime' = [oneTime EXCEPT ![p] = PreKeyIds]
        /\ generation' = [generation EXCEPT ![p] = @ + 1]
        /\ UNCHANGED <<way, published, pool, usedBaseKeys, generated, channel, posted, handed,
                       outvoted>>
    BY DEF Reload, serverVars, historyVars
  <1>. HIDE DEF q
  <1>4. /\ session'[p] = NoSession /\ session'[q] = session[q]
        /\ pinned'[p] = NotPinned /\ pinned'[q] = pinned[q]
        /\ oneTime'[q] = oneTime[q]
        /\ generation'[p] = generation[p] + 1 /\ generation'[q] = generation[q]
        /\ generation[p] \in Nat /\ generation[q] \in Nat
    BY <1>1, <1>2, <1>3 DEF Types
  <1>5. ~HasSession(p)' /\ (HasSession(q)' <=> HasSession(q))
    BY <1>4 DEF HasSession
  <1>6. \A o \in Origins : Holds(q, o)' <=> Holds(q, o)
    BY <1>4, <1>5 DEF Holds, SharedSecret
  <1>7. \A o \in Origins : InUse(o)' => InUse(o)
    <2>. SUFFICES ASSUME NEW o \in Origins, InUse(o)'  PROVE InUse(o)
      BY SMTT(30)
    <2>1. PICK x \in Party : \/ Holds(x, o)'
                             \/ \E j \in 1 .. Len(channel[x]) : SealedIn(channel[x][j], o)
      BY <1>3 DEF InUse, SealedIn
    <2>2. ~Holds(p, o)'
      BY <1>5 DEF Holds
    <2>. QED BY <1>2, <1>6, <2>1, <2>2 DEF InUse
  <1>8. Types'
    <2>1. generation' \in [Party -> Nat]
      <3>1. generation \in [Party -> Nat]
        BY <1>1 DEF Types
      <3>. QED BY <1>3, <3>1
    <2>2. generation'["alice"] + generation'["bob"] <= way.reloads
      <3>1. {p, q} = {"alice", "bob"}
        BY <1>2 DEF Party
      <3>2. way.reloads \in Nat /\ generation["alice"] \in Nat /\ generation["bob"] \in Nat
        BY <1>1, SessionAssumption DEF Types, Party
      <3>3. generation'["alice"] + generation'["bob"]
              = generation["alice"] + generation["bob"] + 1
        BY <1>2, <1>4, <3>1, <3>2
      <3>. QED BY <1>3, <3>2, <3>3
    <2>3. /\ session' \in [Party -> {NoSession} \cup Records]
          /\ pinned' \in [Party -> {NotPinned} \cup Keys]
          /\ oneTime' \in [Party -> SUBSET PreKeyIds] /\ pool' \in [Party -> SUBSET PreKeyIds]
          /\ published' \in [Party -> Nat]
      BY <1>1, <1>3 DEF Types
    <2>7. \A x \in Party : published'[x] <= generation'[x]
      <3>1. published[p] <= generation[p] /\ published[q] <= generation[q] /\ published[p] \in Nat
        BY <1>1, <1>2 DEF Types
      <3>2. published' = published
        BY <1>3
      <3>. QED BY <1>2, <1>4, <3>1, <3>2
    <2>4. /\ way' \in Ways /\ usedBaseKeys' \subseteq BaseKeys /\ generated' \in [Party -> Nat]
          /\ channel' \in [Party -> Seq(Envelopes)]
          /\ posted' \in [Party -> 0 .. way'.posts]
          /\ handed' \in [Party -> Seq(1 .. way'.posts)]
          /\ outvoted' \in [Party -> SUBSET (1 .. way'.posts)]
      BY <1>1, <1>3 DEF Types
    <2>5. \A x \in Party :
            /\ \A j \in 1 .. Len(handed'[x]) : handed'[x][j] \in 1 .. posted'[Peer(x)]
            /\ \A j \in 1 .. Len(channel'[x]) :
                  Plaintext(channel'[x][j]) \in 1 .. posted'[Peer(x)]
            /\ \A j, l \in 1 .. Len(channel'[x]) :
                  j < l => Plaintext(channel'[x][j]) # Plaintext(channel'[x][l])
      BY <1>1, <1>3 DEF Types
    <2>6. way' = way
      BY <1>3
    <2>. QED BY <2>1, <2>2, <2>3, <2>4, <2>5, <2>6, <2>7 DEF Types, Plaintext
  <1>9. SessionsInv'
    <2>1. HasSession(q)' =>
            /\ SoundRecord(session'[q])
            /\ session'[q].theirIdentityKey = pinned'[q]
            /\ \E u \in Origins : /\ Derived(session'[q].ratchet, SecretOf(u))
                                  /\ Own(q, u)' \/ Adopted(q, u)'
      BY <1>1, <1>2, <1>4 DEF SessionsInv, HasSession, Own, Adopted
    <2>. QED BY <1>2, <1>5, <2>1 DEF SessionsInv
  <1>10. PinsInv'
    <2>1. 0 .. generation[p] \subseteq 0 .. generation'[p]
      BY <1>4
    <2>2. HasSession(q) => pinned[q] \in {IdentityKey(p, g) : g \in 0 .. generation[p]}
      BY <1>1, <1>2 DEF PinsInv
    <2>3. HasSession(q)' => pinned'[q] \in {IdentityKey(p, g) : g \in 0 .. generation'[p]}
      BY <1>4, <1>5, <2>1, <2>2
    <2>4. ~HasSession(q)' => pinned'[q] = NotPinned
      BY <1>1, <1>2, <1>4, <1>5 DEF PinsInv
    <2>. QED BY <1>2, <1>4, <1>5, <2>3, <2>4 DEF PinsInv
  <1>11. EnvelopesInv'
    BY <1>1, <1>3 DEF EnvelopesInv, SealedIn
  <1>12. OriginsInv'
    <2>1. ASSUME NEW u \in Origins, InUse(u)'
          PROVE  /\ u.baseKey \in usedBaseKeys'
                 /\ u.gen <= generation'[u.by]
                 /\ u.peerGen <= published'[Peer(u.by)]
                 /\ u.gen = generation'[u.by] => HasSession(u.by)'
                 /\ u.peerGen = published'[Peer(u.by)] => u.preKeyId \notin pool'[Peer(u.by)]
      <3>1. u.by \in Party /\ u.gen \in Nat /\ u.peerGen \in Nat
        BY DEF Origins
      <3>2. InUse(u)
        BY <1>7, <2>1
      <3>3. /\ u.baseKey \in usedBaseKeys
            /\ u.gen <= generation[u.by]
            /\ u.peerGen <= published[Peer(u.by)]
            /\ u.gen = generation[u.by] => HasSession(u.by)
            /\ u.peerGen = published[Peer(u.by)] => u.preKeyId \notin pool[Peer(u.by)]
        BY <1>1, <3>2 DEF OriginsInv
      <3>4. CASE u.by = p
        <4>1. u.gen <= generation[p]
          BY <1>2, <3>3, <3>4
        <4>2. u.gen <= generation'[p] /\ u.gen # generation'[p]
          BY <1>4, <3>1, <4>1
        <4>. QED BY <1>2, <1>3, <1>4, <3>3, <3>4, <4>2
      <3>5. CASE u.by = q
        BY <1>2, <1>3, <1>4, <1>5, <3>3, <3>5
      <3>. QED BY <1>2, <3>1, <3>4, <3>5
    <2>2. \A v, u \in Origins :
            /\ InUse(v)' /\ InUse(u)'
            /\ v.baseKey = u.baseKey \/ (v.by = u.by /\ v.gen = u.gen)
            => v = u
      BY <1>1, <1>7 DEF OriginsInv
    <2>. QED BY <2>1, <2>2 DEF OriginsInv
  <1>13. HandedInv'
    <2>. SUFFICES ASSUME NEW x \in Party, NEW j \in 1 .. Len(channel[x]),
                         Plaintext(channel[x][j]) \in ToSet(handed[x]),
                         NEW g, g = channel[x][j]
                  PROVE  Gone(x, g)'
      BY <1>3, SMTT(30) DEF HandedInv, Plaintext, Gone, SealedIn, ToSet
    <2>1. Gone(x, g)
      BY <1>1 DEF HandedInv
    <2>2. CASE x = q
      BY <1>4, <1>6, <2>1, <2>2 DEF Gone, SealedIn
    <2>3. CASE x = p
      <3>. SUFFICES ASSUME NEW o \in Origins, SealedIn(g, o)
                    PROVE  o.by = p \/ o.peerGen < generation'[p]
        BY <1>5, <2>3 DEF Gone, SealedIn, Holds
      <3>1. CASE Holds(p, o)
        <4>1. Own(p, o) \/ Adopted(p, o)
          BY <1>1, <3>1, SessionOf
        <4>. QED BY <1>4, <4>1 DEF Own, Adopted
      <3>2. CASE ~Holds(p, o)
        <4>1. o.by = p \/ o.peerGen < generation[p]
          BY <2>1, <2>3, <3>2 DEF Gone
        <4>2. o.peerGen \in Nat
          BY DEF Origins
        <4>. QED BY <1>4, <4>1, <4>2
      <3>. QED BY <3>1, <3>2
    <2>. QED BY <1>2, <2>2, <2>3
  <1>14. ~NoReload'
    BY <1>4 DEF NoReload
  <1>. QED BY <1>8, <1>9, <1>10, <1>11, <1>12, <1>13, <1>14 DEF SessionInv

(* Publishing new keys preserves the invariant: no session has been started*)
(* with them yet.                                                          *)
LEMMA PublishKeysKeepsInv ==
    ASSUME SessionInv, NEW p \in Party, PublishKeys(p)
    PROVE  SessionInv'
  <1>1. /\ Types /\ SessionsInv /\ PinsInv /\ EnvelopesInv /\ OriginsInv /\ HandedInv
        /\ KeepsOrder /\ NoReload => TogetherInv
    BY DEF SessionInv
  <1>2. /\ published[p] # generation[p]
        /\ published' = [published EXCEPT ![p] = generation[p]]
        /\ pool' = [pool EXCEPT ![p] = PreKeyIds]
        /\ UNCHANGED <<way, session, pinned, oneTime, generation, generated, usedBaseKeys,
                       channel, posted, handed, outvoted>>
    BY DEF PublishKeys, Ready, userVars, historyVars
  <1>3. /\ published'[p] = generation[p] /\ generation[p] \in Nat /\ published[p] \in Nat
        /\ published[p] < generation[p]
        /\ \A x \in Party : x # p => published'[x] = published[x] /\ pool'[x] = pool[x]
    BY <1>1, <1>2 DEF Types
  <1>4. Types'
    <2>1. published' \in [Party -> Nat] /\ pool' \in [Party -> SUBSET PreKeyIds]
      BY <1>1, <1>2, <1>3 DEF Types
    <2>2. \A x \in Party : published'[x] <= generation'[x]
      BY <1>1, <1>2, <1>3 DEF Types
    <2>3. /\ session' \in [Party -> {NoSession} \cup Records]
          /\ pinned' \in [Party -> {NotPinned} \cup Keys]
          /\ oneTime' \in [Party -> SUBSET PreKeyIds]
          /\ generation' \in [Party -> Nat]
          /\ generation'["alice"] + generation'["bob"] <= way'.reloads
      BY <1>1, <1>2 DEF Types
    <2>4. /\ way' \in Ways /\ usedBaseKeys' \subseteq BaseKeys /\ generated' \in [Party -> Nat]
          /\ channel' \in [Party -> Seq(Envelopes)]
          /\ posted' \in [Party -> 0 .. way'.posts]
          /\ handed' \in [Party -> Seq(1 .. way'.posts)]
          /\ outvoted' \in [Party -> SUBSET (1 .. way'.posts)]
      BY <1>1, <1>2 DEF Types
    <2>5. \A x \in Party :
            /\ \A j \in 1 .. Len(handed'[x]) : handed'[x][j] \in 1 .. posted'[Peer(x)]
            /\ \A j \in 1 .. Len(channel'[x]) :
                  Plaintext(channel'[x][j]) \in 1 .. posted'[Peer(x)]
            /\ \A j, l \in 1 .. Len(channel'[x]) :
                  j < l => Plaintext(channel'[x][j]) # Plaintext(channel'[x][l])
      BY <1>1, <1>2 DEF Types
    <2>. QED BY <2>1, <2>2, <2>3, <2>4, <2>5 DEF Types, Plaintext
  <1>5. SessionsInv' /\ PinsInv' /\ EnvelopesInv'
    <2>1. SessionsInv'
      BY <1>1, <1>2 DEF SessionsInv, HasSession, Own, Adopted
    <2>2. PinsInv' /\ EnvelopesInv'
      BY <1>1, <1>2 DEF PinsInv, HasSession, EnvelopesInv, SealedIn
    <2>. QED BY <2>1, <2>2
  <1>6. \A o \in Origins : /\ InUse(o)' <=> InUse(o)
                           /\ \A x \in Party : Holds(x, o)' <=> Holds(x, o)
    BY <1>2 DEF InUse, Holds, HasSession, SharedSecret, SealedIn
  <1>7. OriginsInv'
    <2>1. ASSUME NEW o \in Origins, InUse(o)'
          PROVE  /\ o.baseKey \in usedBaseKeys'
                 /\ o.gen <= generation'[o.by]
                 /\ o.peerGen <= published'[Peer(o.by)]
                 /\ o.gen = generation'[o.by] => HasSession(o.by)'
                 /\ o.peerGen = published'[Peer(o.by)] => o.preKeyId \notin pool'[Peer(o.by)]
      <3>1. Peer(o.by) \in Party /\ o.peerGen \in Nat
        BY PartyFacts DEF Origins
      <3>2. /\ o.baseKey \in usedBaseKeys
            /\ o.gen <= generation[o.by]
            /\ o.peerGen <= published[Peer(o.by)]
            /\ o.gen = generation[o.by] => HasSession(o.by)
            /\ o.peerGen = published[Peer(o.by)] => o.preKeyId \notin pool[Peer(o.by)]
        BY <1>1, <1>6, <2>1 DEF OriginsInv
      <3>3. HasSession(o.by)' <=> HasSession(o.by)
        BY <1>2 DEF HasSession
      <3>4. CASE Peer(o.by) = p
        BY <1>2, <1>3, <3>1, <3>2, <3>3, <3>4
      <3>5. CASE Peer(o.by) # p
        BY <1>2, <1>3, <3>1, <3>2, <3>3, <3>5
      <3>. QED BY <3>4, <3>5
    <2>2. \A v, u \in Origins :
            /\ InUse(v)' /\ InUse(u)'
            /\ v.baseKey = u.baseKey \/ (v.by = u.by /\ v.gen = u.gen)
            => v = u
      BY <1>1, <1>6 DEF OriginsInv
    <2>. QED BY <2>1, <2>2 DEF OriginsInv
  <1>8. HandedInv'
    BY <1>1, <1>2, SMTT(30)
       DEF HandedInv, Gone, Holds, HasSession, SharedSecret, SealedIn, Plaintext
  <1>9. TogetherInv => TogetherInv'
    BY <1>2, <1>6 DEF TogetherInv, Initiator, Responder, HasSession, SealedBy, SealedIn, IsPending
  <1>10. (KeepsOrder' <=> KeepsOrder) /\ (NoReload' <=> NoReload)
    BY <1>2 DEF KeepsOrder, NoReload
  <1>. QED BY <1>1, <1>4, <1>5, <1>7, <1>8, <1>9, <1>10 DEF SessionInv

(* A delivery or a loss preserves the invariant.                           *)
LEMMA ArrivalKeepsInv ==
    ASSUME SessionInv, NEW p \in Party, NEW i, NEW e, Arrival(p, i, e)
    PROVE  SessionInv'
  <1>1. way' = way /\ generation' = generation
    BY DEF Arrival
  <1>2. KeepsOrder' /\ NoReload' => TogetherInv'
    BY <1>1, ArrivalTogether DEF KeepsOrder, NoReload
  <1>. QED BY <1>2, ArrivalTypes, ArrivalSessions, ArrivalPins, ArrivalEnvelopes, ArrivalOrigins,
              ArrivalHanded DEF SessionInv

(* Every step preserves the invariant.                                     *)
LEMMA NextKeepsInv ==
    ASSUME SessionInv, [Next]_vars
    PROVE  SessionInv'
  <1>1. ASSUME NEW p \in Party, EncryptFirst(p)  PROVE SessionInv'
    BY <1>1, EncryptFirstKeepsInv
  <1>2. ASSUME NEW p \in Party, EncryptNext(p)  PROVE SessionInv'
    BY <1>2, EncryptNextKeepsInv
  <1>3. ASSUME NEW p \in Party, Receive(p) \/ ReceiveCopy(p) \/ ReceiveDamaged(p) \/ Lose(p)
        PROVE  SessionInv'
    <2>1. PICK i \in 1 .. Len(channel[p]) : \E e \in Envelopes : Arrival(p, i, e)
      BY <1>3, DeliveryArrives DEF SessionInv
    <2>. QED BY <2>1, ArrivalKeepsInv
  <1>4. ASSUME NEW p \in Party, Reload(p)  PROVE SessionInv'
    BY <1>4, ReloadKeepsInv
  <1>5. ASSUME NEW p \in Party, PublishKeys(p)  PROVE SessionInv'
    BY <1>5, PublishKeysKeepsInv
  <1>6. CASE UNCHANGED vars
    <2>. USE <1>6 DEF vars, userVars, serverVars, historyVars
    <2>1. Types => Types'
      BY SMTT(30) DEF Types, Plaintext
    <2>2. SessionsInv => SessionsInv'
      BY DEF SessionsInv, HasSession, Own, Adopted
    <2>3. (PinsInv => PinsInv') /\ (EnvelopesInv => EnvelopesInv')
      BY DEF PinsInv, HasSession, EnvelopesInv, SealedIn
    <2>4. \A o \in Origins : /\ InUse(o)' <=> InUse(o)
                            /\ \A x \in Party : Holds(x, o)' <=> Holds(x, o)
      BY DEF InUse, Holds, HasSession, SharedSecret, SealedIn
    <2>5. OriginsInv => OriginsInv'
      BY <2>4 DEF OriginsInv, HasSession
    <2>6. HandedInv => HandedInv'
      BY SMTT(30) DEF HandedInv, Gone, Holds, HasSession, SharedSecret, SealedIn, Plaintext
    <2>7. TogetherInv => TogetherInv'
      BY <2>4 DEF TogetherInv, Initiator, Responder, HasSession, SealedBy, SealedIn, IsPending
    <2>8. (KeepsOrder' <=> KeepsOrder) /\ (NoReload' <=> NoReload)
      BY DEF KeepsOrder, NoReload
    <2>. QED BY <2>1, <2>2, <2>3, <2>5, <2>6, <2>7, <2>8 DEF SessionInv
  <1>. QED BY <1>1, <1>2, <1>3, <1>4, <1>5, <1>6 DEF Next
-----------------------------------------------------------------------------
(* Theorems.                                                               *)

(* Every reachable state satisfies the invariant.                          *)
THEOREM SessionInvariant == Spec => []SessionInv
<1>1. Init => SessionInv
  BY InitSatisfiesInv
<1>2. SessionInv /\ [Next]_vars => SessionInv'
  BY NextKeepsInv
<1>. QED BY <1>1, <1>2, PTL DEF Spec

(* Every stored session is typed, pinned and able to send                  *)
(* (ratchet.ts:100-105), and the users' stores are typed.                  *)
THEOREM TypeCorrect == Spec => []TypeOK
<1>1. SessionInv => TypeOK
  <2>. SUFFICES ASSUME SessionInv  PROVE TypeOK
    OBVIOUS
  <2>1. Types /\ SessionsInv /\ PinsInv
    BY DEF SessionInv
  <2>2. ASSUME NEW p \in Party
        PROVE  /\ session[p] # NoSession =>
                    /\ session[p].pendingPreKey
                         \in [preKeyId : PreKeyIds \cup {None}, baseKey : BaseKeys \cup {None}]
                    /\ session[p].theirBaseKey \in BaseKeys \cup {None}
                    /\ session[p].theirIdentityKey = pinned[p]
                    /\ CanEncrypt(session[p].ratchet)
               /\ pinned[p] \in {NotPinned} \cup
                                   {IdentityKey(Peer(p), g) : g \in 0 .. way.reloads}
               /\ \A i \in 1 .. Len(channel[p]) : channel[p][i].type \in {"PreKey", "Signal"}
    <3>1. session[p] # NoSession =>
            /\ session[p] \in Records
            /\ session[p].theirIdentityKey = pinned[p]
            /\ CanEncrypt(session[p].ratchet)
      BY <2>1, SessionOrigin DEF HasSession, SoundRecord
    <3>2. session[p] \in Records =>
            /\ session[p].pendingPreKey
                 \in [preKeyId : PreKeyIds \cup {None}, baseKey : BaseKeys \cup {None}]
            /\ session[p].theirBaseKey \in BaseKeys \cup {None}
      BY DEF Records, Handshakes
    <3>3. generation[Peer(p)] <= way.reloads
      <4>1. way.reloads \in Nat /\ generation["alice"] \in Nat /\ generation["bob"] \in Nat
            /\ generation["alice"] + generation["bob"] <= way.reloads
        BY <2>1, SessionAssumption DEF Types, Party
      <4>2. Peer(p) = "alice" \/ Peer(p) = "bob"
        BY DEF Peer
      <4>. QED BY <4>1, <4>2
    <3>4. 0 .. generation[Peer(p)] \subseteq 0 .. way.reloads
      <4>1. way.reloads \in Nat /\ generation[Peer(p)] \in Nat
        BY <2>1, PartyFacts, SessionAssumption DEF Types
      <4>. QED BY <3>3, <4>1
    <3>5. pinned[p] = NotPinned
            \/ pinned[p] \in {IdentityKey(Peer(p), g) : g \in 0 .. generation[Peer(p)]}
      BY <2>1 DEF PinsInv
    <3>6. \A i \in 1 .. Len(channel[p]) : channel[p][i] \in Envelopes
      BY <2>1 DEF Types
    <3>7. \A f \in Envelopes : f.type \in {"PreKey", "Signal"}
      BY DEF Envelopes
    <3>. QED BY <3>1, <3>2, <3>4, <3>5, <3>6, <3>7
  <2>. QED BY <2>1, <2>2 DEF Types, TypeOK
<1>. QED BY <1>1, SessionInvariant, PTL

(* A user that has not published its new keys has all of them still.       *)
Unspent == \A p \in Party : ~Ready(p) => oneTime[p] = PreKeyIds

(* The server hands out no one-time prekey that a user whose publication   *)
(* stands has deleted: deleting one takes a handshake made with the keys it*)
(* has now, and that a bundle which took it off the server; and publishing *)
(* comes before deleting.                                                  *)
LEMMA NextKeepsPoolBacked ==
    ASSUME SessionInv, PoolBacked, Unspent, [Next]_vars
    PROVE  PoolBacked' /\ Unspent'
  <1>1. Types /\ OriginsInv
    BY DEF SessionInv
  <1>2. ASSUME NEW p \in Party, EncryptFirst(p)  PROVE PoolBacked' /\ Unspent'
    <2>1. PICK bundle \in Bundles(Peer(p)) :
            pool' = [pool EXCEPT ![Peer(p)] = @ \ {bundle.preKeyId}]
      BY <1>2 DEF EncryptFirst
    <2>2. UNCHANGED <<oneTime, published, generation>>
      BY <1>2 DEF EncryptFirst
    <2>. QED BY <1>1, <2>1, <2>2, PartyFacts DEF Types, PoolBacked, Unspent, Ready
  <1>3. ASSUME NEW p \in Party, EncryptNext(p)  PROVE PoolBacked' /\ Unspent'
    BY <1>3 DEF EncryptNext, serverVars, PoolBacked, Unspent, Ready
  <1>4. ASSUME NEW p \in Party, Receive(p) \/ ReceiveCopy(p) \/ ReceiveDamaged(p) \/ Lose(p)
        PROVE  PoolBacked' /\ Unspent'
    <2>1. PICK i \in 1 .. Len(channel[p]) : \E e \in Envelopes : Arrival(p, i, e)
      BY <1>4, DeliveryArrives DEF SessionInv
    <2>2. PICK e \in Envelopes : Arrival(p, i, e)
      BY <2>1
    <2>3. UNCHANGED <<pool, published, generation>>
      BY <2>2 DEF Arrival
    <2>4. CASE oneTime' = oneTime
      BY <2>3, <2>4 DEF PoolBacked, Unspent, Ready
    <2>5. CASE \E o \in Origins : InUse(o) /\ Adopts(p, e, o)
      <3>1. PICK o \in Origins : InUse(o) /\ Adopts(p, e, o)
        BY <2>5
      <3>2. o.by = Peer(p) /\ o.peerGen = generation[p] /\ Peer(Peer(p)) = p
            /\ oneTime' = [oneTime EXCEPT ![p] = @ \ {o.preKeyId}]
        BY <3>1, PartyFacts DEF Adopts
      (* The handshake was made with the keys p published last: they stand.  *)
      <3>3. Ready(p)
        <4>1. o.peerGen <= published[p]
          BY <1>1, <3>1, <3>2 DEF OriginsInv
        <4>2. published[p] <= generation[p] /\ published[p] \in Nat /\ generation[p] \in Nat
          BY <1>1 DEF Types
        <4>. QED BY <3>2, <4>1, <4>2 DEF Ready
      <3>4. o.preKeyId \notin pool[p]
        BY <1>1, <3>1, <3>2, <3>3 DEF OriginsInv, Ready
      <3>. QED BY <1>1, <2>3, <3>2, <3>3, <3>4 DEF PoolBacked, Unspent, Ready, Types
    <2>. QED BY <2>2, <2>4, <2>5 DEF Arrival, Effect, Refused, Opened
  <1>5. ASSUME NEW p \in Party, Reload(p)  PROVE PoolBacked' /\ Unspent'
    <2>1. /\ oneTime' = [oneTime EXCEPT ![p] = PreKeyIds]
          /\ generation' = [generation EXCEPT ![p] = @ + 1]
          /\ UNCHANGED <<pool, published>>
      BY <1>5 DEF Reload, serverVars
    <2>2. generation'[p] = generation[p] + 1 /\ published[p] <= generation[p]
          /\ published[p] \in Nat /\ generation[p] \in Nat
      BY <1>1, <2>1 DEF Types
    <2>3. ~Ready(p)'
      BY <2>1, <2>2 DEF Ready
    <2>. QED BY <1>1, <2>1, <2>3 DEF PoolBacked, Unspent, Ready, Types
  <1>6. ASSUME NEW p \in Party, PublishKeys(p)  PROVE PoolBacked' /\ Unspent'
    <2>1. /\ ~Ready(p)
          /\ published' = [published EXCEPT ![p] = generation[p]]
          /\ pool' = [pool EXCEPT ![p] = PreKeyIds]
          /\ UNCHANGED <<oneTime, generation>>
      BY <1>6 DEF PublishKeys, userVars
    <2>. QED BY <1>1, <2>1 DEF PoolBacked, Unspent, Ready, Types
  <1>7. CASE UNCHANGED vars
    BY <1>7 DEF vars, userVars, serverVars, PoolBacked, Unspent, Ready
  <1>. QED BY <1>2, <1>3, <1>4, <1>5, <1>6, <1>7 DEF Next

(* The server hands out no one-time prekey of a user whose publication     *)
(* stands that the user has already deleted (session-builder.ts:91-97,     *)
(* "already consumed?").  While a reloaded page has not published, it does *)
(* hand out lost ones.                                                     *)
THEOREM PoolIsBacked == Spec => []PoolBacked
<1>1. Init => PoolBacked /\ Unspent
  BY DEF Init, PoolBacked, Unspent
<1>2. SessionInv /\ PoolBacked /\ Unspent /\ [Next]_vars => PoolBacked' /\ Unspent'
  BY NextKeepsPoolBacked
<1>. QED BY <1>1, <1>2, SessionInvariant, PTL DEF Spec

(* On a way that keeps the order, before anyone reloads, a user past its   *)
(* handshake shares its session, or its peer still sends its handshake     *)
(* along: the tie-break of session-cipher.ts:105-119 leaves nobody alone.  *)
THEOREM NobodyIsAlone == Spec => []NeverAlone
<1>1. SessionInv => NeverAlone
  <2>. SUFFICES ASSUME SessionInv, KeepsOrder, NoReload, NEW p \in Party, Established(p)
                PROVE  \/ OneSession
                       \/ session[Peer(p)] # NoSession /\ IsPending(session[Peer(p)])
    BY DEF NeverAlone
  <2>. DEFINE q == Peer(p)
  <2>1. Types /\ SessionsInv /\ OriginsInv /\ TogetherInv
    BY DEF SessionInv
  <2>2. q \in Party /\ q # p /\ Peer(q) = p
    BY PartyFacts
  <2>3. HasSession(p) /\ ~IsPending(session[p])
    BY DEF Established, HasSession
  <2>. HIDE DEF q
  (* An initiator and a responder share the session the initiator started. *)
  <2>4. ASSUME NEW x \in Party, Initiator(x), Responder(Peer(x))
        PROVE  OneSession
    <3>1. Peer(x) \in Party /\ Peer(Peer(x)) = x
      BY PartyFacts
    <3>2. PICK o \in Origins : Holds(x, o)
      BY <2>1, <2>4, SessionOrigin DEF Initiator
    <3>3. PICK u \in Origins : Holds(Peer(x), u)
      BY <2>1, <2>4, <3>1, SessionOrigin DEF Responder
    <3>4. o.by = x /\ InUse(o)
      BY <2>1, <2>4, <3>2, RoleOfOrigin
    <3>5. u.by = x /\ InUse(u)
      BY <2>1, <2>4, <3>1, <3>3, RoleOfOrigin
    <3>6. o = u
      BY <2>1, <3>4, <3>5, StartedOnce
    <3>7. SharedSecret(x) = SharedSecret(Peer(x)) /\ HasSession(x) /\ HasSession(Peer(x))
      BY <3>2, <3>3, <3>6 DEF Holds
    <3>. QED BY <3>7 DEF OneSession, HasSession, Party, Peer
  <2>5. CASE Initiator(p)
    <3>1. Responder(q)
      BY <2>1, <2>3, <2>5 DEF TogetherInv, q
    <3>. QED BY <2>4, <2>5, <3>1 DEF q
  <2>6. CASE Responder(p)
    <3>1. Initiator(q)
      BY <2>1, <2>6 DEF TogetherInv, q
    <3>2. OneSession
      BY <2>2, <2>4, <2>6, <3>1
    <3>. QED BY <3>2
  <2>. QED BY <2>3, <2>5, <2>6 DEF Initiator, Responder
<1>. QED BY <1>1, SessionInvariant, PTL

(* A message that cannot be opened leaves no trace in the session, the     *)
(* pinned identity or the one-time prekeys of its addressee                *)
(* (session-builder.ts:71-73, session-cipher.ts:122-123), and nobody's     *)
(* step but a user's own changes them.                                     *)
THEOREM NoTraceOfRefusal == Spec => RefusalLeavesNoTrace
<1>1. SessionInv /\ [Next]_vars => [\A p \in Party : LeavesNoTrace(p)]_vars
  <2>. SUFFICES ASSUME SessionInv, [Next]_vars, NEW p \in Party,
                       handed'[p] = handed[p], posted'[p] = posted[p],
                       generation'[p] = generation[p]
                PROVE  session'[p] = session[p] /\ pinned'[p] = pinned[p]
                       /\ oneTime'[p] = oneTime[p]
    BY DEF LeavesNoTrace
  <2>1. Types
    BY DEF SessionInv
  <2>2. ASSUME NEW x \in Party, EncryptFirst(x)
        PROVE  session'[p] = session[p] /\ pinned'[p] = pinned[p] /\ oneTime'[p] = oneTime[p]
    <3>1. /\ posted' = [posted EXCEPT ![x] = @ + 1] /\ oneTime' = oneTime
          /\ \E r, k : /\ session' = [session EXCEPT ![x] = r]
                       /\ pinned' = [pinned EXCEPT ![x] = k]
      BY <2>2 DEF EncryptFirst, Transmit
    <3>2. x # p
      <4>1. posted[p] \in Nat
        BY <2>1, SessionAssumption DEF Types
      <4>. QED BY <2>1, <3>1, <4>1 DEF Types
    <3>. QED BY <2>1, <3>1, <3>2 DEF Types
  <2>3. ASSUME NEW x \in Party, EncryptNext(x)
        PROVE  session'[p] = session[p] /\ pinned'[p] = pinned[p] /\ oneTime'[p] = oneTime[p]
    <3>1. /\ posted' = [posted EXCEPT ![x] = @ + 1] /\ UNCHANGED <<pinned, oneTime>>
          /\ \E r : session' = [session EXCEPT ![x] = r]
      BY <2>3 DEF EncryptNext, Transmit
    <3>2. x # p
      <4>1. posted[p] \in Nat
        BY <2>1, SessionAssumption DEF Types
      <4>. QED BY <2>1, <3>1, <4>1 DEF Types
    <3>. QED BY <2>1, <3>1, <3>2 DEF Types
  <2>4. ASSUME NEW x \in Party, Receive(x) \/ ReceiveCopy(x) \/ ReceiveDamaged(x) \/ Lose(x)
        PROVE  session'[p] = session[p] /\ pinned'[p] = pinned[p] /\ oneTime'[p] = oneTime[p]
    <3>1. PICK i \in 1 .. Len(channel[x]) : \E e \in Envelopes : Arrival(x, i, e)
      BY <2>4, DeliveryArrives DEF SessionInv
    <3>2. PICK e \in Envelopes : Arrival(x, i, e)
      BY <3>1
    <3>3. CASE Refused(x)
      BY <3>3 DEF Refused
    <3>4. CASE ~Refused(x)
      <4>1. handed' = [handed EXCEPT ![x] = Append(@, Plaintext(e))]
            /\ session'[Peer(x)] = session[Peer(x)]
        BY <3>2, <3>4 DEF Arrival, Effect, Opened, Adopts
      <4>2. handed'[x] # handed[x]
        <5>1. handed[x] \in Seq(1 .. way.posts)
          BY <2>1 DEF Types
        <5>2. handed'[x] = Append(handed[x], Plaintext(e))
          BY <2>1, <4>1 DEF Types
        <5>3. Len(Append(handed[x], Plaintext(e))) = Len(handed[x]) + 1 /\ Len(handed[x]) \in Nat
          BY <5>1
        <5>. QED BY <5>2, <5>3
      <4>3. p = Peer(x) /\ p # x
        BY <4>2, PartyFacts
      <4>4. CASE Opened(x, e)
        BY <4>1, <4>3, <4>4 DEF Opened
      <4>5. CASE \E o \in Origins : Adopts(x, e, o)
        BY <2>1, <4>1, <4>3, <4>5 DEF Adopts, Types
      <4>. QED BY <3>2, <3>4, <4>4, <4>5 DEF Arrival, Effect
    <3>. QED BY <3>3, <3>4
  <2>5. ASSUME NEW x \in Party, Reload(x)
        PROVE  session'[p] = session[p] /\ pinned'[p] = pinned[p] /\ oneTime'[p] = oneTime[p]
    <3>1. generation' = [generation EXCEPT ![x] = @ + 1] /\ generation[p] \in Nat
      BY <2>1, <2>5 DEF Reload, Types
    <3>2. x # p
      BY <2>1, <3>1 DEF Types
    <3>. QED BY <2>1, <2>5, <3>2 DEF Reload, Types
  <2>6. ASSUME NEW x \in Party, PublishKeys(x)
        PROVE  session'[p] = session[p] /\ pinned'[p] = pinned[p] /\ oneTime'[p] = oneTime[p]
    BY <2>6 DEF PublishKeys, userVars
  <2>7. CASE UNCHANGED vars
    BY <2>7 DEF vars, userVars
  <2>. QED BY <2>2, <2>3, <2>4, <2>5, <2>6, <2>7 DEF Next
<1>. QED BY <1>1, SessionInvariant, PTL DEF Spec, RefusalLeavesNoTrace

(* An identity once pinned is not replaced by another until the user       *)
(* starts afresh (trust on first use, signal/README.md:63-64).             *)
THEOREM PinsAreKept == Spec => PinsHold
<1>1. SessionInv /\ [Next]_vars => [\A p \in Party : PinHolds(p)]_vars
  <2>. SUFFICES ASSUME SessionInv, [Next]_vars, NEW p \in Party, pinned[p] # NotPinned
                PROVE  pinned'[p] = pinned[p] \/ generation'[p] # generation[p]
    BY DEF PinHolds
  <2>1. Types /\ PinsInv
    BY DEF SessionInv
  <2>2. ASSUME NEW x \in Party, EncryptFirst(x)  PROVE pinned'[p] = pinned[p]
    <3>1. ~HasSession(x) /\ \E k : pinned' = [pinned EXCEPT ![x] = k]
      BY <2>2 DEF EncryptFirst, HasSession
    <3>2. x # p
      BY <2>1, <3>1 DEF PinsInv
    <3>. QED BY <2>1, <3>1, <3>2 DEF Types
  <2>3. ASSUME NEW x \in Party, EncryptNext(x)  PROVE pinned'[p] = pinned[p]
    BY <2>3 DEF EncryptNext
  <2>4. ASSUME NEW x \in Party, Receive(x) \/ ReceiveCopy(x) \/ ReceiveDamaged(x) \/ Lose(x)
        PROVE  pinned'[p] = pinned[p]
    <3>1. PICK i \in 1 .. Len(channel[x]) : \E e \in Envelopes : Arrival(x, i, e)
      BY <2>4, DeliveryArrives DEF SessionInv
    <3>2. PICK e \in Envelopes : Arrival(x, i, e)
      BY <3>1
    <3>3. CASE \E o \in Origins : Adopts(x, e, o)
      BY <2>1, <3>3 DEF Adopts, Types
    <3>. QED BY <3>2, <3>3 DEF Arrival, Effect, Refused, Opened
  <2>5. ASSUME NEW x \in Party, Reload(x)
        PROVE  pinned'[p] = pinned[p] \/ generation'[p] # generation[p]
    <3>1. CASE x = p
      <4>1. generation'[p] = generation[p] + 1 /\ generation[p] \in Nat
        BY <2>1, <2>5, <3>1 DEF Reload, Types
      <4>. QED BY <4>1
    <3>2. CASE x # p
      BY <2>1, <2>5, <3>2 DEF Reload, Types
    <3>. QED BY <3>1, <3>2
  <2>6. ASSUME NEW x \in Party, PublishKeys(x)  PROVE pinned'[p] = pinned[p]
    BY <2>6 DEF PublishKeys, userVars
  <2>7. CASE UNCHANGED vars
    BY <2>7 DEF vars, userVars
  <2>. QED BY <2>2, <2>3, <2>4, <2>5, <2>6, <2>7 DEF Next
<1>. QED BY <1>1, SessionInvariant, PTL DEF Spec, PinsHold

(* Across handshakes, replaced sessions and reloads, on a way that may     *)
(* lose, repeat, reorder and damage, no message is handed over twice and   *)
(* none that was not posted: the session layer implements the at-most-once *)
(* channel.                                                                *)
THEOREM SessionsImplementAtMostOnce == Spec => AtMostOnce
<1>1. Init => Abstract!Init
  BY DEF Init, Abstract!Init, Abstract!Party, Party
<1>2. SessionInv /\ [Next]_vars => [Abstract!Next]_(Abstract!vars)
  <2>. SUFFICES ASSUME SessionInv, [Next]_vars
                PROVE  Abstract!Next \/ UNCHANGED Abstract!vars
    BY DEF Abstract!vars
  <2>1. Types /\ EnvelopesInv
    BY DEF SessionInv
  <2>2. Abstract!Party = Party /\ \A p \in Party : Abstract!Peer(p) = Peer(p)
    BY DEF Abstract!Party, Party, Abstract!Peer, Peer
  <2>3. ASSUME NEW p \in Party, EncryptFirst(p) \/ EncryptNext(p)
        PROVE  Abstract!Post(p)
    BY <2>3 DEF EncryptFirst, EncryptNext, Transmit, Abstract!Post
  <2>4. ASSUME NEW p \in Party, Receive(p) \/ ReceiveCopy(p) \/ ReceiveDamaged(p) \/ Lose(p)
        PROVE  Abstract!HandOver(p) \/ UNCHANGED Abstract!vars
    <3>1. PICK i \in 1 .. Len(channel[p]) : \E e \in Envelopes : Arrival(p, i, e)
      BY <2>4, DeliveryArrives DEF SessionInv
    <3>2. PICK e \in Envelopes : Arrival(p, i, e)
      BY <3>1
    <3>3. posted' = posted
      BY <3>2 DEF Arrival
    <3>4. CASE Refused(p)
      BY <3>3, <3>4 DEF Refused, Abstract!vars
    <3>5. CASE ~Refused(p)
      <4>1. handed' = [handed EXCEPT ![p] = Append(@, Plaintext(e))]
        BY <3>2, <3>5 DEF Arrival, Effect, Opened, Adopts
      <4>2. Plaintext(e) \in 1 .. posted[Peer(p)]
        BY <2>1, <3>2, EnvelopeOrigin DEF Arrival, Resembles
      <4>3. Plaintext(e) \notin ToSet(handed[p])
        BY <3>2, <3>5, ArrivalHandsOverOnce
      <4>4. \A j \in 1 .. Len(handed[p]) : handed[p][j] # Plaintext(e)
        BY <4>3 DEF ToSet
      <4>. QED BY <2>2, <3>3, <4>1, <4>2, <4>4 DEF Abstract!HandOver
    <3>. QED BY <3>4, <3>5
  <2>5. ASSUME NEW p \in Party, Reload(p) \/ PublishKeys(p)  PROVE UNCHANGED Abstract!vars
    BY <2>5 DEF Reload, PublishKeys, historyVars, Abstract!vars
  <2>6. CASE UNCHANGED vars
    BY <2>6 DEF vars, historyVars, Abstract!vars
  <2>. QED BY <2>2, <2>3, <2>4, <2>5, <2>6 DEF Next, Abstract!Next
<1>. QED BY <1>1, <1>2, SessionInvariant, PTL DEF Spec, AtMostOnce, Abstract!Spec
=============================================================================
