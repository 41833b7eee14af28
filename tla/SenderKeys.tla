------------------------------ MODULE SenderKeys ------------------------------
(***************************************************************************)
(* Group messaging with sender keys (signal/sender-keys, and the group     *)
(* operations of signal/index.ts:185-253): one sender of one group and the *)
(* members that receive from it.  Records of different senders and groups  *)
(* never meet, so one is enough.  The manager runs the operations of a     *)
(* group one after the other (index.ts:119-124): each is one action.       *)
(*                                                                         *)
(* Cryptography is symbolic.  A chain is named by its distribution id, and *)
(* ids, which are random in the code, by the order the sender drew them in.*)
(* The chain key after n steps of chain c is [chain |-> c, step |-> n] and *)
(* stands for the message key derived from it as well.  Messages and       *)
(* distribution messages arrive late, out of order, repeatedly or never,   *)
(* but unaltered: of the checks on what arrives only those are modelled    *)
(* that such input can fail.                                               *)
(***************************************************************************)
EXTENDS Integers, Sequences, FiniteSets

CONSTANTS Members,                   \* the users that receive from the sender
          MAX_SENDER_KEY_STATES,     \* sender-key-record.ts: 5
          MAX_GROUP_SKIP,            \* core/constants.ts: 25000
          MAX_SKIPPED_KEYS_STORED,   \* core/constants.ts: 2000
          MaxChains,                 \* bound: chains the sender creates
          MaxOperations,             \* bound: chains, group messages and reloads together
          MaxSkdms,                  \* bound: distribution messages it issues
          MaxReloads                 \* bound: page reloads, of all users together

ASSUME SenderKeysAssumption ==
    /\ MAX_SENDER_KEY_STATES \in Nat \ {0}
    /\ MAX_GROUP_SKIP \in Nat
    /\ MAX_SKIPPED_KEYS_STORED \in Nat
    /\ {MaxChains, MaxOperations, MaxSkdms, MaxReloads} \subseteq Nat

VARIABLES identity,   \* the sender's identity key, numbered
          own,        \* the sender's own record, oldest chain first
          created,    \* how many chains the sender has created
          sent,       \* group messages encrypted so far
          skdms,      \* distribution messages issued so far
          pinned,     \* pinned[m]: the identity m trusts for the sender
          record,     \* record[m]: m's record for the sender, <<>> if it has none
          misfiled,   \* members that file the chains under another group's id
          reloads,    \* page reloads so far
          delivered,  \* delivered[m]: messages m has opened (history)
          repeated,   \* repeated[m]: those it has opened more than once (history)
          skipped,    \* skipped[m]: messages m has stored a key of (history)
          joined,     \* joined[m][c]: the iteration at which m last took in chain c (history)
          retired,    \* retired[m]: chains that m has held and given up (history)
          overtaken   \* overtaken[m]: m took in a chain after a newer one (history)

senderVars == <<identity, own, created, sent, skdms>>
memberVars == <<pinned, record, misfiled>>
historyVars == <<delivered, repeated, skipped, joined, retired, overtaken>>
vars == <<senderVars, memberVars, reloads, historyVars>>

NoKey == [chain |-> 0, step |-> 0]
NotPinned == -1
NotJoined == -1

Chains == 1 .. MaxChains

Operations == created + Cardinality(sent) + reloads

-----------------------------------------------------------------------------
(* SenderKeyState.  The Map of skipped keys is a function on iterations; as*)
(* a chain only moves forward, its insertion order is that of iterations.  *)

NoSkippedKeys == [i \in {} |-> NoKey]

SenderKeyState(distributionId, chainKey, iteration) ==
    [distributionId |-> distributionId,
     chainKey |-> chainKey,
     iteration |-> iteration,
     skippedMessageKeys |-> NoSkippedKeys]

Create(distributionId) ==
    SenderKeyState(distributionId, [chain |-> distributionId, step |-> 0], 0)

NextChainKey(chainKey, n) == [chainKey EXCEPT !.step = @ + n]

Advance(state) ==
    [state EXCEPT !.chainKey = NextChainKey(@, 1),
                  !.iteration = @ + 1]

(* Plausible slip: the newest keys go first.                               *)
EvictOldestNewestFirst(keys) ==
    [i \in {j \in DOMAIN keys :
              Cardinality({k \in DOMAIN keys : k < j}) < MAX_SKIPPED_KEYS_STORED}
       |-> keys[i]]

EvictOldest(keys) ==
    [i \in {j \in DOMAIN keys :
              Cardinality({k \in DOMAIN keys : k > j}) < MAX_SKIPPED_KEYS_STORED}
       |-> keys[i]]

Gap(state, target) == state.iteration .. target - 1

(* Plausible slip: the chain key stays behind when nothing is opened with  *)
(* the last key of a gap.                                                  *)
SkipToKeepsChainKey(state, target) ==
    [state EXCEPT !.iteration = target,
                  !.skippedMessageKeys =
                      EvictOldest([i \in DOMAIN @ \cup Gap(state, target) |->
                         IF i \in DOMAIN @ THEN @[i]
                         ELSE NextChainKey(state.chainKey, i - state.iteration)])]

SkipTo(state, target) ==
    [state EXCEPT !.chainKey = NextChainKey(@, target - state.iteration),
                  !.iteration = target,
                  !.skippedMessageKeys =
                      EvictOldest([i \in DOMAIN @ \cup Gap(state, target) |->
                         IF i \in DOMAIN @ THEN @[i]
                         ELSE NextChainKey(state.chainKey, i - state.iteration)])]

(* Plausible slip: the key is used and kept.                               *)
TakeSkippedKeyKeepsIt(state, iteration) == state

TakeSkippedKey(state, iteration) ==
    [state EXCEPT !.skippedMessageKeys =
        [i \in DOMAIN @ \ {iteration} |-> @[i]]]

-----------------------------------------------------------------------------
(* SenderKeyRecord: chains in the order they were added.                   *)

Current(states) == states[Len(states)]

Tracks(states, distributionId) ==
    \E i \in DOMAIN states : states[i].distributionId = distributionId

Find(states, distributionId) ==
    CHOOSE i \in DOMAIN states :
        /\ states[i].distributionId = distributionId
        /\ \A j \in 1 .. i - 1 : states[j].distributionId # distributionId

(* Plausible slip: the chain before the limit is reached goes already.     *)
AddEvictsEarly(states, state) ==
    LET longer == Append(states, state)
    IN  IF Len(longer) < MAX_SENDER_KEY_STATES THEN longer ELSE Tail(longer)

(* Plausible slip: nothing is evicted.                                     *)
AddNeverEvicts(states, state) == Append(states, state)

(* A record never exceeds the limit by more than the chain just added.     *)
Add(states, state) ==
    LET longer == Append(states, state)
    IN  IF Len(longer) <= MAX_SENDER_KEY_STATES THEN longer ELSE Tail(longer)

Init ==
    /\ identity = 0 /\ own = <<>> /\ created = 0
    /\ sent = {} /\ skdms = {}
    /\ pinned = [m \in Members |-> NotPinned]
    /\ record = [m \in Members |-> <<>>]
    /\ misfiled \in SUBSET Members
    /\ reloads = 0
    /\ delivered = [m \in Members |-> {}]
    /\ repeated = [m \in Members |-> {}]
    /\ skipped = [m \in Members |-> {}]
    /\ joined = [m \in Members |-> [c \in Chains |-> NotJoined]]
    /\ retired = [m \in Members |-> {}]
    /\ overtaken = [m \in Members |-> FALSE]

-----------------------------------------------------------------------------
(* The sender.                                                             *)

Skdm(state) ==
    [distributionId |-> state.distributionId,
     iteration |-> state.iteration,
     chainKey |-> state.chainKey,
     identityKey |-> identity]

Issue(state) ==
    /\ Cardinality(skdms) < MaxSkdms
    /\ skdms' = skdms \cup {Skdm(state)}

(* A record that is there already is replaced.                             *)
SetupSenderKey ==
    /\ created < MaxChains /\ Operations < MaxOperations
    /\ created' = created + 1
    /\ own' = <<Create(created')>>
    /\ UNCHANGED <<identity, sent, skdms, memberVars, reloads, historyVars>>

GetSenderKeyDistribution ==
    /\ own # <<>>
    /\ Issue(Current(own))
    /\ UNCHANGED <<identity, own, created, sent, memberVars, reloads, historyVars>>

RotateSenderKey ==
    /\ created < MaxChains /\ Operations < MaxOperations
    /\ created' = created + 1
    /\ own' = Add(own, Create(created'))
    /\ Issue(Create(created'))
    /\ UNCHANGED <<identity, sent, memberVars, reloads, historyVars>>

GroupMessage(state) ==
    [distributionId |-> state.distributionId,
     iteration |-> state.iteration,
     key |-> state.chainKey,
     plaintext |-> Cardinality(sent) + 1]

(* Plausible slip: the record is not stored again after encrypting.        *)
EncryptGroupMessageUnsaved ==
    /\ own # <<>>
    /\ Operations < MaxOperations
    /\ sent' = sent \cup {GroupMessage(Current(own))}
    /\ UNCHANGED <<identity, own, created, skdms, memberVars, reloads, historyVars>>

EncryptGroupMessage ==
    /\ own # <<>>
    /\ Operations < MaxOperations
    /\ sent' = sent \cup {GroupMessage(Current(own))}
    /\ own' = [own EXCEPT ![Len(own)] = Advance(@)]
    /\ UNCHANGED <<identity, created, skdms, memberVars, reloads, historyVars>>

-----------------------------------------------------------------------------
(* A member takes in a distribution message.                               *)

(* Trust on first use: the identity in the message, unless one is pinned.  *)
TrustedIdentity(m, skdm) == IF pinned[m] = NotPinned THEN skdm.identityKey ELSE pinned[m]

(* Plausible slip: the identity in the message is pinned every time.       *)
PinEveryTime(m, skdm) == pinned' = [pinned EXCEPT ![m] = skdm.identityKey]

Pin(m, skdm) == pinned' = [pinned EXCEPT ![m] = TrustedIdentity(m, skdm)]

VerifySkdm(m, skdm) == skdm.identityKey = TrustedIdentity(m, skdm)

(* Plausible slip: a chain is taken for known only if it is at the same    *)
(* iteration.                                                              *)
IsKnownChainAtIteration(m, skdm) ==
    \E i \in DOMAIN record[m] :
        /\ record[m][i].distributionId = skdm.distributionId
        /\ record[m][i].iteration = skdm.iteration

IsKnownChain(m, skdm) == Tracks(record[m], skdm.distributionId)

Held(states) == {states[i].distributionId : i \in DOMAIN states}

AcceptDistribution(m, skdm) ==
    LET state == SenderKeyState(skdm.distributionId, skdm.chainKey, skdm.iteration)
        states == Add(record[m], state)
    IN  /\ VerifySkdm(m, skdm)
        /\ ~IsKnownChain(m, skdm)
        /\ record' = [record EXCEPT ![m] = states]
        /\ joined' = [joined EXCEPT ![m][skdm.distributionId] = skdm.iteration]
        /\ retired' = [retired EXCEPT ![m] = @ \cup (Held(record[m]) \ Held(states))]
        /\ overtaken' = [overtaken EXCEPT ![m] = @ \/ \E c \in Chains :
                            c > skdm.distributionId /\ joined[m][c] # NotJoined]

(* An identity other than the pinned one, or a chain that is there already.*)
IgnoreDistribution(m, skdm) ==
    /\ ~VerifySkdm(m, skdm) \/ IsKnownChain(m, skdm)
    /\ UNCHANGED <<record, joined, retired, overtaken>>

ProcessSenderKeyDistribution(m) ==
    /\ \E skdm \in skdms :
        /\ Pin(m, skdm)
        /\ AcceptDistribution(m, skdm) \/ IgnoreDistribution(m, skdm)
    /\ UNCHANGED <<senderVars, misfiled, reloads, delivered, repeated, skipped>>

-----------------------------------------------------------------------------
(* A member decrypts a group message.                                      *)

StateFor(m, message) == record[m][Find(record[m], message.distributionId)]

(* Plausible slip: the limit itself is refused.                            *)
TooManySkippedAtLimit(state, message) ==
    message.iteration - state.iteration >= MAX_GROUP_SKIP

TooManySkipped(state, message) == message.iteration - state.iteration > MAX_GROUP_SKIP

IsLate(state, message) == message.iteration < state.iteration

(* The key a state has for a message, or NoKey.                            *)
KeyFor(state, message) ==
    CASE IsLate(state, message) ->
            IF message.iteration \in DOMAIN state.skippedMessageKeys
              THEN state.skippedMessageKeys[message.iteration]
              ELSE NoKey
      [] ~IsLate(state, message) /\ TooManySkipped(state, message) -> NoKey
      [] OTHER -> NextChainKey(state.chainKey, message.iteration - state.iteration)

StateAfter(state, message) ==
    IF IsLate(state, message)
      THEN TakeSkippedKey(state, message.iteration)
      ELSE Advance(SkipTo(state, message.iteration))

(* The group id is the associated data of the AEAD.                        *)
Opens(m, message) ==
    /\ Tracks(record[m], message.distributionId)
    /\ KeyFor(StateFor(m, message), message) = message.key
    /\ m \notin misfiled

Persist(m, message) ==
    record' = [record EXCEPT ![m][Find(record[m], message.distributionId)]
                   = StateAfter(@, message)]

OpenGroupMessage(m, message) ==
    LET gap == Gap(StateFor(m, message), message.iteration)
    IN  /\ Opens(m, message)
        /\ Persist(m, message)
        /\ delivered' = [delivered EXCEPT ![m] = @ \cup {message}]
        /\ repeated' = [repeated EXCEPT ![m] = @ \cup ({message} \cap delivered[m])]
        /\ skipped' = [skipped EXCEPT ![m] = @ \cup {<<message.distributionId, i>> : i \in gap}]

(* Plausible slip: the record is stored before the message is opened.      *)
RefuseGroupMessagePersists(m, message) ==
    /\ ~Opens(m, message)
    /\ IF /\ Tracks(record[m], message.distributionId)
          /\ KeyFor(StateFor(m, message), message) # NoKey
         THEN Persist(m, message)
         ELSE UNCHANGED record
    /\ UNCHANGED <<delivered, repeated, skipped>>

(* Nothing is stored on any of the ways to fail.                           *)
RefuseGroupMessage(m, message) ==
    /\ ~Opens(m, message)
    /\ UNCHANGED <<record, delivered, repeated, skipped>>

DecryptGroupMessage(m) ==
    /\ \E message \in sent : OpenGroupMessage(m, message) \/ RefuseGroupMessage(m, message)
    /\ UNCHANGED <<senderVars, pinned, misfiled, reloads, joined, retired, overtaken>>

-----------------------------------------------------------------------------
(* Page reloads: all keys are in memory, and initialize draws an identity. *)

ReloadSender ==
    /\ reloads < MaxReloads /\ Operations < MaxOperations
    /\ reloads' = reloads + 1
    /\ identity' = identity + 1
    /\ own' = <<>>
    /\ UNCHANGED <<created, sent, skdms, memberVars, historyVars>>

ReloadMember(m) ==
    /\ reloads < MaxReloads /\ Operations < MaxOperations
    /\ reloads' = reloads + 1
    /\ record' = [record EXCEPT ![m] = <<>>]
    /\ pinned' = [pinned EXCEPT ![m] = NotPinned]
    /\ joined' = [joined EXCEPT ![m] = [c \in Chains |-> NotJoined]]
    /\ retired' = [retired EXCEPT ![m] = @ \cup Held(record[m])]
    /\ overtaken' = [overtaken EXCEPT ![m] = FALSE]
    /\ UNCHANGED <<senderVars, misfiled, delivered, repeated, skipped>>

Next ==
    \/ SetupSenderKey
    \/ GetSenderKeyDistribution
    \/ RotateSenderKey
    \/ EncryptGroupMessage
    \/ ReloadSender
    \/ \E m \in Members :
        \/ ProcessSenderKeyDistribution(m)
        \/ DecryptGroupMessage(m)
        \/ ReloadMember(m)

Spec == Init /\ [][Next]_vars

-----------------------------------------------------------------------------
(* Properties.                                                             *)

ChainKey == [chain : 0 .. MaxChains, step : Nat]
Message == [distributionId : Chains, iteration : Nat, key : ChainKey,
            plaintext : Nat]

IsState(state) ==
    /\ state.distributionId \in Chains
    /\ state.chainKey \in ChainKey
    /\ state.iteration \in Nat
    /\ \A i \in DOMAIN state.skippedMessageKeys :
            i \in Nat /\ state.skippedMessageKeys[i] \in ChainKey
    /\ Cardinality(DOMAIN state.skippedMessageKeys) <= MAX_SKIPPED_KEYS_STORED

IsRecord(states) ==
    /\ Len(states) <= MAX_SENDER_KEY_STATES
    /\ \A i \in 1 .. Len(states) : IsState(states[i])

(* Types, and the two limits on what is stored: five chains in a record    *)
(* (sender-key-record.ts:42-48), 2000 skipped keys in a chain              *)
(* (sender-key-state.ts:69-72).                                            *)
TypeOK ==
    /\ identity \in Nat /\ created \in 0 .. MaxChains
    /\ sent \subseteq Message
    /\ IsRecord(own)
    /\ \A m \in Members : IsRecord(record[m])
    /\ \A skdm \in skdms : skdm.chainKey \in ChainKey
    /\ pinned \in [Members -> Nat \cup {NotPinned}]
    /\ delivered \in [Members -> SUBSET sent]

AgreesWithChain(state) ==
    LET key(i) == [chain |-> state.distributionId, step |-> i]
    IN  /\ state.chainKey = key(state.iteration)
        /\ \A i \in DOMAIN state.skippedMessageKeys :
              i < state.iteration /\ state.skippedMessageKeys[i] = key(i)

(* A state and its skipped keys agree with the sender's chain: what is     *)
(* stored for iteration i of chain c is key i of chain c, however the chain*)
(* was moved on, and iterations that are still to come are not stored      *)
(* (sender-key-state.ts:47-81).  And a record holds a chain once           *)
(* (group-cipher.ts:180-182): two states of one chain would bring spent    *)
(* keys back when the first is evicted.                                    *)
ChainsAgree ==
    \A m \in Members :
        /\ \A i \in DOMAIN record[m] : AgreesWithChain(record[m][i])
        /\ \A i, j \in DOMAIN record[m] :
              record[m][i].distributionId = record[m][j].distributionId => i = j

(* Forward secrecy: a member that has opened a message no longer holds its *)
(* key, nor a chain key it could be derived from, unless it gave the chain *)
(* up and took it in again (signal/README.md:70-74).                       *)
SpentKeysGone ==
    \A m \in Members : \A message \in delivered[m] : \A i \in DOMAIN record[m] :
        LET state == record[m][i]
        IN  /\ state.distributionId = message.distributionId
            /\ message.distributionId \notin retired[m]
            => /\ message.iteration < state.iteration
               /\ message.iteration \notin DOMAIN state.skippedMessageKeys

(* One-shot keys (sender-key-state.ts:20-24): however often and in what    *)
(* order messages arrive, a member opens none twice, unless it gave the    *)
(* chain up and took it in again.                                          *)
AtMostOnce ==
    \A m \in Members : \A message \in repeated[m] :
        message.distributionId \in retired[m]

(* A message key encrypts one message (signal/README.md:61-62): the sender *)
(* never uses a step of a chain twice, across rotations and reloads.       *)
OneMessagePerKey == \A a, b \in sent : a.key = b.key => a = b

(* Late messages remain decryptable (sender-key-state.ts:57-60): a message *)
(* of a chain that m holds, sent since the iteration m took it in at, can  *)
(* be opened whatever was opened before it, unless it is more than         *)
(* MAX_GROUP_SKIP ahead or its key had to make way for                     *)
(* MAX_SKIPPED_KEYS_STORED later ones.                                     *)
MadeWay(m, message) ==
    Cardinality({s \in skipped[m] : /\ s[1] = message.distributionId
                                    /\ s[2] > message.iteration})
        >= MAX_SKIPPED_KEYS_STORED

Decryptable ==
    \A m \in Members \ misfiled : \A message \in sent \ delivered[m] :
        /\ Tracks(record[m], message.distributionId)
        /\ message.iteration >= joined[m][message.distributionId]
        /\ message.iteration - StateFor(m, message).iteration <= MAX_GROUP_SKIP
        /\ message.iteration < StateFor(m, message).iteration => ~MadeWay(m, message)
        => Opens(m, message)

(* Rotation does not cut off messages in flight, old states are evicted    *)
(* (sender-key-record.ts:4-9): a chain that m took in is still there as    *)
(* long as the sender has drawn fewer than MAX_SENDER_KEY_STATES chains    *)
(* since.                                                                  *)
RecentChainKept(m) ==
    \A c \in Chains :
        /\ joined[m][c] # NotJoined
        /\ created - c < MAX_SENDER_KEY_STATES
        => Tracks(record[m], c)

RecentChainsKept == \A m \in Members : RecentChainKept(m)

(* The same for members that took in no chain after a newer one.           *)
RecentChainsKeptInOrder == \A m \in Members : ~overtaken[m] => RecentChainKept(m)

(* A failed decryption leaves what is stored untouched (group-cipher.ts:   *)
(* 90-97): where no message opens, every chain is as it was taken in, though*)
(* signatures are valid and keys at hand.                                  *)
FailureLeavesChains ==
    \A m \in misfiled : \A i \in DOMAIN record[m] :
        LET state == record[m][i]
        IN  /\ state.iteration = joined[m][state.distributionId]
            /\ DOMAIN state.skippedMessageKeys = {}

(* Trust on first use (index.ts:216-222): distribution messages of another *)
(* identity than the first never replace it.                               *)
PinsHold ==
    [][\A m \in Members :
          pinned[m] # NotPinned => pinned'[m] = pinned[m] \/ ReloadMember(m)]_vars
=============================================================================
