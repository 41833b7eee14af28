----------------------------- MODULE SignalManager -----------------------------
(***************************************************************************)
(* SignalProtocolManager of one user (signal/index.ts): the promise queues *)
(* of its peers and groups, and the calls of the store between which an    *)
(* operation awaits.  A step of an operation is what runs between two      *)
(* awaits: the store call it ends in takes effect in it.                   *)
(*                                                                         *)
(* A record (a session, or a sender's keys in a group) is the sequence of  *)
(* the operations that made it what it is: <<>> is absent, a new record is *)
(* <<i>>, and an operation i that loads r and advances it stores r \o <<i>>*)
(* What keys do is in SignalSession and SenderKeys.  Here an operation may *)
(* fail wherever the code can refuse.                                      *)
(***************************************************************************)
EXTENDS Naturals, Sequences

CONSTANTS Peers,            \* the users this one talks to
          Groups,
          Identities,       \* identity keys a peer may show up with: a peer that
                            \* reloads its page has a new one
          Self,             \* this user, as the sender of its own group messages
          MaxCalls          \* bound: calls of the manager

ASSUME ManagerAssumption ==
    /\ Self \notin Peers
    /\ MaxCalls \in Nat

VARIABLES ops,              \* ops[i]: the i-th call and how far it has got
          tail,             \* tail[q]: the last operation put in queue q, or 0: the
                            \* Maps sessionQueues and groupQueues
          record,           \* record[c]: the stored record of cell c
          pins,             \* pins[p]: the identity stored for peer p, or NotPinned
          racing            \* racing[p]: the operations under way when pins[p] was
                            \* set (history)

vars == <<ops, tail, record, pins, racing>>

NotPinned == <<>>
SessionQueue(p) == <<"session", p>>
GroupQueue(g) == <<"group", g>>
SenderKey(g, s) == <<"senderKey", g, s>>

Queues == {SessionQueue(p) : p \in Peers} \cup {GroupQueue(g) : g \in Groups}
Cells == {SessionQueue(p) : p \in Peers}
            \cup {SenderKey(g, s) : g \in Groups, s \in Peers \cup {Self}}

Init ==
    /\ ops = <<>>
    /\ tail = [q \in Queues |-> 0]
    /\ record = [c \in Cells |-> <<>>]
    /\ pins = [p \in Peers |-> NotPinned]
    /\ racing = [p \in Peers |-> {}]

-----------------------------------------------------------------------------
(* The queues.                                                             *)

Settled(i) == ops[i].at \in {"fulfilled", "rejected"}

(* Plausible slip: the queue of the call is not looked up.                 *)
RunAtOnce(q) == 0

(* runExclusive, runGroupExclusive: the operation to run after.            *)
RunAfter(q) == tail[q]

(* Plausible slip: the operation is not put in the Map.                    *)
KeepTail(q) == UNCHANGED tail

SetTail(q) == tail' = [tail EXCEPT ![q] = Len(ops) + 1]

Enqueue(kind, q, c, peer, identity) ==
    /\ Len(ops) < MaxCalls
    /\ ops' = Append(ops, [kind |-> kind, queue |-> q, cell |-> c, peer |-> peer,
                           identity |-> identity, after |-> RunAfter(q),
                           at |-> "waiting", read |-> <<>>])
    /\ SetTail(q)
    /\ UNCHANGED <<record, pins, racing>>

EncryptMessage(p) == Enqueue("encrypt", SessionQueue(p), SessionQueue(p), p, NotPinned)

(* A Signal message, or a PreKey message that names its sender's identity. *)
DecryptMessage(p) ==
    \/ Enqueue("decryptSignal", SessionQueue(p), SessionQueue(p), p, NotPinned)
    \/ \E identity \in Identities :
          Enqueue("decryptPreKey", SessionQueue(p), SessionQueue(p), p, identity)

(* A distribution message names its sender's identity and is signed with it*)
ProcessSenderKeyDistribution(g, p) ==
    \E identity \in Identities :
        Enqueue("process", GroupQueue(g), SenderKey(g, p), p, identity)

DecryptGroupMessage(g, p) ==
    Enqueue("advance", GroupQueue(g), SenderKey(g, p), p, NotPinned)

EncryptGroupMessage(g) ==
    Enqueue("advance", GroupQueue(g), SenderKey(g, Self), Self, NotPinned)

(* setupSenderKey, rotateSenderKey and getSenderKeyDistribution.           *)
ManageSenderKey(g) ==
    \E kind \in {"setup", "rotate", "distribution"} :
        Enqueue(kind, GroupQueue(g), SenderKey(g, Self), Self, NotPinned)

Call ==
    \/ \E p \in Peers : EncryptMessage(p) \/ DecryptMessage(p)
    \/ \E g \in Groups :
        \/ EncryptGroupMessage(g)
        \/ ManageSenderKey(g)
        \/ \E p \in Peers : DecryptGroupMessage(g, p) \/ ProcessSenderKeyDistribution(g, p)

(* Plausible slip: previous.then(task) alone, so that a failure is handed  *)
(* on to every operation behind it.                                        *)
PredecessorFulfilled(i) == \A j \in {ops[i].after} \ {0} : ops[j].at = "fulfilled"

(* previous.then(task, task): after the predecessor, whatever its outcome. *)
PredecessorSettled(i) == \A j \in {ops[i].after} \ {0} : Settled(j)

Begins(i, kinds) ==
    /\ ops[i].at = "waiting"
    /\ ops[i].kind \in kinds
    /\ PredecessorSettled(i)

At(i, step) == ops[i].at = step
GoTo(i, step) == ops' = [ops EXCEPT ![i].at = step]
Stored(i) == record[ops[i].cell]
StoreKept == UNCHANGED <<tail, record, pins, racing>>

(* A store call that reads: what is loaded is used after the await.        *)
Load(i, step) == ops' = [ops EXCEPT ![i].read = Stored(i), ![i].at = step]

Write(i, r, step) ==
    /\ record' = [record EXCEPT ![ops[i].cell] = r]
    /\ GoTo(i, step)
    /\ UNCHANGED <<tail, pins, racing>>

-----------------------------------------------------------------------------
(* Operations on a session (SessionCipher, session-builder).               *)

(* encryptMessage: is there a session?                                     *)
HasSession(i) ==
    /\ Begins(i, {"encrypt"})
    /\ GoTo(i, IF Stored(i) = <<>> THEN "fetch" ELSE "load")
    /\ StoreKept

(* The key server answers with a bundle, or the request fails.             *)
FetchPreKeyBundle(i) ==
    /\ At(i, "fetch")
    /\ \/ GoTo(i, "rejected")
       \/ \E identity \in Identities :
             ops' = [ops EXCEPT ![i].identity = identity, ![i].at = "trust"]
    /\ StoreKept

(* decryptPreKeyMessage: the handshake of the session there is, one to     *)
(* build a session from, or one that does not parse, does not open or loses*)
(* the tie-break.                                                          *)
TryLoadRecord(i) ==
    /\ Begins(i, {"decryptPreKey"})
    /\ \/ Stored(i) # <<>> /\ Load(i, "store")
       \/ GoTo(i, "trust")
       \/ GoTo(i, "rejected")
    /\ StoreKept

(* Plausible slip: a changed identity is accepted.                         *)
TrustsAnyone(p, identity) == TRUE

IsTrustedIdentity(p, identity) == pins[p] = NotPinned \/ pins[p] = identity

(* After it the bundle's signature, the prekeys or the first message may   *)
(* turn out bad.                                                           *)
CheckTrust(i) ==
    /\ At(i, "trust")
    /\ \/ IsTrustedIdentity(ops[i].peer, ops[i].identity) /\ GoTo(i, "pin")
       \/ GoTo(i, "rejected")
    /\ StoreKept

(* saveRemoteIdentity replaces whatever there is.                          *)
SaveRemoteIdentity(i) ==
    /\ At(i, "pin")
    /\ pins' = [pins EXCEPT ![ops[i].peer] = ops[i].identity]
    /\ racing' = [racing EXCEPT ![ops[i].peer] =
                    IF pins[ops[i].peer] = ops[i].identity
                      THEN @
                      ELSE {j \in DOMAIN ops : ~Settled(j) /\ ops[j].at # "waiting"}]
    /\ GoTo(i, IF ops[i].kind = "process" THEN "verify" ELSE "create")
    /\ UNCHANGED <<tail, record>>

(* storeSession of startSession, whose caller goes on to encrypt, and of   *)
(* commitResponderSession, the end of decrypt.                             *)
StoreNewSession(i) ==
    /\ At(i, "create")
    /\ Write(i, <<i>>, IF ops[i].kind = "encrypt" THEN "load" ELSE "fulfilled")

LoadRecord(i) ==
    /\ \/ At(i, "load") /\ Load(i, "store")
       \/ Begins(i, {"decryptSignal"}) /\ GoTo(i, "rejected")
       \/ Begins(i, {"decryptSignal"}) /\ Stored(i) # <<>> /\ Load(i, "store")
    /\ StoreKept

-----------------------------------------------------------------------------
(* Operations on sender keys (GroupCipher).                                *)

SetupSenderKey(i) ==
    /\ Begins(i, {"setup"})
    /\ Write(i, <<i>>, "fulfilled")

(* The first await of processSenderKeyDistribution.                        *)
GetRemoteIdentity(i) ==
    /\ Begins(i, {"process"})
    /\ ops' = IF pins[ops[i].peer] = NotPinned
                THEN [ops EXCEPT ![i].at = "pin"]
                ELSE [ops EXCEPT ![i].at = "verify", ![i].read = <<pins[ops[i].peer]>>]
    /\ StoreKept

(* processDistributionMessage: the identity found, or just pinned, is the  *)
(* one the signature must hold under.  A chain already there stays.        *)
SignedBy(i) == IF ops[i].read = <<>> THEN ops[i].identity ELSE ops[i].read[1]

VerifyAndLoadSenderKey(i) ==
    /\ At(i, "verify")
    /\ \/ GoTo(i, "rejected")
       \/ SignedBy(i) = ops[i].identity /\ Load(i, "store")
       \/ SignedBy(i) = ops[i].identity /\ Stored(i) # <<>> /\ GoTo(i, "fulfilled")
    /\ StoreKept

LoadSenderKey(i) ==
    /\ \/ Begins(i, {"rotate"}) /\ Load(i, "store")
       \/ Begins(i, {"advance", "distribution"}) /\ GoTo(i, "rejected")
       \/ Begins(i, {"advance"}) /\ Stored(i) # <<>> /\ Load(i, "store")
       \/ Begins(i, {"distribution"}) /\ Stored(i) # <<>> /\ GoTo(i, "fulfilled")
    /\ StoreKept

-----------------------------------------------------------------------------

(* The record loaded before the await, advanced, is stored.                *)
StoreAdvanced(i) ==
    /\ At(i, "store")
    /\ Write(i, Append(ops[i].read, i), "fulfilled")

Continue(i) ==
    /\ i \in DOMAIN ops
    /\ \/ HasSession(i)
       \/ TryLoadRecord(i)
       \/ CheckTrust(i)
       \/ SaveRemoteIdentity(i)
       \/ StoreNewSession(i)
       \/ LoadRecord(i)
       \/ SetupSenderKey(i)
       \/ GetRemoteIdentity(i)
       \/ VerifyAndLoadSenderKey(i)
       \/ LoadSenderKey(i)
       \/ StoreAdvanced(i)

Fetch(i) == i \in DOMAIN ops /\ FetchPreKeyBundle(i)

Next == Call \/ \E i \in 1 .. MaxCalls : Continue(i) \/ Fetch(i)

Spec == Init /\ [][Next]_vars

(* A settled promise runs what waits for it, and the store answers.  That  *)
(* the key server answers is not assumed.                                  *)
FairSpec == Spec /\ \A i \in 1 .. MaxCalls : WF_vars(Continue(i))

-----------------------------------------------------------------------------
(* Properties.                                                             *)

Steps == {"waiting", "fetch", "trust", "pin", "create", "load", "verify", "store",
          "fulfilled", "rejected"}

(* Types, and a queue ends in the last operation called on it, so that     *)
(* every later one waits for all before it (index.ts:111-124).             *)
TypeOK ==
    /\ \A i \in DOMAIN ops :
        /\ ops[i].queue \in Queues /\ ops[i].cell \in Cells /\ ops[i].at \in Steps
        /\ ops[i].after \in 0 .. i - 1
        /\ tail[ops[i].queue] \in i .. Len(ops)
    /\ tail \in [Queues -> 0 .. MaxCalls]
    /\ record \in [Cells -> Seq(1 .. MaxCalls)]
    /\ pins \in [Peers -> {NotPinned} \cup Identities]
    /\ racing \in [Peers -> SUBSET (1 .. MaxCalls)]

(* While encrypt has stored the session it has started but not yet advanced*)
(* it, the session counts as not there.                                    *)
HalfMade(i) ==
    /\ ops[i].kind = "encrypt"
    /\ ops[i].at \in {"load", "store"}
    /\ Stored(i) = <<i>>

(* index.ts:92-99: the operations of one queue happen one at a time, each  *)
(* on what the one before it stored, in the order of the calls, whatever   *)
(* fails and wherever the others await: no advance is lost or undone.      *)
Abstract == INSTANCE OneAtATime WITH
    calls <- [i \in DOMAIN ops |-> [queue |-> ops[i].queue, cell |-> ops[i].cell]],
    done <- {i \in DOMAIN ops : Settled(i)},
    record <- [c \in Cells |-> IF \E i \in DOMAIN ops : ops[i].cell = c /\ HalfMade(i)
                                 THEN <<>> ELSE record[c]]

OneAtATime == Abstract!Spec

(* A call settles unless a request to the key server that was never        *)
(* answered stands before it in its own queue: a failure does not stop the *)
(* queue (index.ts:113-115), and no queue waits for another.               *)
WaitsForFetch(i) ==
    \E j \in 1 .. i : ops[j].queue = ops[i].queue /\ ops[j].at = "fetch"

OnlyFetchHoldsUp ==
    \A i \in 1 .. MaxCalls :
        []<>(i \in DOMAIN ops => Settled(i) \/ WaitsForFetch(i))

(* Trust on first use across queues (README.md:63-64): a pinned identity is*)
(* only ever replaced by an operation that was already under way when it   *)
(* was pinned, that is in another queue.                                   *)
ReplacesPin(p) == pins[p] # NotPinned /\ pins'[p] # pins[p]

PinsReplacedInRacesOnly ==
    [][\A p \in Peers : ReplacesPin(p) =>
          \E i \in racing[p] : ops[i].peer = p /\ ops[i].at = "pin" /\ ops'[i].at # "pin"]_vars

(* README.md:63-64, "TOFU": a pinned identity is not replaced.             *)
PinsHold == [][\A p \in Peers : ~ReplacesPin(p)]_vars
=============================================================================
