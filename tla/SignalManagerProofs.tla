------------------------- MODULE SignalManagerProofs -------------------------
(***************************************************************************)
(* Theorems about SignalManager, for every set of peers, groups and        *)
(* identities and every number of calls: ManagerInv is inductive, and with *)
(* it the manager implements OneAtATime.                                   *)
(***************************************************************************)
EXTENDS SignalManager, SequenceTheorems, TLAPS

SessionKinds == {"encrypt", "decryptSignal", "decryptPreKey"}
OwnKeyKinds == {"advance", "setup", "rotate", "distribution"}
Kinds == SessionKinds \cup OwnKeyKinds \cup {"process"}

Operation == [kind : Kinds, queue : Queues, cell : Cells, peer : Peers \cup {Self},
              identity : Identities \cup {NotPinned}, after : Nat, at : Steps,
              read : Seq(Nat \cup Identities)]

(* A cell belongs to one queue: a session to its own, the keys of a sender *)
(* in a group to the group's.                                              *)
InItsQueue(o) ==
    \/ /\ o.kind \in SessionKinds
       /\ o.peer \in Peers
       /\ o.queue = SessionQueue(o.peer)
       /\ o.cell = SessionQueue(o.peer)
    \/ /\ o.kind \in OwnKeyKinds \cup {"process"}
       /\ \E g \in Groups : o.queue = GroupQueue(g) /\ o.cell = SenderKey(g, o.peer)
       /\ o.kind = "process" => o.peer \in Peers

(* The steps an operation of each kind passes through.                     *)
OnItsWay(o) ==
    /\ o.at = "fetch" => o.kind = "encrypt"
    /\ o.at = "trust" => o.kind \in {"encrypt", "decryptPreKey"}
    /\ o.at = "pin" => o.kind \in {"encrypt", "decryptPreKey", "process"}
    /\ o.at = "create" => o.kind \in {"encrypt", "decryptPreKey"}
    /\ o.at = "load" => o.kind = "encrypt"
    /\ o.at = "verify" => o.kind = "process"
    /\ o.kind \in {"decryptPreKey", "process"} \/ o.at \in {"trust", "pin"}
          => o.identity \in Identities

GoodOperation(o) == o \in Operation /\ InItsQueue(o) /\ OnItsWay(o)

Types ==
    /\ ops \in Seq(Operation)
    /\ Len(ops) <= MaxCalls
    /\ \A i \in 1 .. Len(ops) : GoodOperation(ops[i])
    /\ record \in [Cells -> Seq(1 .. Len(ops))]
    /\ pins \in [Peers -> {NotPinned} \cup Identities]
    /\ racing \in [Peers -> SUBSET (1 .. Len(ops))]

(* j is the last of the operations up to n in queue q, or 0 for none.      *)
LastOf(called, q, n, j) ==
    /\ j \in 0 .. n
    /\ j # 0 => called[j].queue = q
    /\ \A k \in j + 1 .. n : called[k].queue # q

Queued ==
    /\ tail \in [Queues -> Nat]
    /\ \A q \in Queues : LastOf(ops, q, Len(ops), tail[q])
    /\ \A i \in 1 .. Len(ops) : LastOf(ops, ops[i].queue, i - 1, ops[i].after)

(* An operation has begun only when all before it in its queue are done.   *)
HasTurn(i) ==
    \A j \in 1 .. i - 1 : ops[j].queue = ops[i].queue => Settled(j)

InTurn == \A i \in 1 .. Len(ops) : ops[i].at # "waiting" => HasTurn(i)

(* What an operation under way knows of its record is still so.            *)
Knows(i) ==
    /\ ops[i].at = "waiting" => Stored(i) # <<i>>
    /\ ops[i].kind = "encrypt" /\ ops[i].at \in {"fetch", "trust", "pin", "create"}
          => Stored(i) = <<>>
    /\ ops[i].at = "store" => ops[i].read = Stored(i)

(* An identity about to be pinned was compared with the one there is, or   *)
(* the one there is has been pinned since.                                 *)
Compared(i) ==
    ops[i].at = "pin" =>
        \/ IsTrustedIdentity(ops[i].peer, ops[i].identity)
        \/ i \in racing[ops[i].peer]

ManagerInv ==
    /\ Types
    /\ Queued
    /\ InTurn
    /\ \A i \in 1 .. Len(ops) : Knows(i) /\ Compared(i)
-----------------------------------------------------------------------------
(* Lemmas about operations and queues.                                     *)

(* A session and a sender's keys are records of one queue only.            *)
LEMMA CellFixesQueue ==
    ASSUME NEW a, NEW b, InItsQueue(a), InItsQueue(b), a.cell = b.cell
    PROVE  a.queue = b.queue
  BY DEF InItsQueue, SessionQueue, GroupQueue, SenderKey

(* What the types say of one operation.                                    *)
LEMMA OperationFacts ==
    ASSUME Types, NEW i \in 1 .. Len(ops)
    PROVE  /\ Len(ops) \in Nat /\ DOMAIN ops = 1 .. Len(ops)
           /\ ops[i] \in Operation /\ InItsQueue(ops[i]) /\ OnItsWay(ops[i])
           /\ Stored(i) \in Seq(1 .. Len(ops))
           /\ ops[i].at \in {"pin", "trust"} => ops[i].peer \in Peers
<1>1. ops[i] \in Operation /\ InItsQueue(ops[i]) /\ OnItsWay(ops[i])
  BY DEF Types, GoodOperation
<1>2. Stored(i) \in Seq(1 .. Len(ops))
  BY <1>1 DEF Types, Stored, Operation
<1>3. ops[i].at \in {"pin", "trust"} => ops[i].peer \in Peers
  BY <1>1 DEF InItsQueue, OnItsWay, SessionKinds, OwnKeyKinds
<1> QED  BY <1>1, <1>2, <1>3 DEF Types

(* previous.then(task, task): an operation whose predecessor is done has   *)
(* its turn.                                                               *)
LEMMA TurnOfNext ==
    ASSUME Types, Queued, InTurn, NEW i \in 1 .. Len(ops),
           ops[i].at = "waiting" => PredecessorSettled(i)
    PROVE  HasTurn(i)
<1>1. CASE ops[i].at # "waiting"
  BY <1>1 DEF InTurn
<1>2. CASE ops[i].at = "waiting"
  <2>1. PICK a \in Nat : /\ a <= i - 1 /\ a = ops[i].after
                         /\ a # 0 => ops[a].queue = ops[i].queue
                         /\ \A k \in a + 1 .. i - 1 : ops[k].queue # ops[i].queue
    <3>1. LastOf(ops, ops[i].queue, i - 1, ops[i].after)
      BY DEF Queued
    <3>2. i \in Nat
      BY OperationFacts
    <3> QED  BY <3>1, <3>2 DEF LastOf
  <2>2. a # 0 => Settled(a)
    BY <1>2, <2>1 DEF PredecessorSettled
  <2>3. Len(ops) \in Nat /\ i \in Nat /\ i <= Len(ops)
    BY OperationFacts
  <2>4. a # 0 => a \in 1 .. Len(ops)
    BY <2>1, <2>3
  <2>5. a # 0 => HasTurn(a)
    BY <2>2, <2>4 DEF InTurn, Settled
  <2> SUFFICES ASSUME NEW j \in 1 .. i - 1, ops[j].queue = ops[i].queue  PROVE  Settled(j)
    BY DEF HasTurn
  <2>6. j <= a
    <3>1. j \notin a + 1 .. i - 1
      BY <2>1
    <3> QED  BY <3>1, <2>3
  <2>7. CASE j = a
    BY <2>2, <2>6, <2>7, <2>3
  <2>8. CASE j # a
    <3>1. a # 0 /\ j \in 1 .. a - 1
      BY <2>3, <2>6, <2>8
    <3>2. ops[j].queue = ops[a].queue
      BY <2>1, <3>1
    <3>3. \A k \in 1 .. a - 1 : ops[k].queue = ops[a].queue => Settled(k)
      BY <2>5, <3>1 DEF HasTurn
    <3> QED  BY <3>1, <3>2, <3>3
  <2> QED  BY <2>7, <2>8
<1> QED  BY <1>1, <1>2

(* Two operations on one record are never under way together.              *)
LEMMA OnlyOne ==
    ASSUME Types, InTurn, NEW i \in 1 .. Len(ops), NEW j \in 1 .. Len(ops), i # j,
           ops[i].cell = ops[j].cell, ~Settled(i), HasTurn(i)
    PROVE  ops[j].at = "waiting" \/ Settled(j)
<1>1. ops[i].queue = ops[j].queue
  BY OperationFacts, CellFixesQueue
<1>2. Len(ops) \in Nat
  BY OperationFacts
<1>3. CASE j < i
  BY <1>1, <1>2, <1>3 DEF HasTurn
<1>4. CASE i < j
  BY <1>1, <1>2, <1>4 DEF InTurn, HasTurn
<1> QED  BY <1>2, <1>3, <1>4

-----------------------------------------------------------------------------
(* The step of one operation.                                              *)

(* It alone moves, and only what is its own changes.                       *)
Advances(i) ==
    /\ ops' \in Seq(Operation) /\ Len(ops') = Len(ops)
    /\ \A j \in 1 .. Len(ops) : j # i => ops'[j] = ops[j]
    /\ ops'[i].kind = ops[i].kind /\ ops'[i].queue = ops[i].queue
    /\ ops'[i].cell = ops[i].cell /\ ops'[i].peer = ops[i].peer
    /\ ops'[i].after = ops[i].after
    /\ tail' = tail

(* An operation under way, or one whose turn has come, goes on.            *)
Moves(i) ==
    /\ ~Settled(i)
    /\ HasTurn(i)
    /\ OnItsWay(ops'[i])
    /\ ops'[i].at # "waiting"

WritesOwn(i) ==
    /\ record' \in [Cells -> Seq(1 .. Len(ops))]
    /\ \A c \in Cells : c # ops[i].cell => record'[c] = record[c]

UnderWay == {j \in 1 .. Len(ops) : ~Settled(j) /\ ops[j].at # "waiting"}

PinsOwn ==
    /\ pins' \in [Peers -> {NotPinned} \cup Identities]
    /\ racing' \in [Peers -> SUBSET (1 .. Len(ops))]
    /\ \A p \in Peers : \/ pins'[p] = pins[p] /\ racing'[p] = racing[p]
                        \/ racing'[p] = UnderWay

(* What the others see of the record: it fails, or has advanced or replaced*)
(* the record once it is done; before, only encrypt shows a change, the    *)
(* session it has started.                                                 *)
Outcome(i) ==
    LET before == record[ops[i].cell]
        now == record'[ops[i].cell]
    IN  \/ Settled(i)' /\ ~HalfMade(i) /\ now \in {before, Append(before, i), <<i>>}
        \/ Settled(i)' /\ HalfMade(i) /\ now = <<i, i>>
        \/ ~Settled(i)' /\ now = before /\ (HalfMade(i)' <=> HalfMade(i))
        \/ ~Settled(i)' /\ ~HalfMade(i) /\ HalfMade(i)' /\ before = <<>>
StepOf(i) ==
    /\ Advances(i)
    /\ Moves(i)
    /\ WritesOwn(i)
    /\ PinsOwn
    /\ Knows(i)' /\ Compared(i)'
    /\ Outcome(i)

(* An operation that is replaced by one at another step has advanced.      *)
LEMMA UpdateAdvances ==
    ASSUME Types, NEW i \in 1 .. Len(ops), NEW o \in Operation,
           o.kind = ops[i].kind, o.queue = ops[i].queue, o.cell = ops[i].cell,
           o.peer = ops[i].peer, o.after = ops[i].after,
           ops' = [ops EXCEPT ![i] = o], tail' = tail
    PROVE  Advances(i) /\ ops'[i] = o
<1>1. ops \in Seq(Operation)
  BY DEF Types
<1>2. /\ ops' \in Seq(Operation) /\ Len(ops') = Len(ops)
      /\ \A j \in 1 .. Len(ops) : ops'[j] = IF j = i THEN o ELSE ops[j]
  BY <1>1, ExceptSeq
<1> QED  BY <1>2 DEF Advances

(* GoTo changes the step and nothing else of the operation.                *)
LEMMA GoToAdvances ==
    ASSUME Types, NEW i \in 1 .. Len(ops), NEW step \in Steps, GoTo(i, step), tail' = tail
    PROVE  /\ Advances(i)
           /\ ops'[i].at = step /\ ops'[i].read = ops[i].read
           /\ ops'[i].identity = ops[i].identity
<1> DEFINE o == [ops[i] EXCEPT !.at = step]
<1>1. ops' = [ops EXCEPT ![i] = o]
  BY DEF GoTo
<1>2. ops[i] \in Operation
  BY DEF Types, GoodOperation
<1>3. /\ o \in Operation
      /\ o.kind = ops[i].kind /\ o.queue = ops[i].queue /\ o.cell = ops[i].cell
      /\ o.peer = ops[i].peer /\ o.after = ops[i].after
      /\ o.at = step /\ o.read = ops[i].read /\ o.identity = ops[i].identity
  BY <1>2 DEF Operation
<1> HIDE DEF o
<1> QED  BY <1>1, <1>3, UpdateAdvances

(* The update of a store call that reads.                                  *)
LEMMA ReadAdvances ==
    ASSUME Types, NEW i \in 1 .. Len(ops), NEW step \in Steps,
           NEW read \in Seq(Nat \cup Identities),
           ops' = [ops EXCEPT ![i].read = read, ![i].at = step], tail' = tail
    PROVE  /\ Advances(i)
           /\ ops'[i].at = step /\ ops'[i].read = read
           /\ ops'[i].identity = ops[i].identity
<1> DEFINE o == [ops[i] EXCEPT !.read = read, !.at = step]
<1>1. ops' = [ops EXCEPT ![i] = o]
  BY DEF Types
<1>2. ops[i] \in Operation
  BY DEF Types, GoodOperation
<1>3. /\ o \in Operation
      /\ o.kind = ops[i].kind /\ o.queue = ops[i].queue /\ o.cell = ops[i].cell
      /\ o.peer = ops[i].peer /\ o.after = ops[i].after
      /\ o.at = step /\ o.read = read /\ o.identity = ops[i].identity
  BY <1>2 DEF Operation
<1> HIDE DEF o
<1> QED  BY <1>1, <1>3, UpdateAdvances

(* A fetch brings the identity that is to be compared.                     *)
LEMMA FetchAdvances ==
    ASSUME Types, NEW i \in 1 .. Len(ops), NEW identity \in Identities,
           ops' = [ops EXCEPT ![i].identity = identity, ![i].at = "trust"], tail' = tail
    PROVE  Advances(i) /\ ops'[i].at = "trust" /\ ops'[i].identity = identity
<1> DEFINE o == [ops[i] EXCEPT !.identity = identity, !.at = "trust"]
<1>1. ops' = [ops EXCEPT ![i] = o]
  BY DEF Types
<1>2. ops[i] \in Operation
  BY DEF Types, GoodOperation
<1>3. /\ o \in Operation
      /\ o.kind = ops[i].kind /\ o.queue = ops[i].queue /\ o.cell = ops[i].cell
      /\ o.peer = ops[i].peer /\ o.after = ops[i].after
      /\ o.at = "trust" /\ o.identity = identity
  BY <1>2 DEF Operation, Steps
<1> HIDE DEF o
<1> QED  BY <1>1, <1>3, UpdateAdvances

(* A load keeps what was stored at that moment.                            *)
LEMMA LoadAdvances ==
    ASSUME Types, NEW i \in 1 .. Len(ops), NEW step \in Steps, Load(i, step), tail' = tail
    PROVE  /\ Advances(i)
           /\ ops'[i].at = step /\ ops'[i].read = Stored(i)
           /\ ops'[i].identity = ops[i].identity
<1>1. Stored(i) \in Seq(1 .. Len(ops))
  BY OperationFacts
<1>2. Stored(i) \in Seq(Nat \cup Identities)
  BY <1>1, SeqMonotonic, OperationFacts
<1> QED  BY <1>2, ReadAdvances DEF Load

(* A store call that reads changes nothing that is stored.                 *)
LEMMA StoreKeptChangesNothing ==
    ASSUME Types, NEW i \in 1 .. Len(ops), StoreKept
    PROVE  WritesOwn(i) /\ PinsOwn
  BY DEF Types, StoreKept, WritesOwn, PinsOwn

(* A step that only reads what is stored.                                  *)
LEMMA ReadingStep ==
    ASSUME ManagerInv, NEW i \in 1 .. Len(ops), Advances(i), StoreKept, ~Settled(i),
           ops[i].at = "waiting" => PredecessorSettled(i),
           ops'[i].at # "waiting", OnItsWay(ops'[i]),
           ops[i].kind = "encrypt" /\ ops'[i].at \in {"fetch", "trust", "pin", "create"}
               => Stored(i) = <<>>,
           ops'[i].at = "store" => ops'[i].read = Stored(i),
           ops'[i].at = "pin" => IsTrustedIdentity(ops[i].peer, ops'[i].identity),
           HalfMade(i) <=> /\ ops[i].kind = "encrypt"
                           /\ ops'[i].at \in {"load", "store"}
                           /\ Stored(i) = <<i>>
    PROVE  StepOf(i)
<1>1. WritesOwn(i) /\ PinsOwn
  BY StoreKeptChangesNothing DEF ManagerInv
<1>2. Moves(i)
  BY TurnOfNext DEF ManagerInv, Moves
<1>3. Stored(i)' = Stored(i) /\ pins' = pins /\ racing' = racing
  BY DEF StoreKept, Advances, Stored
<1>4. Knows(i)'
  BY <1>3 DEF Advances, Knows
<1>5. Compared(i)'
  BY <1>3 DEF Advances, Compared, IsTrustedIdentity
<1>6. HalfMade(i)' = HalfMade(i)
  BY <1>3 DEF Advances, HalfMade
<1>7. Settled(i)' => ~HalfMade(i)
  BY DEF Settled
<1>8. Outcome(i)
  BY <1>3, <1>6, <1>7 DEF Outcome, Stored, Advances
<1> QED  BY <1>1, <1>2, <1>4, <1>5, <1>8 DEF StepOf

(* encryptMessage: is there a session?                                     *)
LEMMA HasSessionStep ==
    ASSUME ManagerInv, NEW i \in 1 .. Len(ops), HasSession(i)
    PROVE  StepOf(i)
<1>1. /\ ops[i].at = "waiting" /\ ops[i].kind = "encrypt" /\ PredecessorSettled(i)
      /\ StoreKept /\ tail' = tail
  BY DEF HasSession, Begins, StoreKept
<1>2. Types /\ Stored(i) # <<i>>
  BY <1>1 DEF ManagerInv, Knows
<1> DEFINE step == IF Stored(i) = <<>> THEN "fetch" ELSE "load"
<1>3. step \in Steps /\ GoTo(i, step)
  BY DEF HasSession, Steps
<1>4. /\ Advances(i) /\ ops'[i].at = step /\ ops'[i].identity = ops[i].identity
      /\ ops'[i].kind = "encrypt"
  BY <1>1, <1>2, <1>3, GoToAdvances DEF Advances
<1>5. OnItsWay(ops'[i])
  BY <1>4 DEF OnItsWay
<1>6. ~Settled(i) /\ ~HalfMade(i)
  BY <1>1 DEF Settled, HalfMade
<1> QED  BY <1>1, <1>2, <1>4, <1>5, <1>6, ReadingStep

(* The key server answers or not.                                          *)
LEMMA FetchStep ==
    ASSUME ManagerInv, NEW i \in 1 .. Len(ops), FetchPreKeyBundle(i)
    PROVE  StepOf(i)
<1>1. ops[i].at = "fetch" /\ StoreKept /\ tail' = tail /\ Types
  BY DEF FetchPreKeyBundle, At, StoreKept, ManagerInv
<1>2. ops[i].kind = "encrypt" /\ Stored(i) = <<>>
  BY <1>1, OperationFacts DEF OnItsWay, ManagerInv, Knows
<1>3. ~Settled(i) /\ ~HalfMade(i)
  BY <1>1 DEF Settled, HalfMade
<1>4. CASE GoTo(i, "rejected")
  <2>1. Advances(i) /\ ops'[i].at = "rejected" /\ ops'[i].kind = "encrypt"
    BY <1>1, <1>2, <1>4, GoToAdvances DEF Advances, Steps
  <2>2. OnItsWay(ops'[i])
    BY <2>1 DEF OnItsWay
  <2> QED  BY <1>1, <1>2, <1>3, <2>1, <2>2, ReadingStep
<1>5. ASSUME NEW identity \in Identities,
             ops' = [ops EXCEPT ![i].identity = identity, ![i].at = "trust"]
      PROVE  StepOf(i)
  <2>1. /\ Advances(i) /\ ops'[i].at = "trust" /\ ops'[i].identity = identity
        /\ ops'[i].kind = "encrypt"
    BY <1>1, <1>2, <1>5, FetchAdvances DEF Advances
  <2>2. OnItsWay(ops'[i])
    BY <2>1 DEF OnItsWay
  <2> QED  BY <1>1, <1>2, <1>3, <2>1, <2>2, ReadingStep
<1> QED  BY <1>4, <1>5 DEF FetchPreKeyBundle

(* decryptPreKeyMessage.                                                   *)
LEMMA TryLoadRecordStep ==
    ASSUME ManagerInv, NEW i \in 1 .. Len(ops), TryLoadRecord(i)
    PROVE  StepOf(i)
<1>1. /\ ops[i].at = "waiting" /\ ops[i].kind = "decryptPreKey" /\ PredecessorSettled(i)
      /\ StoreKept /\ tail' = tail /\ Types
  BY DEF TryLoadRecord, Begins, StoreKept, ManagerInv
<1>2. ops[i].identity \in Identities
  BY <1>1, OperationFacts DEF OnItsWay
<1>3. ~Settled(i) /\ ~HalfMade(i)
  BY <1>1 DEF Settled, HalfMade
<1>4. CASE Load(i, "store")
  <2>1. /\ Advances(i) /\ ops'[i].at = "store" /\ ops'[i].read = Stored(i)
        /\ ops'[i].kind = "decryptPreKey" /\ ops'[i].identity \in Identities
    BY <1>1, <1>2, <1>4, LoadAdvances DEF Advances, Steps
  <2>2. OnItsWay(ops'[i])
    BY <2>1 DEF OnItsWay
  <2> QED  BY <1>1, <1>3, <2>1, <2>2, ReadingStep
<1>5. ASSUME NEW step \in {"trust", "rejected"}, GoTo(i, step)
      PROVE  StepOf(i)
  <2>1. /\ Advances(i) /\ ops'[i].at = step
        /\ ops'[i].kind = "decryptPreKey" /\ ops'[i].identity \in Identities
    BY <1>1, <1>2, <1>5, GoToAdvances DEF Advances, Steps
  <2>2. OnItsWay(ops'[i])
    BY <2>1 DEF OnItsWay
  <2> QED  BY <1>1, <1>3, <2>1, <2>2, ReadingStep
<1> QED  BY <1>4, <1>5 DEF TryLoadRecord

(* The trust check of startSession and of the responder.                   *)
LEMMA CheckTrustStep ==
    ASSUME ManagerInv, NEW i \in 1 .. Len(ops), CheckTrust(i)
    PROVE  StepOf(i)
<1>1. ops[i].at = "trust" /\ StoreKept /\ tail' = tail /\ Types
  BY DEF CheckTrust, At, StoreKept, ManagerInv
<1>2. /\ ops[i].kind \in {"encrypt", "decryptPreKey"} /\ ops[i].identity \in Identities
      /\ ops[i].kind = "encrypt" => Stored(i) = <<>>
  BY <1>1, OperationFacts DEF OnItsWay, ManagerInv, Knows
<1>3. ~Settled(i) /\ ~HalfMade(i)
  BY <1>1 DEF Settled, HalfMade
<1>4. PICK step \in {"pin", "rejected"} :
          /\ GoTo(i, step)
          /\ step = "pin" => IsTrustedIdentity(ops[i].peer, ops[i].identity)
  BY DEF CheckTrust
<1>5. /\ Advances(i) /\ ops'[i].at = step /\ ops'[i].kind = ops[i].kind
      /\ ops'[i].identity = ops[i].identity
  BY <1>1, <1>4, GoToAdvances DEF Advances, Steps
<1>6. OnItsWay(ops'[i])
  BY <1>2, <1>5 DEF OnItsWay
<1> QED  BY <1>1, <1>2, <1>3, <1>4, <1>5, <1>6, ReadingStep

(* saveRemoteIdentity: the pin is set, and what was under way is raced.    *)
LEMMA SaveRemoteIdentityStep ==
    ASSUME ManagerInv, NEW i \in 1 .. Len(ops), SaveRemoteIdentity(i)
    PROVE  StepOf(i)
<1> DEFINE step == IF ops[i].kind = "process" THEN "verify" ELSE "create"
           p == ops[i].peer
           known == ops[i].identity
<1>1. /\ ops[i].at = "pin" /\ Types /\ tail' = tail /\ record' = record
      /\ pins' = [pins EXCEPT ![p] = known]
      /\ racing' = [racing EXCEPT ![p] =
                      IF pins[p] = known
                        THEN @
                        ELSE {j \in DOMAIN ops : ~Settled(j) /\ ops[j].at # "waiting"}]
      /\ GoTo(i, step)
  BY DEF SaveRemoteIdentity, At, ManagerInv
<1>2. /\ ops[i].kind \in {"encrypt", "decryptPreKey", "process"}
      /\ known \in Identities /\ p \in Peers
      /\ ops[i].kind = "encrypt" => Stored(i) = <<>>
  BY <1>1, OperationFacts DEF OnItsWay, ManagerInv, Knows
<1>3. ~Settled(i) /\ ~HalfMade(i)
  BY <1>1 DEF Settled, HalfMade
<1>4. /\ Advances(i) /\ ops'[i].at = step /\ ops'[i].kind = ops[i].kind
      /\ ops'[i].identity = known /\ ops'[i].cell = ops[i].cell
  BY <1>1, GoToAdvances DEF Advances, Steps
<1>5. OnItsWay(ops'[i]) /\ step \notin {"waiting", "store", "load", "pin", "fulfilled", "rejected"}
  BY <1>2, <1>4 DEF OnItsWay
<1>6. Moves(i)
  BY <1>1, <1>3, <1>4, <1>5, TurnOfNext DEF Moves, ManagerInv
<1>7. WritesOwn(i)
  BY <1>1 DEF WritesOwn, Types
<1>8. PinsOwn
  <2>1. {j \in DOMAIN ops : ~Settled(j) /\ ops[j].at # "waiting"} = UnderWay
    BY <1>1, OperationFacts DEF UnderWay
  <2>2. UnderWay \in SUBSET (1 .. Len(ops))
    BY DEF UnderWay
  <2>3. /\ pins \in [Peers -> {NotPinned} \cup Identities]
        /\ racing \in [Peers -> SUBSET (1 .. Len(ops))]
    BY <1>1 DEF Types
  <2> HIDE DEF p, known
  <2> QED  BY <1>1, <1>2, <2>1, <2>2, <2>3 DEF PinsOwn
<1>9. Knows(i)' /\ Compared(i)'
  <2>1. Stored(i)' = Stored(i)
    BY <1>1, <1>4 DEF Stored
  <2> QED  BY <1>2, <1>4, <1>5, <2>1 DEF Knows, Compared
<1>10. ~HalfMade(i)' /\ ~Settled(i)'
  BY <1>4, <1>5 DEF HalfMade, Settled
<1>11. Outcome(i)
  BY <1>1, <1>3, <1>10 DEF Outcome
<1> QED  BY <1>4, <1>6, <1>7, <1>8, <1>9, <1>11 DEF StepOf

(* A step that writes the operation's record.                              *)
LEMMA WritingStep ==
    ASSUME ManagerInv, NEW i \in 1 .. Len(ops), NEW step \in {"load", "fulfilled"},
           NEW r \in Seq(1 .. Len(ops)), Write(i, r, step), ~Settled(i),
           ops[i].at = "waiting" => PredecessorSettled(i),
           step = "load" => /\ ops[i].kind = "encrypt"
                            /\ Stored(i) = <<>> /\ r = <<i>> /\ ~HalfMade(i),
           step = "fulfilled" => \/ HalfMade(i) /\ r = <<i, i>>
                                 \/ ~HalfMade(i) /\ r \in {Append(Stored(i), i), <<i>>}
    PROVE  StepOf(i)
<1>1. /\ Types /\ tail' = tail /\ pins' = pins /\ racing' = racing
      /\ record' = [record EXCEPT ![ops[i].cell] = r]
      /\ GoTo(i, step)
  BY DEF Write, ManagerInv
<1>2. /\ Advances(i) /\ ops'[i].at = step /\ ops'[i].kind = ops[i].kind
      /\ ops'[i].identity = ops[i].identity /\ ops'[i].cell = ops[i].cell
  BY <1>1, GoToAdvances DEF Advances, Steps
<1>3. OnItsWay(ops[i]) /\ ops[i].cell \in Cells
  BY <1>1, OperationFacts DEF Operation
<1>4. OnItsWay(ops'[i])
  BY <1>2, <1>3 DEF OnItsWay
<1>5. Moves(i)
  BY <1>1, <1>2, <1>4, TurnOfNext DEF Moves, ManagerInv
<1>6. WritesOwn(i) /\ record'[ops[i].cell] = r
  BY <1>1, <1>3 DEF WritesOwn, Types
<1>7. PinsOwn
  BY <1>1 DEF PinsOwn, Types
<1>8. Knows(i)' /\ Compared(i)'
  BY <1>2 DEF Knows, Compared
<1>9. Outcome(i)
  <2>1. CASE step = "load"
    <3>1. HalfMade(i)' /\ ~Settled(i)'
      BY <1>2, <1>6, <2>1 DEF HalfMade, Settled, Stored
    <3> QED  BY <2>1, <3>1 DEF Outcome, Stored
  <2>2. CASE step = "fulfilled"
    <3>1. Settled(i)'
      BY <1>2, <2>2 DEF Settled
    <3> QED  BY <1>6, <2>2, <3>1 DEF Outcome, Stored
  <2> QED  BY <2>1, <2>2
<1> QED  BY <1>2, <1>5, <1>6, <1>7, <1>8, <1>9 DEF StepOf

(* storeSession of a new session.                                          *)
LEMMA StoreNewSessionStep ==
    ASSUME ManagerInv, NEW i \in 1 .. Len(ops), StoreNewSession(i)
    PROVE  StepOf(i)
<1> DEFINE step == IF ops[i].kind = "encrypt" THEN "load" ELSE "fulfilled"
<1>1. ops[i].at = "create" /\ Write(i, <<i>>, step) /\ Types
  BY DEF StoreNewSession, At, ManagerInv
<1>2. ~Settled(i) /\ ~HalfMade(i)
  BY <1>1 DEF Settled, HalfMade
<1>3. ops[i].kind = "encrypt" => Stored(i) = <<>>
  BY <1>1 DEF ManagerInv, Knows
<1>4. <<i>> \in Seq(1 .. Len(ops))
  OBVIOUS
<1> QED  BY <1>1, <1>2, <1>3, <1>4, WritingStep

(* The session record of a message.                                        *)
LEMMA LoadRecordStep ==
    ASSUME ManagerInv, NEW i \in 1 .. Len(ops), LoadRecord(i)
    PROVE  StepOf(i)
<1>1. StoreKept /\ tail' = tail /\ Types
  BY DEF LoadRecord, StoreKept, ManagerInv
<1>2. CASE At(i, "load") /\ Load(i, "store")
  <2>1. ops[i].at = "load" /\ ops[i].kind = "encrypt" /\ ~Settled(i)
    BY <1>1, <1>2, OperationFacts DEF At, OnItsWay, Settled
  <2>2. /\ Advances(i) /\ ops'[i].at = "store" /\ ops'[i].read = Stored(i)
        /\ ops'[i].kind = "encrypt"
    BY <1>1, <1>2, <2>1, LoadAdvances DEF Advances, Steps
  <2>3. OnItsWay(ops'[i])
    BY <2>2 DEF OnItsWay
  <2>4. HalfMade(i) <=> Stored(i) = <<i>>
    BY <2>1 DEF HalfMade
  <2> QED  BY <1>1, <2>1, <2>2, <2>3, <2>4, ReadingStep
<1>3. ASSUME Begins(i, {"decryptSignal"}), Load(i, "store") \/ GoTo(i, "rejected")
      PROVE  StepOf(i)
  <2>1. /\ ops[i].at = "waiting" /\ ops[i].kind = "decryptSignal" /\ PredecessorSettled(i)
        /\ ~Settled(i) /\ ~HalfMade(i)
    BY <1>3 DEF Begins, Settled, HalfMade
  <2>2. /\ Advances(i) /\ ops'[i].at \in {"store", "rejected"}
        /\ ops'[i].at = "store" => ops'[i].read = Stored(i)
        /\ ops'[i].kind = "decryptSignal"
    BY <1>1, <1>3, <2>1, LoadAdvances, GoToAdvances DEF Advances, Steps
  <2>3. OnItsWay(ops'[i])
    BY <2>2 DEF OnItsWay
  <2> QED  BY <1>1, <2>1, <2>2, <2>3, ReadingStep
<1> QED  BY <1>2, <1>3 DEF LoadRecord

(* setupSenderKey.                                                         *)
LEMMA SetupSenderKeyStep ==
    ASSUME ManagerInv, NEW i \in 1 .. Len(ops), SetupSenderKey(i)
    PROVE  StepOf(i)
<1>1. /\ ops[i].at = "waiting" /\ PredecessorSettled(i) /\ Write(i, <<i>>, "fulfilled")
      /\ ~Settled(i) /\ ~HalfMade(i)
  BY DEF SetupSenderKey, Begins, Settled, HalfMade
<1>2. <<i>> \in Seq(1 .. Len(ops))
  OBVIOUS
<1> QED  BY <1>1, <1>2, WritingStep

(* The first await of processSenderKeyDistribution.                        *)
LEMMA GetRemoteIdentityStep ==
    ASSUME ManagerInv, NEW i \in 1 .. Len(ops), GetRemoteIdentity(i)
    PROVE  StepOf(i)
<1> DEFINE p == ops[i].peer
<1>1. /\ ops[i].at = "waiting" /\ ops[i].kind = "process" /\ PredecessorSettled(i)
      /\ StoreKept /\ tail' = tail /\ Types /\ ~Settled(i) /\ ~HalfMade(i)
  BY DEF GetRemoteIdentity, Begins, StoreKept, ManagerInv, Settled, HalfMade
<1>2. ops[i].identity \in Identities /\ p \in Peers
  BY <1>1, OperationFacts DEF OnItsWay, InItsQueue, SessionKinds
<1>3. CASE pins[p] = NotPinned
  <2>1. GoTo(i, "pin")
    BY <1>3 DEF GetRemoteIdentity, GoTo
  <2>2. /\ Advances(i) /\ ops'[i].at = "pin" /\ ops'[i].identity = ops[i].identity
        /\ ops'[i].kind = "process"
    BY <1>1, <2>1, GoToAdvances DEF Advances, Steps
  <2>3. OnItsWay(ops'[i])
    BY <1>2, <2>2 DEF OnItsWay
  <2>4. IsTrustedIdentity(p, ops'[i].identity)
    BY <1>3 DEF IsTrustedIdentity
  <2> QED  BY <1>1, <2>2, <2>3, <2>4, ReadingStep
<1>4. CASE pins[p] # NotPinned
  <2>1. pins[p] \in Identities
    BY <1>1, <1>2, <1>4 DEF Types
  <2>2. <<pins[p]>> \in Seq(Nat \cup Identities)
    BY <2>1
  <2>3. ops' = [ops EXCEPT ![i].read = <<pins[p]>>, ![i].at = "verify"]
    BY <1>1, <1>4 DEF GetRemoteIdentity, Types
  <2>4. /\ Advances(i) /\ ops'[i].at = "verify" /\ ops'[i].identity = ops[i].identity
        /\ ops'[i].kind = "process"
    BY <1>1, <2>2, <2>3, ReadAdvances DEF Advances, Steps
  <2>5. OnItsWay(ops'[i])
    BY <1>2, <2>4 DEF OnItsWay
  <2> QED  BY <1>1, <2>4, <2>5, ReadingStep
<1> QED  BY <1>3, <1>4

(* processDistributionMessage.                                             *)
LEMMA VerifyAndLoadSenderKeyStep ==
    ASSUME ManagerInv, NEW i \in 1 .. Len(ops), VerifyAndLoadSenderKey(i)
    PROVE  StepOf(i)
<1>1. ops[i].at = "verify" /\ StoreKept /\ tail' = tail /\ Types
  BY DEF VerifyAndLoadSenderKey, At, StoreKept, ManagerInv
<1>2. ops[i].kind = "process" /\ ops[i].identity \in Identities
  BY <1>1, OperationFacts DEF OnItsWay
<1>3. ~Settled(i) /\ ~HalfMade(i)
  BY <1>1 DEF Settled, HalfMade
<1>4. CASE Load(i, "store")
  <2>1. /\ Advances(i) /\ ops'[i].at = "store" /\ ops'[i].read = Stored(i)
        /\ ops'[i].kind = "process" /\ ops'[i].identity \in Identities
    BY <1>1, <1>2, <1>4, LoadAdvances DEF Advances, Steps
  <2>2. OnItsWay(ops'[i])
    BY <2>1 DEF OnItsWay
  <2> QED  BY <1>1, <1>2, <1>3, <2>1, <2>2, ReadingStep
<1>5. ASSUME NEW step \in {"rejected", "fulfilled"}, GoTo(i, step)
      PROVE  StepOf(i)
  <2>1. /\ Advances(i) /\ ops'[i].at = step
        /\ ops'[i].kind = "process" /\ ops'[i].identity \in Identities
    BY <1>1, <1>2, <1>5, GoToAdvances DEF Advances, Steps
  <2>2. OnItsWay(ops'[i])
    BY <2>1 DEF OnItsWay
  <2> QED  BY <1>1, <1>2, <1>3, <2>1, <2>2, ReadingStep
<1> QED  BY <1>4, <1>5 DEF VerifyAndLoadSenderKey

(* The sender keys of a message, a rotation, or to be handed on.           *)
LEMMA LoadSenderKeyStep ==
    ASSUME ManagerInv, NEW i \in 1 .. Len(ops), LoadSenderKey(i)
    PROVE  StepOf(i)
<1>1. /\ ops[i].at = "waiting" /\ ops[i].kind \in OwnKeyKinds /\ PredecessorSettled(i)
      /\ StoreKept /\ tail' = tail /\ Types
  BY DEF LoadSenderKey, Begins, StoreKept, ManagerInv, OwnKeyKinds
<1>2. ~Settled(i) /\ ~HalfMade(i)
  BY <1>1 DEF Settled, HalfMade
<1>3. Load(i, "store") \/ \E step \in {"rejected", "fulfilled"} : GoTo(i, step)
  BY DEF LoadSenderKey
<1>4. /\ Advances(i) /\ ops'[i].at \in {"store", "rejected", "fulfilled"}
      /\ ops'[i].at = "store" => ops'[i].read = Stored(i)
      /\ ops'[i].kind = ops[i].kind
  BY <1>1, <1>3, LoadAdvances, GoToAdvances DEF Advances, Steps
<1>5. OnItsWay(ops'[i])
  BY <1>1, <1>4 DEF OnItsWay, OwnKeyKinds
<1> QED  BY <1>1, <1>2, <1>4, <1>5, ReadingStep DEF OwnKeyKinds

(* The record that was loaded is stored, advanced: it is still the one     *)
(* there is.                                                               *)
LEMMA StoreAdvancedStep ==
    ASSUME ManagerInv, NEW i \in 1 .. Len(ops), StoreAdvanced(i)
    PROVE  StepOf(i)
<1>1. /\ ops[i].at = "store" /\ Write(i, Append(ops[i].read, i), "fulfilled")
      /\ Types /\ ~Settled(i)
  BY DEF StoreAdvanced, At, ManagerInv, Settled
<1>2. ops[i].read = Stored(i)
  BY <1>1 DEF ManagerInv, Knows
<1>3. Append(Stored(i), i) \in Seq(1 .. Len(ops))
  BY <1>1, OperationFacts
<1>4. HalfMade(i) => Append(Stored(i), i) = <<i, i>>
  <2>1. Append(<<i>>, i) = <<i, i>>
    <3>1. <<i>> \in Seq(Nat) /\ <<i, i>> \in Seq(Nat) /\ Append(<<i>>, i) \in Seq(Nat)
      BY OperationFacts DEF ManagerInv
    <3>2. /\ Len(Append(<<i>>, i)) = 2 /\ Len(<<i, i>>) = 2
          /\ \A k \in 1 .. 2 : Append(<<i>>, i)[k] = <<i, i>>[k]
      BY <3>1
    <3> QED  BY <3>1, <3>2, SeqEqual
  <2> QED  BY <2>1 DEF HalfMade
<1> QED  BY <1>1, <1>2, <1>3, <1>4, WritingStep

(* Any step of any operation.                                              *)
LEMMA OperationStep ==
    ASSUME ManagerInv, NEW i \in 1 .. Len(ops), Continue(i) \/ Fetch(i)
    PROVE  StepOf(i)
  BY HasSessionStep, FetchStep, TryLoadRecordStep, CheckTrustStep, SaveRemoteIdentityStep,
     StoreNewSessionStep, LoadRecordStep, SetupSenderKeyStep, GetRemoteIdentityStep,
     VerifyAndLoadSenderKeyStep, LoadSenderKeyStep, StoreAdvancedStep
  DEF Continue, Fetch
-----------------------------------------------------------------------------
(* The invariant.                                                          *)

(* What a record can be after a step, in the eyes of another operation.    *)
LEMMA RecordAfter ==
    ASSUME Types, NEW i \in 1 .. Len(ops), NEW j \in 1 .. Len(ops), i # j, Advances(i),
           Outcome(i), record[ops[i].cell] # <<j>>
    PROVE  record'[ops[i].cell] # <<j>>
<1> DEFINE before == record[ops[i].cell]
<1>1. before \in Seq(1 .. Len(ops))
  BY OperationFacts DEF Stored
<1>2. Append(before, i) # <<j>> /\ <<i>> # <<j>> /\ <<i, i>> # <<j>>
  <2>1. Len(Append(before, i)) = Len(before) + 1 /\ Append(before, i)[Len(before) + 1] = i
    BY <1>1
  <2>2. Len(<<j>>) = 1 /\ <<j>>[1] = j
    OBVIOUS
  <2>3. Len(before) \in Nat
    BY <1>1
  <2>4. Append(before, i) # <<j>>
    BY <2>1, <2>2, <2>3
  <2> QED  BY <2>4
<1>3. HalfMade(i)' => record'[ops[i].cell] = <<i>>
  BY DEF HalfMade, Advances, Stored
<1> QED  BY <1>2, <1>3 DEF Outcome

(* Whatever an operation under way does, the invariant holds after it.     *)
LEMMA StepKeepsInv ==
    ASSUME ManagerInv, NEW i \in 1 .. Len(ops), StepOf(i)
    PROVE  ManagerInv'
<1>1. Types /\ Queued /\ InTurn /\ Len(ops) \in Nat
  BY OperationFacts DEF ManagerInv
<1>2. /\ ops' \in Seq(Operation) /\ Len(ops') = Len(ops)
      /\ \A j \in 1 .. Len(ops) : j # i => ops'[j] = ops[j]
      /\ \A j \in 1 .. Len(ops) :
            /\ ops'[j].kind = ops[j].kind /\ ops'[j].queue = ops[j].queue
            /\ ops'[j].cell = ops[j].cell /\ ops'[j].peer = ops[j].peer
            /\ ops'[j].after = ops[j].after
      /\ tail' = tail
  BY DEF StepOf, Advances
<1>3. Types'
  <2>1. \A j \in 1 .. Len(ops) : GoodOperation(ops'[j])
    <3> SUFFICES ASSUME NEW j \in 1 .. Len(ops)  PROVE  GoodOperation(ops'[j])
      OBVIOUS
    <3>1. CASE j # i
      BY <1>1, <1>2, <3>1 DEF Types
    <3>2. CASE j = i
      <4>1. ops'[i] \in Operation
        BY <1>2
      <4>2. InItsQueue(ops[i])
        BY <1>1, OperationFacts
      <4>3. InItsQueue(ops'[i])
        BY <1>2, <4>2 DEF InItsQueue
      <4> QED  BY <3>2, <4>1, <4>3 DEF GoodOperation, StepOf, Moves
    <3> QED  BY <3>1, <3>2
  <2> QED  BY <1>1, <1>2, <2>1 DEF Types, StepOf, WritesOwn, PinsOwn
<1>4. Queued'
  <2>1. ASSUME NEW q, NEW n \in 0 .. Len(ops), NEW j, LastOf(ops, q, n, j)
        PROVE  LastOf(ops', q, n, j)
    <3>1. \A k \in 1 .. n : ops'[k].queue = ops[k].queue
      BY <1>1, <1>2
    <3>2. j \in 0 .. n
      BY <2>1 DEF LastOf
    <3> QED  BY <2>1, <3>1, <3>2, <1>1 DEF LastOf
  <2>2. \A q \in Queues : LastOf(ops', q, Len(ops), tail[q])
    <3> SUFFICES ASSUME NEW q \in Queues  PROVE  LastOf(ops', q, Len(ops), tail[q])
      OBVIOUS
    <3>1. Len(ops) \in 0 .. Len(ops) /\ LastOf(ops, q, Len(ops), tail[q])
      BY <1>1 DEF Queued
    <3> QED  BY <2>1, <3>1
  <2>3. \A j \in 1 .. Len(ops) : LastOf(ops', ops[j].queue, j - 1, ops[j].after)
    <3> SUFFICES ASSUME NEW j \in 1 .. Len(ops)
                 PROVE  LastOf(ops', ops[j].queue, j - 1, ops[j].after)
      OBVIOUS
    <3>1. j - 1 \in 0 .. Len(ops) /\ LastOf(ops, ops[j].queue, j - 1, ops[j].after)
      BY <1>1 DEF Queued
    <3> QED  BY <2>1, <3>1
  <2>4. tail \in [Queues -> Nat]
    BY <1>1 DEF Queued
  <2> QED  BY <1>2, <2>2, <2>3, <2>4 DEF Queued
<1>5. InTurn'
  <2>1. \A j \in 1 .. Len(ops) : Settled(j) => Settled(j)'
    BY <1>2 DEF StepOf, Moves, Settled
  <2>2. \A j \in 1 .. Len(ops) : HasTurn(j) => HasTurn(j)'
    BY <1>1, <1>2, <2>1 DEF HasTurn
  <2> QED  BY <1>1, <1>2, <2>2 DEF InTurn, StepOf, Moves
<1>6. ASSUME NEW j \in 1 .. Len(ops)
      PROVE  Knows(j)' /\ Compared(j)'
  <2>1. CASE j = i
    BY <2>1 DEF StepOf
  <2>2. CASE j # i
    <3>1. ops'[j] = ops[j] /\ Knows(j) /\ Compared(j)
      BY <1>2, <2>2 DEF ManagerInv
    <3>2. Compared(j)'
      <4> SUFFICES ASSUME ops[j].at = "pin"
                   PROVE  \/ IsTrustedIdentity(ops[j].peer, ops[j].identity)'
                          \/ j \in racing'[ops[j].peer]
        BY <3>1 DEF Compared
      <4>1. ops[j].peer \in Peers
        BY <1>1, OperationFacts
      <4>2. j \in UnderWay
        BY DEF UnderWay, Settled
      <4> QED  BY <3>1, <4>1, <4>2 DEF Compared, IsTrustedIdentity, StepOf, PinsOwn
    <3>3. Knows(j)'
      <4>1. CASE ops[j].cell # ops[i].cell
        <5>1. Stored(j)' = Stored(j)
          <6>1. ops[j].cell \in Cells
            BY <1>1, OperationFacts DEF Operation
          <6> QED  BY <3>1, <4>1, <6>1 DEF StepOf, WritesOwn, Stored
        <5> QED  BY <3>1, <5>1 DEF Knows
      <4>2. CASE ops[j].cell = ops[i].cell
        <5>1. ops[j].at = "waiting" \/ Settled(j)
          BY <1>1, <2>2, <4>2, OnlyOne DEF StepOf, Moves
        <5>2. ops[j].at = "waiting" => Stored(j)' # <<j>>
          BY <1>1, <2>2, <3>1, <4>2, RecordAfter DEF StepOf, Knows, Stored
        <5> QED  BY <3>1, <5>1, <5>2 DEF Knows, Settled
      <4> QED  BY <4>1, <4>2
    <3> QED  BY <3>2, <3>3
  <2> QED  BY <2>1, <2>2
<1> QED  BY <1>2, <1>3, <1>4, <1>5, <1>6 DEF ManagerInv

(* The operation a call puts at the end of its queue.                      *)
NewOperation(kind, q, c, peer, identity) ==
    [kind |-> kind, queue |-> q, cell |-> c, peer |-> peer, identity |-> identity,
     after |-> tail[q], at |-> "waiting", read |-> <<>>]

(* Every call makes an operation that is well formed.                      *)
LEMMA CallEnqueues ==
    ASSUME ManagerInv, Call
    PROVE  \E kind \in Kinds, q \in Queues, c \in Cells, peer \in Peers \cup {Self},
              identity \in Identities \cup {NotPinned} :
              /\ Enqueue(kind, q, c, peer, identity)
              /\ GoodOperation(NewOperation(kind, q, c, peer, identity))
<1>1. \A q \in Queues : tail[q] \in Nat
  BY DEF ManagerInv, Queued
<1>2. <<>> \in Seq(Nat \cup Identities) /\ "waiting" \in Steps
  BY DEF Steps
<1>3. ASSUME NEW p \in Peers, NEW kind \in SessionKinds,
             NEW identity \in Identities \cup {NotPinned},
             kind = "decryptPreKey" => identity \in Identities,
             Enqueue(kind, SessionQueue(p), SessionQueue(p), p, identity)
      PROVE  \E x \in Kinds, q \in Queues, c \in Cells, peer \in Peers \cup {Self},
                id \in Identities \cup {NotPinned} :
                /\ Enqueue(x, q, c, peer, id) /\ GoodOperation(NewOperation(x, q, c, peer, id))
  <2>1. SessionQueue(p) \in Queues /\ SessionQueue(p) \in Cells /\ kind \in Kinds
    BY DEF Queues, Cells, Kinds
  <2> DEFINE o == NewOperation(kind, SessionQueue(p), SessionQueue(p), p, identity)
  <2>2. /\ o.kind = kind /\ o.queue = SessionQueue(p) /\ o.cell = SessionQueue(p)
        /\ o.peer = p /\ o.identity = identity /\ o.at = "waiting"
    BY DEF NewOperation
  <2>3. o \in Operation
    BY <1>1, <1>2, <2>1 DEF NewOperation, Operation
  <2> HIDE DEF o
  <2>4. InItsQueue(o) /\ OnItsWay(o)
    BY <1>3, <2>2 DEF InItsQueue, OnItsWay, SessionKinds
  <2>5. GoodOperation(o)
    BY <2>3, <2>4 DEF GoodOperation
  <2> QED  BY <1>3, <2>1, <2>5 DEF o
<1>4. ASSUME NEW g \in Groups, NEW peer \in Peers \cup {Self},
             NEW kind \in OwnKeyKinds \cup {"process"},
             NEW identity \in Identities \cup {NotPinned},
             kind = "process" => peer \in Peers /\ identity \in Identities,
             Enqueue(kind, GroupQueue(g), SenderKey(g, peer), peer, identity)
      PROVE  \E x \in Kinds, q \in Queues, c \in Cells, s \in Peers \cup {Self},
                id \in Identities \cup {NotPinned} :
                /\ Enqueue(x, q, c, s, id) /\ GoodOperation(NewOperation(x, q, c, s, id))
  <2>1. GroupQueue(g) \in Queues /\ SenderKey(g, peer) \in Cells /\ kind \in Kinds
    BY DEF Queues, Cells, Kinds
  <2> DEFINE o == NewOperation(kind, GroupQueue(g), SenderKey(g, peer), peer, identity)
  <2>2. /\ o.kind = kind /\ o.queue = GroupQueue(g) /\ o.cell = SenderKey(g, peer)
        /\ o.peer = peer /\ o.identity = identity /\ o.at = "waiting"
    BY DEF NewOperation
  <2>3. o \in Operation
    BY <1>1, <1>2, <2>1 DEF NewOperation, Operation
  <2> HIDE DEF o
  <2>4. InItsQueue(o) /\ OnItsWay(o)
    BY <1>4, <2>2 DEF InItsQueue, OnItsWay, OwnKeyKinds
  <2>5. GoodOperation(o)
    BY <2>3, <2>4 DEF GoodOperation
  <2> QED  BY <1>4, <2>1, <2>5 DEF o
<1>5. ASSUME NEW p \in Peers, EncryptMessage(p) \/ DecryptMessage(p)
      PROVE  \E kind \in SessionKinds, identity \in Identities \cup {NotPinned} :
                /\ kind = "decryptPreKey" => identity \in Identities
                /\ Enqueue(kind, SessionQueue(p), SessionQueue(p), p, identity)
  BY <1>5 DEF EncryptMessage, DecryptMessage, SessionKinds
<1>6. ASSUME NEW g \in Groups,
             \/ EncryptGroupMessage(g)
             \/ ManageSenderKey(g)
             \/ \E p \in Peers : DecryptGroupMessage(g, p) \/ ProcessSenderKeyDistribution(g, p)
      PROVE  \E peer \in Peers \cup {Self}, kind \in OwnKeyKinds \cup {"process"},
                identity \in Identities \cup {NotPinned} :
                /\ kind = "process" => peer \in Peers /\ identity \in Identities
                /\ Enqueue(kind, GroupQueue(g), SenderKey(g, peer), peer, identity)
  BY <1>6 DEF EncryptGroupMessage, ManageSenderKey, DecryptGroupMessage,
              ProcessSenderKeyDistribution, OwnKeyKinds
<1> QED  BY <1>3, <1>4, <1>5, <1>6 DEF Call

(* An operation is put behind all others of its queue.                     *)
LEMMA EnqueueKeepsInv ==
    ASSUME ManagerInv, NEW kind, NEW q \in Queues, NEW c \in Cells, NEW peer, NEW identity,
           GoodOperation(NewOperation(kind, q, c, peer, identity)),
           Enqueue(kind, q, c, peer, identity)
    PROVE  ManagerInv'
<1> DEFINE o == NewOperation(kind, q, c, peer, identity)
<1>1. /\ Types /\ Queued /\ InTurn /\ Len(ops) \in Nat /\ ops \in Seq(Operation)
      /\ MaxCalls \in Nat
  BY ManagerAssumption, OperationFacts DEF ManagerInv, Types
<1>2. /\ ops' = Append(ops, o) /\ Len(ops) < MaxCalls
      /\ tail' = [tail EXCEPT ![q] = Len(ops) + 1]
      /\ record' = record /\ pins' = pins /\ racing' = racing
  BY DEF Enqueue, NewOperation, RunAfter, SetTail
<1>3. GoodOperation(o) /\ o.queue = q /\ o.cell = c /\ o.at = "waiting" /\ o.after = tail[q]
  BY DEF NewOperation
<1> HIDE DEF o
<1>4. /\ ops' \in Seq(Operation) /\ Len(ops') = Len(ops) + 1
      /\ \A j \in 1 .. Len(ops) : ops'[j] = ops[j]
      /\ ops'[Len(ops) + 1] = o
  BY <1>1, <1>2, <1>3 DEF GoodOperation
<1>5. \A j \in 1 .. Len(ops') : j \in 1 .. Len(ops) \/ j = Len(ops) + 1
  BY <1>1, <1>4
<1>6. Types'
  <2>1. Seq(1 .. Len(ops)) \subseteq Seq(1 .. Len(ops'))
    BY <1>1, <1>4, SeqMonotonic
  <2>2. record' \in [Cells -> Seq(1 .. Len(ops'))]
    BY <1>1, <1>2, <2>1 DEF Types
  <2>3. SUBSET (1 .. Len(ops)) \subseteq SUBSET (1 .. Len(ops'))
    BY <1>1, <1>4
  <2>4. racing' \in [Peers -> SUBSET (1 .. Len(ops'))]
    BY <1>1, <1>2, <2>3 DEF Types
  <2>5. \A j \in 1 .. Len(ops') : GoodOperation(ops'[j])
    BY <1>1, <1>3, <1>4, <1>5 DEF Types
  <2> QED  BY <1>1, <1>2, <1>4, <2>2, <2>4, <2>5 DEF Types
<1>7. Queued'
  <2>1. ASSUME NEW x, NEW n \in 0 .. Len(ops), NEW j, LastOf(ops, x, n, j)
        PROVE  LastOf(ops', x, n, j)
    <3>1. \A k \in 1 .. n : ops'[k].queue = ops[k].queue
      BY <1>1, <1>4
    <3>2. j \in 0 .. n
      BY <2>1 DEF LastOf
    <3> QED  BY <2>1, <3>1, <3>2, <1>1 DEF LastOf
  <2>2. tail' \in [Queues -> Nat]
    BY <1>1, <1>2 DEF Queued
  <2>3. ASSUME NEW x \in Queues
        PROVE  LastOf(ops', x, Len(ops'), tail'[x])
    <3>1. CASE x = q
      BY <1>1, <1>2, <1>3, <1>4, <3>1 DEF Queued, LastOf
    <3>2. CASE x # q
      <4>1. tail'[x] = tail[x] /\ LastOf(ops, x, Len(ops), tail[x])
        BY <1>1, <1>2, <3>2 DEF Queued
      <4>2. LastOf(ops, x, Len(ops), tail[x]) /\ tail[x] \in 0 .. Len(ops)
        BY <4>1 DEF LastOf
      <4>3. \A k \in tail[x] + 1 .. Len(ops) + 1 : ops'[k].queue # x
        <5> SUFFICES ASSUME NEW k \in tail[x] + 1 .. Len(ops) + 1  PROVE  ops'[k].queue # x
          OBVIOUS
        <5>1. CASE k = Len(ops) + 1
          BY <1>3, <1>4, <3>2, <5>1
        <5>2. CASE k # Len(ops) + 1
          <6>1. k \in 1 .. Len(ops) /\ k \in tail[x] + 1 .. Len(ops)
            BY <1>1, <4>2, <5>2
          <6> QED  BY <1>4, <4>2, <6>1 DEF LastOf
        <5> QED  BY <5>1, <5>2
      <4>4. tail[x] # 0 => ops'[tail[x]].queue = x
        <5>1. tail[x] # 0 => tail[x] \in 1 .. Len(ops)
          BY <1>1, <4>2
        <5> QED  BY <1>4, <4>2, <5>1 DEF LastOf
      <4>5. tail[x] \in 0 .. Len(ops) + 1
        BY <1>1, <4>2
      <4> QED  BY <1>4, <4>1, <4>3, <4>4, <4>5 DEF LastOf
    <3> QED  BY <3>1, <3>2
  <2>4. ASSUME NEW i \in 1 .. Len(ops')
        PROVE  LastOf(ops', ops'[i].queue, i - 1, ops'[i].after)
    <3>1. CASE i \in 1 .. Len(ops)
      <4>1. LastOf(ops, ops[i].queue, i - 1, ops[i].after) /\ ops'[i] = ops[i]
        BY <1>1, <1>4, <3>1 DEF Queued
      <4>2. i - 1 \in 0 .. Len(ops)
        BY <1>1, <3>1
      <4>3. LastOf(ops, ops[i].queue, i - 1, ops[i].after) => LastOf(ops', ops'[i].queue, i - 1, ops'[i].after)
        BY <2>1, <4>1, <4>2
      <4> QED  BY <4>1, <4>3
    <3>2. CASE i = Len(ops) + 1
      <4>1. LastOf(ops, q, Len(ops), tail[q])
        BY <1>1 DEF Queued
      <4>2. LastOf(ops', q, Len(ops), tail[q])
        BY <1>1, <2>1, <4>1
      <4> QED  BY <1>1, <1>3, <1>4, <3>2, <4>2 DEF LastOf
    <3> QED  BY <1>5, <3>1, <3>2
  <2> QED  BY <2>2, <2>3, <2>4 DEF Queued
<1>8. InTurn'
  <2>1. \A j \in 1 .. Len(ops) : HasTurn(j) => HasTurn(j)'
    BY <1>1, <1>4 DEF HasTurn, Settled
  <2> QED  BY <1>1, <1>3, <1>4, <1>5, <2>1 DEF InTurn
<1>9. ASSUME NEW j \in 1 .. Len(ops')
      PROVE  Knows(j)' /\ Compared(j)'
  <2>1. CASE j \in 1 .. Len(ops)
    BY <1>2, <1>4, <2>1 DEF ManagerInv, Knows, Compared, Stored, IsTrustedIdentity
  <2>2. CASE j = Len(ops) + 1
    <3>1. record[c] \in Seq(1 .. Len(ops))
      BY <1>1 DEF Types
    <3>2. record[c] # <<j>>
      <4> SUFFICES ASSUME record[c] = <<j>>  PROVE  FALSE
        OBVIOUS
      <4>1. 1 \in 1 .. Len(record[c]) /\ record[c][1] = j
        OBVIOUS
      <4>2. j \in 1 .. Len(ops)
        BY <3>1, <4>1, ElementOfSeq
      <4> QED  BY <1>1, <2>2, <4>2
    <3> QED  BY <1>2, <1>3, <1>4, <2>2, <3>2 DEF Knows, Compared, Stored
  <2> QED  BY <1>5, <2>1, <2>2
<1> QED  BY <1>6, <1>7, <1>8, <1>9 DEF ManagerInv

(* No operation has been called yet.                                       *)
LEMMA InitInv == Init => ManagerInv
<1> SUFFICES ASSUME Init  PROVE  ManagerInv
  OBVIOUS
<1>1. ops \in Seq(Operation) /\ Len(ops) = 0 /\ 0 <= MaxCalls
  BY ManagerAssumption DEF Init
<1>2. Types
  BY <1>1 DEF Init, Types
<1>3. Queued
  BY <1>1 DEF Init, Queued, LastOf
<1> QED  BY <1>1, <1>2, <1>3 DEF ManagerInv, InTurn

(* Every step keeps the invariant.                                         *)
LEMMA NextInv == ManagerInv /\ [Next]_vars => ManagerInv'
<1> SUFFICES ASSUME ManagerInv, [Next]_vars  PROVE  ManagerInv'
  OBVIOUS
<1>1. ASSUME Call  PROVE  ManagerInv'
  BY <1>1, CallEnqueues, EnqueueKeepsInv
<1>2. ASSUME NEW i \in 1 .. MaxCalls, Continue(i) \/ Fetch(i)  PROVE  ManagerInv'
  <2>1. i \in 1 .. Len(ops)
    BY <1>2 DEF Continue, Fetch, ManagerInv, Types
  <2> QED  BY <1>2, <2>1, OperationStep, StepKeepsInv
<1>3. CASE UNCHANGED vars
  BY <1>3 DEF vars, ManagerInv, Types, Queued, LastOf, InTurn, HasTurn, Settled, Knows,
              Stored, Compared, IsTrustedIdentity, GoodOperation
<1> QED  BY <1>1, <1>2, <1>3 DEF Next

-----------------------------------------------------------------------------
(* Theorems.                                                               *)

(* For every set of peers, groups and identities, and every number of      *)
(* calls, ManagerInv is an invariant of the manager (index.ts:92-124).     *)
THEOREM ManagerInvariant == Spec => []ManagerInv
  BY InitInv, NextInv, PTL DEF Spec

(* Types, and a queue ends in the last operation called on it, so that     *)
(* every later one waits for all before it (index.ts:111-124).             *)
THEOREM ManagerTypeCorrect == Spec => []TypeOK
<1>1. ManagerInv => TypeOK
  <2> SUFFICES ASSUME ManagerInv  PROVE  TypeOK
    OBVIOUS
  <2>1. /\ Types /\ Queued /\ Len(ops) \in Nat /\ Len(ops) <= MaxCalls /\ MaxCalls \in Nat
        /\ DOMAIN ops = 1 .. Len(ops)
    BY ManagerAssumption, OperationFacts DEF ManagerInv, Types
  <2>2. ASSUME NEW i \in DOMAIN ops
        PROVE  /\ ops[i].queue \in Queues /\ ops[i].cell \in Cells /\ ops[i].at \in Steps
               /\ ops[i].after \in 0 .. i - 1
               /\ tail[ops[i].queue] \in i .. Len(ops)
    <3>1. i \in 1 .. Len(ops) /\ ops[i] \in Operation
      BY <2>1 DEF Types
    <3>2. ops[i].queue \in Queues /\ ops[i].cell \in Cells /\ ops[i].at \in Steps
      BY <3>1 DEF Operation
    <3>3. /\ LastOf(ops, ops[i].queue, i - 1, ops[i].after)
          /\ LastOf(ops, ops[i].queue, Len(ops), tail[ops[i].queue])
      BY <2>1, <3>1, <3>2 DEF Queued
    <3>4. \A x \in Nat : (\A k \in x + 1 .. Len(ops) : ops[k].queue # ops[i].queue) => i <= x
      BY <2>1, <3>1
    <3> QED  BY <2>1, <3>1, <3>2, <3>3, <3>4 DEF LastOf
  <2>3. tail \in [Queues -> 0 .. MaxCalls]
    BY <2>1 DEF Queued, LastOf
  <2>4. Seq(1 .. Len(ops)) \subseteq Seq(1 .. MaxCalls)
    BY <2>1, SeqMonotonic
  <2>5. record \in [Cells -> Seq(1 .. MaxCalls)]
    BY <2>1, <2>4 DEF Types
  <2>6. SUBSET (1 .. Len(ops)) \subseteq SUBSET (1 .. MaxCalls)
    BY <2>1
  <2>7. /\ pins \in [Peers -> {NotPinned} \cup Identities]
        /\ racing \in [Peers -> SUBSET (1 .. MaxCalls)]
    BY <2>1, <2>6 DEF Types
  <2> QED  BY <2>2, <2>3, <2>5, <2>7 DEF TypeOK
<1> QED  BY <1>1, ManagerInvariant, PTL

(* README.md:63-64: a pinned identity is only ever replaced by an operation*)
(* that was already under way, in another queue, when it was pinned.       *)
THEOREM PinsReplacedOnlyInRaces == Spec => PinsReplacedInRacesOnly
<1> DEFINE Raced ==
      \A p \in Peers : ReplacesPin(p) =>
          \E i \in racing[p] : ops[i].peer = p /\ ops[i].at = "pin" /\ ops'[i].at # "pin"
<1>1. ManagerInv /\ [Next]_vars => [Raced]_vars
  <2> SUFFICES ASSUME ManagerInv, Next, NEW p \in Peers, ReplacesPin(p)
               PROVE  \E i \in racing[p] :
                         ops[i].peer = p /\ ops[i].at = "pin" /\ ops'[i].at # "pin"
    OBVIOUS
  <2>1. PICK i \in 1 .. MaxCalls : i \in DOMAIN ops /\ SaveRemoteIdentity(i)
    BY DEF Next, Call, Continue, Fetch, ReplacesPin, EncryptMessage, DecryptMessage,
           EncryptGroupMessage, ManageSenderKey, DecryptGroupMessage,
           ProcessSenderKeyDistribution, Enqueue, StoreKept, Write, FetchPreKeyBundle,
           HasSession, TryLoadRecord, CheckTrust, StoreNewSession, LoadRecord,
           SetupSenderKey, GetRemoteIdentity, VerifyAndLoadSenderKey, LoadSenderKey,
           StoreAdvanced
  <2>2. /\ i \in 1 .. Len(ops) /\ ops[i].at = "pin"
        /\ pins' = [pins EXCEPT ![ops[i].peer] = ops[i].identity]
        /\ pins \in [Peers -> {NotPinned} \cup Identities]
        /\ Compared(i)
    BY <2>1 DEF SaveRemoteIdentity, At, ManagerInv, Types
  <2>3. ops[i].peer = p /\ ops[i].identity # pins[p] /\ pins[p] # NotPinned
    BY <2>2 DEF ReplacesPin
  <2>4. i \in racing[p]
    BY <2>2, <2>3 DEF Compared, IsTrustedIdentity
  <2>5. ops'[i].at # "pin"
    <3>1. ops' = [ops EXCEPT ![i].at = IF ops[i].kind = "process" THEN "verify" ELSE "create"]
      BY <2>1 DEF SaveRemoteIdentity, GoTo
    <3>2. ops[i] \in Operation
      BY <2>2 DEF ManagerInv, Types
    <3> QED  BY <2>2, <3>1, <3>2 DEF ManagerInv, Types, Operation
  <2> QED  BY <2>2, <2>3, <2>4, <2>5
<1> QED  BY <1>1, ManagerInvariant, PTL DEF Spec, PinsReplacedInRacesOnly
-----------------------------------------------------------------------------
(* The refinement.                                                         *)

CallsSeen == [i \in DOMAIN ops |-> [queue |-> ops[i].queue, cell |-> ops[i].cell]]

Done == {i \in DOMAIN ops : Settled(i)}

HalfMadeCell(c) == \E i \in DOMAIN ops : ops[i].cell = c /\ HalfMade(i)

Shown == [c \in Cells |-> IF HalfMadeCell(c) THEN <<>> ELSE record[c]]

(* The step of an operation concerns nobody else's half-made session.      *)
LEMMA ShownAfter ==
    ASSUME ManagerInv, NEW i \in 1 .. Len(ops), StepOf(i)
    PROVE  /\ HalfMadeCell(ops[i].cell) <=> HalfMade(i)
           /\ HalfMadeCell(ops[i].cell)' <=> HalfMade(i)'
           /\ \A c \in Cells : c # ops[i].cell => Shown'[c] = Shown[c]
<1>1. /\ Types /\ InTurn /\ DOMAIN ops = 1 .. Len(ops) /\ DOMAIN ops' = 1 .. Len(ops)
      /\ \A j \in 1 .. Len(ops) : j # i => ops'[j] = ops[j]
      /\ ops'[i].cell = ops[i].cell
  BY OperationFacts DEF ManagerInv, StepOf, Advances
<1>2. ASSUME NEW j \in 1 .. Len(ops), j # i, ops[j].cell = ops[i].cell
      PROVE  ~HalfMade(j) /\ ~HalfMade(j)'
  <2>1. ops[j].at = "waiting" \/ Settled(j)
    BY <1>1, <1>2, OnlyOne DEF StepOf, Moves
  <2> QED  BY <1>1, <1>2, <2>1 DEF HalfMade, Settled
<1>3. ASSUME NEW c \in Cells, c # ops[i].cell
      PROVE  Shown'[c] = Shown[c]
  <2>1. record'[c] = record[c]
    BY <1>3 DEF StepOf, WritesOwn
  <2>2. HalfMadeCell(c)' <=> HalfMadeCell(c)
    BY <1>1, <1>3, <2>1 DEF HalfMadeCell, HalfMade, Stored
  <2> QED  BY <2>1, <2>2 DEF Shown
<1>4. HalfMadeCell(ops[i].cell) <=> HalfMade(i)
  BY <1>1, <1>2 DEF HalfMadeCell
<1>5. HalfMadeCell(ops[i].cell)' <=> HalfMade(i)'
  BY <1>1, <1>2 DEF HalfMadeCell
<1> QED  BY <1>3, <1>4, <1>5

(* A step in the middle of an operation is not seen.                       *)
LEMMA MiddleStutters ==
    ASSUME ManagerInv, NEW i \in 1 .. Len(ops), StepOf(i), ~Settled(i)'
    PROVE  CallsSeen' = CallsSeen /\ Done' = Done /\ Shown' = Shown
<1>1. /\ Types /\ DOMAIN ops = 1 .. Len(ops) /\ DOMAIN ops' = 1 .. Len(ops)
      /\ \A j \in 1 .. Len(ops) : j # i => ops'[j] = ops[j]
      /\ ops'[i].cell = ops[i].cell /\ ops'[i].queue = ops[i].queue
      /\ ops[i].cell \in Cells
  BY OperationFacts DEF ManagerInv, StepOf, Advances, Operation
<1>2. CallsSeen' = CallsSeen
  BY <1>1 DEF CallsSeen
<1>3. Done' = Done
  BY <1>1 DEF Done, Settled, StepOf, Moves
<1>4. Shown'[ops[i].cell] = Shown[ops[i].cell]
  BY <1>1, ShownAfter DEF Shown, StepOf, Outcome
<1>5. \A c \in Cells : Shown'[c] = Shown[c]
  BY <1>4, ShownAfter
<1>6. Shown' = Shown
  BY <1>5 DEF Shown
<1> QED  BY <1>2, <1>3, <1>6

(* The step in which an operation settles is the whole operation.          *)
LEMMA SettlingPerforms ==
    ASSUME ManagerInv, NEW i \in 1 .. Len(ops), StepOf(i), Settled(i)'
    PROVE  /\ i \notin Done
           /\ \A j \in 1 .. i - 1 : CallsSeen[j].queue = CallsSeen[i].queue => j \in Done
           /\ Done' = Done \cup {i}
           /\ \E r \in Abstract!Outcomes(Shown[CallsSeen[i].cell], i) :
                 Shown' = [Shown EXCEPT ![CallsSeen[i].cell] = r]
           /\ CallsSeen' = CallsSeen
<1> DEFINE c == ops[i].cell
<1>1. /\ Types /\ DOMAIN ops = 1 .. Len(ops) /\ DOMAIN ops' = 1 .. Len(ops)
      /\ Len(ops) \in Nat
      /\ \A j \in 1 .. Len(ops) : j # i => ops'[j] = ops[j]
      /\ ops'[i].cell = c /\ ops'[i].queue = ops[i].queue /\ c \in Cells
  BY OperationFacts DEF ManagerInv, StepOf, Advances, Operation
<1>2. \A j \in 1 .. Len(ops) : CallsSeen[j].queue = ops[j].queue /\ CallsSeen[j].cell = ops[j].cell
  BY <1>1 DEF CallsSeen
<1>3. CallsSeen' = CallsSeen
  BY <1>1 DEF CallsSeen
<1>4. Done' = Done \cup {i} /\ i \notin Done
  BY <1>1 DEF Done, Settled, StepOf, Moves
<1>5. \A j \in 1 .. i - 1 : CallsSeen[j].queue = CallsSeen[i].queue => j \in Done
  <2>1. HasTurn(i) /\ \A j \in 1 .. i - 1 : j \in 1 .. Len(ops)
    BY <1>1 DEF StepOf, Moves
  <2> QED  BY <1>1, <1>2, <2>1 DEF HasTurn, Done
<1>6. ~HalfMade(i)'
  BY DEF HalfMade, Settled
<1>7. Shown'[c] = record'[c] /\ Shown[c] = IF HalfMade(i) THEN <<>> ELSE record[c]
  BY <1>1, <1>6, ShownAfter DEF Shown
<1>8. Shown'[c] \in Abstract!Outcomes(Shown[c], i)
  BY <1>7 DEF Abstract!Outcomes, StepOf, Outcome
<1>9. Shown' = [Shown EXCEPT ![c] = Shown'[c]]
  <2>1. \A x \in Cells : x # c => Shown'[x] = Shown[x]
    BY ShownAfter
  <2>2. DOMAIN Shown = Cells /\ DOMAIN Shown' = Cells
    BY DEF Shown
  <2>3. Shown' = [x \in Cells |-> Shown'[x]] /\ Shown = [x \in Cells |-> Shown[x]]
    BY DEF Shown
  <2> HIDE DEF c
  <2> QED  BY <1>1, <2>1, <2>2, <2>3
<1> QED  BY <1>2, <1>3, <1>4, <1>5, <1>8, <1>9

(* A call is a call.                                                       *)
LEMMA EnqueueCalls ==
    ASSUME ManagerInv, NEW kind, NEW q \in Queues, NEW c \in Cells, NEW peer, NEW identity,
           GoodOperation(NewOperation(kind, q, c, peer, identity)),
           Enqueue(kind, q, c, peer, identity)
    PROVE  /\ CallsSeen' = Append(CallsSeen, [queue |-> q, cell |-> c])
           /\ Done' = Done /\ Shown' = Shown
<1> DEFINE o == NewOperation(kind, q, c, peer, identity)
           Seen == [queue : Queues, cell : Cells]
<1>1. PICK n \in Nat : /\ n = Len(ops) /\ Types /\ DOMAIN ops = 1 .. n
                       /\ ops \in Seq(Operation)
  <2>1. Types /\ ops \in Seq(Operation)
    BY DEF ManagerInv, Types
  <2>2. Len(ops) \in Nat /\ DOMAIN ops = 1 .. Len(ops)
    BY <2>1, LenProperties
  <2> QED  BY <2>1, <2>2
<1>2. ops' = Append(ops, o) /\ record' = record
  BY DEF Enqueue, NewOperation, RunAfter
<1>3. o \in Operation /\ o.queue = q /\ o.cell = c /\ o.at = "waiting"
  BY DEF NewOperation, GoodOperation
<1> HIDE DEF o
<1>4. /\ DOMAIN ops' = 1 .. n + 1
      /\ \A j \in 1 .. n : ops'[j] = ops[j]
      /\ ops'[n + 1] = o
  BY <1>1, <1>2, <1>3
<1>5. \A j \in 1 .. n + 1 : j \in 1 .. n \/ j = n + 1
  BY <1>1
<1>6. CallsSeen' = Append(CallsSeen, [queue |-> q, cell |-> c])
  <2>1. /\ CallsSeen \in [1 .. n -> Seen] /\ CallsSeen' \in [1 .. n + 1 -> Seen]
        /\ \A j \in 1 .. n : CallsSeen'[j] = CallsSeen[j]
        /\ CallsSeen'[n + 1] = [queue |-> q, cell |-> c]
    <3>1. \A j \in 1 .. n : ops[j].queue \in Queues /\ ops[j].cell \in Cells
      <4>1. \A j \in 1 .. n : ops[j] \in Operation
        BY <1>1
      <4> QED  BY <4>1 DEF Operation
    <3>2. CallsSeen \in [1 .. n -> Seen]
      BY <1>1, <3>1 DEF CallsSeen
    <3>3. \A j \in 1 .. n + 1 : ops'[j].queue \in Queues /\ ops'[j].cell \in Cells
      BY <1>3, <1>4, <1>5, <3>1
    <3>4. CallsSeen' \in [1 .. n + 1 -> Seen]
      BY <1>4, <3>3 DEF CallsSeen
    <3>5. n + 1 \in 1 .. n + 1 /\ \A j \in 1 .. n : j \in 1 .. n + 1
      BY <1>1
    <3> QED  BY <1>1, <1>3, <1>4, <3>2, <3>4, <3>5 DEF CallsSeen
  <2>2. CallsSeen \in Seq(Seen) /\ CallsSeen' \in Seq(Seen)
    <3>1. \A f, k : k \in Nat /\ f \in [1 .. k -> Seen] => f \in Seq(Seen)
      BY SeqDef, ZenonT(30)
    <3>2. n + 1 \in Nat
      BY <1>1
    <3> HIDE DEF Seen
    <3> QED  BY <1>1, <2>1, <3>1, <3>2
  <2>3. Len(CallsSeen) = n /\ Len(CallsSeen') = n + 1
    BY <1>1, <2>1, <2>2
  <2> DEFINE e == [queue |-> q, cell |-> c]
  <2>4. e \in Seen
    OBVIOUS
  <2> HIDE DEF e, Seen
  <2>5. /\ Append(CallsSeen, e) \in Seq(Seen) /\ Len(Append(CallsSeen, e)) = n + 1
        /\ \A j \in 1 .. n : Append(CallsSeen, e)[j] = CallsSeen[j]
        /\ Append(CallsSeen, e)[n + 1] = e
    BY <2>2, <2>3, <2>4, AppendProperties
  <2>6. \A j \in 1 .. n + 1 : CallsSeen'[j] = Append(CallsSeen, e)[j]
    BY <1>5, <2>1, <2>5 DEF e
  <2>7. CallsSeen' = Append(CallsSeen, e)
    BY <2>2, <2>3, <2>5, <2>6, SeqEqual
  <2> QED  BY <2>7 DEF e
<1>7. Done' = Done
  <2>1. ~Settled(n + 1)'
    BY <1>3, <1>4 DEF Settled
  <2> QED  BY <1>1, <1>4, <1>5, <2>1 DEF Done, Settled
<1>8. \A x \in Cells : HalfMadeCell(x)' <=> HalfMadeCell(x)
  <2>1. ~HalfMade(n + 1)'
    BY <1>3, <1>4 DEF HalfMade
  <2>2. \A j \in 1 .. n : HalfMade(j)' <=> HalfMade(j)
    BY <1>2, <1>4 DEF HalfMade, Stored
  <2> QED  BY <1>1, <1>4, <1>5, <2>1, <2>2 DEF HalfMadeCell
<1>9. Shown' = Shown
  BY <1>2, <1>8 DEF Shown
<1> QED  BY <1>6, <1>7, <1>9

(* index.ts:92-99: whatever fails and wherever the others await, the       *)
(* operations of one queue happen one at a time, in the order of the calls,*)
(* each on what the one before it stored.                                  *)
THEOREM ImplementsOneAtATime == Spec => OneAtATime
<1>1. Init => Abstract!Init
  BY DEF Init, Abstract!Init, Settled
<1>2. ManagerInv /\ [Next]_vars
        => [Abstract!Next]_<<CallsSeen, Done, Shown>>
  <2> SUFFICES ASSUME ManagerInv, [Next]_vars
               PROVE  Abstract!Next \/ UNCHANGED <<CallsSeen, Done, Shown>>
    OBVIOUS
  <2>1. ASSUME Call  PROVE  Abstract!Call
    <3>1. PICK q \in Queues, c \in Cells :
             /\ CallsSeen' = Append(CallsSeen, [queue |-> q, cell |-> c])
             /\ Done' = Done /\ Shown' = Shown
      BY <2>1, CallEnqueues, EnqueueCalls
    <3> QED  BY <3>1 DEF Abstract!Call, CallsSeen, Done, Shown, HalfMadeCell
  <2>2. ASSUME NEW i \in 1 .. MaxCalls, Continue(i) \/ Fetch(i)
        PROVE  Abstract!Next \/ UNCHANGED <<CallsSeen, Done, Shown>>
    <3>1. i \in 1 .. Len(ops) /\ DOMAIN ops = 1 .. Len(ops) /\ Len(ops) \in Nat
      BY <2>2, OperationFacts DEF Continue, Fetch, ManagerInv, Types
    <3>2. StepOf(i)
      BY <2>2, <3>1, OperationStep
    <3>3. CASE ~Settled(i)'
      BY <3>1, <3>2, <3>3, MiddleStutters
    <3>4. CASE Settled(i)'
      <4>1. Len(CallsSeen) = Len(ops)
        <5>1. CallsSeen \in Seq([queue : Queues, cell : Cells])
          <6>1. \A j \in 1 .. Len(ops) : ops[j] \in Operation
            BY <3>1 DEF ManagerInv, Types
          <6> QED  BY <3>1, <6>1, SeqDef DEF CallsSeen, Operation
        <5> QED  BY <3>1, <5>1 DEF CallsSeen
      <4>2. Abstract!Perform(i)
        BY <3>1, <3>2, <3>4, SettlingPerforms
        DEF Abstract!Perform, CallsSeen, Done, Shown, HalfMadeCell
      <4> QED  BY <3>1, <4>1, <4>2 DEF Abstract!Next, CallsSeen
    <3> QED  BY <3>3, <3>4
  <2>3. CASE UNCHANGED vars
    BY <2>3 DEF vars, CallsSeen, Done, Shown, HalfMadeCell, HalfMade, Settled, Stored
  <2> QED  BY <2>1, <2>2, <2>3 DEF Next, Abstract!Next
<1> QED  BY <1>1, <1>2, ManagerInvariant, PTL
      DEF Spec, OneAtATime, Abstract!Spec, CallsSeen, Done, Shown, HalfMadeCell
==============================================================================
