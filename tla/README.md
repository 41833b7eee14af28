# Verification of the chat application's Signal protocol

TLA+ models, TLC runs and TLAPS proofs for the end-to-end encrypted chat of this
repository: the TypeScript Signal protocol library (`src/signal`), the Express
and PostgreSQL prekey server and the WebSocket relay (`backend/src`), and the
chat page that uses them (`src/components/chatWindow`). Paths
below are relative to the repository unless they start with `signal/`, which
stands for `src/signal/`.

## The system

| Component | State | Operations | Talks to |
| --- | --- | --- | --- |
| Double Ratchet (`signal/ratchet`) | root key, own ratchet key pair, the peer's ratchet key, two chain keys, three counters, the Map of skipped message keys | `initAlice`, `initBob`, `encrypt`, `decrypt` (lookup of a stored key, skip, DH step, rollback) | called by the session layer |
| X3DH and identities (`signal/x3dh`, `signal/identity`) | none | key generation, `x3dhInitiate`, `x3dhRespond` | called by the session layer and `initialize` |
| Session layer (`signal/session`) | one record per peer: ratchet, peer's identity, pending handshake, base key of the peer's handshake | `startSession`, `encrypt`, `decrypt` (Signal and PreKey envelopes), `commitResponderSession` | store, ratchet |
| SignalProtocolManager (`signal/index.ts`) | promise queue per peer, promise queue per group | `initialize`, `encryptMessage`, `decryptMessage`, six group operations | store, key server, session layer, group cipher |
| Sender Keys (`signal/sender-keys`) | per group and sender up to five chains with skipped keys | `encrypt`, `decrypt`, distribution, `rotate` | store |
| Store (`signal/store`) | identity, prekeys, pinned identities, sessions, sender keys, in memory | get and set | |
| Prekey server (`backend/src/routes/keys.ts`, `db.ts`) | bundle row and pool of one-time prekeys (OPKs) per user | POST replaces both, GET reads the bundle and consumes an OPK, count | PostgreSQL |
| WebSocket relay (`backend/src/ws.ts`) | set of connections per user | connect, message to sender and receiver, close | clients |
| Chat client (`src/components`, `src/services`) | chats, FIFO of plaintexts awaiting their echo, socket | login, send, receive, reconnect | manager, relay, HTTP |

What is hard in it:

- **Ordering, loss and repetition** of messages: the ratchet promises to stand all
  three, with bounded memory, and without leaving a used key behind.
- **Concurrent initiation**: both users may start a session before they hear of
  the other's handshake.
- **Failure half-way**: a decryption or a handshake that turns out to be bad after
  keys were skipped or a session was built.
- **Interleaving**: transactions of the key server; operations of one session or of
  a session and a group that await the store; a page's messages, echoes and
  reconnects between the awaits of its encryptions and decryptions.
- **Limits**: MAX_SKIP, the cap on stored keys, the five chains of a sender.
- **Starting afresh**: everything a client keeps is in memory.

What makes each component correct: a ratchet never uses a message key twice,
holds no key it has used, and opens every message within its limits however
late; a pair of users ends up in one session and refuses nothing but what the
tie-break says; what cannot be opened changes nothing; an identity once pinned
stays; the server hands out no OPK twice and none of another publication than
the one that stands; an operation on a session sees what the one before it wrote,
and a failed one stops none behind it; the relay knows exactly the sockets that are
open, no page stays cut off, a page shows its own messages with their text and the
peer's in their order.

## Modules

| Module | Models | Role |
| --- | --- | --- |
| `DoubleRatchet` | `signal/ratchet` | operators on a record with the fields of `RatchetState` |
| `DoubleRatchetProofs` | | lemmas about one ratchet, what it keeps and how it follows a conversation, which the theorems about `RatchetChannel` and `SignalSession` rest on |
| `RatchetChannel` | two ratchets and an untrusted relay | state machine, properties, inductive invariants |
| `AtMostOnceChannel` | what a session promises | abstract specification |
| `RatchetChannelProofs` | | theorems about `RatchetChannel` |
| `SignalManager` | `signal/index.ts`, the awaits of `signal/session`, `signal/sender-keys`, `signal/store` | the promise queues of one user, await by await |
| `OneAtATime` | what the queues promise | abstract specification |
| `SignalManagerProofs` | | theorems about `SignalManager` |
| `SignalSession` | `signal/session`, `signal/x3dh`, manager, store, relay | composes two users' sessions over `DoubleRatchet` |
| `SignalSessionProofs` | | theorems about `SignalSession` |
| `SessionsInStepProofs` | | theorems about its ways that keep the order |
| `SenderKeys` | `signal/sender-keys`, the group operations of the manager | one sender and its members |
| `SenderKeysProofs` | | theorems about `SenderKeys` |
| `PreKeyServer` | `backend/src/routes/keys.ts` | transactions statement by statement |
| `PreKeyServerProofs` | | theorems about `PreKeyServer` |
| `ChatRelay` | `src/components/chatWindow/chatWindow.jsx`, `backend/src/ws.ts` | the pages of two users and the relay between them |
| `ChatRelayProofs` | | theorems about `ChatRelay` |
| `MCRatchetChannel`, `MCSignalManager`, `MCSignalSession`, `MCSenderKeys`, `MCPreKeyServer`, `MCChatRelay` | | constants for TLC |

They stack: `SignalSession` composes two users over the operators of `DoubleRatchet`
and takes an operation of the manager as one step; `SenderKeys` does the same for
groups; `SignalManager` shows that they may, by refining `OneAtATime`; `ChatRelay`
uses the manager through its queue alone, and what it shows of the order of messages
on one connection is what the ordered ways of `SignalSession` rest on.

### DoubleRatchet and RatchetChannel

Cryptography is symbolic: a key pair is a name, a DH secret the set of its two
keys, a root key the sequence of secrets mixed into it, a chain key its root and
its number of HMAC steps, and a message opens under exactly the key, header and
associated data it was sealed with. `RatchetDecrypt` follows `decryptInternal`
branch by branch (stored key; close the old chain and turn the ratchet; skip to
the message; open it) and gives back the snapshot on failure. The Map of skipped
keys is a sequence in insertion order, which is what eviction depends on. The
keys of one gap are appended at once; eviction at the end of it gives the same
result as in the code, which also evicts after the gap.

`RatchetChannel` has one action per operation: `Send` (`encrypt`), `Receive`
(`decrypt` of any message ever sent, at any time and any number of times: loss,
delay, reordering and duplication in one) and `ReceiveAltered` (the same with a
header taken from another message or with a counter moved). `ReceiveAltered` never
leads to a new state in a correct ratchet: the rollback undoes everything. It is
what `Decryptable` breaks on when the rollback is missing. `evicted` is the history of the
keys that had to make way at the cap: a key that leaves the store while it is not full, or
before an older one, is none of them (`MadeWay`), so `Decryptable` breaks too when too
many keys are evicted.

The associated data of both sides, byte layouts and wire versions, and
`serialize`/`deserialize` (which keep every field) are left out.

### SignalManager and OneAtATime

The manager of one user. A call appends an operation that remembers the tail of its
queue, the one to run after (`previous.then(task, task)`), and becomes the tail; it
begins when that one has settled, whatever its outcome. From there an operation is at
the await it has reached (`at`): `hasSession`, the request for a bundle, the trust
check, pinning, the load and the store of a record are steps of their own, and what
was loaded (`read`) is used after the await. Consecutive awaits between which nothing
another operation can touch is read or written are one step. An operation may fail wherever the code
can refuse, since the keys themselves are in `SignalSession` and `SenderKeys`: a record
is just the sequence of operations that made it. Sessions and groups share the pins.

`OneAtATime` is the promise of `index.ts:92-99`: the operations of a queue happen at
once, in the order of the calls, each on what the one before it left. The refinement
maps settled operations to done ones, and hides the one intermediate state the code
has: `encryptMessage` stores a session it has started before it advances it.

### SignalSession

Two users with a record per peer, a pinned identity and one-time prekeys, and a
channel of envelopes to each. The manager runs the operations of one peer one
after another (`index.ts:111-117`), so `encryptMessage` and `decryptMessage` are one
action each: `EncryptFirst` (no session: fetch a bundle, `startSession`, encrypt),
`EncryptNext`, and for an envelope the six outcomes of `decrypt`: `AcceptSignal`,
`RefuseSignal`, `RepeatedHandshake` (lines 94-103), `LoseTieBreak` (112-119),
`AcceptHandshake` and `RefuseHandshake` (121-126). Base keys are numbers because the
tie-break compares them as byte strings.

A page reload and the `initialize` after it are two steps, with any others in between.
`Reload` loses everything and fills the store with new keys under the same ids
(`index.ts:136-146`); `PublishKeys` is the POST of `initialize` that commits (148-160).
Until then the server hands out the OPKs, signed prekey and identity of the page that is
gone (`published`), and the user, who gets a chat window and a socket only when
`initialize` has returned (`App.jsx:18-39`), neither sends nor receives (`Ready`). A
publication that fails is one that does not happen: `PublishKeys` has no fairness, and the
page may be loaded again. A POST under way when its page goes away commits before
the POST of the next page or not at all.

`way` is chosen in `Init` and says what the way between the users does (`faults`) and
how often a user may post and reload. The deployed relay keeps
the order and drops envelopes to users who are not connected (`"lose"`); the
library is documented to stand reordering and duplicates as well
(`ratchet.ts:2-3`, `session-cipher.ts:9-10`), and damaged envelopes.

### SenderKeys

One sender of one group, and the members' records for it; records of other senders
and groups are kept apart by the store's keys. A chain is named by its distribution
id, numbered in the order the sender draws them, and message key `i` of chain `c` is
the chain key after `i` steps. The actions are the six group operations of the
manager, whose queue per group makes each atomic, and page reloads: `SetupSenderKey`
(replaces the record), `RotateSenderKey` (adds a chain), `GetSenderKeyDistribution`,
`EncryptGroupMessage`, `ProcessSenderKeyDistribution` (pins, verifies, ignores chains
it knows, adds, evicts) and `DecryptGroupMessage` (stored key, or jump, skip, advance;
stored only if the AEAD opens). The Map of skipped keys is a function on iterations:
a chain only moves forward, so insertion order is the order of iterations.

Any message and any distribution message may arrive at any time, repeatedly or never,
but unaltered, so the signature of a message always holds; that of a distribution
message fails when the sender has reloaded and the member pins its old identity. The
AEAD fails for members in `misfiled`, which have put the chains under another group's
id (as `sender-keys.test.ts:256-272` does): the group id is associated data, and no
signature covers it.

### PreKeyServer

The rows of one user, and POST and GET requests as READ COMMITTED transactions:
one action per statement, which sees what is committed by then. The upsert of the
bundle row makes a second POST wait; DELETE goes through the rows it saw and waits
for locked ones; GET's `FOR UPDATE SKIP LOCKED` passes over them. `Fail` is a
statement that fails or a connection that goes down at any point, followed by the
rollback; `CommitUnacknowledged` a COMMIT whose answer is lost.

### ChatRelay

`page[t]` is a `ChatWindow` (`pending` is `pendingSentMessages`, `chats` the entries of
all chats in the order they were added, `queue` the operations its manager runs one
after the other), `link[s]` a connection with both its ends and what is under way in
either direction, `connections` the relay's Map, `stored` localStorage. A handler that
awaits is two actions: `Post` (up to the await of the encryption: the socket is checked
and the chat id chosen there) and `Encrypted` or `NotEncrypted` (the plaintext is queued
and sent on the socket the page has by then); `ReceiveMessage` and `Decrypted`.
`ReceiveEcho` does not await. `Relay` is the server's handler of a message: a chat id if
there is none, and on to every open socket of sender and receiver.

`Break` cuts a connection at any time, also while it is being made; each direction may
still deliver a part of what is under way. Both ends learn of it later and
independently (`ClientClosed`, `ServerClosed`), so a page may have its next connection
before the relay has dropped the last. What is sent on a socket that is closed, or
broken, is gone, as `WebSocket.send` discards it without an error. A restart of the
backend is a break of every connection. `Reload` loads a page again, with the chats of
localStorage.

History variables say what the properties excuse: `due` (messages whose echo is
outstanding), `disturbed` (users who missed an echo or had one of another page), and
`unaddressed` (messages encrypted that were posted before their page could know of a chat).
A page can know once it is `told`: it has shown a message, or was loaded when another page of
the user had; a message posted on any other page is `early`. Neither looks at
what the page remembers, so a chat that is forgotten is not excused.

## Runs

| Run | Question | Bounds |
| --- | --- | --- |
| `RatchetChannel` | Do two ratchets keep forward secrecy, one message per key, late messages decryptable and at-most-once delivery whatever the relay does, and does eviction keep the cap? | six messages against two, MAX_SKIP 1, cap 2: several turns of the ratchet, gaps at, below and beyond MAX_SKIP, the store full and overflowing |
| `SignalManager` | Do the operations of a queue happen one at a time, in the order of the calls and each on what the last one stored? Does a failed operation hold up none behind it, and a request that the key server never answers no other queue? Is a pin only replaced by an operation of the other queue that was already under way? | any three calls for one peer and one group, two identities: three operations of one queue, the first failing; two of one with one of the other in between |
| `SignalManagerPins` | (violation) Does a pinned identity hold? | two calls |
| `SignalSession` | On a way that keeps the order and loses nothing: does only the tie-break refuse messages, and does the pair always come to share a session? With losses and damage too: is no user ever left alone in a session, and does every Signal envelope open that has no more than MAX_SKIP lost ones before it? On these and with envelopes, handshakes included, repeated and reordered, and a user who starts afresh: can every session send, does what cannot be opened leave no trace, is no message handed over twice, do pins hold, does a user whose publication stands still hold every OPK of the pool? With one OPK each, a second handshake has none, and only the check of the base key stops its replay. | four ways: reliable, three messages each; losing, two each and two reloads, the publications after them late or missing; losing and damaging, three each; repeating and reordering, two each and a reload; three base keys; MAX_SKIP 1, so that two losses put a message out of reach |
| `SessionReordered` | (violation) Does the pair converge when envelopes overtake each other? | two messages each |
| `SessionTieBreak` | (violation) Does the loser lose just its first payload? | two messages each |
| `SenderKeys` | Do sender keys open each message once and late ones as promised, keep recent chains, and leave no trace of failures, whatever is repeated, reordered, rotated or reloaded? | one member; six operations of the sender in all (chains, messages, reloads), at most three chains, three distribution messages, one reload; records of two chains, jumps of two, one stored key: the cap lies below the jump, as in the code |
| `SenderKeysReordered` | (violation) Are only old chains evicted, though distribution messages overtake each other? | three chains, records of two |
| `PreKeyServer` | Is no OPK handed out twice, does the pool always belong to the bundle, does every request end? | two POSTs, three GETs, two OPKs |
| `PreKeyServerOmits` | (violation) Is the OPK omitted only when the pool is empty? | two POSTs, one GET, one OPK |
| `ChatRelay` | Is the relay's Map right whenever connections break and overlap? Do echoes find their texts, and the peer's messages keep their order, unless a connection or page went with an echo outstanding? Is the chat only split by a second message posted before its page could know of the first one's chat? Does every page come to hear again? | a page each; three events in all, each a message posted, a connection that breaks or a page reloaded: two messages under way when the connection breaks, a break while reconnecting from one |
| `ChatRelayEcho` | (violation) Does every echo find its text? | two pages of one user, one message |

Deadlock is not checked in any of them: users may stop sending and requests run
out. The counters of the code are unbounded; `MaxSent`, `MaxPosts`,
`MaxReloads`, `MaxChains`, `MaxSkdms`, `MaxOperations`, `MaxCalls`, `MaxEvents` and the
`posts` and `reloads` of a way are bounds of the models only, and `MAX_SKIP` and the cap
are small so that they are reached. What a larger instance of
`RatchetChannel`, `SignalManager`, `SenderKeys`, `PreKeyServer` or `ChatRelay` could add is
more of the same, and the proofs cover every size. Members of a group do not meet, so one is enough; three chains overflow a
record of two, and bring an evicted chain back.

Fairness: `SignalSession` assumes that what reaches a user over the way that loses
nothing is decrypted eventually (`WF` of `Receive`): the socket's handler is called for every message and
the queue runs each operation after its predecessor settles, whatever its outcome.
`PreKeyServer` assumes that PostgreSQL executes the next statement of a
transaction that does not wait for a lock. `SignalManager` assumes that a promise that
settles runs what waits for it and that the store answers (`WF` of every operation's
`Continue`), but not that the key server does: `http-key-server.ts` sets no timeout, and
`Fetch` has no fairness. `ChatRelay` assumes that the relay and each page go on handling
their events and timers (`WF` of `RelayStep` and of `PageStep`), and nothing of
encryptions and decryptions; `NeverDeaf` holds because breaks are bounded, that is, if
the network is eventually stable, which is what a reconnect loop needs. Nothing is assumed about users sending.

## Findings

- **A late losing handshake forks the session** (`SessionReordered`).
  `signal/README.md:65-67` promises that the pair converges on one session. The
  tie-break only looks at a pending handshake, and the first reply clears it: Bob
  loses, adopts Alice's session and replies; the reply overtakes Bob's own first
  envelope; Alice then accepts that one as a new session while Bob stays in hers.
  It cannot happen while order is kept (`SignalSession` checks `NeverAlone`).
- **The loser loses more than its first payload** (`SessionTieBreak`). Everything the
  loser encrypts before it has processed the winner's handshake is refused, on a
  perfectly reliable way, where `session-cipher.ts:109` and `signal/README.md:66-67`
  say the first payload.
- **The newest chain is evicted** (`SenderKeysReordered`). `sender-key-record.ts:4-9` says
  that old states are evicted, and line 18 that a record is ordered oldest to newest.
  A member's record is ordered by arrival: when distribution messages overtake each
  other, the chain the sender is using goes and dead ones stay. Members that took in
  no chain after a newer one keep what is promised (`RecentChainsKeptInOrder`).
- **An OPK is omitted though the pool is not empty** (`PreKeyServerOmits`).
  `backend/README.md:22` says it is omitted when the pool is empty; a GET that runs
  while a POST is replacing the pool finds all rows locked and goes without.

- **Two queues pin one peer** (`SignalManagerPins`). The READMEs say that a change of
  identity is refused until the app clears the pin (`README.md:53-54`,
  `signal/README.md:63-64`). A session and a distribution message that meet a peer for
  the first time at the same time, on either side of a reload of the peer's page, both
  find no pin; the second overwrites the first and nothing is refused. It takes
  operations that were under way together (`PinsReplacedInRacesOnly`); the chat page
  itself uses no groups yet.
- **Echoes without their text** (`ChatRelayEcho`). `chatWindow.jsx:16-19` and `133` say
  that each echo is paired with its plaintext. The relay sends it to every tab of the
  user, and the other tabs have no plaintext for it, or that of another message. An echo lost with its
  connection has the same effect on a single page: its plaintext stays in the FIFO, and
  every later message of one's own is shown with the text of an earlier one.

## Proofs

Every theorem is of the specification (`Spec => ...`) and holds for all values of the
constants. Each module proves an inductive invariant first, which was checked with TLC
on small instances before it was proved, and the properties from it.

| Theorem | Property |
| --- | --- |
| `RatchetChannelProofs`: `ChannelInvariant`, `TypeCorrect`, `UsedKeysAreGone`, `KeysSealOneMessage`, `ImplementsAtMostOnce`, `LockstepInvariant`, `ConversationInvariant`, `LateMessagesOpen`, `RefusedOnlyAfterLoss` | `ChannelInv`, `TypeOK`, `ForwardSecrecy`, `MessageKeysUnique`, the refinement `AtMostOnce`, `LockstepInv`, `ConversationInv`, `Decryptable`, `TooFarOnlyAfterLoss` |
| `SignalSessionProofs`: `SessionInvariant`, `TypeCorrect`, `PoolIsBacked`, `NobodyIsAlone`, `NoTraceOfRefusal`, `PinsAreKept`, `SessionsImplementAtMostOnce` | `SessionInv`, `TypeOK`, `PoolBacked`, `NeverAlone`, `RefusalLeavesNoTrace`, `PinsHold`, the refinement `AtMostOnce` |
| `SessionsInStepProofs`: `SessionsInStep`, `SignalMessagesOpen`, `TieBreakAloneRefuses` | `InStepInv`, `SignalOpens`, `OnlyTieBreakRefuses` |
| `SignalManagerProofs`: `ManagerInvariant`, `ManagerTypeCorrect`, `PinsReplacedOnlyInRaces`, `ImplementsOneAtATime` | `ManagerInv`, `TypeOK`, `PinsReplacedInRacesOnly`, the refinement `OneAtATime` |
| `SenderKeysProofs`: `GroupInvariant`, `GroupTypeCorrect`, `StoredKeysAreOfTheChain`, `OpenedKeysAreGone`, `MessagesOpenOnce`, `KeysEncryptOneMessage`, `FailuresChangeNothing`, `OldestChainsGoFirst`, `LateMessagesOpen`, `GroupPinsHold` | `GroupInv`, `TypeOK`, `ChainsAgree`, `SpentKeysGone`, `AtMostOnce`, `OneMessagePerKey`, `FailureLeavesChains`, `RecentChainsKeptInOrder`, `Decryptable`, `PinsHold` |
| `PreKeyServerProofs`: `ServerInvariant`, `ServerTypeCorrect`, `KeysHandedOutOnce`, `PoolIsOfTheBundle`, `AnswersAreNotStale` | `ServerInv`, `TypeOK`, `NoKeyTwice`, `PoolMatchesBundle`, `NoStaleKey` |
| `ChatRelayProofs`: `ChatInvariant`, `ChatTypeCorrect`, `OwnTextsAreShown`, `PeerSeesOrder`, `OneChatForTwo` | `ChatInv` with `ToldInv`, `TypeOK`, `EchoesPairedUndisturbed`, `PeerInOrder`, `OneChat` |

**RatchetChannel**, for every `MAX_SKIP`, every cap of at least twice `MAX_SKIP` (1000
and 2000 in `core/constants.ts`) and every bound on the messages sent. `ForwardSecrecy`
is not inductive. `ChannelInv` adds what it
rests on: every key used lies strictly *before* the chain it was taken from, in the
order of root keys by length and then of steps; stored keys lie before the
receiving chain, in the order of their chains, so those that eviction takes are the oldest; what has been delivered is before the receiving
chain and not stored (`Spent`). Sending and receiving chains of one party never
meet because every DH step adds two secrets to the root key, so the roots of the
initiator's sending chains have even length and the responder's odd (`Parity`). The
proof goes operator by operator: what `SkipReceivingMessageKeys`, `DhRatchetStep`,
`DecryptSkipped`, `DecryptOnChain` and `RatchetDecrypt` keep of one ratchet
(`DoubleRatchetProofs`, over any keys, secrets and associated data), then the two
parties together, one lemma per action.

`ChannelInv` bounds what a party can still compute, and says nothing of what it must be able to
compute. `LockstepInv` does, and is proved on top of it; the run checks the two together as
`ConversationInv`. The ratchet keys of a
conversation, of both parties in turn, are one sequence (`RatchetKeys`), and root n is
the shared key with the first n secrets of neighbours in that sequence mixed in (`RootAt`).
A party is `InStep` when its root, its chains and the keys it has stored are those of
the sequence up to its own ratchet key; of the two, one is always exactly one turn ahead.
`SentInStep` says that each message is sealed with the key that its header names, and
that its counters tell the truth (`Numbered`): every number below `messageNumber` was used
before it, and `previousChainLength` counts the messages of the sender's last chain. So
the keys a receiver lays down for a gap are keys of real messages. `PassedKeysKept`
says that a key the receiver has moved past was used, is stored or had to make way at the cap,
and `NotAhead` that it has not received more of a chain than was sent of it.
Then a message not received yet either has a stored key, which is the right one, or lies
at or ahead of the receiver's chain, on this root or the next one, and the receiver
derives its key unless a gap is too large (`LateMessagesOpen`); and a gap that
is too large is made of as many messages sent earlier and not received
(`RefusedOnlyAfterLoss`). The part about a single ratchet is in `DoubleRatchetProofs`: roots
and chains determine their keys, and turning, skipping, opening and sealing keep a ratchet
in step.

**SignalSession**, for every way between the users that `Ways` allows, any base keys and OPK
ids and any number of messages and reloads. A session is named by its *origin*: who started
it, in which generation, with which base key, and the generation and the OPK of the
bundle. The X3DH secret tells the origin (`SecretTells`), a responder computes it from the
handshake (`RespondsWithSecret`), and it stays the first element of every root key and of
every sealed message's key (`Derived`), which is how a message belongs to a session.
`SessionInv` builds on that. `SessionsInv`: a session is the user's own or adopted from
the peer, of the identities that are pinned, its ratchet satisfies `RatchetInv` and can
send. `EnvelopesInv`: a handshake in an envelope is that of the session the message is
sealed in. `OriginsInv`: a user starts one session in a generation, base keys are drawn
once, and the OPK of a session in use is not in the pool of the user it was taken from.
`HandedInv`: a message that was handed over is `Gone`: its key is spent in the session the
user holds, or the session is another's and cannot be adopted again, because its user
has started afresh or was its initiator. `AtMostOnce` follows; an
adopted session is given up by starting afresh only, as the peer starts no other in its
generation and the pin refuses those of its other generations. `PoolBacked`
needs besides that a page that has not published yet has all its new OPKs (`Unspent`), as
only a handshake made with them takes one. On a way that keeps the order and before a reload,
`TogetherInv` says that the peer of a responder is an initiator with the lower base key,
that the peer of an initiator past its handshake is its responder, and that behind a
message of one's own session nothing of the peer's follows; `NeverAlone` is what remains.

None of this says that a ratchet can open what arrives. `InStepInv` adds it for the ways
that keep the order, before a reload. A session that a user has started is a `Conversation`
with a *script*: the ratchet keys of both users in turn, and for each turn how many messages
its user had posted before it. Both ratchets are at the ends of the script (`Ends`), one
of them a turn ahead; if the peer has not answered yet, its end is the ratchet it will answer
with (`Blank`), so the conversation exists before its responder does, and two of them exist while
two handshakes cross. `Direction` ties a queue to the script: what is on its way lies, by
its header, where the script has it, the counter of the receiving chain is the number
handed over last (`Cursor`), and on a way that loses nothing the first in the queue is exactly
the next. `QueueInv` says that message numbers rise along a queue and above what was handed
over, that on a way that loses nothing none is missing in between, and that a Signal message
is of the session its addressee holds (`AtHome`). Each action then continues a script, starts
one, or drops a message from it (`ConversationSends`, `ConversationBegins`,
`ConversationTaken`, `ConversationDropped`), and whoever takes over the peer's session finds
its ratchet at the end of the peer's script (`HandshakeRoles`). `SignalOpens` follows, as a gap of
the script above `MAX_SKIP` takes that many lost messages. On a way that loses nothing a refusal
that is not the tie-break contradicts `HeadIsTaken`; `OnlyTieBreakRefuses` counts the
messages, where each one outvoted is a new one, as it is ahead of those outvoted before.
`InStepInv` quantifies over scripts, which TLC cannot enumerate; its queue part was
checked on the run's instances.

**SignalManager**, for any peers, groups and identities and any number of calls.
`ManagerInv` says that an operation under way is the first unsettled one of its queue
(`InTurn`), that the operations queued each run after the one before them (`Queued`),
and that what an operation has read is still what is stored (`Knows`): the record it
writes to is named by its queue (`CellFixesQueue`), so no other operation touches it
between the awaits. From this every step is a step of `OneAtATime` or a stutter; the
mapping puts an operation's effect at the step that stores it and hides the session
that `encryptMessage` stores before it advances it. Pins are outside the queues:
`Compared` keeps what an operation found when it read one, and
`PinsReplacedInRacesOnly` follows.

**SenderKeys**, for any members, any cap on chains and keys and any jump. `GroupInv`
describes a member's record chain by chain (`MemberInv`): its keys are the sender's, at
iterations below the chain; what the member has opened lies below the chain and is not
stored; what is below the chain and neither opened nor stored was skipped and evicted
or came before the member joined. `Decryptable` follows because the history variables record when a
key may be gone; `RecentChainsKeptInOrder` because a record without an overtaken
distribution is ordered as the sender made the chains.

**PreKeyServer**, for every set of requests and OPK ids and with failures
at every statement. `ServerInv` adds to `NoKeyTwice` and `PoolMatchesBundle`, neither
of them inductive, that a row is locked by
one request at most and never leaves the pool while it is locked by another, that at
most one POST is past its upsert, and that by the time it inserts its rows it holds
all the others. `OrderInv` adds that a POST publishes once, that a GET's bundle is one of
the publications so far, and that a request not answered has no answer; with it a key
is never of an older publication than the bundle it comes with.

**ChatRelay**, for any pages of the two users and any number of messages, breaks and
reloads. `ChatInv` has five layers, each resting on those before it.
`Connected`: a page has at most one live socket, its last, and the relay's Map
holds the sockets the server has not dropped. `GenuineInv`: what is under way, queued,
shown or stored was written by a page and has a number posted and a chat id drawn.
`CountInv`: what a page has on its way to the relay is in the order of posting, a number
belongs to one page, and each chat id drawn or still to be drawn (`Chatless`) is paid for
by a message encrypted without one, and each of these by a message posted. `ToldInv`, proved
beside it, says that a page that was told has a chat and that what is stored has one once a page
of the user was told; so what is encrypted without a chat id is early, and `OneChat` is what
remains of the count. `EchoesInv`: while a user is undisturbed, the plaintexts
pending on a page are, in order, those of the messages `due`, whose echoes are all still up or
down on the page's one unbroken socket; `EchoesPairedUndisturbed` follows. `PipesInv`:
the messages of an undisturbed page are ordered in each place of the peer (shown, queued,
on the way down, stored) and from one place to the next, and all are ahead of what
has yet to pass the relay; `PeerInOrder` is the first of these. Each layer has a lemma
per action, and most actions are `Quiet` for most layers.

The assumptions are those the modules name, which TLC evaluates in the runs:
`MaxSkipAssumption`, `MaxStoredAssumption` (the constants are naturals, and the cap holds
two gaps, as 2000 does for 1000), `MaxSentAssumption`, `RequestsAssumption` (a request is
not both a POST and a GET), `ManagerAssumption` (a user is not its own peer),
`SessionAssumption` (base keys and OPK ids are non-zero, as 0 stands for
none, and every way has bounds), `SenderKeysAssumption`, `ChatAssumption` (each page has one owner).

Model-checked only, because the prover has no ENABLED and no fairness: the liveness
properties `SessionEventuallyShared`, `EveryRequestEnds`, `OnlyFetchHoldsUp` and
`NeverDeaf`. Every other property of a passing run is a theorem.

## Plan

Done: all modules and theorems above. What the plan has left is in the two sections around
this one: liveness, which the prover cannot state, and the parts that are not modelled.

## Not modelled

A second `initialize` on the same manager, which after a failed `publishKeys` would find
the identity and return (`index.ts:134`): `signal-gateway.ts` makes a manager with an
empty store for every attempt. In `SenderKeys`, where nobody asks for a bundle, a reload
and its `initialize` are one step. The delays between reconnects (any time
may pass before any step anyway), and unmounting a `ChatWindow`, which the app never does.
Rendering, HTTP and JSON glue, login and the list of users, byte layouts, base64 and
UTF-8, and the cryptographic primitives themselves (third-party libraries), which are
taken to be ideal. `removeSession` and `size` are called by tests only. Signed
prekey rotation does not exist in the code.
