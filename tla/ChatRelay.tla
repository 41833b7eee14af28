------------------------------- MODULE ChatRelay -------------------------------
(***************************************************************************)
(* The chat between two users: the pages of each (ChatWindow in            *)
(* src/components/chatWindow/chatWindow.jsx) and the WebSocket relay       *)
(* (backend/src/ws.ts) between them.  A user may have several pages open.  *)
(*                                                                         *)
(* A page runs its encryptions and decryptions for the one peer it has     *)
(* through the manager's queue, one after the other (SignalManager); what  *)
(* they do is in SignalSession.  Connections break at any time, and either *)
(* end learns of it later.                                                 *)
(***************************************************************************)
EXTENDS Naturals, Sequences, FiniteSets, SequencesExt

CONSTANTS Pages,            \* ChatWindow instances
          Owner,            \* Owner[t]: the user logged in on page t
          MaxEvents         \* bound: messages posted and connections lost, together

Users == {"alice", "bob"}
Peer(u) == IF u = "alice" THEN "bob" ELSE "alice"

ASSUME ChatAssumption ==
    /\ Owner \in [Pages -> Users]
    /\ MaxEvents \in Nat

VARIABLES page,             \* page[t]: state of the ChatWindow and its manager's queue
          link,             \* link[s]: the connection of socket s, both ends
          connections,      \* connections[u]: the relay's sockets of user u, {} for
                            \* a user that is not in the Map
          stored,           \* stored[u]: chats in u's localStorage
          chatIds,          \* number of chat ids the relay has drawn
          posted,           \* number of messages posted
          losses,           \* number of connections that broke or went with a reload
          due,              \* due[t]: messages page t sent whose echo it has not had
                            \* (history)
          disturbed,        \* users who missed an echo or had another page's (history)
          told,             \* pages that have shown a message of the chat, or were
                            \* loaded when one of their user's had (history)
          early,            \* texts posted by a page that was not told (history)
          unaddressed       \* number of those that were encrypted (history)

vars == <<page, link, connections, stored, chatIds, posted, losses,
          due, disturbed, told, early, unaddressed>>
historyVars == <<due, disturbed, told, early, unaddressed>>

NoSocket == 0
NoChatId == 0
NoPlaintext == <<"no plaintext">>           \* "[echo without pending message]"

Sockets == Pages \X (1 .. MaxEvents + 1)
User(s) == Owner[s[1]]

(* A ChatWindow that has just been mounted and is about to connect.        *)
MountedPage(chats) ==
    [ws |-> NoSocket, opened |-> 0, connecting |-> TRUE, pending |-> <<>>,
     queue |-> <<>>, chats |-> chats]

NoLink == [client |-> "none", server |-> "none", whole |-> FALSE, up |-> <<>>, down |-> <<>>]

Init ==
    /\ page = [t \in Pages |-> MountedPage(<<>>)]
    /\ link = [s \in Sockets |-> NoLink]
    /\ connections = [u \in Users |-> {}]
    /\ stored = [u \in Users |-> <<>>]
    /\ chatIds = 0 /\ posted = 0 /\ losses = 0
    /\ due = [t \in Pages |-> {}]
    /\ disturbed = {}
    /\ told = {} /\ early = {} /\ unaddressed = 0

-----------------------------------------------------------------------------
(* Connections.                                                            *)

(* connectWebSocket, from componentDidMount or the reconnect timer.        *)
ConnectWebSocket(t) ==
    LET n == page[t].opened + 1
    IN  /\ page[t].connecting
        /\ page' = [page EXCEPT ![t].connecting = FALSE, ![t].opened = n]
        /\ link' = [link EXCEPT ![<<t, n>>] =
                      [NoLink EXCEPT !.client = "connecting", !.whole = TRUE]]
        /\ UNCHANGED <<connections, stored, chatIds, posted, losses, historyVars>>

(* The relay's handler of "connection".                                    *)
Accept(s) ==
    /\ link[s].client = "connecting" /\ link[s].server = "none" /\ link[s].whole
    /\ link' = [link EXCEPT ![s].server = "open"]
    /\ connections' = [connections EXCEPT ![User(s)] = @ \cup {s}]
    /\ UNCHANGED <<page, stored, chatIds, posted, losses, historyVars>>

(* onopen.                                                                 *)
Opened(s) ==
    /\ link[s].client = "connecting" /\ link[s].server = "open" /\ link[s].whole
    /\ link' = [link EXCEPT ![s].client = "open"]
    /\ page' = [page EXCEPT ![s[1]].ws = s[2]]
    /\ UNCHANGED <<connections, stored, chatIds, posted, losses, historyVars>>

Disturb(t, happens) ==
    disturbed' = IF happens THEN disturbed \cup {Owner[t]} ELSE disturbed

(* Either direction still delivers some of what is under way, then nothing.*)
Break(s) ==
    /\ posted + losses < MaxEvents
    /\ link[s].whole
    /\ \E up \in Prefixes(link[s].up),
          down \in IF link[s].client = "open" THEN Prefixes(link[s].down) ELSE {<<>>} :
          link' = [link EXCEPT ![s].whole = FALSE, ![s].up = up, ![s].down = down]
    /\ losses' = losses + 1
    /\ Disturb(s[1], due[s[1]] # {})
    /\ UNCHANGED <<page, connections, stored, chatIds, posted, due, told, early, unaddressed>>

(* Plausible slip: the page does not connect again.                        *)
StayClosed(t) == UNCHANGED page

Reconnect(t) == page' = [page EXCEPT ![t].connecting = TRUE]

(* onclose: the reconnect timer is set.                                    *)
ClientClosed(s) ==
    /\ ~link[s].whole
    /\ link[s].client \in {"connecting", "open"}
    /\ link[s].down = <<>>
    /\ link' = [link EXCEPT ![s].client = "closed"]
    /\ Reconnect(s[1])
    /\ UNCHANGED <<connections, stored, chatIds, posted, losses, historyVars>>

(* Plausible slip: the user's entry goes with its first socket.            *)
UnregisterUser(s) == connections' = [connections EXCEPT ![User(s)] = {}]

Unregister(s) == connections' = [connections EXCEPT ![User(s)] = @ \ {s}]

(* The relay's handler of "close".                                         *)
ServerClosed(s) ==
    /\ ~link[s].whole
    /\ link[s].server = "open"
    /\ link[s].up = <<>>
    /\ link' = [link EXCEPT ![s].server = "closed"]
    /\ Unregister(s)
    /\ UNCHANGED <<page, stored, chatIds, posted, losses, historyVars>>

(* Plausible slip: the chats are stored but not read back.                 *)
RestoredNothing(t) == <<>>

RestoredChats(t) == stored[Owner[t]]

(* The page is loaded again: its connection goes, the chats come back from *)
(* localStorage, everything else is lost.                                  *)
Reload(t) ==
    /\ posted + losses < MaxEvents
    /\ losses' = losses + 1
    /\ page' = [page EXCEPT ![t] =
                  [MountedPage(RestoredChats(t)) EXCEPT !.opened = page[t].opened]]
    /\ link' = [s \in Sockets |->
                  IF s[1] = t /\ link[s].client \in {"connecting", "open"}
                    THEN [link[s] EXCEPT !.client = "closed", !.whole = FALSE, !.down = <<>>]
                    ELSE link[s]]
    /\ due' = [due EXCEPT ![t] = {}]
    /\ Disturb(t, due[t] # {})
    /\ told' = told \cup {v \in {t} : \E w \in told : Owner[w] = Owner[t]}
    /\ UNCHANGED <<connections, stored, chatIds, posted, early, unaddressed>>

-----------------------------------------------------------------------------
(* Sending.                                                                *)

(* getSelectedUserChatId: the first chat there is with the peer.           *)
SelectedChatId(t) == IF page[t].chats = <<>> THEN NoChatId ELSE Head(page[t].chats).chat

Enqueue(t, op) == page' = [page EXCEPT ![t].queue = Append(@, op)]

IsOpen(t) == page[t].ws # NoSocket /\ link[<<t, page[t].ws>>].client = "open"

(* getNewMsgObj up to its await: the chat id is chosen before it.          *)
Post(t) ==
    /\ posted + losses < MaxEvents
    /\ IsOpen(t)
    /\ Enqueue(t, [op |-> "encrypt", from |-> Owner[t], text |-> <<t, posted + 1>>,
                   chat |-> SelectedChatId(t)])
    /\ posted' = posted + 1
    /\ early' = early \cup (IF t \in told THEN {} ELSE {<<t, posted + 1>>})
    /\ UNCHANGED <<link, connections, stored, chatIds, losses, due, disturbed, told, unaddressed>>

(* Plausible slip: the queue does not hold the next operation back.        *)
AnyRunning(t) == DOMAIN page[t].queue

(* The operation the manager's queue is running.                           *)
Running(t) == DOMAIN page[t].queue \cap {1}

(* Plausible slip: a single slot for what was sent last.                   *)
SetPending(t, text) == <<text>>

PushPending(t, text) == Append(page[t].pending, text)

(* The rest of getNewMsgObj.  The socket is the one the page has by now:   *)
(* what is sent on a closed one, or a broken one, is gone.                 *)
Encrypted(t) ==
    \E i \in Running(t) :
        LET op == page[t].queue[i]
            s  == <<t, page[t].ws>>
            sent == IsOpen(t) /\ link[s].whole
        IN  /\ op.op = "encrypt"
            /\ page' = [page EXCEPT ![t].queue = RemoveAt(@, i),
                                    ![t].pending = PushPending(t, op.text)]
            /\ link' = IF sent
                         THEN [link EXCEPT ![s].up = Append(@, [op EXCEPT !.op = "decrypt"])]
                         ELSE link
            /\ due' = [due EXCEPT ![t] = @ \cup {op.text}]
            /\ Disturb(t, ~sent)
            /\ unaddressed' = unaddressed + IF op.text \in early THEN 1 ELSE 0
            /\ UNCHANGED <<connections, stored, chatIds, posted, losses, told, early>>

(* The key server has no bundle for the peer, or does not answer.          *)
NotEncrypted(t) ==
    \E i \in Running(t) :
        /\ page[t].queue[i].op = "encrypt"
        /\ page' = [page EXCEPT ![t].queue = RemoveAt(@, i)]
        /\ UNCHANGED <<link, connections, stored, chatIds, posted, losses,
                       historyVars>>

-----------------------------------------------------------------------------
(* Relaying.                                                               *)

ChatIdFor(message) == IF message.chat = NoChatId THEN chatIds + 1 ELSE message.chat

(* The relay's handler of "message": to all sockets of sender and receiver.*)
Relay(s) ==
    LET message == [Head(link[s].up) EXCEPT !.chat = ChatIdFor(Head(link[s].up))]
        to      == connections[message.from] \cup connections[Peer(message.from)]
    IN  /\ link[s].server = "open"
        /\ link[s].up # <<>>
        /\ link' = [r \in Sockets |->
             LET l == IF r = s THEN [link[r] EXCEPT !.up = Tail(@)] ELSE link[r]
             IN  IF r \in to /\ l.whole THEN [l EXCEPT !.down = Append(@, message)] ELSE l]
        /\ chatIds' = IF message.chat > chatIds THEN message.chat ELSE chatIds
        /\ UNCHANGED <<page, connections, stored, posted, losses, historyVars>>

-----------------------------------------------------------------------------
(* Receiving.                                                              *)

(* Both scenarios at the end of onmessage: the chats, grouped by chat id,  *)
(* are here one sequence in the order in which entries were added.         *)
Show(t, message, as, queue, pending) ==
    LET chats == Append(page[t].chats,
                        [chat |-> message.chat, from |-> message.from,
                         text |-> message.text, as |-> as])
    IN  /\ page' = [page EXCEPT ![t].chats = chats, ![t].queue = queue,
                                ![t].pending = pending]
        /\ stored' = [stored EXCEPT ![Owner[t]] = chats]
        /\ told' = told \cup {t}

Arrival(s) == Head(link[s].down)
HasArrival(s) == link[s].client = "open" /\ link[s].down # <<>>
TakeArrival(s) == link' = [link EXCEPT ![s].down = Tail(@)]

(* onmessage for a message of one's own: shown at once, with the plaintext *)
(* that has waited longest.                                                *)
ReceiveEcho(s) ==
    LET t == s[1]
        pending == page[t].pending
    IN  /\ HasArrival(s)
        /\ Arrival(s).from = User(s)
        /\ TakeArrival(s)
        /\ IF pending = <<>>
             THEN Show(t, Arrival(s), NoPlaintext, page[t].queue, pending)
             ELSE Show(t, Arrival(s), Head(pending), page[t].queue, Tail(pending))
        /\ due' = [due EXCEPT ![t] = @ \ {Arrival(s).text}]
        /\ Disturb(t, Arrival(s).text \notin due[t])
        /\ UNCHANGED <<connections, chatIds, posted, losses, early, unaddressed>>

(* onmessage for one of the peer's, up to its await.                       *)
ReceiveMessage(s) ==
    /\ HasArrival(s)
    /\ Arrival(s).from # User(s)
    /\ TakeArrival(s)
    /\ Enqueue(s[1], Arrival(s))
    /\ UNCHANGED <<connections, stored, chatIds, posted, losses, historyVars>>

(* The rest of onmessage: the text is entered, or in its place the notice  *)
(* that it could not be decrypted.                                         *)
Decrypted(t) ==
    \E i \in Running(t) :
        LET message == page[t].queue[i]
        IN  /\ message.op = "decrypt"
            /\ Show(t, message, message.text, RemoveAt(page[t].queue, i), page[t].pending)
            /\ UNCHANGED <<link, connections, chatIds, posted, losses,
                           due, disturbed, early, unaddressed>>

-----------------------------------------------------------------------------

SocketsOf(t) == {s \in Sockets : s[1] = t}

(* The relay's and a page's event loop, but for what waits for a promise.  *)
RelayStep == \E s \in Sockets : Accept(s) \/ ServerClosed(s) \/ Relay(s)

PageStep(t) ==
    \/ ConnectWebSocket(t)
    \/ \E s \in SocketsOf(t) :
          Opened(s) \/ ClientClosed(s) \/ ReceiveEcho(s) \/ ReceiveMessage(s)

Next ==
    \/ RelayStep
    \/ \E s \in Sockets : Break(s)
    \/ \E t \in Pages :
        PageStep(t) \/ Post(t) \/ Encrypted(t) \/ NotEncrypted(t) \/ Decrypted(t) \/ Reload(t)

Spec == Init /\ [][Next]_vars

(* The relay is up and every page goes on: timers fire and events reach    *)
(* their handlers.  Nothing is assumed of posting, encrypting, decrypting. *)
FairSpec == Spec /\ WF_vars(RelayStep) /\ \A t \in Pages : WF_vars(PageStep(t))

-----------------------------------------------------------------------------
(* Properties.                                                             *)

Text == Pages \X (1 .. MaxEvents)
Message == [op : {"encrypt", "decrypt"}, from : Users, text : Text, chat : 0 .. MaxEvents]
Entry == [chat : 1 .. MaxEvents, from : Users, text : Text,
          as : Text \cup {NoPlaintext}]

(* Types, and the relay's Map holds the sockets that are open at its end   *)
(* and no others (ws.ts:27-30, 56-63).                                     *)
TypeOK ==
    /\ \A t \in Pages :
        /\ page[t].pending \in Seq(Text)
        /\ page[t].queue \in Seq(Message)
        /\ page[t].chats \in Seq(Entry)
        /\ page[t].ws \in 0 .. page[t].opened
    /\ \A s \in Sockets :
        /\ link[s].client \in {"none", "connecting", "open", "closed"}
        /\ link[s].up \in Seq(Message) /\ link[s].down \in Seq(Message)
        /\ link[s].server = "open" <=> s \in connections[User(s)]
    /\ \A u \in Users : stored[u] \in Seq(Entry) /\ connections[u] \subseteq Sockets

EchoesShown(t) ==
    \A i \in DOMAIN page[t].chats :
        LET entry == page[t].chats[i] IN entry.from = Owner[t] => entry.as = entry.text

(* chatWindow.jsx:16-19, "shift() pairs each echo with its plaintext even  *)
(* when several messages are sent in quick succession".                    *)
EchoesPaired == \A t \in Pages : EchoesShown(t)

(* The same for users whose echoes have all come back to the page that     *)
(* sent the message, and to no other page of theirs.                       *)
EchoesPairedUndisturbed == \A t \in Pages : Owner[t] \notin disturbed => EchoesShown(t)

(* The order of what one page sends survives the relay, the awaits of      *)
(* encryption and decryption and reconnecting, unless its connection went  *)
(* with an echo outstanding (index.ts:92-99, chatWindow.jsx:16-19).        *)
PeerInOrder ==
    \A t \in Pages : Peer(Owner[t]) \notin disturbed =>
        \A i, j \in DOMAIN page[t].chats :
            LET a == page[t].chats[i]
                b == page[t].chats[j]
            IN  i < j /\ a.from # Owner[t] /\ a.text[1] = b.text[1] => a.text[2] < b.text[2]

(* One chat for a pair of users (chatWindow.jsx:142-152, ws.ts:40), on     *)
(* every page and in what is stored, unless a second message was encrypted *)
(* that had been posted before its page could know of the first one's chat:*)
(* a page that has shown a message of it, or was loaded after one of its   *)
(* user's pages had, must not forget the chat.                             *)
OneChat ==
    unaddressed <= 1 =>
        \A t, v \in Pages :
            \A i \in DOMAIN page[t].chats, j \in DOMAIN page[v].chats :
                page[t].chats[i].chat = page[v].chats[j].chat

(* chatWindow.jsx:49-52, "a dropped socket left the client permanently     *)
(* deaf": whatever broke or was reloaded, every page comes to have a socket*)
(* that the relay sends its user's messages to.                            *)
Hears(t) ==
    LET s == <<t, page[t].ws>>
    IN  IsOpen(t) /\ link[s].whole /\ s \in connections[Owner[t]]

NeverDeaf == \A t \in Pages : []<>Hears(t)
=============================================================================
