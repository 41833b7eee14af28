--------------------------- MODULE ChatRelayProofs ---------------------------
(***************************************************************************)
(* Theorems about ChatRelay, for any number of pages of the two users and  *)
(* of events.  ChatInv is inductive; the theorems follow from it.          *)
(***************************************************************************)
EXTENDS ChatRelay, FiniteSetTheorems, SequenceTheorems, TLAPS

AnyText == Pages \X Nat

AnyMessage == [op : {"encrypt", "decrypt"}, from : Users, text : AnyText, chat : Nat]

AnyEntry == [chat : Nat, from : Users, text : AnyText, as : AnyText \cup {NoPlaintext}]

PageState == [ws : 0 .. MaxEvents + 1, opened : Nat, connecting : BOOLEAN, pending : Seq(AnyText),
              queue : Seq(AnyMessage), chats : Seq(AnyEntry)]

LinkState == [client : {"none", "connecting", "open", "closed"},
              server : {"none", "open", "closed"}, whole : BOOLEAN,
              up : Seq(AnyMessage), down : Seq(AnyMessage)]

Types ==
    /\ page \in [Pages -> PageState]
    /\ link \in [Sockets -> LinkState]
    /\ connections \in [Users -> SUBSET Sockets]
    /\ stored \in [Users -> Seq(AnyEntry)]
    /\ chatIds \in Nat /\ posted \in Nat /\ losses \in Nat /\ unaddressed \in Nat
    /\ posted + losses <= MaxEvents
    /\ due \in [Pages -> SUBSET AnyText]
    /\ disturbed \in SUBSET Users

(* A page has one socket at a time that is not closed, its last one.       *)
Live(s) == link[s].client \in {"connecting", "open"}

LinkInv(s) ==
    /\ link[s].server = "open" <=> s \in connections[User(s)]
    /\ link[s].client = "none" => link[s].server = "none" /\ link[s].up = <<>>
    /\ page[s[1]].opened < s[2] => link[s].client = "none"
    /\ link[s].whole \/ link[s].down # <<>> => Live(s)
    /\ Live(s) => page[s[1]].opened = s[2] /\ ~page[s[1]].connecting
    /\ link[s].client = "open" => page[s[1]].ws = s[2]

Connected ==
    /\ Types
    /\ \A s \in Sockets : LinkInv(s)
    /\ \A t \in Pages : page[t].ws <= page[t].opened

(* Messages come from the page that wrote them, with one of the first n    *)
(* numbers and a chat id among the first c, or none.                       *)
Genuine(m, n, c) ==
    /\ m.from = Owner[m.text[1]]
    /\ m.text[2] \in 1 .. n
    /\ m.chat \in 0 .. c

UpMessages(t, n, c) ==
    {m \in AnyMessage : Genuine(m, n, c) /\ m.op = "decrypt" /\ m.text[1] = t}

DownMessages(n, c) ==
    {m \in AnyMessage : Genuine(m, n, c) /\ m.op = "decrypt" /\ m.chat # NoChatId}

QueueMessages(t, n, c) ==
    {m \in AnyMessage :
        /\ Genuine(m, n, c)
        /\ m.op = "encrypt" => m.text[1] = t
        /\ m.op = "decrypt" => m.from # Owner[t] /\ m.chat # NoChatId}

Plaintexts(t, n) == {x \in AnyText : x[1] = t /\ x[2] \in 1 .. n}

Entries(n, c) ==
    {e \in AnyEntry :
        /\ Genuine(e, n, c) /\ e.chat # NoChatId
        /\ e.as # NoPlaintext => e.as[2] \in 1 .. n}

GenuineInv ==
    /\ \A s \in Sockets :
        /\ link[s].up \in Seq(UpMessages(s[1], posted, chatIds))
        /\ link[s].down \in Seq(DownMessages(posted, chatIds))
    /\ \A t \in Pages :
        /\ page[t].queue \in Seq(QueueMessages(t, posted, chatIds))
        /\ page[t].pending \in Seq(Plaintexts(t, posted))
        /\ page[t].chats \in Seq(Entries(posted, chatIds))
    /\ \A u \in Users : stored[u] \in Seq(Entries(posted, chatIds))

-----------------------------------------------------------------------------
(* Order and number of the messages on their way to the relay.             *)

(* The messages of page t in a sequence are in the order of posting.       *)
Ordered(seq, t) ==
    \A i, j \in 1 .. Len(seq) :
        i < j /\ seq[i].text[1] = t /\ seq[j].text[1] = t => seq[i].text[2] < seq[j].text[2]

(* Those in a were posted before those in b.                               *)
Below(a, b, t) ==
    \A i \in 1 .. Len(a), j \in 1 .. Len(b) :
        a[i].text[1] = t /\ b[j].text[1] = t => a[i].text[2] < b[j].text[2]

UpOrder(t) ==
    /\ Ordered(page[t].queue, t)
    /\ \A s \in SocketsOf(t) :
        /\ Ordered(link[s].up, t)
        /\ Below(link[s].up, page[t].queue, t)
        /\ \A r \in SocketsOf(t) : s[2] < r[2] => Below(link[s].up, link[r].up, t)

(* The texts of page t that the relay has not seen yet.                    *)
InQueue(t, n) ==
    \E i \in 1 .. Len(page[t].queue) :
        page[t].queue[i].text[1] = t /\ page[t].queue[i].text[2] = n

Up(t, n) ==
    \E s \in SocketsOf(t) : \E i \in 1 .. Len(link[s].up) : link[s].up[i].text[2] = n

UpWithoutChat(t, n) ==
    \E s \in SocketsOf(t) : \E i \in 1 .. Len(link[s].up) :
        link[s].up[i].text[2] = n /\ link[s].up[i].chat = NoChatId

OnTheWay(t, n) == InQueue(t, n) \/ Up(t, n)

(* A number is that of one message of one page.                            *)
OnePagePerNumber ==
    \A t, v \in Pages, n \in 1 .. posted : OnTheWay(t, n) /\ OnTheWay(v, n) => t = v

Waiting == {n \in 1 .. posted : \E t \in Pages : InQueue(t, n)}
Chatless == {n \in 1 .. posted : \E t \in Pages : UpWithoutChat(t, n)}

CountInv ==
    /\ OnePagePerNumber
    /\ \A t \in Pages : UpOrder(t)
    /\ chatIds + Cardinality(Chatless) <= unaddressed
    /\ unaddressed + Cardinality(Waiting) <= posted

-----------------------------------------------------------------------------
(* Echoes.                                                                 *)

(* Everything in a has left page t before what the relay has yet to see.   *)
Ahead(a, t) ==
    /\ Below(a, page[t].queue, t)
    /\ \A r \in SocketsOf(t) : Below(a, link[r].up, t)

Current(t) == <<t, page[t].ws>>

TextsShown(entries, u) ==
    \A i \in 1 .. Len(entries) : entries[i].from = u => entries[i].as = entries[i].text

(* While nothing has gone wrong, the plaintexts that wait are, in order,   *)
(* those whose echo is on its way on the one socket the page has.          *)
PendingInOrder(t) ==
    /\ \A i, j \in 1 .. Len(page[t].pending) :
        i < j => page[t].pending[i][2] < page[t].pending[j][2]
    /\ \A i \in 1 .. Len(page[t].pending) : \A j \in 1 .. Len(page[t].queue) :
        page[t].queue[j].text[1] = t => page[t].pending[i][2] < page[t].queue[j].text[2]

PendingAreDue(t) ==
    /\ \A i \in 1 .. Len(page[t].pending) : page[t].pending[i] \in due[t]
    /\ \A x \in due[t] : \E i \in 1 .. Len(page[t].pending) : page[t].pending[i] = x

UpAreDue(t) ==
    \A s \in SocketsOf(t) : \A i \in 1 .. Len(link[s].up) : link[s].up[i].text \in due[t]

EchoesCome(t) ==
    /\ due[t] # {} => IsOpen(t) /\ link[Current(t)].whole
    /\ \A x \in due[t] :
        \/ \E i \in 1 .. Len(link[Current(t)].up) : link[Current(t)].up[i].text = x
        \/ \E i \in 1 .. Len(link[Current(t)].down) : link[Current(t)].down[i].text = x

EchoesInOrder(t) ==
    \A s \in SocketsOf(t) : Ordered(link[s].down, t) /\ Ahead(link[s].down, t)

EchoInv(t) ==
    /\ TextsShown(page[t].chats, Owner[t])
    /\ PendingInOrder(t)
    /\ PendingAreDue(t)
    /\ UpAreDue(t)
    /\ EchoesCome(t)
    /\ EchoesInOrder(t)

EchoesInv ==
    /\ \A t \in Pages : Owner[t] \notin disturbed => EchoInv(t)
    /\ \A u \in Users : u \notin disturbed => TextsShown(stored[u], u)

-----------------------------------------------------------------------------
(* Messages of page t on their way to page v of the peer.                  *)

PipeInv(t, v) ==
    /\ Ordered(page[v].chats, t) /\ Ahead(page[v].chats, t)
    /\ Ordered(page[v].queue, t) /\ Ahead(page[v].queue, t)
    /\ Below(page[v].chats, page[v].queue, t)
    /\ \A s \in SocketsOf(v) :
        /\ Ordered(link[s].down, t) /\ Ahead(link[s].down, t)
        /\ Below(page[v].chats, link[s].down, t)
        /\ Below(page[v].queue, link[s].down, t)

StoredInv(t, u) == Ordered(stored[u], t) /\ Ahead(stored[u], t)

PipesInv ==
    \A t \in Pages : Owner[t] \notin disturbed =>
        /\ \A v \in Pages : Owner[v] # Owner[t] => PipeInv(t, v)
        /\ StoredInv(t, Peer(Owner[t]))

(* What the history of the chat tells: a page that has heard of it has it, *)
(* so what was posted without a chat id was posted early.                  *)
ToldInv ==
    /\ told \subseteq Pages
    /\ \A t \in told : page[t].chats # <<>> /\ stored[Owner[t]] # <<>>
    /\ \A t \in Pages : \A i \in 1 .. Len(page[t].queue) :
        LET op == page[t].queue[i]
        IN  op.op = "encrypt" /\ op.chat = NoChatId => op.text \in early

ChatInv ==
    /\ Connected
    /\ GenuineInv
    /\ CountInv
    /\ EchoesInv
    /\ PipesInv
-----------------------------------------------------------------------------
(* Lemmas about sequences.                                                 *)

(* new is a stretch of old: what is left when the head or the end goes.    *)
Part(new, old) ==
    \E k \in Nat : \A i \in 1 .. Len(new) : i + k \in 1 .. Len(old) /\ new[i] = old[i + k]

(* The messages of page t in new are messages of old, in their order.      *)
Kept(new, old, t) ==
    \E k \in Nat : \A i \in 1 .. Len(new) :
        new[i].text[1] = t => i + k \in 1 .. Len(old) /\ new[i] = old[i + k]

(* A sequence is a stretch of itself, and the empty one of every sequence. *)
LEMMA WholePart ==
    ASSUME NEW S, NEW seq \in Seq(S)
    PROVE  Part(seq, seq) /\ Part(<<>>, seq)
<1>1. Len(seq) \in Nat /\ Len(<<>>) = 0
  BY LenProperties
<1>2. \A i \in 1 .. Len(seq) : i + 0 \in 1 .. Len(seq) /\ seq[i] = seq[i + 0]
  BY <1>1
<1>3. \A i \in 1 .. Len(<<>>) : i + 0 \in 1 .. Len(seq) /\ <<>>[i] = seq[i + 0]
  BY <1>1
<1> QED  BY <1>2, <1>3 DEF Part

(* What Head and Tail take from a sequence.                                *)
LEMMA TailPart ==
    ASSUME NEW S, NEW seq \in Seq(S), seq # <<>>
    PROVE  /\ Tail(seq) \in Seq(S) /\ Part(Tail(seq), seq)
           /\ Len(seq) \in Nat /\ 1 \in 1 .. Len(seq)
           /\ Head(seq) = seq[1] /\ Head(seq) \in S
           /\ Len(Tail(seq)) = Len(seq) - 1
           /\ \A i \in 1 .. Len(Tail(seq)) : Tail(seq)[i] = seq[i + 1]
<1>1. /\ Tail(seq) \in Seq(S) /\ Len(Tail(seq)) = Len(seq) - 1
      /\ \A i \in 1 .. Len(Tail(seq)) : Tail(seq)[i] = seq[i + 1]
  BY HeadTailProperties
<1>2. Len(seq) \in Nat /\ Len(seq) # 0
  BY EmptySeq
<1>3. \A i \in 1 .. Len(Tail(seq)) : i + 1 \in 1 .. Len(seq) /\ Tail(seq)[i] = seq[i + 1]
  BY <1>1, <1>2
<1>4. Part(Tail(seq), seq)
  BY <1>3 DEF Part
<1>5. Head(seq) = seq[1] /\ Head(seq) \in S
  BY <1>2, ElementOfSeq
<1> QED  BY <1>1, <1>2, <1>4, <1>5

(* The running operation leaves the front of the queue.                    *)
LEMMA RemoveFront ==
    ASSUME NEW S, NEW seq \in Seq(S), NEW i \in DOMAIN seq \cap {1}
    PROVE  i = 1 /\ seq # <<>> /\ RemoveAt(seq, i) = Tail(seq)
<1>1. i = 1 /\ Len(seq) \in Nat /\ 1 <= Len(seq)
  BY LenProperties
<1>2. seq # <<>>
  BY <1>1
<1>3. SubSeq(seq, 1, 0) = <<>>
  BY SubSeqEmpty
<1>4. Tail(seq) = SubSeq(seq, 2, Len(seq)) /\ Tail(seq) \in Seq(S)
  BY <1>2, TailIsSubSeq, HeadTailProperties
<1>5. <<>> \o Tail(seq) = Tail(seq)
  BY <1>4, ConcatEmptySeq
<1>6. RemoveAt(seq, 1) = <<>> \o Tail(seq)
  BY <1>3, <1>4 DEF RemoveAt
<1>7. RemoveAt(seq, i) = RemoveAt(seq, 1)
  BY <1>1 DEF RemoveAt
<1> QED  BY <1>1, <1>2, <1>5, <1>6, <1>7

(* What is left of a sequence whose end is lost.                           *)
LEMMA PrefixPart ==
    ASSUME NEW S, NEW seq \in Seq(S), NEW p \in Prefixes(seq)
    PROVE  p \in Seq(S) /\ Part(p, seq) /\ (seq = <<>> => p = <<>>)
<1>1. PICK l \in 0 .. Len(seq) : p = SubSeq(seq, 1, l)
  BY DEF Prefixes
<1>2. Len(seq) \in Nat /\ \A i \in 1 .. Len(seq) : seq[i] \in S
  BY LenProperties, ElementOfSeq
<1>3. /\ p \in Seq(S) /\ Len(p) = IF 1 <= l THEN l - 1 + 1 ELSE 0
      /\ \A i \in 1 .. l - 1 + 1 : p[i] = seq[1 + i - 1]
  BY <1>1, <1>2, SubSeqProperties
<1>4. \A i \in 1 .. Len(p) : i + 0 \in 1 .. Len(seq) /\ p[i] = seq[i + 0]
  BY <1>2, <1>3
<1>5. Part(p, seq)
  BY <1>4 DEF Part
<1>6. seq = <<>> => p = <<>>
  BY <1>1, <1>2, <1>3
<1> QED  BY <1>3, <1>5, <1>6

(* What Append does.                                                       *)
LEMMA Appended ==
    ASSUME NEW S, NEW seq \in Seq(S), NEW m \in S
    PROVE  /\ Append(seq, m) \in Seq(S) /\ Len(seq) \in Nat
           /\ Len(Append(seq, m)) = Len(seq) + 1
           /\ \A i \in 1 .. Len(seq) : Append(seq, m)[i] = seq[i]
           /\ Append(seq, m)[Len(seq) + 1] = m
  BY AppendProperties, LenProperties

(* A stretch keeps the messages of every page, a foreign message at the    *)
(* end changes nothing for a page.                                         *)
LEMMA PartKeeps ==
    ASSUME NEW new, NEW old, Part(new, old), NEW t
    PROVE  Kept(new, old, t)
  BY DEF Part, Kept

(* A message of another page at the end changes nothing for a page.        *)
LEMMA ForeignKept ==
    ASSUME NEW S, NEW seq \in Seq(S), NEW m \in S, NEW t, m.text[1] # t
    PROVE  Kept(Append(seq, m), seq, t)
<1>1. /\ Len(seq) \in Nat /\ Len(Append(seq, m)) = Len(seq) + 1
      /\ \A i \in 1 .. Len(seq) : Append(seq, m)[i] = seq[i]
      /\ Append(seq, m)[Len(seq) + 1] = m
  BY Appended
<1>2. \A i \in 1 .. Len(Append(seq, m)) :
        Append(seq, m)[i].text[1] = t => i + 0 \in 1 .. Len(seq) /\ Append(seq, m)[i] = seq[i + 0]
  BY <1>1
<1> QED  BY <1>2 DEF Kept

(* Order is kept by what keeps the messages.                               *)
LEMMA KeptOrdered ==
    ASSUME NEW new, NEW old, NEW t, Kept(new, old, t), Ordered(old, t),
           Len(new) \in Nat, Len(old) \in Nat
    PROVE  Ordered(new, t)
<1>1. PICK k \in Nat : \A i \in 1 .. Len(new) :
        new[i].text[1] = t => i + k \in 1 .. Len(old) /\ new[i] = old[i + k]
  BY DEF Kept
<1> QED  BY <1>1, SMTT(30) DEF Ordered

(* So is the order of two sequences.                                       *)
LEMMA KeptBelow ==
    ASSUME NEW a, NEW b, NEW c, NEW d, NEW t, Kept(a, c, t), Kept(b, d, t), Below(c, d, t),
           Len(a) \in Nat, Len(b) \in Nat, Len(c) \in Nat, Len(d) \in Nat
    PROVE  Below(a, b, t)
<1>1. PICK k \in Nat : \A i \in 1 .. Len(a) :
        a[i].text[1] = t => i + k \in 1 .. Len(c) /\ a[i] = c[i + k]
  BY DEF Kept
<1>2. PICK l \in Nat : \A i \in 1 .. Len(b) :
        b[i].text[1] = t => i + l \in 1 .. Len(d) /\ b[i] = d[i + l]
  BY DEF Kept
<1> QED  BY <1>1, <1>2 DEF Below

(* Order when a message is appended.                                       *)
LEMMA AppendOrdered ==
    ASSUME NEW S, NEW seq \in Seq(S), NEW m \in S, NEW t, Ordered(seq, t),
           Below(seq, <<m>>, t)
    PROVE  Ordered(Append(seq, m), t)
<1>1. /\ Len(seq) \in Nat /\ Len(Append(seq, m)) = Len(seq) + 1
      /\ \A i \in 1 .. Len(seq) : Append(seq, m)[i] = seq[i]
      /\ Append(seq, m)[Len(seq) + 1] = m
  BY Appended
<1>2. \A i \in 1 .. Len(seq) :
        seq[i].text[1] = t /\ m.text[1] = t => seq[i].text[2] < m.text[2]
  BY DEF Below
<1> QED  BY <1>1, <1>2 DEF Ordered

(* The order of two sequences when a message is appended to one.           *)
LEMMA AppendBelow ==
    ASSUME NEW S, NEW seq \in Seq(S), NEW m \in S, NEW other, NEW t
    PROVE  /\ Below(seq, other, t) /\ Below(<<m>>, other, t) => Below(Append(seq, m), other, t)
           /\ Below(other, seq, t) /\ Below(other, <<m>>, t) => Below(other, Append(seq, m), t)
<1>1. /\ Len(seq) \in Nat /\ Len(Append(seq, m)) = Len(seq) + 1
      /\ \A i \in 1 .. Len(seq) : Append(seq, m)[i] = seq[i]
      /\ Append(seq, m)[Len(seq) + 1] = m
  BY Appended
<1>2. Len(<<m>>) = 1 /\ <<m>>[1] = m /\ 1 \in 1 .. 1
  OBVIOUS
<1>3. ASSUME Below(seq, other, t), Below(<<m>>, other, t)
      PROVE  Below(Append(seq, m), other, t)
  BY <1>1, <1>2, <1>3 DEF Below
<1>4. ASSUME Below(other, seq, t), Below(other, <<m>>, t)
      PROVE  Below(other, Append(seq, m), t)
  BY <1>1, <1>2, <1>4 DEF Below
<1> QED  BY <1>3, <1>4
-----------------------------------------------------------------------------
(* What the types say of one page and one socket.                          *)
LEMMA PageFacts ==
    ASSUME Types, NEW t \in Pages
    PROVE  /\ page[t] \in PageState
           /\ page[t].ws \in 0 .. MaxEvents + 1 /\ page[t].opened \in Nat
           /\ page[t].pending \in Seq(AnyText) /\ Len(page[t].pending) \in Nat
           /\ page[t].queue \in Seq(AnyMessage) /\ Len(page[t].queue) \in Nat
           /\ page[t].chats \in Seq(AnyEntry) /\ Len(page[t].chats) \in Nat
           /\ Owner[t] \in Users /\ due[t] \in SUBSET AnyText
           /\ stored[Owner[t]] \in Seq(AnyEntry) /\ Len(stored[Owner[t]]) \in Nat
<1>1. page[t] \in PageState
  BY DEF Types
<1>2. /\ page[t].ws \in 0 .. MaxEvents + 1 /\ page[t].opened \in Nat
      /\ page[t].pending \in Seq(AnyText)
      /\ page[t].queue \in Seq(AnyMessage)
      /\ page[t].chats \in Seq(AnyEntry)
  BY <1>1 DEF PageState
<1>3. Owner[t] \in Users
  BY ChatAssumption
<1>4. due[t] \in SUBSET AnyText /\ stored[Owner[t]] \in Seq(AnyEntry)
  BY <1>3 DEF Types
<1> QED  BY <1>1, <1>2, <1>3, <1>4, LenProperties

(* The same of one socket.                                                 *)
LEMMA LinkFacts ==
    ASSUME Types, NEW s \in Sockets
    PROVE  /\ s[1] \in Pages /\ s[2] \in 1 .. MaxEvents + 1 /\ s = <<s[1], s[2]>>
           /\ link[s] \in LinkState
           /\ link[s].up \in Seq(AnyMessage) /\ Len(link[s].up) \in Nat
           /\ link[s].down \in Seq(AnyMessage) /\ Len(link[s].down) \in Nat
           /\ User(s) \in Users /\ s \in SocketsOf(s[1])
<1>1. s[1] \in Pages /\ s[2] \in 1 .. MaxEvents + 1 /\ s = <<s[1], s[2]>>
  BY DEF Sockets
<1>2. link[s] \in LinkState
  BY DEF Types
<1>3. link[s].up \in Seq(AnyMessage) /\ link[s].down \in Seq(AnyMessage)
  BY <1>2 DEF LinkState
<1>4. User(s) \in Users /\ s \in SocketsOf(s[1])
  BY <1>1, ChatAssumption DEF User, SocketsOf
<1> QED  BY <1>1, <1>2, <1>3, <1>4, LenProperties

(* The same of one message.                                                *)
LEMMA MessageFacts ==
    ASSUME NEW m \in AnyMessage
    PROVE  /\ m.op \in {"encrypt", "decrypt"} /\ m.from \in Users /\ m.chat \in Nat
           /\ m.text \in AnyText /\ m.text[1] \in Pages /\ m.text[2] \in Nat
           /\ m.text = <<m.text[1], m.text[2]>>
  BY DEF AnyMessage, AnyText

-----------------------------------------------------------------------------
(* Steps that post, send, relay and show nothing: at most, something is    *)
(* lost, and what a page has not had the echo of is not lost unless this   *)
(* disturbs its user.                                                      *)
Quiet ==
    /\ \A t \in Pages :
        /\ page'[t].chats = page[t].chats
        /\ page'[t].pending = page[t].pending
        /\ Part(page'[t].queue, page[t].queue)
        /\ due[t] # {} /\ IsOpen(t) /\ link[Current(t)].whole /\ Owner[t] \notin disturbed' =>
              /\ page'[t].ws = page[t].ws
              /\ link'[Current(t)].client = link[Current(t)].client
              /\ link'[Current(t)].whole = link[Current(t)].whole
              /\ link'[Current(t)].up = link[Current(t)].up
              /\ link'[Current(t)].down = link[Current(t)].down
    /\ \A s \in Sockets :
        /\ Part(link'[s].up, link[s].up)
        /\ Part(link'[s].down, link[s].down)
    /\ UNCHANGED <<stored, chatIds, posted, due, unaddressed>>
    /\ disturbed \subseteq disturbed'

(* connectWebSocket: the new socket is one there was none of before.       *)
LEMMA ConnectQuiet ==
    ASSUME Connected, NEW t \in Pages, ConnectWebSocket(t)
    PROVE  Connected' /\ Quiet
<1> DEFINE n == page[t].opened + 1
<1>1. Types
  BY DEF Connected
<1>2. /\ page' = [page EXCEPT ![t].connecting = FALSE, ![t].opened = n]
      /\ link' = [link EXCEPT ![<<t, n>>] =
                    [NoLink EXCEPT !.client = "connecting", !.whole = TRUE]]
      /\ page[t].connecting
      /\ UNCHANGED <<connections, stored, chatIds, posted, losses, due, disturbed, unaddressed>>
  BY DEF ConnectWebSocket, historyVars
<1>3. page' \in [Pages -> PageState]
  <2>1. page \in [Pages -> PageState] /\ page[t] \in PageState /\ n \in Nat
    BY <1>1, PageFacts DEF Types
  <2>2. [page[t] EXCEPT !.connecting = FALSE, !.opened = n] \in PageState
    BY <2>1 DEF PageState
  <2>3. page' = [page EXCEPT ![t] = [page[t] EXCEPT !.connecting = FALSE, !.opened = n]]
    BY <1>2, <2>1
  <2> QED  BY <2>1, <2>2, <2>3
<1>4. link' \in [Sockets -> LinkState]
  <2>1. [NoLink EXCEPT !.client = "connecting", !.whole = TRUE] \in LinkState
    <3>1. <<>> \in Seq(AnyMessage)
      BY EmptySeq
    <3> QED  BY <3>1 DEF NoLink, LinkState
  <2> QED  BY <1>1, <1>2, <2>1 DEF Types
<1>5. /\ page'[t].connecting = FALSE /\ page'[t].opened = n /\ page'[t].ws = page[t].ws
      /\ page'[t].chats = page[t].chats /\ page'[t].pending = page[t].pending
      /\ page'[t].queue = page[t].queue
      /\ \A v \in Pages : v # t => page'[v] = page[v]
  BY <1>1, <1>2 DEF Types, PageState
<1>6. /\ \A s \in Sockets : s # <<t, n>> => link'[s] = link[s]
      /\ <<t, n>> \in Sockets =>
            /\ link'[<<t, n>>].client = "connecting" /\ link'[<<t, n>>].server = "none"
            /\ link'[<<t, n>>].whole /\ link'[<<t, n>>].up = <<>> /\ link'[<<t, n>>].down = <<>>
  BY <1>1, <1>2 DEF Types, NoLink
<1>7. page[t].opened \in Nat /\ n \in Nat /\ page[t].ws \in Nat /\ page[t].ws <= page[t].opened
  BY <1>1, PageFacts DEF Connected
<1>8. Types'
  BY <1>1, <1>2, <1>3, <1>4 DEF Types
<1> HIDE DEF n
<1>9. Connected'
  <2>1. ASSUME NEW s \in Sockets  PROVE  LinkInv(s)'
    <3>1. LinkInv(s) /\ s[1] \in Pages /\ s[2] \in Nat /\ s = <<s[1], s[2]>>
      BY <1>1, LinkFacts DEF Connected
    <3>2. CASE s = <<t, n>>
      <4>1. link[s].client = "none" /\ link[s].server = "none"
        BY <3>1, <3>2, <1>7 DEF LinkInv, n
      <4> QED  BY <3>1, <3>2, <4>1, <1>2, <1>5, <1>6 DEF LinkInv, Live, User
    <3>3. CASE s # <<t, n>> /\ s[1] = t
      <4>1. s[2] # n
        BY <3>1, <3>3
      <4>2. ~Live(s)
        BY <3>1, <3>3, <1>2 DEF LinkInv
      <4>3. s[2] > n => link[s].client = "none"
        BY <3>1, <3>3, <1>7 DEF LinkInv, n
      <4> QED  BY <3>1, <3>3, <4>1, <4>2, <4>3, <1>2, <1>5, <1>6, <1>7 DEF LinkInv, Live, User
    <3>4. CASE s[1] # t
      <4>1. s # <<t, n>>
        BY <3>4
      <4>2. link'[s] = link[s] /\ page'[s[1]] = page[s[1]]
        BY <3>1, <3>4, <4>1, <1>5, <1>6
      <4> QED  BY <3>1, <4>2, <1>2 DEF LinkInv, Live, User
    <3> QED  BY <3>2, <3>3, <3>4
  <2>2. ASSUME NEW v \in Pages  PROVE  page'[v].ws <= page'[v].opened
    <3>1. page[v].ws <= page[v].opened
      BY DEF Connected
    <3>2. CASE v = t
      BY <3>2, <1>5, <1>7 DEF n
    <3> QED  BY <3>1, <3>2, <1>5
  <2> QED  BY <1>8, <2>1, <2>2 DEF Connected
<1>10. Quiet
  <2>1. ASSUME NEW s \in Sockets
        PROVE  Part(link'[s].up, link[s].up) /\ Part(link'[s].down, link[s].down)
    <3>1. /\ Part(link[s].up, link[s].up) /\ Part(link[s].down, link[s].down)
          /\ Part(<<>>, link[s].up) /\ Part(<<>>, link[s].down)
      BY <1>1, LinkFacts, WholePart
    <3> QED  BY <3>1, <1>6
  <2>2. ASSUME NEW v \in Pages  PROVE  Part(page'[v].queue, page[v].queue)
    BY <1>1, <1>5, PageFacts, WholePart
  <2>3. ASSUME NEW v \in Pages, IsOpen(v)  PROVE  link'[Current(v)] = link[Current(v)]
    <3>1. page[v].ws # n \/ v # t
      BY <1>7 DEF n
    <3>2. Current(v) \in Sockets /\ Current(v) # <<t, n>>
      BY <1>1, <2>3, <3>1, PageFacts DEF Current, Sockets, IsOpen, NoSocket
    <3> QED  BY <3>2, <1>6
  <2> QED  BY <2>1, <2>2, <2>3, <1>2, <1>5 DEF Quiet
<1> QED  BY <1>9, <1>10

(* What a page has open is one of its sockets, and the last it opened.     *)
LEMMA CurrentIsOpen ==
    ASSUME Connected, NEW t \in Pages, IsOpen(t)
    PROVE  /\ Current(t) \in SocketsOf(t) /\ Current(t) \in Sockets
           /\ Current(t)[1] = t /\ Current(t)[2] = page[t].ws
           /\ link[Current(t)].client = "open"
           /\ page[t].opened = page[t].ws /\ ~page[t].connecting
<1>1. Types
  BY DEF Connected
<1>2. /\ Current(t) = <<t, page[t].ws>> /\ Current(t)[1] = t /\ Current(t)[2] = page[t].ws
      /\ link[Current(t)].client = "open" /\ page[t].ws # 0
  BY DEF Current, IsOpen, NoSocket
<1>3. page[t].ws \in 1 .. MaxEvents + 1
  BY <1>1, <1>2, PageFacts, ChatAssumption
<1>4. Current(t) \in Sockets /\ Current(t) \in SocketsOf(t)
  BY <1>2, <1>3 DEF Sockets, SocketsOf
<1>5. LinkInv(Current(t))
  BY <1>4 DEF Connected
<1> QED  BY <1>2, <1>4, <1>5 DEF LinkInv, Live

(* Where nothing changes, nothing is lost.                                 *)
LEMMA SamePageParts ==
    ASSUME Types, UNCHANGED page, NEW t \in Pages
    PROVE  Part(page'[t].queue, page[t].queue)
  BY PageFacts, WholePart

(* The same for a socket.                                                  *)
LEMMA SameLinkParts ==
    ASSUME Types, NEW s \in Sockets, link'[s].up = link[s].up, link'[s].down = link[s].down
    PROVE  Part(link'[s].up, link[s].up) /\ Part(link'[s].down, link[s].down)
  BY LinkFacts, WholePart

(* One connection is replaced by another.                                  *)
LEMMA OneLink ==
    ASSUME Types, NEW s \in Sockets, NEW l \in LinkState, link' = [link EXCEPT ![s] = l]
    PROVE  /\ link' \in [Sockets -> LinkState] /\ link'[s] = l
           /\ \A r \in Sockets : r # s => link'[r] = link[r]
  BY DEF Types

(* One page is replaced by another.                                        *)
LEMMA OnePage ==
    ASSUME Types, NEW t \in Pages, NEW p \in PageState, page' = [page EXCEPT ![t] = p]
    PROVE  /\ page' \in [Pages -> PageState] /\ page'[t] = p
           /\ \A v \in Pages : v # t => page'[v] = page[v]
  BY DEF Types

(* The relay's handler of "connection".                                    *)
LEMMA AcceptQuiet ==
    ASSUME Connected, NEW s \in Sockets, Accept(s)
    PROVE  Connected' /\ Quiet
<1> DEFINE l == [link[s] EXCEPT !.server = "open"]
<1>1. Types
  BY DEF Connected
<1>2. /\ link[s].client = "connecting" /\ link[s].server = "none"
      /\ link' = [link EXCEPT ![s] = l]
      /\ connections' = [connections EXCEPT ![User(s)] = @ \cup {s}]
      /\ UNCHANGED <<page, stored, chatIds, posted, losses, due, disturbed, unaddressed>>
  BY DEF Accept, historyVars
<1>3. /\ l \in LinkState /\ l.client = link[s].client /\ l.server = "open"
      /\ l.whole = link[s].whole /\ l.up = link[s].up /\ l.down = link[s].down
  BY <1>1, LinkFacts DEF LinkState
<1> HIDE DEF l
<1>4. /\ link' \in [Sockets -> LinkState] /\ link'[s] = l
      /\ \A r \in Sockets : r # s => link'[r] = link[r]
  BY <1>1, <1>2, <1>3, OneLink
<1>5. /\ connections' \in [Users -> SUBSET Sockets]
      /\ \A r \in Sockets : r \in connections'[User(r)] <=> r = s \/ r \in connections[User(r)]
  BY <1>1, <1>2, LinkFacts DEF Types
<1>6. Types'
  BY <1>1, <1>2, <1>4, <1>5 DEF Types
<1>7. ASSUME NEW r \in Sockets  PROVE  LinkInv(r)'
  <2>1. LinkInv(r) /\ r[1] \in Pages
    BY <1>1, LinkFacts DEF Connected
  <2>2. CASE r = s
    BY <2>1, <2>2, <1>2, <1>3, <1>4, <1>5 DEF LinkInv, Live, User
  <2>3. CASE r # s
    BY <2>1, <2>3, <1>2, <1>4, <1>5 DEF LinkInv, Live, User
  <2> QED  BY <2>2, <2>3
<1>8. ASSUME NEW r \in Sockets
      PROVE  link'[r].up = link[r].up /\ link'[r].down = link[r].down
             /\ link'[r].client = link[r].client /\ link'[r].whole = link[r].whole
  BY <1>3, <1>4
<1>9. Quiet
  <2>1. \A t \in Pages : Part(page'[t].queue, page[t].queue)
    BY <1>1, <1>2, SamePageParts
  <2>2. \A r \in Sockets : Part(link'[r].up, link[r].up) /\ Part(link'[r].down, link[r].down)
    BY <1>1, <1>8, SameLinkParts
  <2>3. \A t \in Pages : IsOpen(t) => Current(t) \in Sockets
    BY CurrentIsOpen
  <2> QED  BY <2>1, <2>2, <2>3, <1>2, <1>8 DEF Quiet
<1> QED  BY <1>2, <1>6, <1>7, <1>9 DEF Connected

(* onopen: the page had no open socket.                                    *)
LEMMA OpenedQuiet ==
    ASSUME Connected, NEW s \in Sockets, Opened(s)
    PROVE  Connected' /\ Quiet
<1> DEFINE l == [link[s] EXCEPT !.client = "open"]
<1> DEFINE p == [page[s[1]] EXCEPT !.ws = s[2]]
<1>1. Types /\ s[1] \in Pages /\ s[2] \in 1 .. MaxEvents + 1
  BY LinkFacts DEF Connected
<1>2. /\ link[s].client = "connecting" /\ link[s].server = "open" /\ link[s].whole
      /\ link' = [link EXCEPT ![s] = l]
      /\ page' = [page EXCEPT ![s[1]] = p]
      /\ UNCHANGED <<connections, stored, chatIds, posted, losses, due, disturbed, unaddressed>>
  BY DEF Opened, historyVars
<1>3. /\ l \in LinkState /\ l.client = "open" /\ l.server = link[s].server
      /\ l.whole = link[s].whole /\ l.up = link[s].up /\ l.down = link[s].down
  BY <1>1, LinkFacts DEF LinkState
<1>4. /\ p \in PageState /\ p.ws = s[2] /\ p.opened = page[s[1]].opened
      /\ p.connecting = page[s[1]].connecting /\ p.pending = page[s[1]].pending
      /\ p.queue = page[s[1]].queue /\ p.chats = page[s[1]].chats
  <2>1. page[s[1]] \in PageState /\ s[2] \in 0 .. MaxEvents + 1
    BY <1>1, PageFacts, ChatAssumption
  <2> QED  BY <2>1 DEF PageState
<1> HIDE DEF l, p
<1>5. /\ link' \in [Sockets -> LinkState] /\ link'[s] = l
      /\ \A r \in Sockets : r # s => link'[r] = link[r]
  BY <1>1, <1>2, <1>3, OneLink
<1>6. /\ page' \in [Pages -> PageState] /\ page'[s[1]] = p
      /\ \A v \in Pages : v # s[1] => page'[v] = page[v]
  BY <1>1, <1>2, <1>4, OnePage
<1>7. Types'
  BY <1>1, <1>2, <1>5, <1>6 DEF Types
<1>8. page[s[1]].opened = s[2] /\ ~page[s[1]].connecting
  BY <1>2 DEF Connected, LinkInv, Live
<1>9. ASSUME NEW r \in Sockets  PROVE  LinkInv(r)'
  <2>1. LinkInv(r) /\ r[1] \in Pages /\ r = <<r[1], r[2]>> /\ s = <<s[1], s[2]>>
    BY <1>1, LinkFacts DEF Connected
  <2>2. CASE r = s
    BY <2>1, <2>2, <1>2, <1>3, <1>4, <1>5, <1>6, <1>8 DEF LinkInv, Live, User
  <2>3. CASE r # s /\ r[1] = s[1]
    <3>1. ~Live(r)
      BY <2>1, <2>3, <1>8 DEF LinkInv
    <3> QED  BY <2>1, <2>3, <3>1, <1>2, <1>4, <1>5, <1>6 DEF LinkInv, Live, User
  <2>4. CASE r # s /\ r[1] # s[1]
    BY <2>1, <2>4, <1>2, <1>5, <1>6 DEF LinkInv, Live, User
  <2> QED  BY <2>2, <2>3, <2>4
<1>10. ASSUME NEW v \in Pages  PROVE  page'[v].ws <= page'[v].opened
  <2>1. page[v].ws <= page[v].opened
    BY DEF Connected
  <2> QED  BY <2>1, <1>1, <1>4, <1>6, <1>8, ChatAssumption
<1>11. Quiet
  <2>1. ASSUME NEW t \in Pages  PROVE  Part(page'[t].queue, page[t].queue)
    BY <1>1, <1>4, <1>6, PageFacts, WholePart
  <2>2. ASSUME NEW r \in Sockets
        PROVE  Part(link'[r].up, link[r].up) /\ Part(link'[r].down, link[r].down)
    BY <1>1, <1>3, <1>5, SameLinkParts
  <2>3. ASSUME NEW t \in Pages, IsOpen(t)
        PROVE  page'[t] = page[t] /\ link'[Current(t)] = link[Current(t)]
    <3>1. /\ Current(t) \in Sockets /\ Current(t)[1] = t /\ Current(t)[2] = page[t].ws
          /\ link[Current(t)].client = "open" /\ page[t].opened = page[t].ws
          /\ Current(t) = <<Current(t)[1], Current(t)[2]>> /\ s = <<s[1], s[2]>>
      BY <1>1, <2>3, CurrentIsOpen, LinkFacts
    <3>2. t # s[1]
      BY <3>1, <1>2, <1>8
    <3> QED  BY <3>1, <3>2, <1>5, <1>6
  <2>4. ASSUME NEW t \in Pages
        PROVE  page'[t].chats = page[t].chats /\ page'[t].pending = page[t].pending
    BY <1>4, <1>6
  <2> QED  BY <2>1, <2>2, <2>3, <2>4, <1>2 DEF Quiet
<1> QED  BY <1>7, <1>9, <1>10, <1>11 DEF Connected

(* A connection breaks: a page with an echo outstanding is disturbed.      *)
LEMMA BreakQuiet ==
    ASSUME Connected, NEW s \in Sockets, Break(s)
    PROVE  Connected' /\ Quiet
<1>1. Types /\ s[1] \in Pages /\ Owner[s[1]] \in Users
  BY LinkFacts, ChatAssumption DEF Connected
<1>2. PICK up \in Prefixes(link[s].up),
           down \in IF link[s].client = "open" THEN Prefixes(link[s].down) ELSE {<<>>} :
        link' = [link EXCEPT ![s].whole = FALSE, ![s].up = up, ![s].down = down]
  BY DEF Break
<1>3. /\ posted + losses < MaxEvents /\ losses' = losses + 1 /\ link[s].whole
      /\ disturbed' = IF due[s[1]] # {} THEN disturbed \cup {Owner[s[1]]} ELSE disturbed
      /\ UNCHANGED <<page, connections, stored, chatIds, posted, due, unaddressed>>
  BY DEF Break, Disturb
<1>4. up \in Seq(AnyMessage) /\ Part(up, link[s].up) /\ (link[s].up = <<>> => up = <<>>)
  BY <1>1, LinkFacts, PrefixPart
<1>5. down \in Seq(AnyMessage) /\ Part(down, link[s].down)
  <2>1. CASE link[s].client = "open"
    BY <1>1, <2>1, LinkFacts, PrefixPart
  <2>2. CASE link[s].client # "open"
    BY <1>1, <2>2, LinkFacts, WholePart, EmptySeq
  <2> QED  BY <2>1, <2>2
<1> DEFINE l == [link[s] EXCEPT !.whole = FALSE, !.up = up, !.down = down]
<1>6. /\ l \in LinkState /\ l.client = link[s].client /\ l.server = link[s].server
      /\ l.whole = FALSE /\ l.up = up /\ l.down = down
  BY <1>1, <1>4, <1>5, LinkFacts DEF LinkState
<1>7. link' = [link EXCEPT ![s] = l]
  BY <1>1, <1>2 DEF Types
<1> HIDE DEF l
<1>8. /\ link' \in [Sockets -> LinkState] /\ link'[s] = l
      /\ \A r \in Sockets : r # s => link'[r] = link[r]
  BY <1>1, <1>6, <1>7, OneLink
<1>9. Types'
  <2>1. losses' \in Nat /\ posted + losses' <= MaxEvents
    BY <1>1, <1>3, ChatAssumption DEF Types
  <2>2. disturbed' \in SUBSET Users
    BY <1>1, <1>3 DEF Types
  <2> QED  BY <1>1, <1>3, <1>8, <2>1, <2>2 DEF Types
<1>10. ASSUME NEW r \in Sockets  PROVE  LinkInv(r)'
  <2>1. LinkInv(r) /\ r[1] \in Pages
    BY <1>1, LinkFacts DEF Connected
  <2>2. CASE r = s
    BY <2>1, <2>2, <1>3, <1>4, <1>6, <1>8 DEF LinkInv, Live, User
  <2>3. CASE r # s
    BY <2>1, <2>3, <1>3, <1>8 DEF LinkInv, Live, User
  <2> QED  BY <2>2, <2>3
<1>11. Quiet
  <2>1. \A t \in Pages : Part(page'[t].queue, page[t].queue)
    BY <1>1, <1>3, SamePageParts
  <2>2. ASSUME NEW r \in Sockets
        PROVE  Part(link'[r].up, link[r].up) /\ Part(link'[r].down, link[r].down)
    <3>1. Part(link[r].up, link[r].up) /\ Part(link[r].down, link[r].down)
      BY <1>1, LinkFacts, WholePart
    <3> QED  BY <3>1, <1>4, <1>5, <1>6, <1>8
  <2>3. ASSUME NEW t \in Pages, IsOpen(t), due[t] # {}, Owner[t] \notin disturbed'
        PROVE  link'[Current(t)] = link[Current(t)]
    <3>1. Current(t) \in Sockets /\ Current(t)[1] = t
      BY <2>3, CurrentIsOpen
    <3> QED  BY <3>1, <2>3, <1>3, <1>8
  <2> QED  BY <2>1, <2>2, <2>3, <1>3 DEF Quiet
<1> QED  BY <1>3, <1>9, <1>10, <1>11 DEF Connected

(* onclose: the socket the page goes on with, if any, is another one.      *)
LEMMA ClientClosedQuiet ==
    ASSUME Connected, NEW s \in Sockets, ClientClosed(s)
    PROVE  Connected' /\ Quiet
<1> DEFINE l == [link[s] EXCEPT !.client = "closed"]
<1> DEFINE p == [page[s[1]] EXCEPT !.connecting = TRUE]
<1>1. Types /\ s[1] \in Pages
  BY LinkFacts DEF Connected
<1>2. /\ ~link[s].whole /\ Live(s) /\ link[s].down = <<>>
      /\ link' = [link EXCEPT ![s] = l]
      /\ page' = [page EXCEPT ![s[1]] = p]
      /\ UNCHANGED <<connections, stored, chatIds, posted, losses, due, disturbed, unaddressed>>
  BY DEF ClientClosed, Reconnect, historyVars, Live
<1>3. /\ l \in LinkState /\ l.client = "closed" /\ l.server = link[s].server
      /\ l.whole = link[s].whole /\ l.up = link[s].up /\ l.down = link[s].down
  BY <1>1, LinkFacts DEF LinkState
<1>4. /\ p \in PageState /\ p.ws = page[s[1]].ws /\ p.opened = page[s[1]].opened
      /\ p.pending = page[s[1]].pending
      /\ p.queue = page[s[1]].queue /\ p.chats = page[s[1]].chats
  BY <1>1, PageFacts DEF PageState
<1> HIDE DEF l, p
<1>5. /\ link' \in [Sockets -> LinkState] /\ link'[s] = l
      /\ \A r \in Sockets : r # s => link'[r] = link[r]
  BY <1>1, <1>2, <1>3, OneLink
<1>6. /\ page' \in [Pages -> PageState] /\ page'[s[1]] = p
      /\ \A v \in Pages : v # s[1] => page'[v] = page[v]
  BY <1>1, <1>2, <1>4, OnePage
<1>7. Types'
  BY <1>1, <1>2, <1>5, <1>6 DEF Types
<1>8. page[s[1]].opened = s[2]
  BY <1>2 DEF Connected, LinkInv
<1>9. ASSUME NEW r \in Sockets  PROVE  LinkInv(r)'
  <2>1. LinkInv(r) /\ r[1] \in Pages /\ r = <<r[1], r[2]>> /\ s = <<s[1], s[2]>>
    BY <1>1, LinkFacts DEF Connected
  <2>2. CASE r = s
    <3>1. link[s].client # "none"
      BY <1>2 DEF Live
    <3> QED  BY <2>1, <2>2, <3>1, <1>2, <1>3, <1>4, <1>5, <1>6 DEF LinkInv, Live, User
  <2>3. CASE r # s /\ r[1] = s[1]
    <3>1. ~Live(r)
      BY <2>1, <2>3, <1>8 DEF LinkInv
    <3> QED  BY <2>1, <2>3, <3>1, <1>2, <1>4, <1>5, <1>6 DEF LinkInv, Live, User
  <2>4. CASE r # s /\ r[1] # s[1]
    BY <2>1, <2>4, <1>2, <1>5, <1>6 DEF LinkInv, Live, User
  <2> QED  BY <2>2, <2>3, <2>4
<1>10. ASSUME NEW v \in Pages  PROVE  page'[v].ws <= page'[v].opened
  BY <1>1, <1>4, <1>6 DEF Connected
<1>11. Quiet
  <2>1. ASSUME NEW t \in Pages  PROVE  Part(page'[t].queue, page[t].queue)
    BY <1>1, <1>4, <1>6, PageFacts, WholePart
  <2>2. ASSUME NEW r \in Sockets
        PROVE  Part(link'[r].up, link[r].up) /\ Part(link'[r].down, link[r].down)
    BY <1>1, <1>3, <1>5, SameLinkParts
  <2>3. ASSUME NEW t \in Pages, IsOpen(t), link[Current(t)].whole
        PROVE  link'[Current(t)] = link[Current(t)]
    BY <1>2, <1>5, <2>3, CurrentIsOpen
  <2>4. ASSUME NEW t \in Pages
        PROVE  page'[t].chats = page[t].chats /\ page'[t].pending = page[t].pending
               /\ page'[t].ws = page[t].ws
    BY <1>4, <1>6
  <2> QED  BY <2>1, <2>2, <2>3, <2>4, <1>2 DEF Quiet
<1> QED  BY <1>7, <1>9, <1>10, <1>11 DEF Connected

(* The relay's handler of "close".                                         *)
LEMMA ServerClosedQuiet ==
    ASSUME Connected, NEW s \in Sockets, ServerClosed(s)
    PROVE  Connected' /\ Quiet
<1> DEFINE l == [link[s] EXCEPT !.server = "closed"]
<1>1. Types
  BY DEF Connected
<1>2. /\ link[s].server = "open"
      /\ link' = [link EXCEPT ![s] = l]
      /\ connections' = [connections EXCEPT ![User(s)] = @ \ {s}]
      /\ UNCHANGED <<page, stored, chatIds, posted, losses, due, disturbed, unaddressed>>
  BY DEF ServerClosed, Unregister, historyVars
<1>3. /\ l \in LinkState /\ l.client = link[s].client /\ l.server = "closed"
      /\ l.whole = link[s].whole /\ l.up = link[s].up /\ l.down = link[s].down
  BY <1>1, LinkFacts DEF LinkState
<1> HIDE DEF l
<1>4. /\ link' \in [Sockets -> LinkState] /\ link'[s] = l
      /\ \A r \in Sockets : r # s => link'[r] = link[r]
  BY <1>1, <1>2, <1>3, OneLink
<1>5. /\ connections' \in [Users -> SUBSET Sockets]
      /\ \A r \in Sockets : r \in connections'[User(r)] <=> r # s /\ r \in connections[User(r)]
  BY <1>1, <1>2, LinkFacts DEF Types
<1>6. Types'
  BY <1>1, <1>2, <1>4, <1>5 DEF Types
<1>7. ASSUME NEW r \in Sockets  PROVE  LinkInv(r)'
  <2>1. LinkInv(r) /\ r[1] \in Pages
    BY <1>1, LinkFacts DEF Connected
  <2>2. CASE r = s
    BY <2>1, <2>2, <1>2, <1>3, <1>4, <1>5 DEF LinkInv, Live, User
  <2>3. CASE r # s
    BY <2>1, <2>3, <1>2, <1>4, <1>5 DEF LinkInv, Live, User
  <2> QED  BY <2>2, <2>3
<1>8. ASSUME NEW r \in Sockets
      PROVE  link'[r].up = link[r].up /\ link'[r].down = link[r].down
             /\ link'[r].client = link[r].client /\ link'[r].whole = link[r].whole
  BY <1>3, <1>4
<1>9. Quiet
  <2>1. \A t \in Pages : Part(page'[t].queue, page[t].queue)
    BY <1>1, <1>2, SamePageParts
  <2>2. \A r \in Sockets : Part(link'[r].up, link[r].up) /\ Part(link'[r].down, link[r].down)
    BY <1>1, <1>8, SameLinkParts
  <2>3. \A t \in Pages : IsOpen(t) => Current(t) \in Sockets
    BY CurrentIsOpen
  <2> QED  BY <2>1, <2>2, <2>3, <1>2, <1>8 DEF Quiet
<1> QED  BY <1>2, <1>6, <1>7, <1>9 DEF Connected

(* An encryption that fails: nothing of it is left.                        *)
LEMMA NotEncryptedQuiet ==
    ASSUME Connected, NEW t \in Pages, NotEncrypted(t)
    PROVE  Connected' /\ Quiet
<1>1. Types
  BY DEF Connected
<1>2. PICK i \in Running(t) : page' = [page EXCEPT ![t].queue = RemoveAt(@, i)]
  BY DEF NotEncrypted
<1>3. UNCHANGED <<link, connections, stored, chatIds, posted, losses, due, disturbed, unaddressed>>
  BY DEF NotEncrypted, historyVars
<1> DEFINE q == RemoveAt(page[t].queue, i)
<1> DEFINE p == [page[t] EXCEPT !.queue = q]
<1>4. q \in Seq(AnyMessage) /\ Part(q, page[t].queue)
  <2>1. i \in DOMAIN page[t].queue \cap {1} /\ page[t].queue \in Seq(AnyMessage)
    BY <1>1, PageFacts DEF Running
  <2>2. q = Tail(page[t].queue) /\ page[t].queue # <<>>
    BY <2>1, RemoveFront
  <2> HIDE DEF q
  <2> QED  BY <2>1, <2>2, TailPart
<1> HIDE DEF q
<1>5. /\ p \in PageState /\ p.ws = page[t].ws /\ p.opened = page[t].opened
      /\ p.connecting = page[t].connecting /\ p.pending = page[t].pending
      /\ p.queue = q /\ p.chats = page[t].chats
  BY <1>1, <1>4, PageFacts DEF PageState
<1>6. page' = [page EXCEPT ![t] = p]
  BY <1>1, <1>2 DEF q, Types
<1> HIDE DEF p
<1>7. /\ page' \in [Pages -> PageState] /\ page'[t] = p
      /\ \A v \in Pages : v # t => page'[v] = page[v]
  BY <1>1, <1>5, <1>6, OnePage
<1>8. Types'
  BY <1>1, <1>3, <1>7 DEF Types
<1>9. ASSUME NEW v \in Pages
      PROVE  /\ page'[v].ws = page[v].ws /\ page'[v].opened = page[v].opened
             /\ page'[v].connecting = page[v].connecting
             /\ page'[v].chats = page[v].chats /\ page'[v].pending = page[v].pending
  BY <1>5, <1>7
<1>10. ASSUME NEW r \in Sockets  PROVE  LinkInv(r)'
  <2>1. LinkInv(r) /\ r[1] \in Pages
    BY <1>1, LinkFacts DEF Connected
  <2> QED  BY <2>1, <1>3, <1>9 DEF LinkInv, Live, User
<1>11. Quiet
  <2>1. ASSUME NEW v \in Pages  PROVE  Part(page'[v].queue, page[v].queue)
    <3>1. Part(page[v].queue, page[v].queue)
      BY <1>1, PageFacts, WholePart
    <3> QED  BY <3>1, <1>4, <1>5, <1>7
  <2>2. \A r \in Sockets : Part(link'[r].up, link[r].up) /\ Part(link'[r].down, link[r].down)
    BY <1>1, <1>3, SameLinkParts
  <2> QED  BY <2>1, <2>2, <1>3, <1>9 DEF Quiet
<1> QED  BY <1>8, <1>9, <1>10, <1>11 DEF Connected
-----------------------------------------------------------------------------
(* The steps that do more, and what they change.                           *)

SameConnection(r) ==
    /\ link'[r].client = link[r].client
    /\ link'[r].server = link[r].server
    /\ link'[r].whole = link[r].whole

SameSockets(v) ==
    /\ page'[v].ws = page[v].ws
    /\ page'[v].opened = page[v].opened
    /\ page'[v].connecting = page[v].connecting

(* Messages change nothing in the state of the connections.                *)
LEMMA SameConnections ==
    ASSUME Connected, Types', UNCHANGED connections,
           \A v \in Pages : SameSockets(v),
           \A r \in Sockets :
              /\ SameConnection(r)
              /\ link[r].client = "none" => link'[r].up = link[r].up
              /\ link'[r].down # <<>> => link[r].down # <<>> \/ link[r].whole
    PROVE  Connected'
<1>1. Types
  BY DEF Connected
<1>2. ASSUME NEW r \in Sockets  PROVE  LinkInv(r)'
  <2>1. LinkInv(r) /\ r[1] \in Pages
    BY <1>1, LinkFacts DEF Connected
  <2> QED  BY <2>1 DEF LinkInv, Live, User, SameSockets, SameConnection
<1> QED  BY <1>2 DEF Connected, SameSockets

(* Post: a new message with the next number joins the queue.               *)
LEMMA PostEffect ==
    ASSUME Connected, NEW t \in Pages, Post(t)
    PROVE  /\ Connected'
           /\ posted' = posted + 1
           /\ UNCHANGED <<link, connections, stored, chatIds, due, disturbed, unaddressed>>
           /\ \A v \in Pages :
                /\ page'[v].chats = page[v].chats /\ page'[v].pending = page[v].pending
                /\ SameSockets(v)
                /\ v # t => page'[v].queue = page[v].queue
           /\ \E m \in AnyMessage :
                /\ m.op = "encrypt" /\ m.from = Owner[t] /\ m.text = <<t, posted + 1>>
                /\ m.chat = SelectedChatId(t)
                /\ page'[t].queue = Append(page[t].queue, m)
<1>1. Types
  BY DEF Connected
<1> DEFINE m == [op |-> "encrypt", from |-> Owner[t], text |-> <<t, posted + 1>>,
                 chat |-> SelectedChatId(t)]
<1> DEFINE q == Append(page[t].queue, m)
<1> DEFINE p == [page[t] EXCEPT !.queue = q]
<1>2. /\ page' = [page EXCEPT ![t].queue = q]
      /\ posted + losses < MaxEvents /\ posted' = posted + 1
      /\ UNCHANGED <<link, connections, stored, chatIds, losses, due, disturbed, unaddressed>>
  BY <1>1 DEF Post, Enqueue, Types
<1>3. SelectedChatId(t) \in Nat
  <2>1. page[t].chats # <<>> => Head(page[t].chats) \in AnyEntry
    BY <1>1, PageFacts, TailPart
  <2> QED  BY <2>1 DEF SelectedChatId, NoChatId, AnyEntry
<1>4. /\ m \in AnyMessage /\ m.op = "encrypt" /\ m.from = Owner[t]
      /\ m.text = <<t, posted + 1>> /\ m.chat = SelectedChatId(t)
  <2>1. posted \in Nat /\ Owner[t] \in Users
    BY <1>1, PageFacts DEF Types
  <2>2. <<t, posted + 1>> \in AnyText
    BY <2>1 DEF AnyText
  <2> QED  BY <2>1, <2>2, <1>3 DEF AnyMessage
<1> HIDE DEF m
<1>5. q \in Seq(AnyMessage)
  BY <1>1, <1>4, PageFacts, Appended
<1> HIDE DEF q
<1>6. /\ p \in PageState /\ p.ws = page[t].ws /\ p.opened = page[t].opened
      /\ p.connecting = page[t].connecting /\ p.pending = page[t].pending
      /\ p.queue = q /\ p.chats = page[t].chats
  BY <1>1, <1>5, PageFacts DEF PageState
<1>7. page' = [page EXCEPT ![t] = p]
  BY <1>1, <1>2 DEF Types
<1> HIDE DEF p
<1>8. /\ page' \in [Pages -> PageState] /\ page'[t] = p
      /\ \A v \in Pages : v # t => page'[v] = page[v]
  BY <1>1, <1>6, <1>7, OnePage
<1>9. Types'
  <2>1. posted' \in Nat /\ posted' + losses <= MaxEvents
    BY <1>1, <1>2, ChatAssumption DEF Types
  <2> QED  BY <1>1, <1>2, <1>8, <2>1 DEF Types
<1>10. \A v \in Pages :
          /\ page'[v].chats = page[v].chats /\ page'[v].pending = page[v].pending
          /\ SameSockets(v)
          /\ v # t => page'[v].queue = page[v].queue
  BY <1>6, <1>8 DEF SameSockets
<1>11. Connected'
  <2>1. \A r \in Sockets : SameConnection(r)
    BY <1>2, SMTT(30) DEF SameConnection
  <2> QED  BY <1>2, <1>9, <1>10, <2>1, SameConnections
<1> QED  BY <1>2, <1>4, <1>6, <1>8, <1>10, <1>11 DEF q

(* The end of getNewMsgObj: the message goes from the queue to the socket. *)
Sent(t) == IsOpen(t) /\ link[Current(t)].whole

(* The rest of getNewMsgObj: the head of the queue goes up if it can.      *)
LEMMA EncryptedEffect ==
    ASSUME Connected, NEW t \in Pages, Encrypted(t)
    PROVE  /\ Connected'
           /\ UNCHANGED <<connections, stored, chatIds, posted>>
           /\ page[t].queue # <<>> /\ Head(page[t].queue).op = "encrypt"
           /\ page'[t].queue = Tail(page[t].queue)
           /\ page'[t].pending = Append(page[t].pending, Head(page[t].queue).text)
           /\ \A v \in Pages :
                /\ page'[v].chats = page[v].chats /\ SameSockets(v)
                /\ v # t => page'[v].queue = page[v].queue /\ page'[v].pending = page[v].pending
                /\ v # t => due'[v] = due[v]
           /\ due'[t] = due[t] \cup {Head(page[t].queue).text}
           /\ \A r \in Sockets :
                /\ SameConnection(r) /\ link'[r].down = link[r].down
                /\ r # Current(t) \/ ~Sent(t) => link'[r].up = link[r].up
           /\ Sent(t) => link'[Current(t)].up =
                           Append(link[Current(t)].up, [Head(page[t].queue) EXCEPT !.op = "decrypt"])
           /\ disturbed' = IF Sent(t) THEN disturbed ELSE disturbed \cup {Owner[t]}
           /\ unaddressed' = unaddressed + IF Head(page[t].queue).text \in early THEN 1 ELSE 0
<1>1. Types
  BY DEF Connected
<1>2. PICK i \in Running(t) :
        /\ page[t].queue[i].op = "encrypt"
        /\ page' = [page EXCEPT ![t].queue = RemoveAt(@, i),
                                ![t].pending = Append(page[t].pending, page[t].queue[i].text)]
        /\ link' = IF Sent(t)
                     THEN [link EXCEPT ![Current(t)].up =
                             Append(@, [page[t].queue[i] EXCEPT !.op = "decrypt"])]
                     ELSE link
        /\ due' = [due EXCEPT ![t] = @ \cup {page[t].queue[i].text}]
        /\ disturbed' = IF ~Sent(t) THEN disturbed \cup {Owner[t]} ELSE disturbed
        /\ unaddressed' = unaddressed + IF page[t].queue[i].text \in early THEN 1 ELSE 0
        /\ UNCHANGED <<connections, stored, chatIds, posted, losses>>
  BY DEF Encrypted, PushPending, Disturb, Sent, Current
<1>3. page[t].queue \in Seq(AnyMessage) /\ page[t].pending \in Seq(AnyText)
  BY <1>1, PageFacts
<1>4. i = 1 /\ page[t].queue # <<>> /\ RemoveAt(page[t].queue, i) = Tail(page[t].queue)
  BY <1>2, <1>3, RemoveFront DEF Running
<1> DEFINE op == Head(page[t].queue)
<1>5. /\ op = page[t].queue[i] /\ op \in AnyMessage /\ op.text \in AnyText
      /\ Tail(page[t].queue) \in Seq(AnyMessage)
  BY <1>3, <1>4, TailPart, MessageFacts
<1> DEFINE m == [op EXCEPT !.op = "decrypt"]
<1>6. m \in AnyMessage
  BY <1>5 DEF AnyMessage
<1> HIDE DEF op
<1> DEFINE pend == Append(page[t].pending, op.text)
<1> DEFINE p == [page[t] EXCEPT !.queue = Tail(page[t].queue), !.pending = pend]
<1>7. pend \in Seq(AnyText)
  BY <1>3, <1>5, Appended
<1> HIDE DEF pend
<1>8. /\ p \in PageState /\ p.ws = page[t].ws /\ p.opened = page[t].opened
      /\ p.connecting = page[t].connecting /\ p.pending = pend
      /\ p.queue = Tail(page[t].queue) /\ p.chats = page[t].chats
  BY <1>1, <1>5, <1>7, PageFacts DEF PageState
<1>9. page' = [page EXCEPT ![t] = p]
  <2>1. page' = [page EXCEPT ![t].queue = Tail(page[t].queue), ![t].pending = pend]
    BY <1>1, <1>2, <1>4, <1>5 DEF pend, Types
  <2> QED  BY <1>1, <2>1 DEF Types
<1> HIDE DEF p, m
<1>10. /\ page' \in [Pages -> PageState] /\ page'[t] = p
       /\ \A v \in Pages : v # t => page'[v] = page[v]
  BY <1>1, <1>8, <1>9, OnePage
<1>11. /\ link' \in [Sockets -> LinkState]
       /\ \A r \in Sockets :
            /\ SameConnection(r) /\ link'[r].down = link[r].down
            /\ r # Current(t) \/ ~Sent(t) => link'[r].up = link[r].up
       /\ Sent(t) => link'[Current(t)].up = Append(link[Current(t)].up, m)
  <2>1. CASE Sent(t)
    <3> DEFINE s == Current(t)
    <3> DEFINE u == Append(link[s].up, m)
    <3> DEFINE l == [link[s] EXCEPT !.up = u]
    <3>1. s \in Sockets
      BY <2>1, CurrentIsOpen DEF Sent
    <3>2. link' = [link EXCEPT ![s] = l]
      BY <1>1, <1>2, <1>5, <2>1, <3>1 DEF m, Types
    <3>3. u \in Seq(AnyMessage)
      BY <1>1, <1>6, <3>1, LinkFacts, Appended
    <3> HIDE DEF u, s
    <3>4. /\ l \in LinkState /\ l.client = link[s].client /\ l.server = link[s].server
          /\ l.whole = link[s].whole /\ l.up = u /\ l.down = link[s].down
      BY <1>1, <3>1, <3>3, LinkFacts DEF LinkState
    <3> HIDE DEF l
    <3>5. /\ link' \in [Sockets -> LinkState] /\ link'[s] = l
          /\ \A r \in Sockets : r # s => link'[r] = link[r]
      BY <1>1, <3>1, <3>2, <3>4, OneLink
    <3> QED  BY <2>1, <3>1, <3>4, <3>5 DEF u, s, SameConnection
  <2>2. CASE ~Sent(t)
    BY <1>1, <1>2, <2>2 DEF Types, SameConnection
  <2> QED  BY <2>1, <2>2
<1>12. /\ due' \in [Pages -> SUBSET AnyText] /\ due'[t] = due[t] \cup {op.text}
       /\ \A v \in Pages : v # t => due'[v] = due[v]
  BY <1>1, <1>2, <1>5 DEF Types
<1>13. disturbed' \in SUBSET Users
  BY <1>1, <1>2, PageFacts DEF Types
<1>14. Types'
  <2>1. unaddressed' \in Nat
    BY <1>1, <1>2 DEF Types
  <2> QED  BY <1>1, <1>2, <1>10, <1>11, <1>12, <1>13, <2>1 DEF Types
<1>15. \A v \in Pages : page'[v].chats = page[v].chats /\ SameSockets(v)
  BY <1>8, <1>10 DEF SameSockets
<1>16. Connected'
  <2>1. \A r \in Sockets : link[r].client = "none" => link'[r].up = link[r].up
    <3>1. Sent(t) => link[Current(t)].client = "open"
      BY DEF Sent, IsOpen, Current
    <3> QED  BY <3>1, <1>11
  <2> QED  BY <1>2, <1>11, <1>14, <1>15, <2>1, SameConnections
<1> QED  BY <1>2, <1>4, <1>5, <1>8, <1>10, <1>11, <1>12, <1>15, <1>16 DEF op, m, pend

(* What Show changes.                                                      *)
LEMMA ShowEffect ==
    ASSUME Connected, NEW t \in Pages, NEW message \in AnyMessage,
           NEW as \in AnyText \cup {NoPlaintext}, NEW queue \in Seq(AnyMessage),
           NEW pending \in Seq(AnyText), Show(t, message, as, queue, pending)
    PROVE  /\ page' \in [Pages -> PageState] /\ stored' \in [Users -> Seq(AnyEntry)]
           /\ \A v \in Pages : SameSockets(v) /\ (v # t => page'[v] = page[v])
           /\ page'[t].queue = queue /\ page'[t].pending = pending
           /\ \E e \in AnyEntry :
                /\ e.chat = message.chat /\ e.from = message.from
                /\ e.text = message.text /\ e.as = as
                /\ page'[t].chats = Append(page[t].chats, e)
           /\ stored'[Owner[t]] = page'[t].chats
           /\ \A u \in Users : u # Owner[t] => stored'[u] = stored[u]
<1>1. Types
  BY DEF Connected
<1> DEFINE e == [chat |-> message.chat, from |-> message.from, text |-> message.text, as |-> as]
<1> DEFINE chats == Append(page[t].chats, e)
<1>2. /\ page' = [page EXCEPT ![t].chats = chats, ![t].queue = queue, ![t].pending = pending]
      /\ stored' = [stored EXCEPT ![Owner[t]] = chats]
  BY DEF Show
<1>3. /\ e \in AnyEntry /\ e.chat = message.chat /\ e.from = message.from
      /\ e.text = message.text /\ e.as = as
  BY MessageFacts DEF AnyEntry
<1> HIDE DEF e
<1>4. chats \in Seq(AnyEntry)
  BY <1>1, <1>3, PageFacts, Appended
<1> HIDE DEF chats
<1> DEFINE p == [page[t] EXCEPT !.chats = chats, !.queue = queue, !.pending = pending]
<1>5. /\ p \in PageState /\ p.ws = page[t].ws /\ p.opened = page[t].opened
      /\ p.connecting = page[t].connecting /\ p.pending = pending
      /\ p.queue = queue /\ p.chats = chats
  BY <1>1, <1>4, PageFacts DEF PageState
<1>6. page' = [page EXCEPT ![t] = p]
  BY <1>1, <1>2 DEF Types
<1> HIDE DEF p
<1>7. /\ page' \in [Pages -> PageState] /\ page'[t] = p
      /\ \A v \in Pages : v # t => page'[v] = page[v]
  BY <1>1, <1>5, <1>6, OnePage
<1>8. /\ stored' \in [Users -> Seq(AnyEntry)] /\ stored'[Owner[t]] = chats
      /\ \A u \in Users : u # Owner[t] => stored'[u] = stored[u]
  BY <1>1, <1>2, <1>4, PageFacts DEF Types
<1>9. \A v \in Pages : SameSockets(v)
  BY <1>5, <1>7 DEF SameSockets
<1> QED  BY <1>3, <1>5, <1>7, <1>8, <1>9 DEF chats

(* What TakeArrival changes.                                               *)
LEMMA TakeEffect ==
    ASSUME Connected, NEW s \in Sockets, HasArrival(s), TakeArrival(s)
    PROVE  /\ link' \in [Sockets -> LinkState]
           /\ link[s].down # <<>> /\ link[s].client = "open"
           /\ Arrival(s) \in AnyMessage /\ Arrival(s) = Head(link[s].down)
           /\ link'[s].down = Tail(link[s].down)
           /\ \A r \in Sockets :
                /\ SameConnection(r) /\ link'[r].up = link[r].up
                /\ r # s => link'[r].down = link[r].down
<1>1. Types
  BY DEF Connected
<1> DEFINE d == Tail(link[s].down)
<1> DEFINE l == [link[s] EXCEPT !.down = d]
<1>2. /\ link[s].down # <<>> /\ link[s].client = "open" /\ Arrival(s) = Head(link[s].down)
      /\ link' = [link EXCEPT ![s] = l]
  BY <1>1 DEF HasArrival, TakeArrival, Arrival, Types
<1>3. d \in Seq(AnyMessage) /\ Arrival(s) \in AnyMessage
  BY <1>1, <1>2, LinkFacts, TailPart
<1> HIDE DEF d
<1>4. /\ l \in LinkState /\ l.client = link[s].client /\ l.server = link[s].server
      /\ l.whole = link[s].whole /\ l.up = link[s].up /\ l.down = d
  BY <1>1, <1>3, LinkFacts DEF LinkState
<1> HIDE DEF l
<1>5. /\ link' \in [Sockets -> LinkState] /\ link'[s] = l
      /\ \A r \in Sockets : r # s => link'[r] = link[r]
  BY <1>1, <1>2, <1>4, OneLink
<1> QED  BY <1>2, <1>3, <1>4, <1>5 DEF d, SameConnection

(* onmessage for a message of one's own.                                   *)
LEMMA ReceiveEchoEffect ==
    ASSUME Connected, NEW s \in Sockets, ReceiveEcho(s), NEW t \in Pages, t = s[1]
    PROVE  /\ Connected'
           /\ UNCHANGED <<connections, chatIds, posted, unaddressed>>
           /\ link[s].down # <<>> /\ link[s].client = "open"
           /\ Arrival(s) = Head(link[s].down) /\ Arrival(s) \in AnyMessage
           /\ Arrival(s).from = User(s)
           /\ link'[s].down = Tail(link[s].down)
           /\ \A r \in Sockets :
                /\ SameConnection(r) /\ link'[r].up = link[r].up
                /\ r # s => link'[r].down = link[r].down
           /\ \A v \in Pages :
                /\ SameSockets(v)
                /\ v # t => page'[v] = page[v] /\ due'[v] = due[v]
           /\ page'[t].queue = page[t].queue
           /\ page'[t].pending = IF page[t].pending = <<>> THEN <<>> ELSE Tail(page[t].pending)
           /\ \E e \in AnyEntry :
                /\ e.chat = Arrival(s).chat /\ e.from = Arrival(s).from
                /\ e.text = Arrival(s).text
                /\ e.as = IF page[t].pending = <<>> THEN NoPlaintext ELSE Head(page[t].pending)
                /\ page'[t].chats = Append(page[t].chats, e)
           /\ stored'[Owner[t]] = page'[t].chats
           /\ \A u \in Users : u # Owner[t] => stored'[u] = stored[u]
           /\ due'[t] = due[t] \ {Arrival(s).text}
           /\ disturbed' = IF Arrival(s).text \notin due[t] THEN disturbed \cup {Owner[t]}
                                                            ELSE disturbed
<1>1. Types
  BY DEF Connected
<1> DEFINE as == IF page[t].pending = <<>> THEN NoPlaintext ELSE Head(page[t].pending)
<1> DEFINE pend == IF page[t].pending = <<>> THEN <<>> ELSE Tail(page[t].pending)
<1>2. /\ HasArrival(s) /\ Arrival(s).from = User(s) /\ TakeArrival(s)
      /\ Show(t, Arrival(s), as, page[t].queue, pend)
      /\ due' = [due EXCEPT ![t] = @ \ {Arrival(s).text}]
      /\ disturbed' = IF Arrival(s).text \notin due[t] THEN disturbed \cup {Owner[t]} ELSE disturbed
      /\ UNCHANGED <<connections, chatIds, posted, losses, unaddressed>>
  BY DEF ReceiveEcho, Disturb
<1>3. as \in AnyText \cup {NoPlaintext} /\ pend \in Seq(AnyText)
  BY <1>1, PageFacts, TailPart, EmptySeq
<1>4. page[t].queue \in Seq(AnyMessage)
  BY <1>1, PageFacts
<1>5. /\ link' \in [Sockets -> LinkState]
      /\ link[s].down # <<>> /\ link[s].client = "open"
      /\ Arrival(s) \in AnyMessage /\ Arrival(s) = Head(link[s].down)
      /\ link'[s].down = Tail(link[s].down)
      /\ \A r \in Sockets :
           /\ SameConnection(r) /\ link'[r].up = link[r].up
           /\ r # s => link'[r].down = link[r].down
  BY <1>2, TakeEffect
<1> HIDE DEF as, pend
<1>6. /\ page' \in [Pages -> PageState] /\ stored' \in [Users -> Seq(AnyEntry)]
      /\ \A v \in Pages : SameSockets(v) /\ (v # t => page'[v] = page[v])
      /\ page'[t].queue = page[t].queue /\ page'[t].pending = pend
      /\ \E e \in AnyEntry :
           /\ e.chat = Arrival(s).chat /\ e.from = Arrival(s).from
           /\ e.text = Arrival(s).text /\ e.as = as
           /\ page'[t].chats = Append(page[t].chats, e)
      /\ stored'[Owner[t]] = page'[t].chats
      /\ \A u \in Users : u # Owner[t] => stored'[u] = stored[u]
  BY <1>2, <1>3, <1>4, <1>5, ShowEffect
<1>7. /\ due' \in [Pages -> SUBSET AnyText] /\ due'[t] = due[t] \ {Arrival(s).text}
      /\ \A v \in Pages : v # t => due'[v] = due[v]
  BY <1>1, <1>2 DEF Types
<1>8. disturbed' \in SUBSET Users
  BY <1>1, <1>2, PageFacts DEF Types
<1>9. Types'
  BY <1>1, <1>2, <1>5, <1>6, <1>7, <1>8 DEF Types
<1>10. Connected'
  BY <1>2, <1>5, <1>6, <1>9, SameConnections
<1> QED  BY <1>2, <1>5, <1>6, <1>7, <1>10 DEF as, pend

(* onmessage for one of the peer's, up to its await.                       *)
LEMMA ReceiveMessageEffect ==
    ASSUME Connected, NEW s \in Sockets, ReceiveMessage(s), NEW t \in Pages, t = s[1]
    PROVE  /\ Connected'
           /\ UNCHANGED <<connections, stored, chatIds, posted, due, disturbed, unaddressed>>
           /\ link[s].down # <<>> /\ link[s].client = "open"
           /\ Arrival(s) = Head(link[s].down) /\ Arrival(s) \in AnyMessage
           /\ Arrival(s).from # User(s)
           /\ link'[s].down = Tail(link[s].down)
           /\ \A r \in Sockets :
                /\ SameConnection(r) /\ link'[r].up = link[r].up
                /\ r # s => link'[r].down = link[r].down
           /\ \A v \in Pages :
                /\ SameSockets(v)
                /\ page'[v].chats = page[v].chats /\ page'[v].pending = page[v].pending
                /\ v # t => page'[v].queue = page[v].queue
           /\ page'[t].queue = Append(page[t].queue, Arrival(s))
<1>1. Types
  BY DEF Connected
<1> DEFINE q == Append(page[t].queue, Arrival(s))
<1> DEFINE p == [page[t] EXCEPT !.queue = q]
<1>2. /\ HasArrival(s) /\ Arrival(s).from # User(s) /\ TakeArrival(s)
      /\ page' = [page EXCEPT ![t] = p]
      /\ UNCHANGED <<connections, stored, chatIds, posted, losses, due, disturbed, unaddressed>>
  BY <1>1 DEF ReceiveMessage, Enqueue, historyVars, Types
<1>3. /\ link' \in [Sockets -> LinkState]
      /\ link[s].down # <<>> /\ link[s].client = "open"
      /\ Arrival(s) \in AnyMessage /\ Arrival(s) = Head(link[s].down)
      /\ link'[s].down = Tail(link[s].down)
      /\ \A r \in Sockets :
           /\ SameConnection(r) /\ link'[r].up = link[r].up
           /\ r # s => link'[r].down = link[r].down
  BY <1>2, TakeEffect
<1>4. q \in Seq(AnyMessage)
  BY <1>1, <1>3, PageFacts, Appended
<1> HIDE DEF q
<1>5. /\ p \in PageState /\ p.ws = page[t].ws /\ p.opened = page[t].opened
      /\ p.connecting = page[t].connecting /\ p.pending = page[t].pending
      /\ p.queue = q /\ p.chats = page[t].chats
  BY <1>1, <1>4, PageFacts DEF PageState
<1> HIDE DEF p
<1>6. /\ page' \in [Pages -> PageState] /\ page'[t] = p
      /\ \A v \in Pages : v # t => page'[v] = page[v]
  BY <1>1, <1>2, <1>5, OnePage
<1>7. Types'
  BY <1>1, <1>2, <1>3, <1>6 DEF Types
<1>8. \A v \in Pages :
        /\ SameSockets(v)
        /\ page'[v].chats = page[v].chats /\ page'[v].pending = page[v].pending
        /\ v # t => page'[v].queue = page[v].queue
  BY <1>5, <1>6 DEF SameSockets
<1>9. Connected'
  BY <1>2, <1>3, <1>7, <1>8, SameConnections
<1> QED  BY <1>2, <1>3, <1>5, <1>6, <1>8, <1>9 DEF q

(* The rest of onmessage.                                                  *)
LEMMA DecryptedEffect ==
    ASSUME Connected, NEW t \in Pages, Decrypted(t)
    PROVE  /\ Connected'
           /\ UNCHANGED <<link, connections, chatIds, posted, due, disturbed, unaddressed>>
           /\ page[t].queue # <<>> /\ Head(page[t].queue).op = "decrypt"
           /\ Head(page[t].queue) \in AnyMessage
           /\ page'[t].queue = Tail(page[t].queue) /\ page'[t].pending = page[t].pending
           /\ \A v \in Pages : SameSockets(v) /\ (v # t => page'[v] = page[v])
           /\ \E e \in AnyEntry :
                /\ e.chat = Head(page[t].queue).chat /\ e.from = Head(page[t].queue).from
                /\ e.text = Head(page[t].queue).text /\ e.as = e.text
                /\ page'[t].chats = Append(page[t].chats, e)
           /\ stored'[Owner[t]] = page'[t].chats
           /\ \A u \in Users : u # Owner[t] => stored'[u] = stored[u]
<1>1. Types
  BY DEF Connected
<1>2. page[t].queue \in Seq(AnyMessage) /\ page[t].pending \in Seq(AnyText)
  BY <1>1, PageFacts
<1>3. PICK i \in Running(t) :
        /\ page[t].queue[i].op = "decrypt"
        /\ Show(t, page[t].queue[i], page[t].queue[i].text, RemoveAt(page[t].queue, i),
                page[t].pending)
        /\ UNCHANGED <<link, connections, chatIds, posted, losses, due, disturbed, unaddressed>>
  BY DEF Decrypted
<1>4. i = 1 /\ page[t].queue # <<>> /\ RemoveAt(page[t].queue, i) = Tail(page[t].queue)
  BY <1>2, <1>3, RemoveFront DEF Running
<1> DEFINE m == Head(page[t].queue)
<1>5. m = page[t].queue[i] /\ m \in AnyMessage /\ Tail(page[t].queue) \in Seq(AnyMessage)
  BY <1>2, <1>4, TailPart
<1> DEFINE x == m.text
<1> DEFINE q == Tail(page[t].queue)
<1> DEFINE w == page[t].pending
<1>6. x \in AnyText \cup {NoPlaintext} /\ q \in Seq(AnyMessage) /\ w \in Seq(AnyText)
  BY <1>2, <1>5, MessageFacts
<1>7. Show(t, m, x, q, w)
  BY <1>3, <1>4, <1>5
<1> HIDE DEF m, x, q, w
<1>8. /\ page' \in [Pages -> PageState] /\ stored' \in [Users -> Seq(AnyEntry)]
      /\ \A v \in Pages : SameSockets(v) /\ (v # t => page'[v] = page[v])
      /\ page'[t].queue = q /\ page'[t].pending = w
      /\ \E e \in AnyEntry :
           /\ e.chat = m.chat /\ e.from = m.from /\ e.text = m.text /\ e.as = x
           /\ page'[t].chats = Append(page[t].chats, e)
      /\ stored'[Owner[t]] = page'[t].chats
      /\ \A u \in Users : u # Owner[t] => stored'[u] = stored[u]
  <2>1. m \in AnyMessage
    BY <1>5
  <2> QED  BY <1>6, <1>7, <2>1, ShowEffect
<1>9. Types'
  BY <1>1, <1>3, <1>8 DEF Types
<1>10. Connected'
  <2>1. \A r \in Sockets : SameConnection(r)
    BY <1>3 DEF SameConnection
  <2> QED  BY <1>3, <1>8, <1>9, <2>1, SameConnections
<1> QED  BY <1>3, <1>4, <1>5, <1>8, <1>10 DEF m, x, q, w

(* Where the relay sends a message: to the sockets of both users.          *)
Recipients(m) == connections[m.from] \cup connections[Peer(m.from)]

(* The relay's handler of "message".                                       *)
LEMMA RelayEffect ==
    ASSUME Connected, NEW s \in Sockets, Relay(s)
    PROVE  /\ Connected'
           /\ UNCHANGED <<page, connections, stored, posted, due, disturbed, unaddressed>>
           /\ link[s].server = "open" /\ link[s].up # <<>>
           /\ link'[s].up = Tail(link[s].up)
           /\ \A r \in Sockets : SameConnection(r) /\ (r # s => link'[r].up = link[r].up)
           /\ \E m \in AnyMessage :
                /\ m.op = Head(link[s].up).op /\ m.from = Head(link[s].up).from
                /\ m.text = Head(link[s].up).text
                /\ m.chat = IF Head(link[s].up).chat = NoChatId THEN chatIds + 1
                                                                ELSE Head(link[s].up).chat
                /\ chatIds' = IF m.chat > chatIds THEN m.chat ELSE chatIds
                /\ \A r \in Sockets :
                     link'[r].down = IF r \in Recipients(m) /\ link[r].whole
                                       THEN Append(link[r].down, m) ELSE link[r].down
<1>1. Types
  BY DEF Connected
<1> DEFINE h == Head(link[s].up)
<1> DEFINE c == IF h.chat = NoChatId THEN chatIds + 1 ELSE h.chat
<1> DEFINE m == [h EXCEPT !.chat = c]
<1> DEFINE g(r) == LET l == IF r = s THEN [link[r] EXCEPT !.up = Tail(@)] ELSE link[r]
                   IN  IF r \in Recipients(m) /\ l.whole
                         THEN [l EXCEPT !.down = Append(@, m)] ELSE l
<1>2. /\ link[s].server = "open" /\ link[s].up # <<>>
      /\ link' = [r \in Sockets |-> g(r)]
      /\ chatIds' = IF m.chat > chatIds THEN m.chat ELSE chatIds
      /\ UNCHANGED <<page, connections, stored, posted, losses, due, disturbed, unaddressed>>
  BY DEF Relay, ChatIdFor, Recipients, historyVars
<1>3. h \in AnyMessage /\ Tail(link[s].up) \in Seq(AnyMessage)
  BY <1>1, <1>2, LinkFacts, TailPart
<1> HIDE DEF h
<1>4. c \in Nat
  BY <1>1, <1>3, MessageFacts DEF Types
<1> HIDE DEF c
<1>5. m \in AnyMessage /\ m.op = h.op /\ m.from = h.from /\ m.text = h.text /\ m.chat = c
  BY <1>3, <1>4 DEF AnyMessage
<1> HIDE DEF m
<1>6. ASSUME NEW r \in Sockets
      PROVE  /\ g(r) \in LinkState
             /\ g(r).client = link[r].client /\ g(r).server = link[r].server
             /\ g(r).whole = link[r].whole
             /\ g(r).up = IF r = s THEN Tail(link[s].up) ELSE link[r].up
             /\ g(r).down = IF r \in Recipients(m) /\ link[r].whole
                              THEN Append(link[r].down, m) ELSE link[r].down
  <2> DEFINE l == IF r = s THEN [link[r] EXCEPT !.up = Tail(@)] ELSE link[r]
  <2>1. /\ l \in LinkState /\ l.client = link[r].client /\ l.server = link[r].server
        /\ l.whole = link[r].whole /\ l.down = link[r].down
        /\ l.up = IF r = s THEN Tail(link[s].up) ELSE link[r].up
    BY <1>1, <1>3, LinkFacts DEF LinkState
  <2>2. Append(link[r].down, m) \in Seq(AnyMessage)
    BY <1>1, <1>5, LinkFacts, Appended
  <2>3. g(r) = IF r \in Recipients(m) /\ l.whole
                 THEN [l EXCEPT !.down = Append(link[r].down, m)] ELSE l
    BY <2>1
  <2> HIDE DEF l, g
  <2> QED  BY <2>1, <2>2, <2>3 DEF LinkState
<1> HIDE DEF g
<1>7. link' \in [Sockets -> LinkState] /\ \A r \in Sockets : link'[r] = g(r)
  BY <1>2, <1>6
<1>8. Types'
  <2>1. chatIds' \in Nat
    BY <1>1, <1>2, <1>4, <1>5 DEF Types
  <2> QED  BY <1>1, <1>2, <1>7, <2>1 DEF Types
<1>9. Connected'
  <2>1. link[s].client # "none"
    BY <1>2 DEF Connected, LinkInv
  <2>2. \A v \in Pages : SameSockets(v)
    BY <1>2 DEF SameSockets
  <2>3. \A r \in Sockets :
          /\ SameConnection(r)
          /\ link[r].client = "none" => link'[r].up = link[r].up
          /\ link'[r].down # <<>> => link[r].down # <<>> \/ link[r].whole
    BY <2>1, <1>6, <1>7 DEF SameConnection
  <2> QED  BY <1>2, <1>8, <2>2, <2>3, SameConnections
<1> QED  BY <1>2, <1>3, <1>5, <1>6, <1>7, <1>9 DEF h, c, SameConnection

(* A page loaded again: it has no socket that is not closed any more.      *)
LEMMA ReloadEffect ==
    ASSUME Connected, NEW t \in Pages, Reload(t)
    PROVE  /\ Connected'
           /\ UNCHANGED <<connections, stored, chatIds, posted, unaddressed>>
           /\ \A v \in Pages : v # t => page'[v] = page[v] /\ due'[v] = due[v]
           /\ page'[t].queue = <<>> /\ page'[t].pending = <<>>
           /\ page'[t].chats = stored[Owner[t]] /\ page'[t].ws = NoSocket
           /\ due'[t] = {}
           /\ disturbed' = IF due[t] # {} THEN disturbed \cup {Owner[t]} ELSE disturbed
           /\ \A r \in Sockets :
                /\ link'[r].up = link[r].up
                /\ r[1] = t => link'[r].down = <<>>
                /\ r[1] # t => link'[r] = link[r]
<1>1. Types
  BY DEF Connected
<1> DEFINE p == [MountedPage(stored[Owner[t]]) EXCEPT !.opened = page[t].opened]
<1> DEFINE g(s) == IF s[1] = t /\ link[s].client \in {"connecting", "open"}
                     THEN [link[s] EXCEPT !.client = "closed", !.whole = FALSE, !.down = <<>>]
                     ELSE link[s]
<1>2. /\ posted + losses < MaxEvents /\ losses' = losses + 1
      /\ page' = [page EXCEPT ![t] = p]
      /\ link' = [s \in Sockets |-> g(s)]
      /\ due' = [due EXCEPT ![t] = {}]
      /\ disturbed' = IF due[t] # {} THEN disturbed \cup {Owner[t]} ELSE disturbed
      /\ UNCHANGED <<connections, stored, chatIds, posted, unaddressed>>
  BY DEF Reload, RestoredChats, Disturb
<1>3. /\ p \in PageState /\ p.ws = NoSocket /\ p.opened = page[t].opened /\ p.connecting
      /\ p.pending = <<>> /\ p.queue = <<>> /\ p.chats = stored[Owner[t]]
  <2>1. /\ page[t].opened \in Nat /\ stored[Owner[t]] \in Seq(AnyEntry)
        /\ NoSocket \in 0 .. MaxEvents + 1
    BY <1>1, PageFacts, ChatAssumption DEF NoSocket
  <2>2. <<>> \in Seq(AnyText) /\ <<>> \in Seq(AnyMessage)
    BY EmptySeq
  <2> QED  BY <2>1, <2>2 DEF PageState, MountedPage
<1>4. ASSUME NEW r \in Sockets
      PROVE  /\ g(r) \in LinkState
             /\ g(r).up = link[r].up /\ g(r).server = link[r].server
             /\ r[1] = t /\ Live(r) =>
                  g(r).client = "closed" /\ g(r).whole = FALSE /\ g(r).down = <<>>
             /\ r[1] # t \/ ~Live(r) => g(r) = link[r]
  <2>1. <<>> \in Seq(AnyMessage)
    BY EmptySeq
  <2> QED  BY <1>1, <2>1, LinkFacts DEF LinkState, Live
<1> HIDE DEF p, g
<1>5. /\ page' \in [Pages -> PageState] /\ page'[t] = p
      /\ \A v \in Pages : v # t => page'[v] = page[v]
  BY <1>1, <1>2, <1>3, OnePage
<1>6. link' \in [Sockets -> LinkState] /\ \A r \in Sockets : link'[r] = g(r)
  BY <1>2, <1>4
<1>7. /\ due' \in [Pages -> SUBSET AnyText] /\ due'[t] = {}
      /\ \A v \in Pages : v # t => due'[v] = due[v]
  BY <1>1, <1>2 DEF Types
<1>8. Types'
  <2>1. losses' \in Nat /\ posted + losses' <= MaxEvents
    BY <1>1, <1>2, ChatAssumption DEF Types
  <2>2. disturbed' \in SUBSET Users
    BY <1>1, <1>2, PageFacts DEF Types
  <2> QED  BY <1>1, <1>2, <1>5, <1>6, <1>7, <2>1, <2>2 DEF Types
<1>9. ASSUME NEW r \in Sockets  PROVE  LinkInv(r)' /\ (r[1] = t => link'[r].down = <<>>)
  <2>1. LinkInv(r) /\ r[1] \in Pages
    BY <1>1, LinkFacts DEF Connected
  <2>2. CASE r[1] = t /\ Live(r)
    BY <2>1, <2>2, <1>2, <1>3, <1>4, <1>5, <1>6 DEF LinkInv, Live, User
  <2>3. CASE r[1] = t /\ ~Live(r)
    BY <2>1, <2>3, <1>2, <1>3, <1>4, <1>5, <1>6 DEF LinkInv, Live, User
  <2>4. CASE r[1] # t
    <3>1. link'[r] = link[r] /\ page'[r[1]] = page[r[1]]
      BY <2>1, <2>4, <1>4, <1>5, <1>6
    <3> QED  BY <2>1, <2>4, <3>1, <1>2 DEF LinkInv, Live, User
  <2> QED  BY <2>2, <2>3, <2>4
<1>10. Connected'
  <2>1. \A v \in Pages : page'[v].ws <= page'[v].opened
    BY <1>1, <1>3, <1>5, PageFacts DEF Connected, NoSocket
  <2> QED  BY <1>8, <1>9, <2>1 DEF Connected
<1> QED  BY <1>2, <1>3, <1>4, <1>5, <1>6, <1>7, <1>9, <1>10
-----------------------------------------------------------------------------
(* Messages and entries come from where they say they come from.           *)

(* A stretch has no other elements than the whole.                         *)
LEMMA PartInSeq ==
    ASSUME NEW S, NEW T, NEW old \in Seq(S), NEW new \in Seq(T), Part(new, old)
    PROVE  new \in Seq(S)
<1>1. PICK k \in Nat : \A i \in 1 .. Len(new) : i + k \in 1 .. Len(old) /\ new[i] = old[i + k]
  BY DEF Part
<1>2. \A i \in 1 .. Len(old) : old[i] \in S
  BY ElementOfSeq
<1>3. \A i \in 1 .. Len(new) : new[i] \in S
  BY <1>1, <1>2
<1>4. Len(new) \in Nat /\ new \in [1 .. Len(new) -> T]
  BY LenProperties
<1>5. new \in [1 .. Len(new) -> S]
  BY <1>3, <1>4
<1> QED  BY <1>4, <1>5, SeqDef

(* What was genuine is so when more has been posted.                       *)
LEMMA MoreIsGenuine ==
    ASSUME NEW n \in Nat, NEW c \in Nat, NEW k \in Nat, NEW d \in Nat, n <= k, c <= d, NEW t
    PROVE  /\ UpMessages(t, n, c) \subseteq UpMessages(t, k, d)
           /\ DownMessages(n, c) \subseteq DownMessages(k, d)
           /\ QueueMessages(t, n, c) \subseteq QueueMessages(t, k, d)
           /\ Plaintexts(t, n) \subseteq Plaintexts(t, k)
           /\ Entries(n, c) \subseteq Entries(k, d)
<1>1. 1 .. n \subseteq 1 .. k /\ 0 .. c \subseteq 0 .. d
  OBVIOUS
<1>2. \A m : Genuine(m, n, c) => Genuine(m, k, d)
  BY <1>1 DEF Genuine
<1> QED  BY <1>1, <1>2 DEF UpMessages, DownMessages, QueueMessages, Plaintexts, Entries

(* What the invariant says of one page and one socket.                     *)
LEMMA GenuinePage ==
    ASSUME Types, GenuineInv, NEW t \in Pages
    PROVE  /\ page[t].queue \in Seq(QueueMessages(t, posted, chatIds))
           /\ page[t].pending \in Seq(Plaintexts(t, posted))
           /\ page[t].chats \in Seq(Entries(posted, chatIds))
           /\ Owner[t] \in Users /\ stored[Owner[t]] \in Seq(Entries(posted, chatIds))
           /\ posted \in Nat /\ chatIds \in Nat
  BY PageFacts DEF GenuineInv, Types

(* The same of one socket.                                                 *)
LEMMA GenuineLink ==
    ASSUME Types, GenuineInv, NEW s \in Sockets
    PROVE  /\ link[s].up \in Seq(UpMessages(s[1], posted, chatIds))
           /\ link[s].down \in Seq(DownMessages(posted, chatIds))
  BY DEF GenuineInv

(* What is left of genuine messages is genuine.                            *)
LEMMA QuietGenuine ==
    ASSUME Connected, Connected', GenuineInv, Quiet
    PROVE  GenuineInv'
<1>1. Types /\ Types'
  BY DEF Connected
<1>2. UNCHANGED <<posted, chatIds, stored>>
  BY DEF Quiet
<1>3. ASSUME NEW s \in Sockets
      PROVE  /\ link'[s].up \in Seq(UpMessages(s[1], posted, chatIds))
             /\ link'[s].down \in Seq(DownMessages(posted, chatIds))
  <2>1. link'[s].up \in Seq(AnyMessage) /\ link'[s].down \in Seq(AnyMessage)
    BY <1>1 DEF Types, LinkState
  <2>2. Part(link'[s].up, link[s].up) /\ Part(link'[s].down, link[s].down)
    BY DEF Quiet
  <2> QED  BY <1>1, <2>1, <2>2, GenuineLink, PartInSeq
<1>4. ASSUME NEW t \in Pages
      PROVE  /\ page'[t].queue \in Seq(QueueMessages(t, posted, chatIds))
             /\ page'[t].pending = page[t].pending /\ page'[t].chats = page[t].chats
  <2>1. page'[t].queue \in Seq(AnyMessage)
    BY <1>1 DEF Types, PageState
  <2>2. /\ Part(page'[t].queue, page[t].queue)
        /\ page'[t].pending = page[t].pending /\ page'[t].chats = page[t].chats
    BY DEF Quiet
  <2> QED  BY <1>1, <2>1, <2>2, GenuinePage, PartInSeq
<1> QED  BY <1>2, <1>3, <1>4 DEF GenuineInv

(* A new message has its page, its number and a chat that was heard of.    *)
LEMMA PostGenuine ==
    ASSUME Connected, GenuineInv, NEW t \in Pages, Post(t)
    PROVE  GenuineInv'
<1>1. Types /\ posted \in Nat /\ chatIds \in Nat /\ t \in Pages
  BY DEF Connected, Types
<1> DEFINE n == posted + 1
<1>2. n \in Nat /\ posted <= n /\ chatIds <= chatIds
  BY <1>1
<1>3. /\ posted' = n /\ UNCHANGED <<link, stored, chatIds>>
      /\ \A v \in Pages :
           /\ page'[v].chats = page[v].chats /\ page'[v].pending = page[v].pending
           /\ v # t => page'[v].queue = page[v].queue
  BY PostEffect
<1>4. PICK m \in AnyMessage :
        /\ m.op = "encrypt" /\ m.from = Owner[t] /\ m.text = <<t, n>>
        /\ m.chat = SelectedChatId(t)
        /\ page'[t].queue = Append(page[t].queue, m)
  BY PostEffect
<1>5. SelectedChatId(t) \in 0 .. chatIds
  <2>1. page[t].chats # <<>> => Head(page[t].chats) \in Entries(posted, chatIds)
    BY <1>1, GenuinePage, TailPart
  <2> QED  BY <1>1, <2>1 DEF SelectedChatId, NoChatId, Entries, Genuine
<1>6. m \in QueueMessages(t, n, chatIds)
  BY <1>1, <1>2, <1>4, <1>5 DEF QueueMessages, Genuine
<1> HIDE DEF n
<1>7. ASSUME NEW v \in Pages
      PROVE  /\ UpMessages(v, posted, chatIds) \subseteq UpMessages(v, n, chatIds)
             /\ QueueMessages(v, posted, chatIds) \subseteq QueueMessages(v, n, chatIds)
             /\ Plaintexts(v, posted) \subseteq Plaintexts(v, n)
             /\ DownMessages(posted, chatIds) \subseteq DownMessages(n, chatIds)
             /\ Entries(posted, chatIds) \subseteq Entries(n, chatIds)
  BY <1>1, <1>2, MoreIsGenuine
<1>8. ASSUME NEW s \in Sockets
      PROVE  /\ link[s].up \in Seq(UpMessages(s[1], n, chatIds))
             /\ link[s].down \in Seq(DownMessages(n, chatIds))
  <2>1. s[1] \in Pages
    BY <1>1, LinkFacts
  <2> QED  BY <1>1, <1>7, <2>1, GenuineLink, SeqMonotonic
<1>9. ASSUME NEW v \in Pages
      PROVE  /\ page[v].queue \in Seq(QueueMessages(v, n, chatIds))
             /\ page[v].pending \in Seq(Plaintexts(v, n))
             /\ page[v].chats \in Seq(Entries(n, chatIds))
  BY <1>1, <1>7, GenuinePage, SeqMonotonic
<1>10. ASSUME NEW u \in Users  PROVE  stored[u] \in Seq(Entries(n, chatIds))
  <2>1. stored[u] \in Seq(Entries(posted, chatIds))
    BY DEF GenuineInv
  <2> QED  BY <1>1, <1>7, <2>1, SeqMonotonic
<1>11. page'[t].queue \in Seq(QueueMessages(t, n, chatIds))
  BY <1>4, <1>6, <1>9, Appended
<1> QED  BY <1>3, <1>8, <1>9, <1>10, <1>11 DEF GenuineInv

(* What goes up is what was posted.                                        *)
LEMMA EncryptedGenuine ==
    ASSUME Connected, GenuineInv, NEW t \in Pages, Encrypted(t)
    PROVE  GenuineInv'
<1>1. Types /\ Head(page[t].queue).op = "encrypt" /\ page[t].queue # <<>>
  BY EncryptedEffect DEF Connected
<1> DEFINE h == Head(page[t].queue)
<1> DEFINE m == [h EXCEPT !.op = "decrypt"]
<1>2. h \in QueueMessages(t, posted, chatIds)
      /\ Tail(page[t].queue) \in Seq(QueueMessages(t, posted, chatIds))
  BY <1>1, GenuinePage, TailPart
<1>3. h.text \in Plaintexts(t, posted) /\ m \in UpMessages(t, posted, chatIds)
  <2>1. /\ h \in AnyMessage /\ Genuine(h, posted, chatIds) /\ h.op = "encrypt" /\ h.text[1] = t
        /\ h.text \in AnyText
    BY <1>1, <1>2, MessageFacts DEF QueueMessages
  <2>2. /\ m \in AnyMessage /\ m.op = "decrypt" /\ m.text = h.text /\ m.from = h.from
        /\ m.chat = h.chat
    BY <2>1 DEF AnyMessage
  <2> HIDE DEF m, h
  <2> QED  BY <2>1, <2>2 DEF Plaintexts, UpMessages, Genuine
<1> HIDE DEF h, m
<1>4. /\ UNCHANGED <<stored, chatIds, posted>>
      /\ page'[t].queue = Tail(page[t].queue)
      /\ page'[t].pending = Append(page[t].pending, h.text)
      /\ \A v \in Pages :
           /\ page'[v].chats = page[v].chats
           /\ v # t => page'[v].queue = page[v].queue /\ page'[v].pending = page[v].pending
      /\ \A r \in Sockets :
           /\ link'[r].down = link[r].down
           /\ r # Current(t) \/ ~Sent(t) => link'[r].up = link[r].up
      /\ Sent(t) => link'[Current(t)].up = Append(link[Current(t)].up, m)
  BY EncryptedEffect DEF h, m
<1>5. ASSUME NEW v \in Pages
      PROVE  /\ page'[v].queue \in Seq(QueueMessages(v, posted, chatIds))
             /\ page'[v].pending \in Seq(Plaintexts(v, posted))
             /\ page'[v].chats \in Seq(Entries(posted, chatIds))
  <2>1. CASE v = t
    <3>1. Append(page[t].pending, h.text) \in Seq(Plaintexts(t, posted))
      BY <1>1, <1>3, GenuinePage, Appended
    <3> QED  BY <1>1, <1>2, <1>4, <2>1, <3>1, GenuinePage
  <2>2. CASE v # t
    BY <1>1, <1>4, <2>2, GenuinePage
  <2> QED  BY <2>1, <2>2
<1>6. ASSUME NEW s \in Sockets
      PROVE  /\ link'[s].up \in Seq(UpMessages(s[1], posted, chatIds))
             /\ link'[s].down \in Seq(DownMessages(posted, chatIds))
  <2>1. CASE s = Current(t) /\ Sent(t)
    <3>1. s[1] = t
      BY <2>1 DEF Current
    <3>2. link[s].up \in Seq(UpMessages(t, posted, chatIds))
      BY <1>1, <3>1, GenuineLink
    <3>3. Append(link[s].up, m) \in Seq(UpMessages(t, posted, chatIds))
      BY <1>3, <3>2, Appended
    <3> QED  BY <1>1, <1>4, <2>1, <3>1, <3>3, GenuineLink
  <2>2. CASE ~(s = Current(t) /\ Sent(t))
    BY <1>1, <1>4, <2>2, GenuineLink
  <2> QED  BY <2>1, <2>2
<1> QED  BY <1>4, <1>5, <1>6 DEF GenuineInv

(* The relay gives a message a chat id it has drawn.                       *)
LEMMA RelayGenuine ==
    ASSUME Connected, GenuineInv, NEW s \in Sockets, Relay(s)
    PROVE  GenuineInv'
<1>1. /\ Types /\ posted \in Nat /\ chatIds \in Nat /\ s[1] \in Pages
      /\ link[s].up # <<>>
  BY RelayEffect, LinkFacts DEF Connected, Types
<1> DEFINE h == Head(link[s].up)
<1>2. h \in UpMessages(s[1], posted, chatIds)
      /\ Tail(link[s].up) \in Seq(UpMessages(s[1], posted, chatIds))
  BY <1>1, GenuineLink, TailPart
<1> HIDE DEF h
<1>3. PICK m \in AnyMessage :
        /\ m.op = h.op /\ m.from = h.from /\ m.text = h.text
        /\ m.chat = IF h.chat = NoChatId THEN chatIds + 1 ELSE h.chat
        /\ chatIds' = IF m.chat > chatIds THEN m.chat ELSE chatIds
        /\ \A r \in Sockets :
             link'[r].down = IF r \in Recipients(m) /\ link[r].whole
                               THEN Append(link[r].down, m) ELSE link[r].down
  BY RelayEffect DEF h
<1>4. /\ UNCHANGED <<page, stored, posted>>
      /\ link'[s].up = Tail(link[s].up)
      /\ \A r \in Sockets : r # s => link'[r].up = link[r].up
  BY RelayEffect
<1>5. /\ h.op = "decrypt" /\ h.from = Owner[h.text[1]] /\ h.text[2] \in 1 .. posted
      /\ h.chat \in 0 .. chatIds
  BY <1>2 DEF UpMessages, Genuine
<1>6. /\ m.chat \in 1 .. chatIds' /\ chatIds' \in Nat /\ chatIds <= chatIds'
      /\ chatIds' = IF h.chat = NoChatId THEN chatIds + 1 ELSE chatIds
  BY <1>1, <1>3, <1>5 DEF NoChatId
<1>7. m \in DownMessages(posted, chatIds')
  BY <1>3, <1>5, <1>6 DEF DownMessages, Genuine, NoChatId
<1>8. PICK c \in Nat : c = chatIds' /\ chatIds <= c
  BY <1>6
<1>9. ASSUME NEW v \in Pages
      PROVE  /\ UpMessages(v, posted, chatIds) \subseteq UpMessages(v, posted, c)
             /\ QueueMessages(v, posted, chatIds) \subseteq QueueMessages(v, posted, c)
             /\ DownMessages(posted, chatIds) \subseteq DownMessages(posted, c)
             /\ Entries(posted, chatIds) \subseteq Entries(posted, c)
  BY <1>1, <1>8, MoreIsGenuine, SMTT(30)
<1>10. ASSUME NEW r \in Sockets
       PROVE  /\ link'[r].up \in Seq(UpMessages(r[1], posted, c))
              /\ link'[r].down \in Seq(DownMessages(posted, c))
  <2>1. r[1] \in Pages
    BY <1>1, LinkFacts
  <2>2. link[r].up \in Seq(UpMessages(r[1], posted, c)) /\ link[r].down \in Seq(DownMessages(posted, c))
    BY <1>1, <1>9, <2>1, GenuineLink, SeqMonotonic
  <2>3. Tail(link[s].up) \in Seq(UpMessages(s[1], posted, c))
    BY <1>1, <1>2, <1>9, SeqMonotonic
  <2>4. Append(link[r].down, m) \in Seq(DownMessages(posted, c))
    BY <1>7, <1>8, <2>2, Appended
  <2>5. link'[r].up \in Seq(UpMessages(r[1], posted, c))
    BY <1>4, <2>2, <2>3
  <2>6. link'[r].down \in Seq(DownMessages(posted, c))
    BY <1>3, <2>2, <2>4
  <2> QED  BY <2>5, <2>6
<1>11. ASSUME NEW v \in Pages
       PROVE  /\ page[v].queue \in Seq(QueueMessages(v, posted, c))
              /\ page[v].pending \in Seq(Plaintexts(v, posted))
              /\ page[v].chats \in Seq(Entries(posted, c))
  BY <1>1, <1>9, GenuinePage, SeqMonotonic
<1>12. ASSUME NEW u \in Users  PROVE  stored[u] \in Seq(Entries(posted, c))
  <2>1. stored[u] \in Seq(Entries(posted, chatIds))
    BY DEF GenuineInv
  <2> QED  BY <1>1, <1>9, <2>1, SeqMonotonic
<1> QED  BY <1>4, <1>8, <1>10, <1>11, <1>12 DEF GenuineInv

(* The entry of an echo is genuine.                                        *)
LEMMA ReceiveEchoGenuine ==
    ASSUME Connected, GenuineInv, NEW s \in Sockets, ReceiveEcho(s)
    PROVE  GenuineInv'
<1>1. Types /\ s[1] \in Pages
  BY LinkFacts DEF Connected
<1> DEFINE t == s[1]
<1>2. /\ UNCHANGED <<chatIds, posted>>
      /\ link[s].down # <<>> /\ Arrival(s) = Head(link[s].down) /\ Arrival(s).from = User(s)
      /\ link'[s].down = Tail(link[s].down)
      /\ \A r \in Sockets :
           /\ link'[r].up = link[r].up
           /\ r # s => link'[r].down = link[r].down
      /\ \A v \in Pages : v # t => page'[v] = page[v]
      /\ page'[t].queue = page[t].queue
      /\ page'[t].pending = IF page[t].pending = <<>> THEN <<>> ELSE Tail(page[t].pending)
      /\ stored'[Owner[t]] = page'[t].chats
      /\ \A u \in Users : u # Owner[t] => stored'[u] = stored[u]
  BY <1>1, ReceiveEchoEffect
<1>3. PICK e \in AnyEntry :
        /\ e.chat = Arrival(s).chat /\ e.from = Arrival(s).from
        /\ e.text = Arrival(s).text
        /\ e.as = IF page[t].pending = <<>> THEN NoPlaintext ELSE Head(page[t].pending)
        /\ page'[t].chats = Append(page[t].chats, e)
  BY <1>1, ReceiveEchoEffect
<1>4. Arrival(s) \in DownMessages(posted, chatIds)
      /\ Tail(link[s].down) \in Seq(DownMessages(posted, chatIds))
  BY <1>1, <1>2, GenuineLink, TailPart
<1>5. page[t].pending # <<>> =>
        /\ Head(page[t].pending) \in Plaintexts(t, posted)
        /\ Tail(page[t].pending) \in Seq(Plaintexts(t, posted))
  BY <1>1, GenuinePage, TailPart
<1>6. e \in Entries(posted, chatIds)
  BY <1>3, <1>4, <1>5 DEF Entries, DownMessages, Genuine, Plaintexts
<1>7. page'[t].chats \in Seq(Entries(posted, chatIds))
  BY <1>1, <1>3, <1>6, GenuinePage, Appended
<1>8. page'[t].pending \in Seq(Plaintexts(t, posted))
  BY <1>2, <1>5, EmptySeq
<1> HIDE DEF t
<1>9. ASSUME NEW v \in Pages
      PROVE  /\ page'[v].queue \in Seq(QueueMessages(v, posted, chatIds))
             /\ page'[v].pending \in Seq(Plaintexts(v, posted))
             /\ page'[v].chats \in Seq(Entries(posted, chatIds))
  BY <1>1, <1>2, <1>7, <1>8, GenuinePage
<1>10. ASSUME NEW r \in Sockets
       PROVE  /\ link'[r].up \in Seq(UpMessages(r[1], posted, chatIds))
              /\ link'[r].down \in Seq(DownMessages(posted, chatIds))
  BY <1>1, <1>2, <1>4, GenuineLink
<1>11. \A u \in Users : stored'[u] \in Seq(Entries(posted, chatIds))
  BY <1>2, <1>7 DEF GenuineInv
<1> QED  BY <1>2, <1>9, <1>10, <1>11 DEF GenuineInv

(* So is a message that joins the queue.                                   *)
LEMMA ReceiveMessageGenuine ==
    ASSUME Connected, GenuineInv, NEW s \in Sockets, ReceiveMessage(s)
    PROVE  GenuineInv'
<1>1. Types /\ s[1] \in Pages
  BY LinkFacts DEF Connected
<1> DEFINE t == s[1]
<1>2. /\ UNCHANGED <<stored, chatIds, posted>>
      /\ link[s].down # <<>> /\ Arrival(s) = Head(link[s].down) /\ Arrival(s).from # User(s)
      /\ link'[s].down = Tail(link[s].down)
      /\ \A r \in Sockets :
           /\ link'[r].up = link[r].up
           /\ r # s => link'[r].down = link[r].down
      /\ \A v \in Pages :
           /\ page'[v].chats = page[v].chats /\ page'[v].pending = page[v].pending
           /\ v # t => page'[v].queue = page[v].queue
      /\ page'[t].queue = Append(page[t].queue, Arrival(s))
  BY <1>1, ReceiveMessageEffect
<1>3. Arrival(s) \in DownMessages(posted, chatIds)
      /\ Tail(link[s].down) \in Seq(DownMessages(posted, chatIds))
  BY <1>1, <1>2, GenuineLink, TailPart
<1>4. Arrival(s) \in QueueMessages(t, posted, chatIds)
  BY <1>2, <1>3 DEF DownMessages, QueueMessages, User
<1>5. page'[t].queue \in Seq(QueueMessages(t, posted, chatIds))
  BY <1>1, <1>2, <1>4, GenuinePage, Appended
<1> HIDE DEF t
<1>6. ASSUME NEW v \in Pages
      PROVE  /\ page'[v].queue \in Seq(QueueMessages(v, posted, chatIds))
             /\ page'[v].pending \in Seq(Plaintexts(v, posted))
             /\ page'[v].chats \in Seq(Entries(posted, chatIds))
  BY <1>1, <1>2, <1>5, GenuinePage
<1>7. ASSUME NEW r \in Sockets
      PROVE  /\ link'[r].up \in Seq(UpMessages(r[1], posted, chatIds))
             /\ link'[r].down \in Seq(DownMessages(posted, chatIds))
  BY <1>1, <1>2, <1>3, GenuineLink
<1> QED  BY <1>2, <1>6, <1>7 DEF GenuineInv

(* So is the entry of a message that was decrypted.                        *)
LEMMA DecryptedGenuine ==
    ASSUME Connected, GenuineInv, NEW t \in Pages, Decrypted(t)
    PROVE  GenuineInv'
<1>1. Types
  BY DEF Connected
<1>2. /\ UNCHANGED <<link, chatIds, posted>>
      /\ page[t].queue # <<>> /\ Head(page[t].queue).op = "decrypt"
      /\ page'[t].queue = Tail(page[t].queue) /\ page'[t].pending = page[t].pending
      /\ \A v \in Pages : v # t => page'[v] = page[v]
      /\ stored'[Owner[t]] = page'[t].chats
      /\ \A u \in Users : u # Owner[t] => stored'[u] = stored[u]
  BY DecryptedEffect
<1> DEFINE h == Head(page[t].queue)
<1>3. h \in QueueMessages(t, posted, chatIds)
      /\ Tail(page[t].queue) \in Seq(QueueMessages(t, posted, chatIds))
  BY <1>1, <1>2, GenuinePage, TailPart
<1>4. PICK e \in AnyEntry :
        /\ e.chat = h.chat /\ e.from = h.from /\ e.text = h.text /\ e.as = e.text
        /\ page'[t].chats = Append(page[t].chats, e)
  BY DecryptedEffect
<1>5. e \in Entries(posted, chatIds)
  BY <1>2, <1>3, <1>4 DEF Entries, QueueMessages, Genuine
<1> HIDE DEF h
<1>6. page'[t].chats \in Seq(Entries(posted, chatIds))
  BY <1>1, <1>4, <1>5, GenuinePage, Appended
<1>7. ASSUME NEW v \in Pages
      PROVE  /\ page'[v].queue \in Seq(QueueMessages(v, posted, chatIds))
             /\ page'[v].pending \in Seq(Plaintexts(v, posted))
             /\ page'[v].chats \in Seq(Entries(posted, chatIds))
  BY <1>1, <1>2, <1>3, <1>6, GenuinePage
<1>8. \A u \in Users : stored'[u] \in Seq(Entries(posted, chatIds))
  BY <1>2, <1>6 DEF GenuineInv
<1> QED  BY <1>2, <1>7, <1>8 DEF GenuineInv

(* So is what is loaded again.                                             *)
LEMMA ReloadGenuine ==
    ASSUME Connected, GenuineInv, NEW t \in Pages, Reload(t)
    PROVE  GenuineInv'
<1>1. Types
  BY DEF Connected
<1>2. /\ UNCHANGED <<stored, chatIds, posted>>
      /\ \A v \in Pages : v # t => page'[v] = page[v]
      /\ page'[t].queue = <<>> /\ page'[t].pending = <<>>
      /\ page'[t].chats = stored[Owner[t]]
      /\ \A r \in Sockets :
           /\ link'[r].up = link[r].up
           /\ r[1] = t => link'[r].down = <<>>
           /\ r[1] # t => link'[r] = link[r]
  BY ReloadEffect
<1>3. ASSUME NEW v \in Pages
      PROVE  /\ page'[v].queue \in Seq(QueueMessages(v, posted, chatIds))
             /\ page'[v].pending \in Seq(Plaintexts(v, posted))
             /\ page'[v].chats \in Seq(Entries(posted, chatIds))
  BY <1>1, <1>2, GenuinePage, EmptySeq
<1>4. ASSUME NEW r \in Sockets
      PROVE  /\ link'[r].up \in Seq(UpMessages(r[1], posted, chatIds))
             /\ link'[r].down \in Seq(DownMessages(posted, chatIds))
  BY <1>1, <1>2, GenuineLink, EmptySeq
<1> QED  BY <1>2, <1>3, <1>4 DEF GenuineInv
-----------------------------------------------------------------------------
(* Numbers and order of the messages the relay has not seen yet.           *)

(* Sizes of sets that differ by one element.                               *)
LEMMA CardDrop ==
    ASSUME NEW A, NEW B, NEW n, IsFiniteSet(A), n \in A, B \subseteq A \ {n}
    PROVE  /\ Cardinality(B) \in Nat /\ Cardinality(A) \in Nat
           /\ Cardinality(B) + 1 <= Cardinality(A)
<1>1. /\ Cardinality(A) \in Nat /\ IsFiniteSet(A \ {n})
      /\ Cardinality(A \ {n}) = Cardinality(A) - 1
  BY FS_RemoveElement, FS_CardinalityType
<1>2. IsFiniteSet(B) /\ Cardinality(B) <= Cardinality(A \ {n})
  BY <1>1, FS_Subset
<1>3. Cardinality(B) \in Nat /\ Cardinality(A \ {n}) \in Nat
  BY <1>1, <1>2, FS_CardinalityType
<1> QED  BY <1>1, <1>2, <1>3

(* The same when an element may have come.                                 *)
LEMMA CardGrow ==
    ASSUME NEW A, NEW B, NEW n, IsFiniteSet(A), B \subseteq A \cup {n}
    PROVE  /\ Cardinality(B) \in Nat /\ Cardinality(A) \in Nat
           /\ Cardinality(B) <= Cardinality(A) + 1
           /\ B \subseteq A => Cardinality(B) <= Cardinality(A)
<1>1. /\ Cardinality(A) \in Nat /\ IsFiniteSet(A \cup {n})
      /\ Cardinality(A \cup {n}) <= Cardinality(A) + 1
  <2>1. Cardinality(A) \in Nat
    BY FS_CardinalityType
  <2>2. /\ IsFiniteSet(A \cup {n})
        /\ Cardinality(A \cup {n}) = Cardinality(A) \/ Cardinality(A \cup {n}) = Cardinality(A) + 1
    BY FS_AddElement
  <2> QED  BY <2>1, <2>2
<1>2. IsFiniteSet(B) /\ Cardinality(B) <= Cardinality(A \cup {n})
  BY <1>1, FS_Subset
<1>3. Cardinality(B) \in Nat /\ Cardinality(A \cup {n}) \in Nat
  BY <1>1, <1>2, FS_CardinalityType
<1>4. B \subseteq A => Cardinality(B) <= Cardinality(A)
  BY FS_Subset
<1> QED  BY <1>1, <1>2, <1>3, <1>4

(* What is counted is finite.                                              *)
LEMMA CountedAreFinite ==
    ASSUME posted \in Nat
    PROVE  IsFiniteSet(Waiting) /\ IsFiniteSet(Chatless)
<1>1. IsFiniteSet(1 .. posted)
  BY FS_Interval
<1>2. Waiting \subseteq 1 .. posted /\ Chatless \subseteq 1 .. posted
  BY DEF Waiting, Chatless
<1> QED  BY <1>1, <1>2, FS_Subset

(* Messages that wait to be encrypted, and those up to the relay, leave.   *)
Fewer ==
    \A t \in Pages :
        /\ Kept(page'[t].queue, page[t].queue, t)
        /\ \A s \in SocketsOf(t) : Kept(link'[s].up, link[s].up, t)

(* A quiet step lets nothing come.                                         *)
LEMMA QuietIsFewer ==
    ASSUME Quiet
    PROVE  Fewer
  BY PartKeeps DEF Quiet, Fewer, SocketsOf

(* The messages up from a page are its own.                                *)
LEMMA UpIsOwn ==
    ASSUME Connected, GenuineInv, NEW t \in Pages, NEW s \in SocketsOf(t),
           NEW i \in 1 .. Len(link[s].up)
    PROVE  /\ link[s].up[i] \in AnyMessage /\ link[s].up[i].text[1] = t
           /\ link[s].up[i].text[2] \in 1 .. posted
           /\ link[s].up[i].text = <<t, link[s].up[i].text[2]>>
           /\ s \in Sockets /\ s[1] = t /\ s[2] \in Nat /\ s = <<t, s[2]>>
<1>1. Types /\ s \in Sockets /\ s[1] = t
  BY DEF Connected, SocketsOf
<1>2. link[s].up[i] \in UpMessages(s[1], posted, chatIds)
  BY <1>1, GenuineLink, ElementOfSeq
<1>3. link[s].up[i] \in AnyMessage /\ link[s].up[i].text[1] = t
      /\ link[s].up[i].text[2] \in 1 .. posted
  BY <1>1, <1>2 DEF UpMessages, Genuine
<1> QED  BY <1>1, <1>3, MessageFacts, LinkFacts

(* What is on the way to the relay gets less, and stays in order.          *)
LEMMA FewerOnTheWay ==
    ASSUME Connected, Connected', GenuineInv, GenuineInv', Fewer, NEW t \in Pages
    PROVE  /\ UpOrder(t) => UpOrder(t)'
           /\ \A n : InQueue(t, n)' => InQueue(t, n)
           /\ \A n : Up(t, n)' => Up(t, n)
           /\ \A n : UpWithoutChat(t, n)' => UpWithoutChat(t, n)
<1>1. Types /\ Types'
  BY DEF Connected
<1>2. Kept(page'[t].queue, page[t].queue, t)
      /\ Len(page'[t].queue) \in Nat /\ Len(page[t].queue) \in Nat
  <2>1. page'[t].queue \in Seq(AnyMessage)
    BY <1>1 DEF Types, PageState
  <2> QED  BY <1>1, <2>1, PageFacts, LenProperties DEF Fewer
<1>3. ASSUME NEW s \in SocketsOf(t)
      PROVE  Kept(link'[s].up, link[s].up, t) /\ s \in Sockets
             /\ Len(link'[s].up) \in Nat /\ Len(link[s].up) \in Nat
  <2>1. s \in Sockets
    BY DEF SocketsOf
  <2>2. link'[s].up \in Seq(AnyMessage)
    BY <1>1, <2>1 DEF Types, LinkState
  <2> QED  BY <1>1, <2>1, <2>2, LinkFacts, LenProperties DEF Fewer
<1>4. ASSUME UpOrder(t)  PROVE  UpOrder(t)'
  <2>1. Ordered(page[t].queue, t) /\ Ordered(page'[t].queue, t)
    BY <1>2, <1>4, KeptOrdered DEF UpOrder
  <2>2. ASSUME NEW s \in SocketsOf(t)
        PROVE  /\ Ordered(link'[s].up, t)
               /\ Below(link'[s].up, page'[t].queue, t)
               /\ \A r \in SocketsOf(t) : s[2] < r[2] => Below(link'[s].up, link'[r].up, t)
    <3>1. /\ Ordered(link[s].up, t)
          /\ Below(link[s].up, page[t].queue, t)
          /\ \A r \in SocketsOf(t) : s[2] < r[2] => Below(link[s].up, link[r].up, t)
      BY <1>4 DEF UpOrder
    <3>2. Ordered(link'[s].up, t)
      BY <1>3, <3>1, KeptOrdered
    <3>3. Below(link'[s].up, page'[t].queue, t)
      BY <1>2, <1>3, <3>1, KeptBelow
    <3>4. ASSUME NEW r \in SocketsOf(t), s[2] < r[2]  PROVE  Below(link'[s].up, link'[r].up, t)
      BY <1>3, <3>1, <3>4, KeptBelow
    <3> QED  BY <3>2, <3>3, <3>4
  <2> QED  BY <2>1, <2>2 DEF UpOrder, SocketsOf
<1>5. ASSUME NEW n, InQueue(t, n)'  PROVE  InQueue(t, n)
  BY <1>2, <1>5 DEF InQueue, Kept
<1>6. ASSUME NEW s \in SocketsOf(t), NEW i \in 1 .. Len(link'[s].up)
      PROVE  \E j \in 1 .. Len(link[s].up) : link'[s].up[i] = link[s].up[j]
  <2>1. s \in Sockets /\ s[1] = t
    BY DEF SocketsOf
  <2>2. link'[s].up \in Seq(UpMessages(s[1], posted', chatIds'))
    BY <2>1 DEF GenuineInv
  <2>3. link'[s].up[i] \in UpMessages(s[1], posted', chatIds')
    BY <2>2, ElementOfSeq
  <2>4. link'[s].up[i].text[1] = t
    BY <2>1, <2>3 DEF UpMessages
  <2> QED  BY <1>3, <2>4 DEF Kept
<1>7. ASSUME NEW n  PROVE  /\ Up(t, n)' => Up(t, n)
                           /\ UpWithoutChat(t, n)' => UpWithoutChat(t, n)
  <2>1. ASSUME Up(t, n)'  PROVE  Up(t, n)
    <3>1. PICK s \in SocketsOf(t) : \E i \in 1 .. Len(link'[s].up) : link'[s].up[i].text[2] = n
      BY <2>1 DEF Up, SocketsOf
    <3>2. PICK i \in 1 .. Len(link'[s].up) : link'[s].up[i].text[2] = n
      BY <3>1
    <3>3. PICK j \in 1 .. Len(link[s].up) : link[s].up[j].text[2] = n
      BY <3>2, <1>6
    <3> QED  BY <3>3 DEF Up
  <2>2. ASSUME UpWithoutChat(t, n)'  PROVE  UpWithoutChat(t, n)
    <3>1. PICK s \in SocketsOf(t) : \E i \in 1 .. Len(link'[s].up) :
            link'[s].up[i].text[2] = n /\ link'[s].up[i].chat = NoChatId
      BY <2>2 DEF UpWithoutChat, SocketsOf
    <3>2. PICK i \in 1 .. Len(link'[s].up) :
            link'[s].up[i].text[2] = n /\ link'[s].up[i].chat = NoChatId
      BY <3>1
    <3>3. PICK j \in 1 .. Len(link[s].up) :
            link[s].up[j].text[2] = n /\ link[s].up[j].chat = NoChatId
      BY <3>2, <1>6
    <3> QED  BY <3>3 DEF UpWithoutChat
  <2> QED  BY <2>1, <2>2
<1> QED  BY <1>4, <1>5, <1>7

(* So the counts hold, when nothing is numbered or encrypted.              *)
LEMMA FewerCount ==
    ASSUME Connected, Connected', GenuineInv, GenuineInv', CountInv, Fewer,
           UNCHANGED <<posted, chatIds, unaddressed>>
    PROVE  CountInv'
<1>1. /\ posted \in Nat /\ chatIds \in Nat /\ unaddressed \in Nat
  BY DEF Connected, Types
<1>2. OnePagePerNumber'
  BY FewerOnTheWay DEF CountInv, OnePagePerNumber, OnTheWay
<1>3. \A t \in Pages : UpOrder(t)'
  BY FewerOnTheWay DEF CountInv
<1>4. Waiting' \subseteq Waiting /\ Chatless' \subseteq Chatless
  BY FewerOnTheWay DEF Waiting, Chatless
<1>5. /\ Cardinality(Waiting') <= Cardinality(Waiting)
      /\ Cardinality(Chatless') <= Cardinality(Chatless)
      /\ Cardinality(Waiting) \in Nat /\ Cardinality(Chatless) \in Nat
      /\ Cardinality(Waiting') \in Nat /\ Cardinality(Chatless') \in Nat
  BY <1>1, <1>4, CountedAreFinite, FS_Subset, FS_CardinalityType
<1>6. /\ chatIds' + Cardinality(Chatless') <= unaddressed'
      /\ unaddressed' + Cardinality(Waiting') <= posted'
  BY <1>1, <1>5 DEF CountInv
<1> QED  BY <1>2, <1>3, <1>6 DEF CountInv

(* The messages of page t in its queue have numbers that were given out.   *)
LEMMA QueueIsPosted ==
    ASSUME Connected, GenuineInv, NEW t \in Pages, NEW i \in 1 .. Len(page[t].queue)
    PROVE  /\ page[t].queue[i] \in AnyMessage
           /\ page[t].queue[i].from = Owner[page[t].queue[i].text[1]]
           /\ page[t].queue[i].text[2] \in 1 .. posted
           /\ page[t].queue[i].chat \in 0 .. chatIds
<1>1. page[t].queue[i] \in QueueMessages(t, posted, chatIds)
  BY GenuinePage, ElementOfSeq DEF Connected
<1> QED  BY <1>1 DEF QueueMessages, Genuine

(* The number of a new message is new.                                     *)
LEMMA PostCount ==
    ASSUME Connected, GenuineInv, CountInv, NEW t \in Pages, Post(t)
    PROVE  CountInv'
<1>1. Types /\ posted \in Nat /\ chatIds \in Nat /\ unaddressed \in Nat
  BY DEF Connected, Types
<1>2. PICK n \in Nat : n = posted + 1
  BY <1>1
<1>3. /\ posted' = n /\ UNCHANGED <<link, chatIds, unaddressed>>
      /\ \A v \in Pages : v # t => page'[v].queue = page[v].queue
  BY <1>2, PostEffect
<1>4. PICK m \in AnyMessage : m.text = <<t, n>> /\ page'[t].queue = Append(page[t].queue, m)
  BY <1>2, PostEffect
<1>5. m.text[1] = t /\ m.text[2] = n
  BY <1>4
<1>6. /\ page[t].queue \in Seq(AnyMessage)
      /\ Len(page[t].queue) \in Nat /\ Len(page'[t].queue) = Len(page[t].queue) + 1
      /\ \A i \in 1 .. Len(page[t].queue) : page'[t].queue[i] = page[t].queue[i]
      /\ page'[t].queue[Len(page[t].queue) + 1] = m
  BY <1>1, <1>4, PageFacts, Appended
<1>7. Below(page[t].queue, <<m>>, t)
  BY <1>1, <1>2, <1>5, QueueIsPosted, SMTT(30) DEF Below
<1>8. ASSUME NEW s \in SocketsOf(t)  PROVE  Below(link[s].up, <<m>>, t)
  BY <1>1, <1>2, <1>5, UpIsOwn DEF Below
<1>9. ASSUME NEW v \in Pages  PROVE  UpOrder(v)'
  <2>1. UpOrder(v)
    BY DEF CountInv
  <2>2. CASE v # t
    BY <1>3, <2>1, <2>2 DEF UpOrder
  <2>3. CASE v = t
    <3>1. Ordered(page'[t].queue, t)
      BY <1>4, <1>6, <1>7, <2>1, <2>3, AppendOrdered DEF UpOrder
    <3>2. ASSUME NEW s \in SocketsOf(t)  PROVE  Below(link[s].up, page'[t].queue, t)
      BY <1>4, <1>6, <1>8, <2>1, <2>3, AppendBelow DEF UpOrder
    <3> QED  BY <1>3, <2>1, <2>3, <3>1, <3>2 DEF UpOrder
  <2> QED  BY <2>2, <2>3
<1>10. ASSUME NEW v \in Pages, NEW k
       PROVE  /\ InQueue(v, k)' => InQueue(v, k) \/ (v = t /\ k = n)
              /\ Up(v, k)' <=> Up(v, k)
              /\ UpWithoutChat(v, k)' <=> UpWithoutChat(v, k)
  <2>1. ASSUME InQueue(v, k)'  PROVE  InQueue(v, k) \/ (v = t /\ k = n)
    <3>1. PICK i \in 1 .. Len(page'[v].queue) :
            page'[v].queue[i].text[1] = v /\ page'[v].queue[i].text[2] = k
      BY <2>1 DEF InQueue
    <3>2. CASE v # t
      BY <1>3, <3>1, <3>2 DEF InQueue
    <3>3. CASE v = t /\ i = Len(page[t].queue) + 1
      BY <1>5, <1>6, <3>1, <3>3
    <3>4. CASE v = t /\ i # Len(page[t].queue) + 1
      <4>1. i \in 1 .. Len(page[t].queue)
        BY <1>6, <3>1, <3>4
      <4> QED  BY <1>6, <3>1, <3>4, <4>1 DEF InQueue
    <3> QED  BY <3>2, <3>3, <3>4
  <2> QED  BY <2>1, <1>3 DEF Up, UpWithoutChat
<1>11. ASSUME NEW v \in Pages  PROVE  ~OnTheWay(v, n) /\ ~UpWithoutChat(v, n)
  <2>1. ~InQueue(v, n)
    BY <1>1, <1>2, QueueIsPosted DEF InQueue
  <2>2. ~Up(v, n) /\ ~UpWithoutChat(v, n)
    BY <1>1, <1>2, UpIsOwn DEF Up, UpWithoutChat
  <2> QED  BY <2>1, <2>2 DEF OnTheWay
<1>12. OnePagePerNumber'
  <2> SUFFICES ASSUME NEW v \in Pages, NEW w \in Pages, NEW k \in 1 .. n,
                      OnTheWay(v, k)', OnTheWay(w, k)'
               PROVE  v = w
    BY <1>3 DEF OnePagePerNumber
  <2>1. /\ OnTheWay(v, k) \/ (v = t /\ k = n)
        /\ OnTheWay(w, k) \/ (w = t /\ k = n)
    BY <1>10 DEF OnTheWay
  <2>2. CASE k = n
    BY <1>11, <2>1, <2>2
  <2>3. CASE k # n
    <3>1. k \in 1 .. posted
      BY <1>1, <1>2, <2>3
    <3> QED  BY <2>1, <2>3, <3>1 DEF CountInv, OnePagePerNumber
  <2> QED  BY <2>2, <2>3
<1>13. Waiting' \subseteq Waiting \cup {n} /\ Chatless' \subseteq Chatless
  <2>1. \A k : k \in 1 .. n /\ k # n => k \in 1 .. posted
    BY <1>1, <1>2
  <2>2. Waiting' \subseteq Waiting \cup {n}
    BY <1>3, <1>10, <2>1 DEF Waiting
  <2>3. Chatless' \subseteq Chatless
    BY <1>3, <1>10, <1>11, <2>1 DEF Chatless
  <2> QED  BY <2>2, <2>3
<1>14. IsFiniteSet(Waiting) /\ IsFiniteSet(Chatless)
  BY <1>1, CountedAreFinite
<1>15. /\ Cardinality(Waiting') <= Cardinality(Waiting) + 1
       /\ Cardinality(Waiting') \in Nat /\ Cardinality(Waiting) \in Nat
  BY <1>13, <1>14, CardGrow
<1>16. /\ Cardinality(Chatless') <= Cardinality(Chatless)
       /\ Cardinality(Chatless') \in Nat /\ Cardinality(Chatless) \in Nat
  BY <1>13, <1>14, FS_Subset, FS_CardinalityType
<1>17. /\ chatIds + Cardinality(Chatless) <= unaddressed
       /\ unaddressed + Cardinality(Waiting) <= posted
  BY DEF CountInv
<1>18. /\ chatIds' + Cardinality(Chatless') <= unaddressed'
       /\ unaddressed' + Cardinality(Waiting') <= posted'
  BY <1>1, <1>2, <1>3, <1>15, <1>16, <1>17
<1> QED  BY <1>9, <1>12, <1>18 DEF CountInv

(* The steps after which the relay has less to come, and no more chats.    *)
LEMMA ReceiveEchoFewer ==
    ASSUME Connected, NEW s \in Sockets, ReceiveEcho(s)
    PROVE  Fewer
<1>1. Types /\ s[1] \in Pages
  BY LinkFacts DEF Connected
<1>2. \A r \in Sockets : link'[r].up = link[r].up
  BY <1>1, ReceiveEchoEffect
<1>3. \A v \in Pages : page'[v].queue = page[v].queue
  BY <1>1, ReceiveEchoEffect
<1>4. ASSUME NEW v \in Pages  PROVE  Kept(page'[v].queue, page[v].queue, v)
  BY <1>1, <1>3, PageFacts, WholePart, PartKeeps
<1>5. ASSUME NEW v \in Pages, NEW r \in SocketsOf(v)  PROVE  Kept(link'[r].up, link[r].up, v)
  BY <1>1, <1>2, LinkFacts, WholePart, PartKeeps DEF SocketsOf
<1> QED  BY <1>4, <1>5 DEF Fewer

(* A message of the peer's is none of the page's own.                      *)
LEMMA ReceiveMessageFewer ==
    ASSUME Connected, GenuineInv, NEW s \in Sockets, ReceiveMessage(s)
    PROVE  Fewer
<1>1. Types /\ s[1] \in Pages
  BY LinkFacts DEF Connected
<1> DEFINE t == s[1]
<1> DEFINE m == Arrival(s)
<1>2. /\ \A r \in Sockets : link'[r].up = link[r].up
      /\ \A v \in Pages : v # t => page'[v].queue = page[v].queue
      /\ page'[t].queue = Append(page[t].queue, m)
      /\ link[s].down # <<>> /\ m = Head(link[s].down) /\ m.from # User(s)
      /\ m \in AnyMessage
  BY <1>1, ReceiveMessageEffect
<1>3. m \in DownMessages(posted, chatIds)
  BY <1>1, <1>2, GenuineLink, TailPart
<1>4. m.text[1] # t
  BY <1>2, <1>3 DEF DownMessages, Genuine, User
<1> HIDE DEF m, t
<1>5. ASSUME NEW v \in Pages  PROVE  Kept(page'[v].queue, page[v].queue, v)
  <2>1. CASE v = t
    BY <1>1, <1>2, <1>4, <2>1, PageFacts, ForeignKept
  <2>2. CASE v # t
    BY <1>1, <1>2, <2>2, PageFacts, WholePart, PartKeeps
  <2> QED  BY <2>1, <2>2
<1>6. ASSUME NEW v \in Pages, NEW r \in SocketsOf(v)  PROVE  Kept(link'[r].up, link[r].up, v)
  BY <1>1, <1>2, LinkFacts, WholePart, PartKeeps DEF SocketsOf
<1> QED  BY <1>5, <1>6 DEF Fewer

(* A decryption takes one from the queue.                                  *)
LEMMA DecryptedFewer ==
    ASSUME Connected, NEW t \in Pages, Decrypted(t)
    PROVE  Fewer
<1>1. Types
  BY DEF Connected
<1>2. /\ UNCHANGED link
      /\ page[t].queue # <<>> /\ page'[t].queue = Tail(page[t].queue)
      /\ \A v \in Pages : v # t => page'[v] = page[v]
  BY DecryptedEffect
<1>3. ASSUME NEW v \in Pages  PROVE  Part(page'[v].queue, page[v].queue)
  <2>1. CASE v = t
    BY <1>1, <1>2, <2>1, PageFacts, TailPart
  <2>2. CASE v # t
    BY <1>1, <1>2, <2>2, PageFacts, WholePart
  <2> QED  BY <2>1, <2>2
<1>4. ASSUME NEW v \in Pages, NEW r \in SocketsOf(v)  PROVE  Part(link'[r].up, link[r].up)
  BY <1>1, <1>2, LinkFacts, WholePart DEF SocketsOf
<1> QED  BY <1>3, <1>4, PartKeeps DEF Fewer

(* A reload empties the queue.                                             *)
LEMMA ReloadFewer ==
    ASSUME Connected, NEW t \in Pages, Reload(t)
    PROVE  Fewer
<1>1. Types
  BY DEF Connected
<1>2. /\ \A v \in Pages : v # t => page'[v] = page[v]
      /\ page'[t].queue = <<>>
      /\ \A r \in Sockets : link'[r].up = link[r].up
  BY ReloadEffect
<1>3. ASSUME NEW v \in Pages  PROVE  Part(page'[v].queue, page[v].queue)
  BY <1>1, <1>2, PageFacts, WholePart
<1>4. ASSUME NEW v \in Pages, NEW r \in SocketsOf(v)  PROVE  Part(link'[r].up, link[r].up)
  BY <1>1, <1>2, LinkFacts, WholePart DEF SocketsOf
<1> QED  BY <1>3, <1>4, PartKeeps DEF Fewer

(* The relay takes one from what has come up.                              *)
LEMMA RelayFewer ==
    ASSUME Connected, NEW s \in Sockets, Relay(s)
    PROVE  Fewer
<1>1. Types
  BY DEF Connected
<1>2. /\ UNCHANGED page /\ link[s].up # <<>>
      /\ link'[s].up = Tail(link[s].up)
      /\ \A r \in Sockets : r # s => link'[r].up = link[r].up
  BY RelayEffect
<1>3. ASSUME NEW v \in Pages  PROVE  Part(page'[v].queue, page[v].queue)
  BY <1>1, <1>2, PageFacts, WholePart
<1>4. ASSUME NEW r \in Sockets  PROVE  Part(link'[r].up, link[r].up)
  <2>1. CASE r = s
    BY <1>1, <1>2, <2>1, LinkFacts, TailPart
  <2>2. CASE r # s
    BY <1>1, <1>2, <2>2, LinkFacts, WholePart, SMTT(30)
  <2> QED  BY <2>1, <2>2
<1> QED  BY <1>3, <1>4, PartKeeps DEF Fewer, SocketsOf

(* The message that goes up is in front of the others of its page.         *)
LEMMA EncryptedMoves ==
    ASSUME Connected, GenuineInv, CountInv, NEW t \in Pages, Encrypted(t)
    PROVE  \E n \in 1 .. posted, m \in AnyMessage :
             /\ Head(page[t].queue).text = <<t, n>> /\ m.text = <<t, n>>
             /\ m.chat = Head(page[t].queue).chat
             /\ InQueue(t, n)
             /\ Below(<<m>>, page'[t].queue, t)
             /\ \A b : Below(b, page[t].queue, t) => Below(b, <<m>>, t)
             /\ Sent(t) => link'[Current(t)].up = Append(link[Current(t)].up, m)
<1>1. Types
  BY DEF Connected
<1>2. /\ page[t].queue # <<>> /\ Head(page[t].queue).op = "encrypt"
      /\ page'[t].queue = Tail(page[t].queue)
      /\ Sent(t) => link'[Current(t)].up =
                      Append(link[Current(t)].up, [Head(page[t].queue) EXCEPT !.op = "decrypt"])
  BY EncryptedEffect
<1> DEFINE h == Head(page[t].queue)
<1> DEFINE m == [h EXCEPT !.op = "decrypt"]
<1>3. /\ Len(page[t].queue) \in Nat /\ 1 \in 1 .. Len(page[t].queue) /\ h = page[t].queue[1]
      /\ Len(page'[t].queue) = Len(page[t].queue) - 1
      /\ \A i \in 1 .. Len(page'[t].queue) : page'[t].queue[i] = page[t].queue[i + 1]
  BY <1>1, <1>2, PageFacts, TailPart
<1>4. h \in QueueMessages(t, posted, chatIds)
  BY <1>1, <1>2, GenuinePage, TailPart
<1>5. /\ h \in AnyMessage /\ h.text[1] = t /\ h.text[2] \in 1 .. posted
      /\ h.text = <<t, h.text[2]>>
  <2>1. h \in AnyMessage /\ h.text[1] = t /\ h.text[2] \in 1 .. posted
    BY <1>2, <1>4 DEF QueueMessages, Genuine
  <2> QED  BY <2>1, MessageFacts
<1>6. m \in AnyMessage /\ m.text = h.text /\ m.chat = h.chat
  BY <1>5 DEF AnyMessage
<1>7. Sent(t) => link'[Current(t)].up = Append(link[Current(t)].up, m)
  BY <1>2
<1> HIDE DEF m, h
<1>8. InQueue(t, h.text[2])
  BY <1>3, <1>5 DEF InQueue
<1>9. Ordered(page[t].queue, t)
  BY DEF CountInv, UpOrder
<1>10. Len(<<m>>) = 1 /\ <<m>>[1] = m
  OBVIOUS
<1>11. Below(<<m>>, page'[t].queue, t)
  <2> SUFFICES ASSUME NEW i \in 1 .. 1, NEW j \in 1 .. Len(page'[t].queue),
                      page'[t].queue[j].text[1] = t
               PROVE  <<m>>[i].text[2] < page'[t].queue[j].text[2]
    BY <1>10 DEF Below
  <2>1. i = 1 /\ j + 1 \in 1 .. Len(page[t].queue) /\ 1 < j + 1
        /\ page[t].queue[j + 1] = page'[t].queue[j]
    BY <1>3
  <2> QED  BY <1>3, <1>5, <1>6, <1>9, <2>1 DEF Ordered
<1>12. ASSUME NEW b, Below(b, page[t].queue, t)  PROVE  Below(b, <<m>>, t)
  BY <1>3, <1>6, <1>10, <1>12 DEF Below
<1> QED  BY <1>5, <1>6, <1>7, <1>8, <1>11, <1>12 DEF h

(* Who encrypts without a chat id waits no more, and is counted for good.  *)
LEMMA EncryptedCount ==
    ASSUME Connected, GenuineInv, CountInv, ToldInv, NEW t \in Pages, Encrypted(t)
    PROVE  CountInv'
<1>1. Types /\ posted \in Nat /\ chatIds \in Nat /\ unaddressed \in Nat
  BY DEF Connected, Types
<1>2. PICK n \in 1 .. posted, m \in AnyMessage :
        /\ Head(page[t].queue).text = <<t, n>> /\ m.text = <<t, n>>
        /\ m.chat = Head(page[t].queue).chat
        /\ InQueue(t, n)
        /\ Below(<<m>>, page'[t].queue, t)
        /\ \A b : Below(b, page[t].queue, t) => Below(b, <<m>>, t)
        /\ Sent(t) => link'[Current(t)].up = Append(link[Current(t)].up, m)
  BY EncryptedMoves
<1>3. /\ UNCHANGED <<chatIds, posted>>
      /\ page[t].queue # <<>> /\ page'[t].queue = Tail(page[t].queue)
      /\ \A v \in Pages : v # t => page'[v].queue = page[v].queue
      /\ \A r \in Sockets : r # Current(t) \/ ~Sent(t) => link'[r].up = link[r].up
      /\ unaddressed' = unaddressed + IF m.text \in early THEN 1 ELSE 0
      /\ m.chat = NoChatId => m.text \in early
  <2>1. /\ page[t].queue # <<>> /\ Head(page[t].queue).op = "encrypt"
        /\ unaddressed' = unaddressed + IF Head(page[t].queue).text \in early THEN 1 ELSE 0
    BY EncryptedEffect
  <2>2. 1 \in 1 .. Len(page[t].queue) /\ Head(page[t].queue) = page[t].queue[1]
    BY <1>1, <2>1, PageFacts, TailPart
  <2>3. m.chat = NoChatId => m.text \in early
    BY <1>2, <2>1, <2>2 DEF ToldInv
  <2> QED  BY <1>2, <2>1, <2>3, EncryptedEffect
<1>4. m.text[1] = t /\ m.text[2] = n
  BY <1>2
<1>5. /\ page'[t].queue \in Seq(AnyMessage) /\ Part(page'[t].queue, page[t].queue)
      /\ Kept(page'[t].queue, page[t].queue, t)
      /\ Len(page'[t].queue) \in Nat /\ Len(page[t].queue) \in Nat
  BY <1>1, <1>3, PageFacts, TailPart, PartKeeps, LenProperties
<1>6. Sent(t) => /\ Current(t) \in Sockets /\ Current(t) \in SocketsOf(t)
                 /\ Current(t)[2] = page[t].opened
  BY CurrentIsOpen DEF Sent
<1>7. ASSUME NEW r \in Sockets, page[t].opened < r[2], r[1] = t  PROVE  link[r].up = <<>>
  BY <1>7 DEF Connected, LinkInv
<1>8. UpOrder(t)
  BY DEF CountInv
<1>9. ASSUME NEW s \in SocketsOf(t)
      PROVE  /\ link[s].up \in Seq(AnyMessage) /\ Len(link[s].up) \in Nat
             /\ Below(link[s].up, page'[t].queue, t) /\ Below(link[s].up, <<m>>, t)
             /\ Ordered(link[s].up, t)
             /\ s \in Sockets /\ s[1] = t /\ s[2] \in Nat /\ s = <<s[1], s[2]>>
  <2>1. s \in Sockets /\ s[1] = t
    BY DEF SocketsOf
  <2>2. /\ link[s].up \in Seq(AnyMessage) /\ Len(link[s].up) \in Nat
        /\ s[2] \in Nat /\ s = <<s[1], s[2]>>
    BY <1>1, <2>1, LinkFacts
  <2>3. Below(link[s].up, page[t].queue, t) /\ Ordered(link[s].up, t)
    BY <1>8 DEF UpOrder
  <2>4. Kept(link[s].up, link[s].up, t)
    BY <2>2, WholePart, PartKeeps
  <2> QED  BY <1>2, <1>5, <2>1, <2>2, <2>3, <2>4, KeptBelow
<1>10. ASSUME NEW s \in SocketsOf(t)
       PROVE  /\ Ordered(link'[s].up, t)
              /\ Below(link'[s].up, page'[t].queue, t)
              /\ \A r \in SocketsOf(t) : s[2] < r[2] => Below(link'[s].up, link'[r].up, t)
  <2>1. CASE s = Current(t) /\ Sent(t)
    <3>1. link'[s].up = Append(link[s].up, m)
      BY <1>2, <2>1
    <3>2. Ordered(link'[s].up, t)
      BY <1>9, <3>1, AppendOrdered
    <3>3. Below(link'[s].up, page'[t].queue, t)
      BY <1>2, <1>9, <3>1, AppendBelow
    <3>4. ASSUME NEW r \in SocketsOf(t), s[2] < r[2]  PROVE  Below(link'[s].up, link'[r].up, t)
      <4>1. r # s /\ link[r].up = <<>>
        BY <1>6, <1>7, <1>9, <2>1, <3>4
      <4>2. link'[r].up = <<>>
        BY <1>3, <1>9, <2>1, <4>1
      <4> QED  BY <4>2 DEF Below
    <3> QED  BY <3>2, <3>3, <3>4
  <2>2. CASE ~(s = Current(t) /\ Sent(t))
    <3>1. link'[s].up = link[s].up
      BY <1>3, <1>9, <2>2
    <3>2. ASSUME NEW r \in SocketsOf(t), s[2] < r[2]  PROVE  Below(link'[s].up, link'[r].up, t)
      <4>1. Below(link[s].up, link[r].up, t)
        BY <1>8, <3>2 DEF UpOrder
      <4>2. CASE r = Current(t) /\ Sent(t)
        <5>1. link'[r].up = Append(link[r].up, m) /\ link[r].up \in Seq(AnyMessage)
          BY <1>2, <1>9, <4>2
        <5>2. Below(link[s].up, Append(link[r].up, m), t)
          BY <1>9, <4>1, <5>1, AppendBelow
        <5> QED  BY <3>1, <5>1, <5>2
      <4>3. CASE ~(r = Current(t) /\ Sent(t))
        BY <1>3, <1>9, <3>1, <4>1, <4>3
      <4> QED  BY <4>2, <4>3
    <3> QED  BY <1>9, <3>1, <3>2
  <2> QED  BY <2>1, <2>2
<1>11. ASSUME NEW v \in Pages, v # t, NEW s \in SocketsOf(v)
       PROVE  link'[s].up = link[s].up
  BY <1>3, <1>11 DEF SocketsOf, Current
<1>12. ASSUME NEW v \in Pages  PROVE  UpOrder(v)'
  <2>1. CASE v = t
    <3>1. Ordered(page'[t].queue, t)
      BY <1>5, <1>8, KeptOrdered DEF UpOrder
    <3> QED  BY <1>10, <2>1, <3>1 DEF UpOrder, SocketsOf
  <2>2. CASE v # t
    <3>1. UpOrder(v)
      BY DEF CountInv
    <3> QED  BY <1>3, <1>11, <2>2, <3>1 DEF UpOrder, SocketsOf
  <2> QED  BY <2>1, <2>2
<1>13. ASSUME NEW v \in Pages, NEW k, InQueue(v, k)'  PROVE  InQueue(v, k) /\ k # n
  <2>1. PICK i \in 1 .. Len(page'[v].queue) :
          page'[v].queue[i].text[1] = v /\ page'[v].queue[i].text[2] = k
    BY <1>13 DEF InQueue
  <2>2. CASE v = t
    <3>1. InQueue(v, k)
      BY <1>5, <2>1, <2>2 DEF InQueue, Part
    <3>2. <<m>>[1] = m /\ Len(<<m>>) = 1 /\ 1 \in 1 .. 1
      OBVIOUS
    <3>3. n < k
      BY <1>2, <1>4, <2>1, <2>2, <3>2 DEF Below
    <3> QED  BY <1>1, <3>1, <3>3
  <2>3. CASE v # t
    <3>1. InQueue(v, k)
      BY <1>3, <2>1, <2>3 DEF InQueue
    <3> QED  BY <1>2, <2>3, <3>1 DEF CountInv, OnePagePerNumber, OnTheWay
  <2> QED  BY <2>2, <2>3
<1>14. ASSUME NEW v \in Pages, NEW s \in SocketsOf(v), NEW i \in 1 .. Len(link'[s].up)
       PROVE  \/ \E j \in 1 .. Len(link[s].up) : link'[s].up[i] = link[s].up[j]
              \/ v = t /\ link'[s].up[i] = m
  <2>1. CASE s = Current(t) /\ Sent(t)
    <3>1. v = t
      BY <2>1 DEF Current, SocketsOf
    <3>2. link'[s].up = Append(link[s].up, m) /\ link[s].up \in Seq(AnyMessage)
      BY <1>2, <1>9, <2>1, <3>1
    <3>3. /\ Len(link[s].up) \in Nat /\ Len(link'[s].up) = Len(link[s].up) + 1
          /\ \A j \in 1 .. Len(link[s].up) : link'[s].up[j] = link[s].up[j]
          /\ link'[s].up[Len(link[s].up) + 1] = m
      BY <3>2, Appended
    <3>4. CASE i \in 1 .. Len(link[s].up)
      BY <3>3, <3>4
    <3>5. CASE i \notin 1 .. Len(link[s].up)
      <4>1. i = Len(link[s].up) + 1
        BY <3>3, <3>5
      <4> QED  BY <3>1, <3>3, <4>1
    <3> QED  BY <3>4, <3>5
  <2>2. CASE ~(s = Current(t) /\ Sent(t))
    BY <1>3, <2>2 DEF SocketsOf
  <2> QED  BY <2>1, <2>2
<1>15. ASSUME NEW v \in Pages, NEW k
       PROVE  /\ Up(v, k)' => Up(v, k) \/ (v = t /\ k = n)
              /\ UpWithoutChat(v, k)' =>
                    UpWithoutChat(v, k) \/ (v = t /\ k = n /\ m.chat = NoChatId)
  <2>1. ASSUME Up(v, k)'  PROVE  Up(v, k) \/ (v = t /\ k = n)
    <3>1. PICK s \in SocketsOf(v) : \E i \in 1 .. Len(link'[s].up) : link'[s].up[i].text[2] = k
      BY <2>1 DEF Up, SocketsOf
    <3>2. PICK i \in 1 .. Len(link'[s].up) : link'[s].up[i].text[2] = k
      BY <3>1
    <3>3. CASE \E j \in 1 .. Len(link[s].up) : link'[s].up[i] = link[s].up[j]
      BY <3>2, <3>3 DEF Up
    <3>4. CASE v = t /\ link'[s].up[i] = m
      BY <1>4, <3>2, <3>4
    <3> QED  BY <1>14, <3>2, <3>3, <3>4
  <2>2. ASSUME UpWithoutChat(v, k)'
        PROVE  UpWithoutChat(v, k) \/ (v = t /\ k = n /\ m.chat = NoChatId)
    <3>1. PICK s \in SocketsOf(v) : \E i \in 1 .. Len(link'[s].up) :
            link'[s].up[i].text[2] = k /\ link'[s].up[i].chat = NoChatId
      BY <2>2 DEF UpWithoutChat, SocketsOf
    <3>2. PICK i \in 1 .. Len(link'[s].up) :
            link'[s].up[i].text[2] = k /\ link'[s].up[i].chat = NoChatId
      BY <3>1
    <3>3. CASE \E j \in 1 .. Len(link[s].up) : link'[s].up[i] = link[s].up[j]
      BY <3>2, <3>3 DEF UpWithoutChat
    <3>4. CASE v = t /\ link'[s].up[i] = m
      BY <1>4, <3>2, <3>4
    <3> QED  BY <1>14, <3>2, <3>3, <3>4
  <2> QED  BY <2>1, <2>2
<1>16. OnePagePerNumber'
  <2>1. \A v \in Pages, k \in 1 .. posted : OnTheWay(v, k)' => OnTheWay(v, k)
    BY <1>2, <1>13, <1>15 DEF OnTheWay
  <2> QED  BY <1>3, <2>1 DEF CountInv, OnePagePerNumber
<1>17. n \in Waiting /\ Waiting' \subseteq Waiting \ {n}
  BY <1>2, <1>3, <1>13 DEF Waiting
<1>18. /\ Chatless' \subseteq Chatless \cup {n}
       /\ m.chat # NoChatId => Chatless' \subseteq Chatless
  BY <1>3, <1>15 DEF Chatless
<1>19. IsFiniteSet(Waiting) /\ IsFiniteSet(Chatless)
  BY <1>1, CountedAreFinite
<1>20. /\ Cardinality(Waiting') + 1 <= Cardinality(Waiting)
       /\ Cardinality(Waiting') \in Nat /\ Cardinality(Waiting) \in Nat
  BY <1>17, <1>19, CardDrop
<1>21. /\ Cardinality(Chatless') <= Cardinality(Chatless) + 1
       /\ m.chat # NoChatId => Cardinality(Chatless') <= Cardinality(Chatless)
       /\ Cardinality(Chatless') \in Nat /\ Cardinality(Chatless) \in Nat
  BY <1>18, <1>19, CardGrow
<1>22. /\ chatIds + Cardinality(Chatless) <= unaddressed
       /\ unaddressed + Cardinality(Waiting) <= posted
  BY DEF CountInv
<1>23. /\ chatIds' + Cardinality(Chatless') <= unaddressed'
       /\ unaddressed' + Cardinality(Waiting') <= posted'
  BY <1>1, <1>3, <1>20, <1>21, <1>22, SMTT(30)
<1> QED  BY <1>12, <1>16, <1>23 DEF CountInv

(* The relay draws a chat id for a message that had none.                  *)
LEMMA RelayCount ==
    ASSUME Connected, Connected', GenuineInv, GenuineInv', CountInv,
           NEW s \in Sockets, Relay(s)
    PROVE  CountInv'
<1>1. /\ Types /\ posted \in Nat /\ chatIds \in Nat /\ unaddressed \in Nat
      /\ s[1] \in Pages /\ s \in SocketsOf(s[1])
  BY LinkFacts DEF Connected, Types
<1> DEFINE t == s[1]
<1>2. /\ UNCHANGED <<page, posted, unaddressed>> /\ link[s].up # <<>>
      /\ link'[s].up = Tail(link[s].up)
      /\ \A r \in Sockets : r # s => link'[r].up = link[r].up
  BY RelayEffect
<1> DEFINE h == Head(link[s].up)
<1>3. /\ Len(link[s].up) \in Nat /\ 1 \in 1 .. Len(link[s].up) /\ h = link[s].up[1]
      /\ Len(link'[s].up) = Len(link[s].up) - 1
      /\ \A i \in 1 .. Len(link'[s].up) : link'[s].up[i] = link[s].up[i + 1]
  BY <1>1, <1>2, LinkFacts, TailPart
<1>4. PICK n \in 1 .. posted : h.text[1] = t /\ h.text[2] = n
  BY <1>1, <1>3, UpIsOwn
<1>5. h.chat \in 0 .. chatIds
  <2>1. h \in UpMessages(t, posted, chatIds)
    BY <1>1, <1>2, GenuineLink, TailPart
  <2> QED  BY <2>1 DEF UpMessages, Genuine
<1>6. chatIds' = IF h.chat = NoChatId THEN chatIds + 1 ELSE chatIds
  <2>1. PICK m \in AnyMessage :
          /\ m.chat = IF h.chat = NoChatId THEN chatIds + 1 ELSE h.chat
          /\ chatIds' = IF m.chat > chatIds THEN m.chat ELSE chatIds
    BY RelayEffect
  <2> HIDE DEF h
  <2> QED  BY <1>1, <1>5, <2>1 DEF NoChatId
<1> HIDE DEF h, t
<1>7. Fewer
  BY RelayFewer
<1>8. OnePagePerNumber'
  BY <1>2, <1>7, FewerOnTheWay DEF CountInv, OnePagePerNumber, OnTheWay
<1>9. \A v \in Pages : UpOrder(v)'
  BY <1>7, FewerOnTheWay DEF CountInv
<1>10. Waiting' \subseteq Waiting /\ Chatless' \subseteq Chatless
  BY <1>2, <1>7, FewerOnTheWay DEF Waiting, Chatless
<1>11. ASSUME NEW v \in Pages, Up(v, n)'  PROVE  FALSE
  <2>1. Up(v, n) /\ Up(t, n)
    <3>1. Up(v, n)
      BY <1>7, <1>11, FewerOnTheWay
    <3> QED  BY <1>1, <1>3, <1>4, <3>1 DEF Up, t
  <2>2. v = t
    BY <1>1, <2>1 DEF CountInv, OnePagePerNumber, OnTheWay, t
  <2>3. PICK r \in SocketsOf(t) : \E i \in 1 .. Len(link'[r].up) : link'[r].up[i].text[2] = n
    BY <1>11, <2>2 DEF Up, SocketsOf
  <2>4. PICK i \in 1 .. Len(link'[r].up) : link'[r].up[i].text[2] = n
    BY <2>3
  <2>5. UpOrder(t)
    BY <1>1 DEF CountInv, t
  <2>6. r \in Sockets /\ r[1] = t /\ r[2] \in Nat /\ s[2] \in Nat
        /\ s = <<s[1], s[2]>> /\ r = <<r[1], r[2]>>
    BY <1>1, LinkFacts DEF SocketsOf
  <2>7. CASE r = s
    <3>1. i + 1 \in 1 .. Len(link[s].up) /\ 1 < i + 1 /\ link'[s].up[i] = link[s].up[i + 1]
      BY <1>3, <2>7
    <3>2. link[s].up[i + 1].text[1] = t
      BY <1>1, <3>1, UpIsOwn DEF t
    <3>3. Ordered(link[s].up, t)
      BY <1>1, <2>5 DEF UpOrder, t
    <3>4. n < n
      BY <1>3, <1>4, <2>4, <2>7, <3>1, <3>2, <3>3 DEF Ordered
    <3> QED  BY <1>1, <3>4
  <2>8. CASE r # s
    <3>1. link'[r].up = link[r].up
      BY <1>2, <2>6, <2>8
    <3>2. i \in 1 .. Len(link[r].up) /\ link[r].up[i].text[2] = n /\ link[r].up[i].text[1] = t
      BY <1>1, <2>4, <3>1, UpIsOwn DEF t
    <3>3. r[2] < s[2] \/ s[2] < r[2]
      BY <2>6, <2>8 DEF t
    <3>4. Below(link[r].up, link[s].up, t) \/ Below(link[s].up, link[r].up, t)
      BY <1>1, <2>5, <3>3 DEF UpOrder, t
    <3>5. n < n
      BY <1>3, <1>4, <3>2, <3>4 DEF Below
    <3> QED  BY <1>1, <3>5
  <2> QED  BY <2>7, <2>8
<1>12. n \notin Chatless'
  <2>1. \A v \in Pages : UpWithoutChat(v, n)' => Up(v, n)'
    BY DEF UpWithoutChat, Up
  <2> QED  BY <1>11, <2>1 DEF Chatless
<1>13. h.chat = NoChatId => n \in Chatless
  BY <1>1, <1>3, <1>4 DEF Chatless, UpWithoutChat, t
<1>14. IsFiniteSet(Waiting) /\ IsFiniteSet(Chatless)
  BY <1>1, CountedAreFinite
<1>15. /\ Cardinality(Waiting') <= Cardinality(Waiting)
       /\ Cardinality(Waiting') \in Nat /\ Cardinality(Waiting) \in Nat
       /\ Cardinality(Chatless') <= Cardinality(Chatless)
       /\ Cardinality(Chatless') \in Nat /\ Cardinality(Chatless) \in Nat
  BY <1>10, <1>14, FS_Subset, FS_CardinalityType
<1>16. h.chat = NoChatId => Cardinality(Chatless') + 1 <= Cardinality(Chatless)
  <2>1. Chatless' \subseteq Chatless \ {n}
    BY <1>10, <1>12
  <2> QED  BY <1>13, <1>14, <2>1, CardDrop
<1>17. /\ chatIds + Cardinality(Chatless) <= unaddressed
       /\ unaddressed + Cardinality(Waiting) <= posted
  BY DEF CountInv
<1>18. /\ chatIds' + Cardinality(Chatless') <= unaddressed'
       /\ unaddressed' + Cardinality(Waiting') <= posted'
  BY <1>1, <1>2, <1>6, <1>15, <1>16, <1>17
<1> QED  BY <1>8, <1>9, <1>18 DEF CountInv
-----------------------------------------------------------------------------
(* Echoes.                                                                 *)

(* What a page awaits the echoes of is its own.                            *)
LEMMA DueIsOwn ==
    ASSUME Connected, GenuineInv, NEW t \in Pages, PendingAreDue(t), NEW x \in due[t]
    PROVE  x \in AnyText /\ x[1] = t /\ x[2] \in 1 .. posted /\ x = <<t, x[2]>>
<1>1. Types
  BY DEF Connected
<1>2. PICK i \in 1 .. Len(page[t].pending) : page[t].pending[i] = x
  BY DEF PendingAreDue
<1>3. page[t].pending[i] \in Plaintexts(t, posted)
  BY <1>1, GenuinePage, ElementOfSeq
<1>4. x \in AnyText /\ x[1] = t /\ x[2] \in 1 .. posted
  BY <1>2, <1>3 DEF Plaintexts
<1> QED  BY <1>4 DEF AnyText

(* What is ahead of a page's messages stays so while they get fewer.       *)
LEMMA AheadStays ==
    ASSUME Connected, Connected', NEW t \in Pages, NEW new, NEW old,
           Len(new) \in Nat, Len(old) \in Nat, Kept(new, old, t), Ahead(old, t),
           Kept(page'[t].queue, page[t].queue, t),
           \A r \in SocketsOf(t) : Kept(link'[r].up, link[r].up, t)
    PROVE  /\ Below(new, page'[t].queue, t)
           /\ \A r \in SocketsOf(t) : Below(new, link'[r].up, t)
<1>1. Types /\ Types'
  BY DEF Connected
<1>2. Len(page'[t].queue) \in Nat /\ Len(page[t].queue) \in Nat
  <2>1. page'[t].queue \in Seq(AnyMessage)
    BY <1>1 DEF Types, PageState
  <2> QED  BY <1>1, <2>1, PageFacts, LenProperties
<1>3. Below(new, page'[t].queue, t)
  BY <1>2, KeptBelow DEF Ahead
<1>4. ASSUME NEW r \in SocketsOf(t)  PROVE  Below(new, link'[r].up, t)
  <2>1. r \in Sockets
    BY DEF SocketsOf
  <2>2. link'[r].up \in Seq(AnyMessage)
    BY <1>1, <2>1 DEF Types, LinkState
  <2>3. Len(link'[r].up) \in Nat /\ Len(link[r].up) \in Nat
    BY <1>1, <2>1, <2>2, LinkFacts, LenProperties
  <2> QED  BY <2>3, KeptBelow DEF Ahead
<1> QED  BY <1>3, <1>4

(* A page that is not involved in a step, or loses only what it does not   *)
(* await.                                                                  *)
LEMMA EchoStill ==
    ASSUME Connected, Connected', GenuineInv, GenuineInv', NEW t \in Pages, EchoInv(t),
           TextsShown(page'[t].chats, Owner[t]),
           page'[t].pending = page[t].pending, due'[t] = due[t],
           Kept(page'[t].queue, page[t].queue, t),
           \A s \in SocketsOf(t) :
              Kept(link'[s].up, link[s].up, t) /\ Kept(link'[s].down, link[s].down, t),
           due[t] # {} =>
              /\ page'[t].ws = page[t].ws
              /\ link'[Current(t)].client = link[Current(t)].client
              /\ link'[Current(t)].whole = link[Current(t)].whole
              /\ link'[Current(t)].up = link[Current(t)].up
              /\ \A i \in 1 .. Len(link[Current(t)].down) :
                    link[Current(t)].down[i].text[1] = t =>
                       \E j \in 1 .. Len(link'[Current(t)].down) :
                          link'[Current(t)].down[j].text = link[Current(t)].down[i].text
    PROVE  EchoInv(t)'
<1>1. Types /\ Types'
  BY DEF Connected
<1>2. PendingInOrder(t)'
  <2>1. PendingInOrder(t)
    BY DEF EchoInv
  <2>2. PICK k \in Nat : \A j \in 1 .. Len(page'[t].queue) :
          page'[t].queue[j].text[1] = t =>
             j + k \in 1 .. Len(page[t].queue) /\ page'[t].queue[j] = page[t].queue[j + k]
    BY DEF Kept
  <2> QED  BY <2>1, <2>2 DEF PendingInOrder
<1>3. PendingAreDue(t)'
  BY DEF EchoInv, PendingAreDue
<1>4. UpAreDue(t)'
  <2> SUFFICES ASSUME NEW s \in SocketsOf(t), NEW i \in 1 .. Len(link'[s].up)
               PROVE  link'[s].up[i].text \in due[t]
    BY DEF UpAreDue, SocketsOf
  <2>1. s \in Sockets /\ s[1] = t
    BY DEF SocketsOf
  <2>2. link'[s].up \in Seq(UpMessages(s[1], posted', chatIds'))
    BY <2>1 DEF GenuineInv
  <2>3. link'[s].up[i] \in UpMessages(s[1], posted', chatIds')
    BY <2>2, ElementOfSeq
  <2>4. link'[s].up[i].text[1] = t
    BY <2>1, <2>3 DEF UpMessages
  <2>5. PICK j \in 1 .. Len(link[s].up) : link'[s].up[i] = link[s].up[j]
    BY <2>4 DEF Kept
  <2> QED  BY <2>5 DEF EchoInv, UpAreDue
<1>5. EchoesCome(t)'
  <2>1. CASE due[t] = {}
    BY <2>1 DEF EchoesCome
  <2>2. CASE due[t] # {}
    <3>1. Current(t)' = Current(t) /\ IsOpen(t)'
      BY <2>2 DEF EchoInv, EchoesCome, Current, IsOpen
    <3>2. ASSUME NEW x \in due[t]
          PROVE  \/ \E i \in 1 .. Len(link[Current(t)].up) : link[Current(t)].up[i].text = x
                 \/ \E i \in 1 .. Len(link'[Current(t)].down) : link'[Current(t)].down[i].text = x
      <4>1. x[1] = t
        BY DueIsOwn DEF EchoInv
      <4> QED  BY <2>2, <4>1, SMTT(30) DEF EchoInv, EchoesCome
    <3>3. link'[Current(t)].whole /\ link'[Current(t)].up = link[Current(t)].up
      BY <2>2 DEF EchoInv, EchoesCome
    <3>4. PICK s : s = Current(t) /\ s = Current(t)'
      BY <3>1
    <3> QED  BY <3>1, <3>2, <3>3, <3>4 DEF EchoesCome
  <2> QED  BY <2>1, <2>2
<1>6. EchoesInOrder(t)'
  <2> SUFFICES ASSUME NEW s \in SocketsOf(t)
               PROVE  /\ Ordered(link'[s].down, t)
                      /\ Below(link'[s].down, page'[t].queue, t)
                      /\ \A r \in SocketsOf(t) : Below(link'[s].down, link'[r].up, t)
    BY DEF EchoesInOrder, Ahead, SocketsOf
  <2>1. s \in Sockets
    BY DEF SocketsOf
  <2>2. link'[s].down \in Seq(AnyMessage)
    BY <1>1, <2>1 DEF Types, LinkState
  <2>3. Len(link'[s].down) \in Nat /\ Len(link[s].down) \in Nat
    BY <1>1, <2>1, <2>2, LinkFacts, LenProperties
  <2>4. Ordered(link[s].down, t) /\ Ahead(link[s].down, t)
    BY DEF EchoInv, EchoesInOrder
  <2> QED  BY <2>3, <2>4, KeptOrdered, AheadStays
<1> QED  BY <1>2, <1>3, <1>4, <1>5, <1>6 DEF EchoInv

(* An entry with the right text, or of somebody else.                      *)
LEMMA ShownAppend ==
    ASSUME NEW S, NEW seq \in Seq(S), NEW e \in S, NEW u, TextsShown(seq, u),
           e.from = u => e.as = e.text
    PROVE  TextsShown(Append(seq, e), u)
<1>1. /\ Len(seq) \in Nat /\ Len(Append(seq, e)) = Len(seq) + 1
      /\ \A i \in 1 .. Len(seq) : Append(seq, e)[i] = seq[i]
      /\ Append(seq, e)[Len(seq) + 1] = e
  BY Appended
<1> QED  BY <1>1 DEF TextsShown

(* No echo that is due is lost in a quiet step.                            *)
LEMMA QuietEchoes ==
    ASSUME Connected, Connected', GenuineInv, GenuineInv', EchoesInv, Quiet
    PROVE  EchoesInv'
<1>1. Types /\ disturbed \subseteq disturbed' /\ UNCHANGED <<stored, due>>
  BY DEF Connected, Quiet
<1>2. ASSUME NEW t \in Pages, Owner[t] \notin disturbed'  PROVE  EchoInv(t)'
  <2>1. EchoInv(t)
    BY <1>1, <1>2 DEF EchoesInv
  <2>2. page'[t].pending = page[t].pending /\ page'[t].chats = page[t].chats
        /\ Kept(page'[t].queue, page[t].queue, t)
    BY PartKeeps DEF Quiet
  <2>3. \A s \in SocketsOf(t) :
           Kept(link'[s].up, link[s].up, t) /\ Kept(link'[s].down, link[s].down, t)
    BY PartKeeps DEF Quiet, SocketsOf
  <2>4. due[t] # {} =>
           /\ page'[t].ws = page[t].ws
           /\ link'[Current(t)].client = link[Current(t)].client
           /\ link'[Current(t)].whole = link[Current(t)].whole
           /\ link'[Current(t)].up = link[Current(t)].up
           /\ link'[Current(t)].down = link[Current(t)].down
    BY <1>2, <2>1 DEF Quiet, EchoInv, EchoesCome
  <2>5. TextsShown(page'[t].chats, Owner[t])
    BY <2>1, <2>2 DEF EchoInv
  <2> QED  BY <1>1, <2>1, <2>2, <2>3, <2>4, <2>5, EchoStill
<1>3. ASSUME NEW u \in Users, u \notin disturbed'  PROVE  TextsShown(stored'[u], u)
  BY <1>1, <1>3 DEF EchoesInv
<1> QED  BY <1>2, <1>3 DEF EchoesInv

(* A new message comes behind all the plaintexts that wait.                *)
LEMMA PostEchoes ==
    ASSUME Connected, Connected', GenuineInv, GenuineInv', EchoesInv, NEW t \in Pages, Post(t)
    PROVE  EchoesInv'
<1>1. Types /\ posted \in Nat
  BY DEF Connected, Types
<1>2. PICK n \in Nat : n = posted + 1
  BY <1>1
<1>3. /\ posted' = n /\ UNCHANGED <<link, stored, due, disturbed>>
      /\ \A v \in Pages :
           /\ page'[v].chats = page[v].chats /\ page'[v].pending = page[v].pending
           /\ SameSockets(v)
           /\ v # t => page'[v].queue = page[v].queue
  BY <1>2, PostEffect
<1>4. PICK m \in AnyMessage : m.text = <<t, n>> /\ page'[t].queue = Append(page[t].queue, m)
  BY <1>2, PostEffect
<1>5. m.text[1] = t /\ m.text[2] = n
  BY <1>4
<1>6. /\ page[t].queue \in Seq(AnyMessage)
      /\ Len(page[t].queue) \in Nat /\ Len(page'[t].queue) = Len(page[t].queue) + 1
      /\ \A i \in 1 .. Len(page[t].queue) : page'[t].queue[i] = page[t].queue[i]
      /\ page'[t].queue[Len(page[t].queue) + 1] = m
  BY <1>1, <1>4, PageFacts, Appended
<1>7. ASSUME NEW s \in SocketsOf(t)  PROVE  Below(link[s].down, <<m>>, t)
  <2> SUFFICES ASSUME NEW i \in 1 .. Len(link[s].down)  PROVE  link[s].down[i].text[2] < n
    BY <1>5 DEF Below
  <2>1. link[s].down[i] \in DownMessages(posted, chatIds)
    BY <1>1, GenuineLink, ElementOfSeq DEF SocketsOf
  <2> QED  BY <1>1, <1>2, <2>1 DEF DownMessages, Genuine
<1>8. ASSUME NEW v \in Pages, Owner[v] \notin disturbed  PROVE  EchoInv(v)'
  <2>1. EchoInv(v)
    BY <1>8 DEF EchoesInv
  <2>2. CASE v # t
    <3>1. Kept(page'[v].queue, page[v].queue, v)
      BY <1>1, <1>3, <2>2, PageFacts, WholePart, PartKeeps
    <3>2. ASSUME NEW s \in SocketsOf(v)
          PROVE  Kept(link'[s].up, link[s].up, v) /\ Kept(link'[s].down, link[s].down, v)
      BY <1>1, <1>3, LinkFacts, WholePart, PartKeeps DEF SocketsOf
    <3>3. TextsShown(page'[v].chats, Owner[v])
      BY <1>3, <2>1 DEF EchoInv
    <3>4. page'[v].ws = page[v].ws /\ link' = link
      BY <1>3 DEF SameSockets
    <3>5. page'[v].pending = page[v].pending /\ due'[v] = due[v]
      BY <1>3
    <3> QED  BY <2>1, <3>1, <3>2, <3>3, <3>4, <3>5, EchoStill
  <2>3. CASE v = t
    <3>1. PendingInOrder(t)'
      <4>1. PendingInOrder(t)
        BY <2>1, <2>3 DEF EchoInv
      <4>2. ASSUME NEW i \in 1 .. Len(page[t].pending)  PROVE  page[t].pending[i][2] < n
        <5>1. page[t].pending[i] \in Plaintexts(t, posted)
          BY <1>1, GenuinePage, ElementOfSeq
        <5> QED  BY <1>1, <1>2, <5>1 DEF Plaintexts
      <4>3. ASSUME NEW i \in 1 .. Len(page[t].pending), NEW j \in 1 .. Len(page'[t].queue),
                   page'[t].queue[j].text[1] = t
            PROVE  page[t].pending[i][2] < page'[t].queue[j].text[2]
        <5>1. CASE j = Len(page[t].queue) + 1
          BY <1>5, <1>6, <4>2, <5>1
        <5>2. CASE j # Len(page[t].queue) + 1
          <6>1. j \in 1 .. Len(page[t].queue) /\ page'[t].queue[j] = page[t].queue[j]
            BY <1>6, <5>2
          <6> QED  BY <4>1, <4>3, <6>1 DEF PendingInOrder
        <5> QED  BY <5>1, <5>2
      <4>4. page'[t].pending = page[t].pending
        BY <1>3
      <4> QED  BY <4>1, <4>3, <4>4 DEF PendingInOrder
    <3>2. PendingAreDue(t)' /\ UpAreDue(t)'
      BY <1>3, <2>1, <2>3 DEF EchoInv, PendingAreDue, UpAreDue
    <3>3. EchoesCome(t)'
      <4>1. page'[t].ws = page[t].ws /\ link' = link /\ due'[t] = due[t]
        BY <1>3 DEF SameSockets
      <4> QED  BY <2>1, <2>3, <4>1 DEF EchoInv, EchoesCome, IsOpen, Current
    <3>4. EchoesInOrder(t)'
      <4>1. ASSUME NEW s \in SocketsOf(t)
            PROVE  /\ Ordered(link[s].down, t)
                   /\ \A r \in SocketsOf(t) : Below(link[s].down, link[r].up, t)
                   /\ Below(link[s].down, page'[t].queue, t)
        <5>1. Ordered(link[s].down, t) /\ Ahead(link[s].down, t)
          BY <2>1, <2>3 DEF EchoInv, EchoesInOrder
        <5>2. Below(link[s].down, page'[t].queue, t)
          BY <1>4, <1>6, <1>7, <5>1, AppendBelow DEF Ahead
        <5> QED  BY <5>1, <5>2 DEF Ahead
      <4> QED  BY <1>3, <4>1 DEF EchoesInOrder, Ahead
    <3>5. TextsShown(page'[t].chats, Owner[t])
      BY <1>3, <2>1, <2>3 DEF EchoInv
    <3> QED  BY <2>3, <3>1, <3>2, <3>3, <3>4, <3>5 DEF EchoInv
  <2> QED  BY <2>2, <2>3
<1> QED  BY <1>3, <1>8 DEF EchoesInv

(* A message of the peer's is no echo.                                     *)
LEMMA ReceiveMessageEchoes ==
    ASSUME Connected, Connected', GenuineInv, GenuineInv', EchoesInv,
           NEW s \in Sockets, ReceiveMessage(s)
    PROVE  EchoesInv'
<1>1. Types /\ s[1] \in Pages
  BY LinkFacts DEF Connected
<1> DEFINE t == s[1]
<1> DEFINE m == Arrival(s)
<1>2. /\ UNCHANGED <<stored, due, disturbed>>
      /\ link[s].down # <<>> /\ m = Head(link[s].down) /\ m.from # User(s)
      /\ link'[s].down = Tail(link[s].down)
      /\ \A r \in Sockets :
           /\ SameConnection(r) /\ link'[r].up = link[r].up
           /\ r # s => link'[r].down = link[r].down
      /\ \A v \in Pages :
           /\ SameSockets(v)
           /\ page'[v].chats = page[v].chats /\ page'[v].pending = page[v].pending
           /\ v # t => page'[v].queue = page[v].queue
  BY <1>1, ReceiveMessageEffect
<1>3. m \in DownMessages(posted, chatIds)
  BY <1>1, <1>2, GenuineLink, TailPart
<1>4. m.text[1] # t
  BY <1>2, <1>3 DEF DownMessages, Genuine, User
<1>5. /\ Part(link'[s].down, link[s].down)
      /\ Len(link[s].down) \in Nat /\ m = link[s].down[1]
      /\ Len(link'[s].down) = Len(link[s].down) - 1
      /\ \A i \in 1 .. Len(link'[s].down) : link'[s].down[i] = link[s].down[i + 1]
  BY <1>1, <1>2, LinkFacts, TailPart
<1> HIDE DEF m
<1>6. Fewer
  BY ReceiveMessageFewer
<1>7. ASSUME NEW v \in Pages, Owner[v] \notin disturbed  PROVE  EchoInv(v)'
  <2>1. EchoInv(v)
    BY <1>7 DEF EchoesInv
  <2>2. ASSUME NEW r \in SocketsOf(v)
        PROVE  Kept(link'[r].up, link[r].up, v) /\ Kept(link'[r].down, link[r].down, v)
    <3>1. r \in Sockets
      BY DEF SocketsOf
    <3>2. Part(link'[r].down, link[r].down)
      BY <1>1, <1>2, <1>5, <3>1, LinkFacts, WholePart
    <3> QED  BY <1>6, <3>2, PartKeeps DEF Fewer
  <2>3. ASSUME due[v] # {}
        PROVE  /\ page'[v].ws = page[v].ws
               /\ link'[Current(v)].client = link[Current(v)].client
               /\ link'[Current(v)].whole = link[Current(v)].whole
               /\ link'[Current(v)].up = link[Current(v)].up
               /\ \A i \in 1 .. Len(link[Current(v)].down) :
                     link[Current(v)].down[i].text[1] = v =>
                        \E j \in 1 .. Len(link'[Current(v)].down) :
                           link'[Current(v)].down[j].text = link[Current(v)].down[i].text
    <3>1. Current(v) \in Sockets /\ Current(v)[1] = v
      BY <2>1, <2>3, CurrentIsOpen DEF EchoInv, EchoesCome
    <3>2. ASSUME NEW i \in 1 .. Len(link[Current(v)].down),
                 link[Current(v)].down[i].text[1] = v
          PROVE  \E j \in 1 .. Len(link'[Current(v)].down) :
                    link'[Current(v)].down[j].text = link[Current(v)].down[i].text
      <4>1. CASE Current(v) = s
        <5>1. i # 1
          BY <1>4, <1>5, <3>1, <3>2, <4>1
        <5>2. i - 1 \in 1 .. Len(link'[s].down) /\ link'[s].down[i - 1] = link[s].down[i]
          BY <1>5, <4>1, <5>1
        <5> QED  BY <4>1, <5>2
      <4>2. CASE Current(v) # s
        BY <1>2, <3>1, <4>2
      <4> QED  BY <4>1, <4>2
    <3> QED  BY <1>2, <3>1, <3>2 DEF SameConnection, SameSockets
  <2>4. TextsShown(page'[v].chats, Owner[v])
    BY <1>2, <2>1 DEF EchoInv
  <2>5. page'[v].pending = page[v].pending /\ due'[v] = due[v]
        /\ Kept(page'[v].queue, page[v].queue, v)
    BY <1>2, <1>6 DEF Fewer
  <2> QED  BY <2>1, <2>2, <2>3, <2>4, <2>5, EchoStill
<1> QED  BY <1>2, <1>7 DEF EchoesInv

(* Nor is it when it is shown.                                             *)
LEMMA DecryptedEchoes ==
    ASSUME Connected, Connected', GenuineInv, GenuineInv', EchoesInv,
           NEW t \in Pages, Decrypted(t)
    PROVE  EchoesInv'
<1>1. Types
  BY DEF Connected
<1>2. /\ UNCHANGED <<link, due, disturbed>>
      /\ page[t].queue # <<>> /\ Head(page[t].queue).op = "decrypt"
      /\ page'[t].pending = page[t].pending
      /\ \A v \in Pages : SameSockets(v) /\ (v # t => page'[v] = page[v])
      /\ stored'[Owner[t]] = page'[t].chats
      /\ \A u \in Users : u # Owner[t] => stored'[u] = stored[u]
  BY DecryptedEffect
<1>3. PICK e \in AnyEntry :
        e.from = Head(page[t].queue).from /\ page'[t].chats = Append(page[t].chats, e)
  BY DecryptedEffect
<1>4. e.from # Owner[t]
  <2>1. Head(page[t].queue) \in QueueMessages(t, posted, chatIds)
    BY <1>1, <1>2, GenuinePage, TailPart
  <2> QED  BY <1>2, <1>3, <2>1 DEF QueueMessages
<1>5. Fewer
  BY DecryptedFewer
<1>6. ASSUME NEW v \in Pages, Owner[v] \notin disturbed
      PROVE  EchoInv(v) /\ TextsShown(page'[v].chats, Owner[v])
  <2>1. EchoInv(v) /\ TextsShown(page[v].chats, Owner[v])
    BY <1>6 DEF EchoesInv, EchoInv
  <2>2. CASE v = t
    BY <1>1, <1>3, <1>4, <2>1, <2>2, PageFacts, ShownAppend
  <2> QED  BY <1>2, <2>1, <2>2
<1>7. ASSUME NEW v \in Pages, Owner[v] \notin disturbed  PROVE  EchoInv(v)'
  <2>1. ASSUME NEW r \in SocketsOf(v)
        PROVE  Kept(link'[r].up, link[r].up, v) /\ Kept(link'[r].down, link[r].down, v)
    BY <1>1, <1>2, LinkFacts, WholePart, PartKeeps DEF SocketsOf
  <2>2. page'[v].pending = page[v].pending /\ due'[v] = due[v]
        /\ Kept(page'[v].queue, page[v].queue, v) /\ page'[v].ws = page[v].ws
    BY <1>2, <1>5 DEF Fewer, SameSockets
  <2> QED  BY <1>2, <1>6, <1>7, <2>1, <2>2, EchoStill
<1>8. ASSUME NEW u \in Users, u \notin disturbed'  PROVE  TextsShown(stored'[u], u)
  BY <1>2, <1>6, <1>8 DEF EchoesInv
<1> QED  BY <1>2, <1>7, <1>8 DEF EchoesInv

(* A page that is loaded again awaits no echoes.                           *)
LEMMA ReloadEchoes ==
    ASSUME Connected, Connected', GenuineInv, GenuineInv', EchoesInv,
           NEW t \in Pages, Reload(t)
    PROVE  EchoesInv'
<1>1. Types /\ Owner[t] \in Users
  BY ChatAssumption DEF Connected
<1>2. /\ UNCHANGED stored
      /\ \A v \in Pages : v # t => page'[v] = page[v] /\ due'[v] = due[v]
      /\ page'[t].pending = <<>> /\ page'[t].queue = <<>>
      /\ page'[t].chats = stored[Owner[t]]
      /\ due'[t] = {}
      /\ disturbed' = IF due[t] # {} THEN disturbed \cup {Owner[t]} ELSE disturbed
      /\ \A r \in Sockets :
           /\ link'[r].up = link[r].up
           /\ r[1] = t => link'[r].down = <<>>
           /\ r[1] # t => link'[r] = link[r]
  BY ReloadEffect
<1>3. ASSUME NEW v \in Pages, Owner[v] \notin disturbed'  PROVE  EchoInv(v)'
  <2>1. EchoInv(v) /\ TextsShown(stored[Owner[v]], Owner[v])
    BY <1>1, <1>2, <1>3, PageFacts DEF EchoesInv
  <2>2. CASE v # t
    <3>1. ASSUME NEW r \in SocketsOf(v)  PROVE  link'[r] = link[r] /\ r \in Sockets
      BY <1>2, <2>2 DEF SocketsOf
    <3>2. ASSUME NEW r \in SocketsOf(v)
          PROVE  Kept(link'[r].up, link[r].up, v) /\ Kept(link'[r].down, link[r].down, v)
      BY <1>1, <3>1, LinkFacts, WholePart, PartKeeps
    <3>3. due[v] # {} => Current(v) \in SocketsOf(v)
      BY <2>1, CurrentIsOpen DEF EchoInv, EchoesCome
    <3>4. page'[v] = page[v] /\ due'[v] = due[v] /\ Kept(page'[v].queue, page[v].queue, v)
      BY <1>1, <1>2, <2>2, PageFacts, WholePart, PartKeeps
    <3>5. TextsShown(page'[v].chats, Owner[v])
      BY <2>1, <3>4 DEF EchoInv
    <3> QED  BY <2>1, <3>1, <3>2, <3>3, <3>4, <3>5, EchoStill
  <2>3. CASE v = t
    <3>1. due[t] = {}
      BY <1>2, <1>3, <2>3
    <3>2. \A r \in SocketsOf(t) : \A i \in 1 .. Len(link[r].up) : FALSE
      BY <2>1, <2>3, <3>1 DEF EchoInv, UpAreDue
    <3>3. Len(<<>>) = 0 /\ \A i \in 1 .. 0 : FALSE
      OBVIOUS
    <3>4. PendingInOrder(t)' /\ PendingAreDue(t)' /\ EchoesCome(t)'
      BY <1>2, <3>3 DEF PendingInOrder, PendingAreDue, EchoesCome
    <3>5. UpAreDue(t)'
      BY <1>2, <3>2 DEF UpAreDue, SocketsOf
    <3>6. EchoesInOrder(t)'
      <4>1. \A r \in SocketsOf(t) : link'[r].down = <<>>
        BY <1>2 DEF SocketsOf
      <4> QED  BY <3>3, <4>1 DEF EchoesInOrder, Ordered, Ahead, Below, SocketsOf
    <3>7. TextsShown(page'[t].chats, Owner[t])
      BY <1>2, <2>1, <2>3
    <3> QED  BY <2>3, <3>4, <3>5, <3>6, <3>7 DEF EchoInv
  <2> QED  BY <2>2, <2>3
<1>4. ASSUME NEW u \in Users, u \notin disturbed'  PROVE  TextsShown(stored'[u], u)
  BY <1>2, <1>4 DEF EchoesInv
<1> QED  BY <1>3, <1>4 DEF EchoesInv

(* A plaintext joins those that wait, and its message goes up, behind the  *)
(* others.                                                                 *)
LEMMA EncryptedEchoes ==
    ASSUME Connected, Connected', GenuineInv, GenuineInv', CountInv, EchoesInv,
           NEW t \in Pages, Encrypted(t)
    PROVE  EchoesInv'
<1>1. Types
  BY DEF Connected
<1>2. PICK n \in 1 .. posted, m \in AnyMessage :
        /\ Head(page[t].queue).text = <<t, n>> /\ m.text = <<t, n>>
        /\ InQueue(t, n)
        /\ Below(<<m>>, page'[t].queue, t)
        /\ \A b : Below(b, page[t].queue, t) => Below(b, <<m>>, t)
        /\ Sent(t) => link'[Current(t)].up = Append(link[Current(t)].up, m)
  BY EncryptedMoves
<1> DEFINE x == m.text
<1>3. x[1] = t /\ x[2] = n /\ x \in AnyText
  BY <1>2, MessageFacts
<1>4. /\ UNCHANGED stored
      /\ page[t].queue # <<>> /\ page'[t].queue = Tail(page[t].queue)
      /\ page'[t].pending = Append(page[t].pending, x)
      /\ \A v \in Pages :
           /\ page'[v].chats = page[v].chats /\ SameSockets(v)
           /\ v # t => page'[v].queue = page[v].queue /\ page'[v].pending = page[v].pending
           /\ v # t => due'[v] = due[v]
      /\ due'[t] = due[t] \cup {x}
      /\ \A r \in Sockets :
           /\ SameConnection(r) /\ link'[r].down = link[r].down
           /\ r # Current(t) \/ ~Sent(t) => link'[r].up = link[r].up
      /\ disturbed' = IF Sent(t) THEN disturbed ELSE disturbed \cup {Owner[t]}
  BY <1>2, EncryptedEffect
<1> HIDE DEF x
<1>5. ASSUME NEW v \in Pages, Owner[v] \notin disturbed'  PROVE  EchoInv(v)'
  <2>1. EchoInv(v)
    BY <1>4, <1>5 DEF EchoesInv
  <2>2. TextsShown(page'[v].chats, Owner[v])
    BY <1>4, <2>1 DEF EchoInv
  <2>3. CASE v # t
    <3>1. ASSUME NEW r \in SocketsOf(v)
          PROVE  /\ r \in Sockets /\ link'[r].up = link[r].up /\ link'[r].down = link[r].down
                 /\ SameConnection(r)
      BY <1>4, <2>3 DEF SocketsOf, Current
    <3>2. ASSUME NEW r \in SocketsOf(v)
          PROVE  Kept(link'[r].up, link[r].up, v) /\ Kept(link'[r].down, link[r].down, v)
      BY <1>1, <3>1, LinkFacts, WholePart, PartKeeps
    <3>3. due[v] # {} => Current(v) \in SocketsOf(v)
      BY <2>1, CurrentIsOpen DEF EchoInv, EchoesCome
    <3>4. /\ Kept(page'[v].queue, page[v].queue, v) /\ page'[v].pending = page[v].pending
          /\ due'[v] = due[v] /\ page'[v].ws = page[v].ws
      BY <1>1, <1>4, <2>3, PageFacts, WholePart, PartKeeps DEF SameSockets
    <3>5. due[v] # {} =>
             /\ page'[v].ws = page[v].ws
             /\ link'[Current(v)].client = link[Current(v)].client
             /\ link'[Current(v)].whole = link[Current(v)].whole
             /\ link'[Current(v)].up = link[Current(v)].up
             /\ link'[Current(v)].down = link[Current(v)].down
      BY <3>1, <3>3, <3>4 DEF SameConnection
    <3> QED  BY <2>1, <2>2, <3>2, <3>4, <3>5, EchoStill
  <2>4. CASE v = t
    <3> DEFINE c == Current(t)
    <3>1. Sent(t)
      BY <1>1, <1>4, <1>5, <2>4
    <3>2. c \in Sockets /\ c \in SocketsOf(t)
      BY <3>1, CurrentIsOpen DEF Sent
    <3>3. link'[c].up = Append(link[c].up, m)
      BY <1>2, <3>1
    <3>4. page'[t].ws = page[t].ws /\ Current(t)' = c /\ IsOpen(t)' /\ link'[c].whole
      BY <1>4, <3>1, <3>2 DEF Sent, IsOpen, SameSockets, SameConnection, Current
    <3> HIDE DEF c
    <3>5. /\ Len(link[c].up) \in Nat /\ Len(link'[c].up) = Len(link[c].up) + 1
          /\ \A i \in 1 .. Len(link[c].up) : link'[c].up[i] = link[c].up[i]
          /\ link'[c].up[Len(link[c].up) + 1] = m
          /\ link[c].up \in Seq(AnyMessage)
      BY <1>1, <3>2, <3>3, LinkFacts, Appended
    <3>6. /\ Len(page[t].pending) \in Nat /\ Len(page'[t].pending) = Len(page[t].pending) + 1
          /\ \A i \in 1 .. Len(page[t].pending) : page'[t].pending[i] = page[t].pending[i]
          /\ page'[t].pending[Len(page[t].pending) + 1] = x
      BY <1>1, <1>3, <1>4, PageFacts, Appended
    <3>7. PendingInOrder(t) /\ PendingAreDue(t) /\ UpAreDue(t) /\ EchoesCome(t) /\ EchoesInOrder(t)
      BY <2>1, <2>4 DEF EchoInv
    <3>8. \A i \in 1 .. Len(page[t].pending) : page[t].pending[i][2] < n
      BY <1>2, <3>7 DEF PendingInOrder, InQueue
    <3>9. Kept(page'[t].queue, page[t].queue, t) /\ Part(page'[t].queue, page[t].queue)
      BY <1>1, <1>4, PageFacts, TailPart, PartKeeps
    <3>10. PendingInOrder(t)'
      <4>1. ASSUME NEW i \in 1 .. Len(page'[t].pending), NEW j \in 1 .. Len(page'[t].pending), i < j
            PROVE  page'[t].pending[i][2] < page'[t].pending[j][2]
        <5>1. i \in 1 .. Len(page[t].pending) /\ page'[t].pending[i] = page[t].pending[i]
          BY <3>6, <4>1
        <5>2. CASE j = Len(page[t].pending) + 1
          BY <1>3, <3>6, <3>8, <5>1, <5>2
        <5>3. CASE j # Len(page[t].pending) + 1
          <6>1. j \in 1 .. Len(page[t].pending) /\ page'[t].pending[j] = page[t].pending[j]
            BY <3>6, <5>3, SMTT(30)
          <6> QED  BY <3>7, <4>1, <5>1, <6>1 DEF PendingInOrder
        <5> QED  BY <5>2, <5>3
      <4>2. ASSUME NEW i \in 1 .. Len(page'[t].pending), NEW j \in 1 .. Len(page'[t].queue),
                   page'[t].queue[j].text[1] = t
            PROVE  page'[t].pending[i][2] < page'[t].queue[j].text[2]
        <5>1. CASE i = Len(page[t].pending) + 1
          <6>1. <<m>>[1] = m /\ Len(<<m>>) = 1 /\ 1 \in 1 .. 1
            OBVIOUS
          <6>2. n < page'[t].queue[j].text[2]
            BY <1>2, <1>3, <4>2, <6>1 DEF Below, x
          <6> QED  BY <1>3, <3>6, <5>1, <6>2
        <5>2. CASE i # Len(page[t].pending) + 1
          <6>1. i \in 1 .. Len(page[t].pending) /\ page'[t].pending[i] = page[t].pending[i]
            BY <3>6, <5>2, SMTT(30)
          <6>2. PICK k \in 1 .. Len(page[t].queue) : page'[t].queue[j] = page[t].queue[k]
            BY <3>9 DEF Part
          <6> QED  BY <3>7, <4>2, <6>1, <6>2 DEF PendingInOrder
        <5> QED  BY <5>1, <5>2
      <4> QED  BY <4>1, <4>2 DEF PendingInOrder
    <3>11. PendingAreDue(t)'
      <4>1. ASSUME NEW i \in 1 .. Len(page'[t].pending)  PROVE  page'[t].pending[i] \in due'[t]
        <5>1. i \in 1 .. Len(page[t].pending) \/ i = Len(page[t].pending) + 1
          BY <3>6
        <5> QED  BY <1>4, <3>6, <3>7, <5>1 DEF PendingAreDue
      <4>2. ASSUME NEW y \in due'[t]
            PROVE  \E i \in 1 .. Len(page'[t].pending) : page'[t].pending[i] = y
        <5>1. Len(page[t].pending) + 1 \in 1 .. Len(page'[t].pending)
              /\ \A i \in 1 .. Len(page[t].pending) : i \in 1 .. Len(page'[t].pending)
          BY <3>6
        <5> QED  BY <1>4, <3>6, <3>7, <5>1 DEF PendingAreDue
      <4> QED  BY <4>1, <4>2 DEF PendingAreDue
    <3>12. UpAreDue(t)'
      <4> SUFFICES ASSUME NEW s \in SocketsOf(t), NEW i \in 1 .. Len(link'[s].up)
                   PROVE  link'[s].up[i].text \in due'[t]
        BY DEF UpAreDue, SocketsOf
      <4>1. CASE s = c
        <5>1. i \in 1 .. Len(link[c].up) \/ i = Len(link[c].up) + 1
          BY <3>5, <4>1
        <5> QED  BY <1>4, <3>2, <3>5, <3>7, <4>1, <5>1 DEF UpAreDue, x
      <4>2. CASE s # c
        <5>1. link'[s].up = link[s].up
          BY <1>4, <4>2 DEF c, SocketsOf
        <5> QED  BY <1>4, <3>7, <5>1 DEF UpAreDue
      <4> QED  BY <4>1, <4>2
    <3>13. EchoesCome(t)'
      <4> SUFFICES ASSUME NEW y \in due'[t]
                   PROVE  \/ \E i \in 1 .. Len(link'[c].up) : link'[c].up[i].text = y
                          \/ \E i \in 1 .. Len(link'[c].down) : link'[c].down[i].text = y
        BY <3>4 DEF EchoesCome
      <4>1. Len(link[c].up) + 1 \in 1 .. Len(link'[c].up)
            /\ \A i \in 1 .. Len(link[c].up) : i \in 1 .. Len(link'[c].up)
        BY <3>5
      <4>2. CASE y = x
        BY <3>5, <4>1, <4>2 DEF x
      <4>3. CASE y \in due[t]
        <5>1. \/ \E i \in 1 .. Len(link[c].up) : link[c].up[i].text = y
              \/ \E i \in 1 .. Len(link[c].down) : link[c].down[i].text = y
          BY <3>7, <4>3 DEF EchoesCome, c
        <5> QED  BY <1>4, <3>2, <3>5, <4>1, <5>1
      <4> QED  BY <1>4, <4>2, <4>3
    <3>14. EchoesInOrder(t)'
      <4> SUFFICES ASSUME NEW s \in SocketsOf(t)
                   PROVE  /\ Ordered(link'[s].down, t)
                          /\ Below(link'[s].down, page'[t].queue, t)
                          /\ \A r \in SocketsOf(t) : Below(link'[s].down, link'[r].up, t)
        BY DEF EchoesInOrder, Ahead, SocketsOf
      <4>1. s \in Sockets /\ link'[s].down = link[s].down /\ Len(link[s].down) \in Nat
            /\ Kept(link[s].down, link[s].down, t)
        BY <1>1, <1>4, LinkFacts, WholePart, PartKeeps DEF SocketsOf
      <4>2. Ordered(link[s].down, t) /\ Ahead(link[s].down, t)
        BY <3>7 DEF EchoesInOrder
      <4>3. Below(link[s].down, page'[t].queue, t)
        <5>1. page'[t].queue \in Seq(AnyMessage)
          BY <1>1, <1>4, PageFacts, TailPart
        <5>2. Len(page'[t].queue) \in Nat /\ Len(page[t].queue) \in Nat
          BY <1>1, <5>1, PageFacts, LenProperties
        <5> QED  BY <3>9, <4>1, <4>2, <5>2, KeptBelow DEF Ahead
      <4>4. ASSUME NEW r \in SocketsOf(t)  PROVE  Below(link[s].down, link'[r].up, t)
        <5>1. Below(link[s].down, link[r].up, t) /\ Below(link[s].down, <<m>>, t)
          BY <1>2, <4>2 DEF Ahead
        <5>2. CASE r = c
          <6>1. Below(link[s].down, Append(link[c].up, m), t)
            BY <3>5, <5>1, <5>2, AppendBelow
          <6> QED  BY <3>3, <5>2, <6>1
        <5>3. CASE r # c
          <6>1. link'[r].up = link[r].up
            BY <1>4, <5>3 DEF c, SocketsOf
          <6> QED  BY <5>1, <6>1
        <5> QED  BY <5>2, <5>3
      <4> QED  BY <4>1, <4>2, <4>3, <4>4
    <3> QED  BY <2>2, <2>4, <3>10, <3>11, <3>12, <3>13, <3>14 DEF EchoInv
  <2> QED  BY <2>3, <2>4
<1>6. ASSUME NEW u \in Users, u \notin disturbed'  PROVE  TextsShown(stored'[u], u)
  BY <1>4, <1>6 DEF EchoesInv
<1> QED  BY <1>5, <1>6 DEF EchoesInv

(* While nothing has gone wrong, nothing comes up but on the page's socket.*)
LEMMA UpIsCurrent ==
    ASSUME Connected, GenuineInv, CountInv, NEW t \in Pages, EchoInv(t),
           NEW s \in SocketsOf(t), link[s].up # <<>>
    PROVE  /\ s = Current(t) /\ s \in Sockets
           /\ IsOpen(t) /\ link[s].whole /\ link[s].client = "open"
<1> DEFINE c == Current(t)
<1> DEFINE h == link[s].up[1]
<1>1. Types /\ s \in Sockets /\ s[1] = t /\ LinkInv(s)
  BY DEF Connected, SocketsOf
<1>2. link[s].up \in Seq(AnyMessage) /\ 1 \in 1 .. Len(link[s].up)
  BY <1>1, LinkFacts, TailPart
<1>3. h \in AnyMessage /\ h.text[1] = t /\ h.text[2] \in Nat /\ h.text \in due[t]
  BY <1>2, UpIsOwn, MessageFacts, SMTT(30) DEF EchoInv, UpAreDue
<1>4. /\ IsOpen(t) /\ link[c].whole
      /\ \/ \E i \in 1 .. Len(link[c].up) : link[c].up[i].text = h.text
         \/ \E i \in 1 .. Len(link[c].down) : link[c].down[i].text = h.text
  BY <1>3 DEF EchoInv, EchoesCome
<1>5. /\ c \in SocketsOf(t) /\ c[1] = t /\ c[2] = page[t].opened /\ link[c].client = "open"
      /\ page[t].opened \in Nat
  BY <1>1, <1>4, CurrentIsOpen, PageFacts
<1>6. c = <<t, c[2]>> /\ s = <<t, s[2]>> /\ s[2] \in Nat
  BY <1>1, <1>5, LinkFacts DEF SocketsOf, Sockets
<1>7. s[2] <= c[2]
  BY <1>1, <1>5, <1>6 DEF LinkInv
<1>8. s[2] < c[2] => Below(link[s].up, link[c].up, t)
  BY <1>5 DEF CountInv, UpOrder
<1>9. Below(link[c].down, link[s].up, t)
  BY <1>5 DEF EchoInv, EchoesInOrder, Ahead
<1> HIDE DEF c
<1>10. ASSUME s[2] < c[2]  PROVE  FALSE
  <2>1. CASE \E i \in 1 .. Len(link[c].up) : link[c].up[i].text = h.text
    BY <1>2, <1>3, <1>8, <1>10, <2>1, SMTT(30) DEF Below
  <2>2. CASE \E i \in 1 .. Len(link[c].down) : link[c].down[i].text = h.text
    <3>1. PICK i \in 1 .. Len(link[c].down) : link[c].down[i].text = h.text
      BY <2>2
    <3>2. link[c].down[i].text[1] = t /\ link[c].down[i].text[2] = h.text[2]
      BY <1>3, <3>1
    <3>3. link[c].down[i].text[2] < h.text[2]
      BY <1>2, <1>3, <1>9, <3>2 DEF Below
    <3> QED  BY <1>3, <3>2, <3>3
  <2> QED  BY <1>4, <2>1, <2>2
<1>11. s[2] = c[2]
  BY <1>5, <1>6, <1>7, <1>10
<1>12. s = c
  BY <1>6, <1>11
<1> QED  BY <1>1, <1>4, <1>5, <1>12 DEF c

(* What the relay passes on fits between what it has passed on and what is *)
(* still to come.                                                          *)
LEMMA RelayedInOrder ==
    ASSUME Connected, Connected', GenuineInv, CountInv, NEW t \in Pages, EchoInv(t),
           NEW s \in SocketsOf(t), Relay(s), NEW m \in AnyMessage,
           m.text = Head(link[s].up).text,
           NEW seq \in Seq(AnyMessage), Ordered(seq, t), Ahead(seq, t)
    PROVE  /\ Below(seq, <<m>>, t)
           /\ Ordered(Append(seq, m), t)
           /\ Below(Append(seq, m), page'[t].queue, t)
           /\ \A r \in SocketsOf(t) : Below(Append(seq, m), link'[r].up, t)
<1>1. Types /\ s \in Sockets
  BY DEF Connected, SocketsOf
<1>2. /\ UNCHANGED page /\ link[s].up # <<>> /\ link'[s].up = Tail(link[s].up)
      /\ \A r \in Sockets : r # s => link'[r].up = link[r].up
  BY <1>1, RelayEffect
<1>3. /\ Len(link[s].up) \in Nat /\ 1 \in 1 .. Len(link[s].up)
      /\ Head(link[s].up) = link[s].up[1]
      /\ Len(link'[s].up) = Len(link[s].up) - 1
      /\ \A i \in 1 .. Len(link'[s].up) : link'[s].up[i] = link[s].up[i + 1]
  BY <1>1, <1>2, LinkFacts, TailPart
<1>4. m.text = link[s].up[1].text /\ m.text[1] = t
  BY <1>3, UpIsOwn
<1>5. Len(<<m>>) = 1 /\ <<m>>[1] = m
  OBVIOUS
<1>6. /\ Ordered(link[s].up, t) /\ Below(link[s].up, page[t].queue, t)
      /\ Below(seq, link[s].up, t)
  BY DEF CountInv, UpOrder, Ahead
<1>7. Below(seq, <<m>>, t)
  BY <1>3, <1>4, <1>5, <1>6 DEF Below
<1>8. Below(<<m>>, page'[t].queue, t)
  <2> SUFFICES ASSUME NEW j \in 1 .. Len(page[t].queue), page[t].queue[j].text[1] = t
               PROVE  m.text[2] < page[t].queue[j].text[2]
    BY <1>2, <1>5 DEF Below
  <2>1. link[s].up[1].text[2] < page[t].queue[j].text[2]
    BY <1>3, <1>4, <1>6 DEF Below
  <2> QED  BY <1>4, <2>1
<1>9. ASSUME NEW r \in SocketsOf(t)  PROVE  Below(<<m>>, link'[r].up, t)
  <2>1. CASE r = s
    <3>1. \A i \in 1 .. Len(link'[s].up) :
             i + 1 \in 1 .. Len(link[s].up) /\ 1 < i + 1 /\ link'[s].up[i] = link[s].up[i + 1]
      BY <1>3
    <3>2. Below(<<m>>, link'[s].up, t)
      <4> SUFFICES ASSUME NEW j \in 1 .. Len(link'[s].up), link'[s].up[j].text[1] = t
                   PROVE  m.text[2] < link'[s].up[j].text[2]
        BY <1>5 DEF Below
      <4>1. PICK k \in 1 .. Len(link[s].up) : 1 < k /\ link'[s].up[j] = link[s].up[k]
        BY <3>1
      <4>2. link[s].up[1].text[2] < link[s].up[k].text[2]
        BY <1>3, <1>4, <1>6, <4>1 DEF Ordered
      <4> QED  BY <1>4, <4>1, <4>2
    <3> QED  BY <2>1, <3>2
  <2>2. CASE r # s
    <3>1. r \in Sockets
      BY DEF SocketsOf
    <3>2. link[r].up = <<>>
      BY <1>2, <2>2, UpIsCurrent
    <3>3. link'[r].up = <<>>
      BY <1>2, <2>2, <3>1, <3>2
    <3>4. Len(<<>>) = 0 /\ 1 .. 0 = {}
      OBVIOUS
    <3> QED  BY <3>3, <3>4 DEF Below
  <2> QED  BY <2>1, <2>2
<1>10. Ordered(Append(seq, m), t)
  BY <1>7, AppendOrdered
<1>11. Fewer
  BY <1>1, RelayFewer
<1>12. /\ Below(seq, page'[t].queue, t)
       /\ \A r \in SocketsOf(t) : Below(seq, link'[r].up, t)
  <2>1. Kept(seq, seq, t) /\ Len(seq) \in Nat
    BY WholePart, PartKeeps, LenProperties
  <2> QED  BY <1>11, <2>1, AheadStays DEF Fewer
<1> QED  BY <1>7, <1>8, <1>9, <1>10, <1>12, AppendBelow

(* The relay brings back the echo that is due next, on the page's socket.  *)
LEMMA RelayEchoes ==
    ASSUME Connected, Connected', GenuineInv, GenuineInv', CountInv, EchoesInv,
           NEW s \in Sockets, Relay(s)
    PROVE  EchoesInv'
<1>1. Types /\ s[1] \in Pages /\ s \in SocketsOf(s[1]) /\ LinkInv(s)
  BY LinkFacts DEF Connected
<1>2. /\ UNCHANGED <<page, stored, due, disturbed>> /\ UNCHANGED connections
      /\ link[s].server = "open" /\ link[s].up # <<>>
      /\ link'[s].up = Tail(link[s].up)
      /\ \A r \in Sockets : SameConnection(r) /\ (r # s => link'[r].up = link[r].up)
  BY RelayEffect
<1>3. PICK m \in AnyMessage :
        /\ m.from = Head(link[s].up).from /\ m.text = Head(link[s].up).text
        /\ \A r \in Sockets :
             link'[r].down = IF r \in Recipients(m) /\ link[r].whole
                               THEN Append(link[r].down, m) ELSE link[r].down
  BY RelayEffect
<1>4. /\ link[s].up \in Seq(AnyMessage)
      /\ Len(link[s].up) \in Nat /\ 1 \in 1 .. Len(link[s].up)
      /\ Head(link[s].up) = link[s].up[1]
      /\ Len(Tail(link[s].up)) = Len(link[s].up) - 1
      /\ \A i \in 1 .. Len(Tail(link[s].up)) : Tail(link[s].up)[i] = link[s].up[i + 1]
      /\ Part(link'[s].up, link[s].up)
  BY <1>1, <1>2, LinkFacts, TailPart
<1>5. m.text[1] = s[1] /\ m.text[2] \in Nat /\ m.from = User(s)
  <2>1. link[s].up[1] \in UpMessages(s[1], posted, chatIds)
    BY <1>1, <1>4, GenuineLink, ElementOfSeq
  <2> QED  BY <1>3, <1>4, <2>1, MessageFacts DEF UpMessages, Genuine, User
<1>6. Fewer
  BY RelayFewer
<1>7. ASSUME NEW v \in Pages, Owner[v] \notin disturbed  PROVE  EchoInv(v)'
  <2>1. EchoInv(v)
    BY <1>7 DEF EchoesInv
  <2>2. TextsShown(page'[v].chats, Owner[v])
    BY <1>2, <2>1 DEF EchoInv
  <2>3. CASE v # s[1]
    <3>1. ASSUME NEW r \in SocketsOf(v)
          PROVE  /\ r \in Sockets /\ SameConnection(r) /\ link'[r].up = link[r].up
                 /\ Kept(link'[r].up, link[r].up, v) /\ Kept(link'[r].down, link[r].down, v)
                 /\ \A i \in 1 .. Len(link[r].down) :
                      \E j \in 1 .. Len(link'[r].down) : link'[r].down[j].text = link[r].down[i].text
      <4>1. r \in Sockets /\ r # s /\ SameConnection(r) /\ link'[r].up = link[r].up
        BY <1>2, <2>3 DEF SocketsOf
      <4>2. link[r].down \in Seq(AnyMessage) /\ Kept(link[r].down, link[r].down, v)
        BY <1>1, <4>1, LinkFacts, WholePart, PartKeeps
      <4>3. CASE link'[r].down = link[r].down
        BY <1>6, <4>1, <4>2, <4>3 DEF Fewer
      <4>4. CASE link'[r].down = Append(link[r].down, m)
        <5>1. /\ Len(link[r].down) \in Nat /\ Len(link'[r].down) = Len(link[r].down) + 1
              /\ \A i \in 1 .. Len(link[r].down) : link'[r].down[i] = link[r].down[i]
          BY <4>2, <4>4, Appended
        <5>2. \A i \in 1 .. Len(link[r].down) : i \in 1 .. Len(link'[r].down)
          BY <5>1
        <5>3. Kept(link'[r].down, link[r].down, v)
          BY <1>5, <2>3, <4>2, <4>4, ForeignKept
        <5> QED  BY <1>6, <4>1, <5>1, <5>2, <5>3 DEF Fewer
      <4> QED  BY <1>3, <4>1, <4>3, <4>4
    <3>2. due[v] # {} => Current(v) \in SocketsOf(v)
      BY <2>1, CurrentIsOpen DEF EchoInv, EchoesCome
    <3>3. page'[v] = page[v] /\ due'[v] = due[v] /\ Kept(page'[v].queue, page[v].queue, v)
      BY <1>2, <1>6 DEF Fewer
    <3>4. due[v] # {} =>
             /\ page'[v].ws = page[v].ws
             /\ link'[Current(v)].client = link[Current(v)].client
             /\ link'[Current(v)].whole = link[Current(v)].whole
             /\ link'[Current(v)].up = link[Current(v)].up
             /\ \A i \in 1 .. Len(link[Current(v)].down) :
                   \E j \in 1 .. Len(link'[Current(v)].down) :
                      link'[Current(v)].down[j].text = link[Current(v)].down[i].text
      BY <3>1, <3>2, <3>3 DEF SameConnection
    <3>5. \A r \in SocketsOf(v) :
            Kept(link'[r].up, link[r].up, v) /\ Kept(link'[r].down, link[r].down, v)
      BY <3>1
    <3>6. page'[v].pending = page[v].pending
      BY <3>3
    <3> QED  BY <2>1, <2>2, <3>3, <3>4, <3>5, <3>6, EchoStill
  <2>4. CASE v = s[1]
    <3>1. s \in SocketsOf(v) /\ v = s[1] /\ Owner[v] = User(s) /\ m.text[1] = v
      BY <1>1, <1>5, <2>4 DEF User
    <3>2. s = Current(v) /\ IsOpen(v) /\ link[s].whole /\ link[s].client = "open"
      BY <1>2, <2>1, <3>1, UpIsCurrent
    <3>3. Current(v)' = s /\ IsOpen(v)' /\ link'[s].whole
      BY <1>2, <3>2 DEF Current, IsOpen, SameConnection
    <3>4. s \in Recipients(m)
      BY <1>1, <1>2, <1>5 DEF LinkInv, Recipients
    <3>5. link'[s].down = Append(link[s].down, m)
      BY <1>3, <3>2, <3>4
    <3>6. /\ Len(link[s].down) \in Nat /\ Len(link'[s].down) = Len(link[s].down) + 1
          /\ \A i \in 1 .. Len(link[s].down) : link'[s].down[i] = link[s].down[i]
          /\ link'[s].down[Len(link[s].down) + 1] = m
          /\ link[s].down \in Seq(AnyMessage)
      BY <1>1, <3>5, LinkFacts, Appended
    <3>7. /\ PendingInOrder(v) /\ PendingAreDue(v) /\ UpAreDue(v) /\ EchoesCome(v)
          /\ EchoesInOrder(v) /\ UpOrder(v)
      BY <2>1 DEF EchoInv, CountInv
    <3>8. PendingInOrder(v)' /\ PendingAreDue(v)'
      BY <1>2, <3>7 DEF PendingInOrder, PendingAreDue
    <3>9. \A i \in 1 .. Len(link'[s].up) :
             i + 1 \in 1 .. Len(link[s].up) /\ link'[s].up[i] = link[s].up[i + 1]
      BY <1>2, <1>4
    <3>10. UpAreDue(v)'
      <4> SUFFICES ASSUME NEW r \in SocketsOf(v), NEW i \in 1 .. Len(link'[r].up)
                   PROVE  link'[r].up[i].text \in due[v]
        BY <1>2 DEF UpAreDue, SocketsOf
      <4>1. CASE r = s
        BY <3>1, <3>7, <3>9, <4>1 DEF UpAreDue
      <4>2. CASE r # s
        <5>1. link'[r].up = link[r].up
          BY <1>2, <4>2 DEF SocketsOf
        <5> QED  BY <3>7, <5>1 DEF UpAreDue
      <4> QED  BY <4>1, <4>2
    <3>11. EchoesCome(v)'
      <4> SUFFICES ASSUME NEW y \in due[v]
                   PROVE  \/ \E i \in 1 .. Len(link'[s].up) : link'[s].up[i].text = y
                          \/ \E i \in 1 .. Len(link'[s].down) : link'[s].down[i].text = y
        BY <1>2, <3>3 DEF EchoesCome
      <4>1. Len(link[s].down) + 1 \in 1 .. Len(link'[s].down)
            /\ \A i \in 1 .. Len(link[s].down) : i \in 1 .. Len(link'[s].down)
        BY <3>6
      <4>2. \/ \E i \in 1 .. Len(link[s].up) : link[s].up[i].text = y
            \/ \E i \in 1 .. Len(link[s].down) : link[s].down[i].text = y
        BY <3>2, <3>7 DEF EchoesCome
      <4>3. CASE \E i \in 1 .. Len(link[s].down) : link[s].down[i].text = y
        BY <3>6, <4>1, <4>3
      <4>4. CASE \E i \in 1 .. Len(link[s].up) : link[s].up[i].text = y
        <5>1. PICK i \in 1 .. Len(link[s].up) : link[s].up[i].text = y
          BY <4>4
        <5>2. CASE i = 1
          BY <1>3, <1>4, <3>6, <4>1, <5>1, <5>2
        <5>3. CASE i # 1
          <6>1. i - 1 \in 1 .. Len(link'[s].up) /\ i - 1 + 1 = i
            BY <1>2, <1>4, <5>3
          <6>2. link'[s].up[i - 1] = link[s].up[i]
            BY <3>9, <6>1
          <6> QED  BY <5>1, <6>1, <6>2
        <5> QED  BY <5>2, <5>3
      <4> QED  BY <4>2, <4>3, <4>4
    <3>12. EchoesInOrder(v)'
      <4> SUFFICES ASSUME NEW r \in SocketsOf(v)
                   PROVE  /\ Ordered(link'[r].down, v)
                          /\ Below(link'[r].down, page'[v].queue, v)
                          /\ \A q \in SocketsOf(v) : Below(link'[r].down, link'[q].up, v)
        BY DEF EchoesInOrder, Ahead, SocketsOf
      <4>1. r \in Sockets /\ link[r].down \in Seq(AnyMessage) /\ Len(link[r].down) \in Nat
            /\ Kept(link[r].down, link[r].down, v)
        BY <1>1, LinkFacts, WholePart, PartKeeps DEF SocketsOf
      <4>2. Ordered(link[r].down, v) /\ Ahead(link[r].down, v)
        BY <3>7 DEF EchoesInOrder
      <4>3. CASE link'[r].down = link[r].down
        BY <1>6, <4>1, <4>2, <4>3, AheadStays DEF Fewer
      <4>4. CASE link'[r].down = Append(link[r].down, m)
        BY <1>3, <2>1, <3>1, <4>1, <4>2, <4>4, RelayedInOrder
      <4> QED  BY <1>3, <4>1, <4>3, <4>4
    <3> QED  BY <2>2, <2>4, <3>8, <3>10, <3>11, <3>12 DEF EchoInv
  <2> QED  BY <2>3, <2>4
<1> QED  BY <1>2, <1>7 DEF EchoesInv

(* An echo that comes to the page it is due to comes next, and finds its   *)
(* plaintext in front.                                                     *)
LEMMA EchoIsNext ==
    ASSUME Connected, GenuineInv, NEW t \in Pages, EchoInv(t),
           NEW s \in SocketsOf(t), link[s].client = "open", link[s].down # <<>>,
           Head(link[s].down).text \in due[t]
    PROVE  /\ s = Current(t)
           /\ page[t].pending # <<>> /\ Head(page[t].pending) = Head(link[s].down).text
<1>1. Types /\ s \in Sockets /\ s[1] = t /\ LinkInv(s)
  BY DEF Connected, SocketsOf
<1> DEFINE x == link[s].down[1].text
<1>2. /\ link[s].down \in Seq(AnyMessage) /\ Len(link[s].down) \in Nat
      /\ 1 \in 1 .. Len(link[s].down)
      /\ Head(link[s].down) = link[s].down[1]
  BY <1>1, LinkFacts, TailPart
<1>3. x \in due[t] /\ x[1] = t /\ x[2] \in Nat
  <2>1. x \in due[t]
    BY <1>2
  <2> QED  BY <2>1, DueIsOwn DEF EchoInv
<1>4. s = Current(t)
  BY <1>1, LinkFacts DEF LinkInv, Current
<1>5. PICK i \in 1 .. Len(page[t].pending) : page[t].pending[i] = x
  BY <1>3 DEF EchoInv, PendingAreDue
<1>6. page[t].pending \in Seq(AnyText) /\ Len(page[t].pending) \in Nat
  BY <1>1, PageFacts
<1>7. page[t].pending # <<>> /\ 1 \in 1 .. Len(page[t].pending)
      /\ Head(page[t].pending) = page[t].pending[1]
  <2>1. page[t].pending # <<>>
    BY <1>5, <1>6, EmptySeq
  <2> QED  BY <1>6, <2>1, TailPart
<1> DEFINE y == page[t].pending[1]
<1>8. y \in due[t] /\ y[1] = t /\ y[2] \in Nat
  <2>1. y \in due[t]
    BY <1>7 DEF EchoInv, PendingAreDue
  <2> QED  BY <2>1, DueIsOwn DEF EchoInv
<1>9. /\ Ordered(link[s].down, t) /\ Below(link[s].down, link[s].up, t)
  BY DEF EchoInv, EchoesInOrder, Ahead
<1>10. \/ \E k \in 1 .. Len(link[s].up) : link[s].up[k].text = y
       \/ \E k \in 1 .. Len(link[s].down) : link[s].down[k].text = y
  BY <1>4, <1>8 DEF EchoInv, EchoesCome
<1>11. ASSUME i # 1  PROVE  FALSE
  <2>1. y[2] < x[2]
    BY <1>5, <1>6, <1>7, <1>11 DEF EchoInv, PendingInOrder
  <2>2. CASE \E k \in 1 .. Len(link[s].up) : link[s].up[k].text = y
    <3>1. PICK k \in 1 .. Len(link[s].up) : link[s].up[k].text = y
      BY <2>2
    <3>2. x[2] < y[2]
      BY <1>2, <1>3, <1>8, <1>9, <3>1 DEF Below
    <3> QED  BY <1>3, <1>8, <2>1, <3>2
  <2>3. CASE \E k \in 1 .. Len(link[s].down) : link[s].down[k].text = y
    <3>1. PICK k \in 1 .. Len(link[s].down) : link[s].down[k].text = y
      BY <2>3
    <3>2. CASE k = 1
      BY <1>3, <2>1, <3>1, <3>2
    <3>3. CASE k # 1
      <4>1. x[2] < y[2]
        <5>1. 1 < k /\ link[s].down[1].text[1] = t /\ link[s].down[k].text[1] = t
          BY <1>2, <1>3, <1>8, <3>1, <3>3
        <5>2. link[s].down[1].text[2] < link[s].down[k].text[2]
          BY <1>2, <1>9, <3>1, <5>1 DEF Ordered
        <5> QED  BY <3>1, <5>2
      <4> QED  BY <1>3, <1>8, <2>1, <4>1, SMTT(30)
    <3> QED  BY <3>2, <3>3
  <2> QED  BY <1>10, <2>2, <2>3
<1> QED  BY <1>2, <1>4, <1>5, <1>7, <1>11

(* The page takes in an echo: the one it was due next, or it is disturbed. *)
LEMMA ReceiveEchoEchoes ==
    ASSUME Connected, Connected', GenuineInv, GenuineInv', EchoesInv,
           NEW s \in Sockets, ReceiveEcho(s)
    PROVE  EchoesInv'
<1>1. Types /\ s[1] \in Pages /\ s \in SocketsOf(s[1])
  BY LinkFacts DEF Connected
<1>2. PICK t \in Pages : t = s[1]
  BY <1>1
<1> DEFINE x == Arrival(s).text
<1>3. /\ link[s].down # <<>> /\ link[s].client = "open"
      /\ Arrival(s) = Head(link[s].down)
      /\ link'[s].down = Tail(link[s].down)
      /\ \A r \in Sockets :
           /\ SameConnection(r) /\ link'[r].up = link[r].up
           /\ r # s => link'[r].down = link[r].down
      /\ \A v \in Pages : SameSockets(v) /\ (v # t => page'[v] = page[v] /\ due'[v] = due[v])
      /\ page'[t].queue = page[t].queue
      /\ page'[t].pending = IF page[t].pending = <<>> THEN <<>> ELSE Tail(page[t].pending)
      /\ stored'[Owner[t]] = page'[t].chats
      /\ \A u \in Users : u # Owner[t] => stored'[u] = stored[u]
      /\ due'[t] = due[t] \ {x}
      /\ disturbed' = IF x \notin due[t] THEN disturbed \cup {Owner[t]} ELSE disturbed
  BY <1>2, ReceiveEchoEffect, SMTT(30)
<1>4. PICK e \in AnyEntry :
        /\ e.text = x
        /\ e.as = IF page[t].pending = <<>> THEN NoPlaintext ELSE Head(page[t].pending)
        /\ page'[t].chats = Append(page[t].chats, e)
  BY <1>2, ReceiveEchoEffect
<1>5. /\ Part(link'[s].down, link[s].down)
      /\ Len(link[s].down) \in Nat /\ 1 \in 1 .. Len(link[s].down) /\ x = link[s].down[1].text
      /\ Len(link'[s].down) = Len(link[s].down) - 1
      /\ \A i \in 1 .. Len(link'[s].down) : link'[s].down[i] = link[s].down[i + 1]
  BY <1>1, <1>3, LinkFacts, TailPart
<1> HIDE DEF x
<1>6. Fewer
  BY ReceiveEchoFewer
<1>7. ASSUME NEW v \in Pages, NEW r \in SocketsOf(v)
      PROVE  Kept(link'[r].up, link[r].up, v) /\ Kept(link'[r].down, link[r].down, v)
  <2>1. r \in Sockets
    BY DEF SocketsOf
  <2>2. Part(link'[r].down, link[r].down)
    BY <1>1, <1>3, <1>5, <2>1, LinkFacts, WholePart
  <2> QED  BY <1>6, <2>2, PartKeeps DEF Fewer
<1>8. ASSUME NEW v \in Pages, Owner[v] \notin disturbed'
      PROVE  EchoInv(v)' /\ TextsShown(page'[v].chats, Owner[v])
  <2>1. EchoInv(v)
    BY <1>3, <1>8 DEF EchoesInv
  <2>2. CASE v # t
    <3>1. page'[v] = page[v] /\ due'[v] = due[v] /\ Kept(page'[v].queue, page[v].queue, v)
      BY <1>3, <1>6, <2>2 DEF Fewer
    <3>2. due[v] # {} => Current(v) \in Sockets /\ Current(v) # s
      BY <1>2, <2>1, <2>2, CurrentIsOpen DEF EchoInv, EchoesCome
    <3>3. due[v] # {} =>
             /\ page'[v].ws = page[v].ws
             /\ link'[Current(v)].client = link[Current(v)].client
             /\ link'[Current(v)].whole = link[Current(v)].whole
             /\ link'[Current(v)].up = link[Current(v)].up
             /\ link'[Current(v)].down = link[Current(v)].down
      BY <1>3, <3>1, <3>2 DEF SameConnection
    <3>4. TextsShown(page'[v].chats, Owner[v]) /\ page'[v].pending = page[v].pending
      BY <2>1, <3>1 DEF EchoInv
    <3> QED  BY <1>7, <2>1, <3>1, <3>3, <3>4, EchoStill
  <2>3. CASE v = t
    <3>1. x \in due[t]
      BY <1>3, <1>8, <2>3
    <3>2. s \in SocketsOf(t)
      BY <1>1, <1>2
    <3>3. /\ s = Current(t) /\ page[t].pending # <<>> /\ Head(page[t].pending) = x
      BY <1>3, <2>1, <2>3, <3>1, <3>2, EchoIsNext DEF x
    <3>4. /\ Len(page[t].pending) \in Nat /\ 1 \in 1 .. Len(page[t].pending)
          /\ page[t].pending[1] = x
          /\ Len(page'[t].pending) = Len(page[t].pending) - 1
          /\ \A i \in 1 .. Len(page'[t].pending) : page'[t].pending[i] = page[t].pending[i + 1]
      BY <1>1, <1>3, <3>3, PageFacts, TailPart
    <3>5. \A i \in 1 .. Len(page'[t].pending) :
             i + 1 \in 1 .. Len(page[t].pending) /\ 1 < i + 1
      BY <3>4
    <3>6. x[1] = t /\ x[2] \in Nat
      BY <2>1, <2>3, <3>1, DueIsOwn DEF EchoInv
    <3>7. /\ PendingInOrder(t) /\ PendingAreDue(t) /\ UpAreDue(t) /\ EchoesCome(t)
          /\ EchoesInOrder(t) /\ TextsShown(page[t].chats, Owner[t])
      BY <2>1, <2>3 DEF EchoInv
    <3>8. TextsShown(page'[t].chats, Owner[t])
      BY <1>1, <1>4, <3>3, <3>7, PageFacts, ShownAppend
    <3>9. PendingInOrder(t)'
      BY <1>3, <3>4, <3>5, <3>7 DEF PendingInOrder
    <3>10. PendingAreDue(t)'
      <4>1. ASSUME NEW i \in 1 .. Len(page'[t].pending)  PROVE  page'[t].pending[i] \in due'[t]
        <5>1. page'[t].pending[i] \in due[t]
          BY <3>4, <3>5, <3>7 DEF PendingAreDue
        <5>2. x[2] < page'[t].pending[i][2]
          BY <3>4, <3>5, <3>7 DEF PendingInOrder
        <5>3. page'[t].pending[i] # x
          BY <3>6, <5>2
        <5> QED  BY <1>3, <5>1, <5>3
      <4>2. ASSUME NEW y \in due'[t]
            PROVE  \E i \in 1 .. Len(page'[t].pending) : page'[t].pending[i] = y
        <5>1. PICK i \in 1 .. Len(page[t].pending) : page[t].pending[i] = y /\ i # 1
          BY <1>3, <3>4, <3>7 DEF PendingAreDue
        <5>2. i - 1 \in 1 .. Len(page'[t].pending) /\ i - 1 + 1 = i
          BY <3>4, <5>1
        <5> QED  BY <3>4, <5>1, <5>2
      <4> QED  BY <4>1, <4>2 DEF PendingAreDue
    <3>11. UpAreDue(t)'
      <4> SUFFICES ASSUME NEW r \in SocketsOf(t), NEW i \in 1 .. Len(link[r].up)
                   PROVE  link[r].up[i].text \in due'[t]
        BY <1>3 DEF UpAreDue, SocketsOf
      <4>1. link[r].up[i].text \in due[t] /\ link[r].up[i].text[1] = t
        BY <3>7, UpIsOwn DEF UpAreDue
      <4>2. Below(link[s].down, link[r].up, t)
        BY <3>2, <3>7 DEF EchoesInOrder, Ahead
      <4>3. x[2] < link[r].up[i].text[2]
        BY <1>5, <3>6, <4>1, <4>2 DEF Below
      <4>4. link[r].up[i].text # x
        BY <3>6, <4>3
      <4> QED  BY <1>3, <4>1, <4>4
    <3>12. EchoesCome(t)'
      <4>1. IsOpen(t)' /\ Current(t)' = s /\ link'[s].whole
        BY <1>3, <3>1, <3>3, <3>7 DEF EchoesCome, IsOpen, Current, SameSockets, SameConnection
      <4> SUFFICES ASSUME NEW y \in due'[t]
                   PROVE  \/ \E i \in 1 .. Len(link'[s].up) : link'[s].up[i].text = y
                          \/ \E i \in 1 .. Len(link'[s].down) : link'[s].down[i].text = y
        BY <4>1 DEF EchoesCome
      <4>2. y \in due[t] /\ y # x
        BY <1>3
      <4>3. \/ \E i \in 1 .. Len(link[s].up) : link[s].up[i].text = y
            \/ \E i \in 1 .. Len(link[s].down) : link[s].down[i].text = y
        BY <3>3, <3>7, <4>2 DEF EchoesCome
      <4>4. CASE \E i \in 1 .. Len(link[s].up) : link[s].up[i].text = y
        BY <1>3, <4>4
      <4>5. CASE \E i \in 1 .. Len(link[s].down) : link[s].down[i].text = y
        <5>1. PICK i \in 1 .. Len(link[s].down) : link[s].down[i].text = y /\ i # 1
          BY <1>5, <4>2, <4>5
        <5>2. i - 1 \in 1 .. Len(link'[s].down) /\ i - 1 + 1 = i
          BY <1>5, <5>1
        <5>3. link'[s].down[i - 1] = link[s].down[i]
          BY <1>5, <5>2
        <5> QED  BY <5>1, <5>2, <5>3
      <4> QED  BY <4>3, <4>4, <4>5
    <3>13. EchoesInOrder(t)'
      <4> SUFFICES ASSUME NEW r \in SocketsOf(t)
                   PROVE  /\ Ordered(link'[r].down, t)
                          /\ Below(link'[r].down, page'[t].queue, t)
                          /\ \A q \in SocketsOf(t) : Below(link'[r].down, link'[q].up, t)
        BY DEF EchoesInOrder, Ahead, SocketsOf
      <4>1. r \in Sockets /\ Len(link[r].down) \in Nat
        BY <1>1, LinkFacts DEF SocketsOf
      <4>2. Types'
        BY DEF Connected
      <4>3. link'[r].down \in Seq(AnyMessage)
        BY <4>1, <4>2 DEF Types, LinkState
      <4>4. Len(link'[r].down) \in Nat
        BY <4>3, LenProperties
      <4>5. Ordered(link[r].down, t) /\ Ahead(link[r].down, t)
        BY <3>7 DEF EchoesInOrder
      <4> QED  BY <1>6, <1>7, <4>1, <4>4, <4>5, KeptOrdered, AheadStays DEF Fewer
    <3> QED  BY <2>3, <3>8, <3>9, <3>10, <3>11, <3>12, <3>13 DEF EchoInv
  <2> QED  BY <2>2, <2>3
<1>9. ASSUME NEW u \in Users, u \notin disturbed'  PROVE  TextsShown(stored'[u], u)
  BY <1>3, <1>8, <1>9 DEF EchoesInv
<1> QED  BY <1>8, <1>9 DEF EchoesInv
-----------------------------------------------------------------------------
(* Messages on their way to the peer.                                      *)

(* There are two users.                                                    *)
LEMMA TwoUsers ==
    ASSUME NEW u \in Users
    PROVE  Peer(u) \in Users /\ Peer(u) # u /\ \A w \in Users : w # u => w = Peer(u)
  BY DEF Users, Peer

(* Ahead of what is there after the step.                                  *)
AheadNext(a, t) ==
    /\ Below(a, page'[t].queue, t)
    /\ \A r \in SocketsOf(t) : Below(a, link'[r].up, t)

(* After the step, what had left page t is still ahead of what has not.    *)
AllAhead(t) ==
    /\ \A v \in Pages : Owner[v] # Owner[t] =>
        /\ AheadNext(page[v].chats, t) /\ AheadNext(page[v].queue, t)
        /\ \A s \in SocketsOf(v) : AheadNext(link[s].down, t)
    /\ AheadNext(stored[Peer(Owner[t])], t)

PipesOf(t) ==
    /\ \A v \in Pages : Owner[v] # Owner[t] => PipeInv(t, v)
    /\ StoredInv(t, Peer(Owner[t]))

(* What is kept of a sequence is ahead of all the sequence was ahead of.   *)
LEMMA KeptAhead ==
    ASSUME Connected, Connected', NEW t \in Pages, NEW new, NEW old,
           Len(new) \in Nat, Len(old) \in Nat, Kept(new, old, t), AheadNext(old, t)
    PROVE  AheadNext(new, t)
<1>1. ASSUME NEW d, Len(d) \in Nat, Below(old, d, t)  PROVE  Below(new, d, t)
  <2>1. PICK k \in Nat : \A i \in 1 .. Len(new) :
          new[i].text[1] = t => i + k \in 1 .. Len(old) /\ new[i] = old[i + k]
    BY DEF Kept
  <2> QED  BY <1>1, <2>1 DEF Below
<1>2. Types'
  BY DEF Connected
<1>3. Len(page'[t].queue) \in Nat
  <2>1. page'[t].queue \in Seq(AnyMessage)
    BY <1>2 DEF Types, PageState
  <2> QED  BY <2>1, LenProperties
<1>4. ASSUME NEW r \in SocketsOf(t)  PROVE  Len(link'[r].up) \in Nat
  <2>1. link'[r].up \in Seq(AnyMessage)
    BY <1>2 DEF Types, LinkState, SocketsOf
  <2> QED  BY <2>1, LenProperties
<1> QED  BY <1>1, <1>3, <1>4 DEF AheadNext

(* When the messages of page t to come get fewer, the rest stays ahead.    *)
LEMMA FewerAhead ==
    ASSUME Connected, Connected', Fewer, NEW t \in Pages, PipesOf(t)
    PROVE  AllAhead(t)
<1>1. ASSUME NEW a, Len(a) \in Nat, Ahead(a, t)  PROVE  AheadNext(a, t)
  <2>1. \A i \in 1 .. Len(a) : i + 0 \in 1 .. Len(a) /\ a[i] = a[i + 0]
    BY <1>1
  <2>2. Kept(a, a, t)
    BY <2>1 DEF Kept
  <2> QED  BY <1>1, <2>2, AheadStays DEF Fewer, AheadNext
<1>2. Types /\ Peer(Owner[t]) \in Users
  BY PageFacts, TwoUsers DEF Connected
<1>3. ASSUME NEW v \in Pages, Owner[v] # Owner[t]
      PROVE  AheadNext(page[v].chats, t) /\ AheadNext(page[v].queue, t)
  BY <1>1, <1>2, <1>3, PageFacts DEF PipesOf, PipeInv
<1>4. ASSUME NEW v \in Pages, Owner[v] # Owner[t], NEW s \in SocketsOf(v)
      PROVE  AheadNext(link[s].down, t)
  <2>1. Ahead(link[s].down, t)
    BY <1>4 DEF PipesOf, PipeInv
  <2>2. Len(link[s].down) \in Nat
    BY <1>2, LinkFacts DEF SocketsOf
  <2> QED  BY <1>1, <2>1, <2>2
<1>5. AheadNext(stored[Peer(Owner[t])], t)
  <2>1. stored[Peer(Owner[t])] \in Seq(AnyEntry)
    BY <1>2 DEF Types
  <2> QED  BY <1>1, <2>1, LenProperties DEF PipesOf, StoredInv
<1> QED  BY <1>3, <1>4, <1>5 DEF AllAhead

(* A pipe in which nothing of page t moves.                                *)
LEMMA PipeStays ==
    ASSUME Connected, Connected', NEW t \in Pages, NEW v \in Pages, Owner[v] # Owner[t],
           PipesOf(t), AllAhead(t),
           Kept(page'[v].chats, page[v].chats, t), Kept(page'[v].queue, page[v].queue, t),
           \A s \in SocketsOf(v) : Kept(link'[s].down, link[s].down, t)
    PROVE  PipeInv(t, v)'
<1>1. PipeInv(t, v)
  BY DEF PipesOf
<1>2. /\ Len(page[v].chats) \in Nat /\ Len(page'[v].chats) \in Nat
      /\ Len(page[v].queue) \in Nat /\ Len(page'[v].queue) \in Nat
  <2>1. Types /\ Types'
    BY DEF Connected
  <2>2. page'[v].chats \in Seq(AnyEntry) /\ page'[v].queue \in Seq(AnyMessage)
    BY <2>1 DEF Types, PageState
  <2> QED  BY <2>1, <2>2, PageFacts, LenProperties
<1>3. /\ Ordered(page'[v].chats, t) /\ AheadNext(page'[v].chats, t)
      /\ Ordered(page'[v].queue, t) /\ AheadNext(page'[v].queue, t)
      /\ Below(page'[v].chats, page'[v].queue, t)
  BY <1>1, <1>2, KeptOrdered, KeptAhead, KeptBelow DEF PipeInv, AllAhead
<1>4. ASSUME NEW s \in SocketsOf(v)
      PROVE  /\ Ordered(link'[s].down, t) /\ AheadNext(link'[s].down, t)
             /\ Below(page'[v].chats, link'[s].down, t)
             /\ Below(page'[v].queue, link'[s].down, t)
  <2>1. s \in Sockets
    BY DEF SocketsOf
  <2>2. Len(link[s].down) \in Nat /\ Len(link'[s].down) \in Nat
    <3>1. Types /\ Types'
      BY DEF Connected
    <3>2. link'[s].down \in Seq(AnyMessage)
      BY <2>1, <3>1 DEF Types, LinkState
    <3> QED  BY <2>1, <3>1, <3>2, LinkFacts, LenProperties
  <2> QED  BY <1>1, <1>2, <2>2, KeptOrdered, KeptAhead, KeptBelow DEF PipeInv, AllAhead
<1> QED  BY <1>3, <1>4 DEF PipeInv, Ahead, AheadNext, SocketsOf

(* What is stored for the peer, when nothing of page t is added.           *)
LEMMA StoredStays ==
    ASSUME Connected, Connected', NEW t \in Pages, PipesOf(t), AllAhead(t),
           Kept(stored'[Peer(Owner[t])], stored[Peer(Owner[t])], t)
    PROVE  StoredInv(t, Peer(Owner[t]))'
<1>1. Peer(Owner[t]) \in Users
  BY ChatAssumption, TwoUsers
<1>2. Len(stored[Peer(Owner[t])]) \in Nat /\ Len(stored'[Peer(Owner[t])]) \in Nat
  <2>1. stored[Peer(Owner[t])] \in Seq(AnyEntry) /\ stored'[Peer(Owner[t])] \in Seq(AnyEntry)
    BY <1>1 DEF Connected, Types
  <2> QED  BY <2>1, LenProperties
<1>3. Ordered(stored'[Peer(Owner[t])], t) /\ AheadNext(stored'[Peer(Owner[t])], t)
  BY <1>2, KeptOrdered, KeptAhead DEF PipesOf, StoredInv, AllAhead
<1> QED  BY <1>3 DEF StoredInv, Ahead, AheadNext

(* An element that moves from the front of one sequence to the end of the  *)
(* one before it.                                                          *)
LEMMA HeadMoves ==
    ASSUME NEW S, NEW a \in Seq(S), NEW m \in S, NEW T, NEW b \in Seq(T), b # <<>>,
           m.text = Head(b).text, NEW t, Ordered(a, t), Ordered(b, t), Below(a, b, t)
    PROVE  /\ Ordered(Append(a, m), t)
           /\ Below(Append(a, m), Tail(b), t)
           /\ \A d : Below(a, d, t) /\ Below(b, d, t) => Below(Append(a, m), d, t)
           /\ \A d : Below(d, a, t) /\ Below(d, b, t) => Below(d, Append(a, m), t)
<1>1. /\ Len(b) \in Nat /\ 1 \in 1 .. Len(b) /\ m.text = b[1].text
      /\ Len(Tail(b)) = Len(b) - 1
      /\ \A i \in 1 .. Len(Tail(b)) : Tail(b)[i] = b[i + 1]
  BY TailPart
<1>2. Len(<<m>>) = 1 /\ <<m>>[1] = m
  OBVIOUS
<1>3. ASSUME NEW d, Below(d, b, t)  PROVE  Below(d, <<m>>, t)
  BY <1>1, <1>2, <1>3 DEF Below
<1>4. ASSUME NEW d, Below(b, d, t)  PROVE  Below(<<m>>, d, t)
  <2> SUFFICES ASSUME NEW j \in 1 .. Len(d), m.text[1] = t, d[j].text[1] = t
               PROVE  m.text[2] < d[j].text[2]
    BY <1>2 DEF Below
  <2>1. b[1].text[2] < d[j].text[2]
    BY <1>1, <1>4 DEF Below
  <2> QED  BY <1>1, <2>1
<1>5. Below(a, Tail(b), t)
  <2>1. \A i \in 1 .. Len(Tail(b)) : i + 1 \in 1 .. Len(b)
    BY <1>1
  <2> QED  BY <1>1, <2>1 DEF Below
<1>6. Below(<<m>>, Tail(b), t)
  <2> SUFFICES ASSUME NEW j \in 1 .. Len(Tail(b)), m.text[1] = t, Tail(b)[j].text[1] = t
               PROVE  m.text[2] < Tail(b)[j].text[2]
    BY <1>2 DEF Below
  <2>1. j + 1 \in 1 .. Len(b) /\ 1 < j + 1 /\ Tail(b)[j] = b[j + 1]
    BY <1>1
  <2>2. b[1].text[2] < b[j + 1].text[2]
    BY <1>1, <2>1 DEF Ordered
  <2> QED  BY <1>1, <2>1, <2>2
<1>7. Ordered(Append(a, m), t)
  BY <1>3, AppendOrdered
<1>8. Below(Append(a, m), Tail(b), t)
  BY <1>5, <1>6, AppendBelow
<1>9. ASSUME NEW d, Below(a, d, t), Below(b, d, t)  PROVE  Below(Append(a, m), d, t)
  BY <1>4, <1>9, AppendBelow
<1>10. ASSUME NEW d, Below(d, a, t), Below(d, b, t)  PROVE  Below(d, Append(a, m), t)
  BY <1>3, <1>10, AppendBelow
<1> QED  BY <1>7, <1>8, <1>9, <1>10

(* Steps in which nothing of any page gets further.                        *)
LEMMA QuietPipes ==
    ASSUME Connected, Connected', PipesInv, Quiet
    PROVE  PipesInv'
<1>1. Types /\ disturbed \subseteq disturbed' /\ UNCHANGED stored
  BY DEF Connected, Quiet
<1>2. ASSUME NEW t \in Pages, Owner[t] \notin disturbed'  PROVE  PipesOf(t)'
  <2>1. PipesOf(t)
    BY <1>1, <1>2 DEF PipesInv, PipesOf
  <2>2. AllAhead(t)
    BY <2>1, QuietIsFewer, FewerAhead
  <2>3. ASSUME NEW v \in Pages, Owner[v] # Owner[t]  PROVE  PipeInv(t, v)'
    <3>1. Kept(page'[v].chats, page[v].chats, t) /\ Kept(page'[v].queue, page[v].queue, t)
      BY <1>1, PageFacts, WholePart, PartKeeps DEF Quiet
    <3>2. \A s \in SocketsOf(v) : Kept(link'[s].down, link[s].down, t)
      BY PartKeeps DEF Quiet, SocketsOf
    <3> QED  BY <2>1, <2>2, <2>3, <3>1, <3>2, PipeStays
  <2>4. Kept(stored'[Peer(Owner[t])], stored[Peer(Owner[t])], t)
    <3>1. stored[Peer(Owner[t])] \in Seq(AnyEntry)
      BY <1>1, PageFacts, TwoUsers DEF Types
    <3> QED  BY <1>1, <3>1, WholePart, PartKeeps
  <2> QED  BY <2>1, <2>2, <2>3, <2>4, StoredStays DEF PipesOf
<1> QED  BY <1>2 DEF PipesInv, PipesOf

(* A page takes in an echo: it is none of the peer's messages.             *)
LEMMA ReceiveEchoPipes ==
    ASSUME Connected, Connected', GenuineInv, PipesInv, NEW s \in Sockets, ReceiveEcho(s)
    PROVE  PipesInv'
<1>1. Types /\ s[1] \in Pages
  BY LinkFacts DEF Connected
<1>2. PICK w \in Pages : w = s[1]
  BY <1>1
<1>3. /\ link[s].down # <<>> /\ Arrival(s) = Head(link[s].down) /\ Arrival(s).from = User(s)
      /\ link'[s].down = Tail(link[s].down)
      /\ \A r \in Sockets : r # s => link'[r].down = link[r].down
      /\ \A v \in Pages : v # w => page'[v] = page[v]
      /\ page'[w].queue = page[w].queue
      /\ stored'[Owner[w]] = page'[w].chats
      /\ \A u \in Users : u # Owner[w] => stored'[u] = stored[u]
      /\ disturbed' = IF Arrival(s).text \notin due[w] THEN disturbed \cup {Owner[w]}
                                                       ELSE disturbed
  BY <1>2, ReceiveEchoEffect
<1>4. PICK e \in AnyEntry :
        e.text = Arrival(s).text /\ page'[w].chats = Append(page[w].chats, e)
  BY <1>2, ReceiveEchoEffect
<1>5. Owner[e.text[1]] = Owner[w]
  <2>1. Arrival(s) \in DownMessages(posted, chatIds)
    BY <1>1, <1>3, GenuineLink, TailPart
  <2> QED  BY <1>2, <1>3, <1>4, <2>1 DEF DownMessages, Genuine, User
<1>6. Part(link'[s].down, link[s].down)
  BY <1>1, <1>3, LinkFacts, TailPart
<1>7. disturbed \subseteq disturbed'
  BY <1>3
<1>8. Fewer
  BY ReceiveEchoFewer
<1>9. ASSUME NEW t \in Pages, Owner[t] \notin disturbed'  PROVE  PipesOf(t)'
  <2>1. PipesOf(t) /\ AllAhead(t)
    BY <1>7, <1>8, <1>9, FewerAhead DEF PipesInv, PipesOf
  <2>2. ASSUME NEW v \in Pages, Owner[v] # Owner[t]  PROVE  PipeInv(t, v)'
    <3>1. Kept(page'[v].queue, page[v].queue, t)
      <4>1. page'[v].queue = page[v].queue
        BY <1>3
      <4> QED  BY <1>1, <4>1, PageFacts, WholePart, PartKeeps
    <3>2. Kept(page'[v].chats, page[v].chats, t)
      <4>1. CASE v = w
        <5>1. e.text[1] # t
          BY <1>5, <2>2, <4>1
        <5> QED  BY <1>1, <1>4, <4>1, <5>1, PageFacts, ForeignKept
      <4>2. CASE v # w
        BY <1>1, <1>3, <4>2, PageFacts, WholePart, PartKeeps
      <4> QED  BY <4>1, <4>2
    <3>3. ASSUME NEW r \in SocketsOf(v)  PROVE  Kept(link'[r].down, link[r].down, t)
      <4>1. r \in Sockets
        BY DEF SocketsOf
      <4>2. Part(link'[r].down, link[r].down)
        BY <1>1, <1>3, <1>6, <4>1, LinkFacts, WholePart
      <4> QED  BY <4>2, PartKeeps
    <3> QED  BY <2>1, <2>2, <3>1, <3>2, <3>3, PipeStays
  <2>3. StoredInv(t, Peer(Owner[t]))'
    <3>1. Peer(Owner[t]) \in Users /\ Peer(Owner[t]) # Owner[t]
      BY <1>1, PageFacts, TwoUsers
    <3>2. CASE Owner[w] = Peer(Owner[t])
      <4>1. PipeInv(t, w)'
        BY <2>2, <3>1, <3>2
      <4>2. stored'[Peer(Owner[t])] = page'[w].chats
        BY <1>3, <3>2
      <4> QED  BY <4>1, <4>2 DEF PipeInv, StoredInv, Ahead
    <3>3. CASE Owner[w] # Peer(Owner[t])
      <4>1. stored'[Peer(Owner[t])] = stored[Peer(Owner[t])]
        BY <1>3, <3>1, <3>3
      <4>2. stored[Peer(Owner[t])] \in Seq(AnyEntry)
        BY <1>1, <3>1 DEF Types
      <4> QED  BY <2>1, <4>1, <4>2, WholePart, PartKeeps, StoredStays
    <3> QED  BY <3>2, <3>3
  <2> QED  BY <2>2, <2>3 DEF PipesOf
<1> QED  BY <1>9 DEF PipesInv, PipesOf

(* A page loaded again: what it shows is what is stored.                   *)
LEMMA ReloadPipes ==
    ASSUME Connected, Connected', PipesInv, NEW w \in Pages, Reload(w)
    PROVE  PipesInv'
<1>1. Types
  BY DEF Connected
<1>2. /\ UNCHANGED stored
      /\ \A v \in Pages : v # w => page'[v] = page[v]
      /\ page'[w].queue = <<>> /\ page'[w].chats = stored[Owner[w]]
      /\ disturbed' = IF due[w] # {} THEN disturbed \cup {Owner[w]} ELSE disturbed
      /\ \A r \in Sockets :
           /\ r[1] = w => link'[r].down = <<>>
           /\ r[1] # w => link'[r] = link[r]
  BY ReloadEffect
<1>3. disturbed \subseteq disturbed'
  BY <1>2
<1>4. Fewer
  BY ReloadFewer
<1>5. ASSUME NEW t \in Pages, Owner[t] \notin disturbed'  PROVE  PipesOf(t)'
  <2>1. PipesOf(t) /\ AllAhead(t)
    BY <1>3, <1>4, <1>5, FewerAhead DEF PipesInv, PipesOf
  <2>2. Peer(Owner[t]) \in Users /\ Owner[t] \in Users
    BY <1>1, PageFacts, TwoUsers
  <2>3. StoredInv(t, Peer(Owner[t]))'
    <3>1. stored[Peer(Owner[t])] \in Seq(AnyEntry)
      BY <1>1, <2>2 DEF Types
    <3> QED  BY <1>2, <2>1, <3>1, WholePart, PartKeeps, StoredStays
  <2>4. ASSUME NEW v \in Pages, Owner[v] # Owner[t]  PROVE  PipeInv(t, v)'
    <3>1. CASE v # w
      <4>1. /\ Kept(page'[v].chats, page[v].chats, t) /\ Kept(page'[v].queue, page[v].queue, t)
        BY <1>1, <1>2, <3>1, PageFacts, WholePart, PartKeeps
      <4>2. \A s \in SocketsOf(v) : Kept(link'[s].down, link[s].down, t)
        BY <1>1, <1>2, <3>1, LinkFacts, WholePart, PartKeeps DEF SocketsOf
      <4> QED  BY <2>1, <2>4, <4>1, <4>2, PipeStays
    <3>2. CASE v = w
      <4>1. Owner[w] = Peer(Owner[t])
        BY <1>1, <2>2, <2>4, <3>2, PageFacts, TwoUsers
      <4>2. page'[w].chats = stored'[Peer(Owner[t])]
        BY <1>2, <4>1
      <4>3. Ordered(page'[w].chats, t) /\ AheadNext(page'[w].chats, t)
        BY <2>3, <4>2 DEF StoredInv, Ahead, AheadNext
      <4>4. Len(<<>>) = 0 /\ 1 .. 0 = {}
        OBVIOUS
      <4>5. \A s \in SocketsOf(w) : link'[s].down = <<>>
        BY <1>2 DEF SocketsOf
      <4>6. /\ Ordered(page'[w].queue, t) /\ AheadNext(page'[w].queue, t)
            /\ Below(page'[w].chats, page'[w].queue, t)
        BY <1>2, <4>4 DEF Ordered, AheadNext, Below
      <4>7. \A s \in SocketsOf(w) :
              /\ Ordered(link'[s].down, t) /\ AheadNext(link'[s].down, t)
              /\ Below(page'[w].chats, link'[s].down, t)
              /\ Below(page'[w].queue, link'[s].down, t)
        BY <4>4, <4>5 DEF Ordered, AheadNext, Below
      <4> QED  BY <3>2, <4>3, <4>6, <4>7 DEF PipeInv, Ahead, AheadNext, SocketsOf
    <3> QED  BY <3>1, <3>2
  <2> QED  BY <2>3, <2>4 DEF PipesOf
<1> QED  BY <1>5 DEF PipesInv, PipesOf

(* Nothing is on its way down on any socket of a page but its open one.    *)
LEMMA OthersAreEmpty ==
    ASSUME Connected, NEW s \in Sockets, link[s].client = "open",
           NEW r \in SocketsOf(s[1]), r # s
    PROVE  link[r].down = <<>>
<1>1. r \in Sockets /\ r[1] = s[1] /\ LinkInv(r) /\ LinkInv(s)
  BY DEF SocketsOf, Connected
<1>2. r[2] # s[2]
  BY <1>1 DEF Sockets
<1> QED  BY <1>1, <1>2 DEF LinkInv, Live

(* A message of the peer's joins the queue.                                *)
LEMMA ReceiveMessagePipes ==
    ASSUME Connected, Connected', GenuineInv, PipesInv, NEW s \in Sockets, ReceiveMessage(s)
    PROVE  PipesInv'
<1>1. Types /\ s[1] \in Pages
  BY LinkFacts DEF Connected
<1>2. PICK w \in Pages : w = s[1]
  BY <1>1
<1> DEFINE m == Arrival(s)
<1>3. /\ UNCHANGED <<stored, disturbed>> /\ link[s].client = "open"
      /\ link[s].down # <<>> /\ m \in AnyMessage /\ m.text = Head(link[s].down).text
      /\ link'[s].down = Tail(link[s].down)
      /\ \A r \in Sockets : r # s => link'[r].down = link[r].down
      /\ \A v \in Pages :
           /\ page'[v].chats = page[v].chats
           /\ v # w => page'[v].queue = page[v].queue
      /\ page'[w].queue = Append(page[w].queue, m)
  BY <1>2, ReceiveMessageEffect
<1> HIDE DEF m
<1>4. Part(link'[s].down, link[s].down) /\ link[s].down \in Seq(AnyMessage)
  BY <1>1, <1>3, LinkFacts, TailPart
<1>5. Fewer
  BY ReceiveMessageFewer
<1>6. ASSUME NEW t \in Pages, Owner[t] \notin disturbed'  PROVE  PipesOf(t)'
  <2>1. PipesOf(t)
    BY <1>3, <1>6 DEF PipesInv, PipesOf
  <2>2. AllAhead(t)
    BY <1>5, <2>1, FewerAhead
  <2>3. StoredInv(t, Peer(Owner[t]))'
    <3>1. stored[Peer(Owner[t])] \in Seq(AnyEntry)
      BY <1>1, PageFacts, TwoUsers DEF Types
    <3> QED  BY <1>3, <2>1, <2>2, <3>1, WholePart, PartKeeps, StoredStays
  <2>4. ASSUME NEW v \in Pages, Owner[v] # Owner[t]  PROVE  PipeInv(t, v)'
    <3>1. CASE v # w
      <4>1. /\ Kept(page'[v].chats, page[v].chats, t) /\ Kept(page'[v].queue, page[v].queue, t)
        BY <1>1, <1>3, <3>1, PageFacts, WholePart, PartKeeps
      <4>2. ASSUME NEW r \in SocketsOf(v)  PROVE  Kept(link'[r].down, link[r].down, t)
        <5>1. r \in Sockets /\ r # s
          BY <1>2, <3>1 DEF SocketsOf
        <5> QED  BY <1>1, <1>3, <5>1, LinkFacts, WholePart, PartKeeps
      <4> QED  BY <2>1, <2>2, <2>4, <4>1, <4>2, PipeStays
    <3>2. CASE v = w
      <4> DEFINE a == page[w].queue
      <4> DEFINE b == link[s].down
      <4>1. PipeInv(t, w) /\ s \in SocketsOf(w)
        BY <1>2, <2>1, <2>4, <3>2 DEF PipesOf, SocketsOf
      <4>2. a \in Seq(AnyMessage) /\ Len(b) \in Nat /\ Len(page[w].chats) \in Nat
        BY <1>1, PageFacts, LinkFacts
      <4>3. Ordered(a, t) /\ Ordered(b, t) /\ Below(a, b, t)
            /\ Below(page[w].chats, a, t) /\ Below(page[w].chats, b, t)
        BY <4>1 DEF PipeInv
      <4>4. AheadNext(a, t) /\ AheadNext(b, t) /\ AheadNext(page[w].chats, t)
        BY <2>2, <2>4, <3>2, <4>1 DEF AllAhead
      <4>5. page'[w].queue = Append(a, m) /\ link'[s].down = Tail(b)
            /\ page'[w].chats = page[w].chats /\ Kept(Tail(b), b, t)
        BY <1>3, <1>4, PartKeeps
      <4> HIDE DEF a
      <4>6. /\ Ordered(Append(a, m), t) /\ Below(Append(a, m), Tail(b), t)
            /\ \A d : Below(a, d, t) /\ Below(b, d, t) => Below(Append(a, m), d, t)
            /\ \A d : Below(d, a, t) /\ Below(d, b, t) => Below(d, Append(a, m), t)
        BY <1>3, <1>4, <4>2, <4>3, HeadMoves
      <4> HIDE DEF b
      <4>7. AheadNext(Append(a, m), t)
        BY <4>4, <4>6 DEF AheadNext
      <4>8. Len(Tail(b)) \in Nat
        BY <1>3, <1>4, TailPart, LenProperties DEF b
      <4>9. Ordered(Tail(b), t) /\ AheadNext(Tail(b), t)
        BY <4>2, <4>3, <4>4, <4>5, <4>8, KeptOrdered, KeptAhead
      <4>10. Below(page[w].chats, Tail(b), t)
        <5>1. Kept(page[w].chats, page[w].chats, t)
          BY <1>1, PageFacts, WholePart, PartKeeps
        <5> QED  BY <4>2, <4>3, <4>5, <4>8, <5>1, KeptBelow
      <4>11. /\ Ordered(page'[w].chats, t) /\ AheadNext(page'[w].chats, t)
             /\ Ordered(page'[w].queue, t) /\ AheadNext(page'[w].queue, t)
             /\ Below(page'[w].chats, page'[w].queue, t)
        BY <4>1, <4>3, <4>4, <4>5, <4>6, <4>7 DEF PipeInv
      <4>12. ASSUME NEW r \in SocketsOf(w)
             PROVE  /\ Ordered(link'[r].down, t) /\ AheadNext(link'[r].down, t)
                    /\ Below(page'[w].chats, link'[r].down, t)
                    /\ Below(page'[w].queue, link'[r].down, t)
        <5>1. CASE r = s
          BY <4>5, <4>6, <4>9, <4>10, <5>1
        <5>2. CASE r # s
          <6>1. link[r].down = <<>>
            BY <1>2, <1>3, <5>2, OthersAreEmpty
          <6>2. link'[r].down = <<>>
            BY <1>3, <5>2, <6>1 DEF SocketsOf
          <6>3. Len(<<>>) = 0 /\ 1 .. 0 = {}
            OBVIOUS
          <6> QED  BY <6>2, <6>3 DEF Ordered, AheadNext, Below
        <5> QED  BY <5>1, <5>2
      <4> QED  BY <3>2, <4>11, <4>12 DEF PipeInv, Ahead, AheadNext, SocketsOf
    <3> QED  BY <3>1, <3>2
  <2> QED  BY <2>3, <2>4 DEF PipesOf
<1> QED  BY <1>6 DEF PipesInv, PipesOf

(* A decrypted message is shown and stored.                                *)
LEMMA DecryptedPipes ==
    ASSUME Connected, Connected', PipesInv, NEW w \in Pages, Decrypted(w)
    PROVE  PipesInv'
<1>1. Types
  BY DEF Connected
<1>2. /\ UNCHANGED <<link, disturbed>> /\ page[w].queue # <<>>
      /\ page'[w].queue = Tail(page[w].queue)
      /\ \A v \in Pages : v # w => page'[v] = page[v]
      /\ stored'[Owner[w]] = page'[w].chats
      /\ \A u \in Users : u # Owner[w] => stored'[u] = stored[u]
  BY DecryptedEffect
<1>3. PICK e \in AnyEntry :
        e.text = Head(page[w].queue).text /\ page'[w].chats = Append(page[w].chats, e)
  BY DecryptedEffect
<1>4. Fewer
  BY DecryptedFewer
<1>5. ASSUME NEW t \in Pages, Owner[t] \notin disturbed'  PROVE  PipesOf(t)'
  <2>1. PipesOf(t)
    BY <1>2, <1>5 DEF PipesInv, PipesOf
  <2>2. AllAhead(t)
    BY <1>4, <2>1, FewerAhead
  <2>3. ASSUME NEW v \in Pages, Owner[v] # Owner[t]  PROVE  PipeInv(t, v)'
    <3>1. CASE v # w
      <4>1. /\ Kept(page'[v].chats, page[v].chats, t) /\ Kept(page'[v].queue, page[v].queue, t)
        BY <1>1, <1>2, <3>1, PageFacts, WholePart, PartKeeps
      <4>2. \A r \in SocketsOf(v) : Kept(link'[r].down, link[r].down, t)
        BY <1>1, <1>2, LinkFacts, WholePart, PartKeeps DEF SocketsOf
      <4> QED  BY <2>1, <2>2, <2>3, <4>1, <4>2, PipeStays
    <3>2. CASE v = w
      <4> DEFINE a == page[w].chats
      <4> DEFINE b == page[w].queue
      <4>1. PipeInv(t, w)
        BY <2>1, <2>3, <3>2 DEF PipesOf
      <4>2. a \in Seq(AnyEntry) /\ b \in Seq(AnyMessage) /\ Len(b) \in Nat
        BY <1>1, PageFacts
      <4>3. Ordered(a, t) /\ Ordered(b, t) /\ Below(a, b, t)
        BY <4>1 DEF PipeInv
      <4>4. AheadNext(a, t) /\ AheadNext(b, t)
        BY <2>2, <2>3, <3>2 DEF AllAhead
      <4>5. page'[w].chats = Append(a, e) /\ page'[w].queue = Tail(b) /\ b # <<>>
            /\ e.text = Head(b).text
        BY <1>2, <1>3
      <4> HIDE DEF a, b
      <4>6. /\ Ordered(Append(a, e), t) /\ Below(Append(a, e), Tail(b), t)
            /\ \A d : Below(a, d, t) /\ Below(b, d, t) => Below(Append(a, e), d, t)
        BY <4>2, <4>3, <4>5, HeadMoves
      <4>7. AheadNext(Append(a, e), t)
        BY <4>4, <4>6 DEF AheadNext
      <4>8. Kept(Tail(b), b, t) /\ Len(Tail(b)) \in Nat
        BY <4>2, <4>5, TailPart, PartKeeps, LenProperties
      <4>9. Ordered(Tail(b), t) /\ AheadNext(Tail(b), t)
        BY <4>2, <4>3, <4>4, <4>8, KeptOrdered, KeptAhead
      <4>10. ASSUME NEW r \in SocketsOf(w)
             PROVE  /\ Ordered(link'[r].down, t) /\ AheadNext(link'[r].down, t)
                    /\ Below(Append(a, e), link'[r].down, t)
                    /\ Below(Tail(b), link'[r].down, t)
        <5>1. link'[r].down = link[r].down /\ Len(link[r].down) \in Nat
              /\ Kept(link[r].down, link[r].down, t)
          BY <1>1, <1>2, LinkFacts, WholePart, PartKeeps DEF SocketsOf
        <5>2. /\ Ordered(link[r].down, t)
              /\ Below(a, link[r].down, t) /\ Below(b, link[r].down, t)
          BY <4>1 DEF PipeInv, a, b
        <5>3. AheadNext(link[r].down, t)
          BY <2>2, <2>3, <3>2 DEF AllAhead
        <5>4. Below(Append(a, e), link[r].down, t)
          BY <4>6, <5>2
        <5>5. Below(Tail(b), link[r].down, t)
          BY <4>2, <4>8, <5>1, <5>2, KeptBelow
        <5> QED  BY <5>1, <5>2, <5>3, <5>4, <5>5
      <4> QED  BY <3>2, <4>5, <4>6, <4>7, <4>9, <4>10 DEF PipeInv, Ahead, AheadNext, SocketsOf
    <3> QED  BY <3>1, <3>2
  <2>4. StoredInv(t, Peer(Owner[t]))'
    <3>1. Peer(Owner[t]) \in Users /\ Peer(Owner[t]) # Owner[t]
      BY <1>1, PageFacts, TwoUsers
    <3>2. CASE Owner[w] = Peer(Owner[t])
      <4>1. PipeInv(t, w)'
        BY <2>3, <3>1, <3>2
      <4>2. stored'[Peer(Owner[t])] = page'[w].chats
        BY <1>2, <3>2
      <4> QED  BY <4>1, <4>2 DEF PipeInv, StoredInv, Ahead
    <3>3. CASE Owner[w] # Peer(Owner[t])
      <4>1. stored'[Peer(Owner[t])] = stored[Peer(Owner[t])]
        BY <1>2, <3>1, <3>3
      <4>2. stored[Peer(Owner[t])] \in Seq(AnyEntry)
        BY <1>1, <3>1 DEF Types
      <4> QED  BY <2>1, <2>2, <4>1, <4>2, WholePart, PartKeeps, StoredStays
    <3> QED  BY <3>2, <3>3
  <2> QED  BY <2>3, <2>4 DEF PipesOf
<1> QED  BY <1>5 DEF PipesInv, PipesOf

(* Whatever is shown, stored, queued or on its way has been posted.        *)
LEMMA NumbersArePosted ==
    ASSUME Connected, GenuineInv
    PROVE  /\ \A v \in Pages : \A i \in 1 .. Len(page[v].chats) :
                page[v].chats[i].text[2] \in 1 .. posted
           /\ \A v \in Pages : \A i \in 1 .. Len(page[v].queue) :
                page[v].queue[i].text[2] \in 1 .. posted
           /\ \A s \in Sockets : \A i \in 1 .. Len(link[s].down) :
                link[s].down[i].text[2] \in 1 .. posted
           /\ \A u \in Users : \A i \in 1 .. Len(stored[u]) :
                stored[u][i].text[2] \in 1 .. posted
<1>1. Types
  BY DEF Connected
<1>2. ASSUME NEW v \in Pages, NEW i \in 1 .. Len(page[v].chats)
      PROVE  page[v].chats[i].text[2] \in 1 .. posted
  <2>1. page[v].chats[i] \in Entries(posted, chatIds)
    BY <1>1, GenuinePage, ElementOfSeq
  <2> QED  BY <2>1 DEF Entries, Genuine
<1>3. ASSUME NEW s \in Sockets, NEW i \in 1 .. Len(link[s].down)
      PROVE  link[s].down[i].text[2] \in 1 .. posted
  <2>1. link[s].down[i] \in DownMessages(posted, chatIds)
    BY <1>1, GenuineLink, ElementOfSeq
  <2> QED  BY <2>1 DEF DownMessages, Genuine
<1>4. ASSUME NEW u \in Users, NEW i \in 1 .. Len(stored[u])
      PROVE  stored[u][i].text[2] \in 1 .. posted
  <2>1. stored[u] \in Seq(Entries(posted, chatIds))
    BY DEF GenuineInv
  <2>2. stored[u][i] \in Entries(posted, chatIds)
    BY <2>1, ElementOfSeq
  <2> QED  BY <2>2 DEF Entries, Genuine
<1> QED  BY <1>2, <1>3, <1>4, QueueIsPosted

(* A new message: everything else was posted before it.                    *)
LEMMA PostPipes ==
    ASSUME Connected, Connected', GenuineInv, PipesInv, NEW w \in Pages, Post(w)
    PROVE  PipesInv'
<1>1. Types /\ posted \in Nat
  BY DEF Connected, Types
<1>2. PICK n \in Nat : n = posted + 1
  BY <1>1
<1>3. /\ UNCHANGED <<link, stored, disturbed>>
      /\ \A v \in Pages :
           /\ page'[v].chats = page[v].chats
           /\ v # w => page'[v].queue = page[v].queue
  BY PostEffect
<1>4. PICK m \in AnyMessage : m.text = <<w, n>> /\ page'[w].queue = Append(page[w].queue, m)
  BY <1>2, PostEffect
<1>5. m.text[1] = w /\ m.text[2] = n
  BY <1>4
<1>6. ASSUME NEW t \in Pages, Owner[t] \notin disturbed'  PROVE  PipesOf(t)'
  <2>1. PipesOf(t)
    BY <1>3, <1>6 DEF PipesInv, PipesOf
  <2>2. ASSUME NEW a, Ahead(a, t), \A i \in 1 .. Len(a) : a[i].text[2] \in 1 .. posted
        PROVE  AheadNext(a, t)
    <3>1. Below(a, page'[t].queue, t)
      <4>1. CASE t # w
        BY <1>3, <2>2, <4>1 DEF Ahead
      <4>2. CASE t = w
        <5>1. Len(<<m>>) = 1 /\ <<m>>[1] = m
          OBVIOUS
        <5>2. Below(a, <<m>>, t)
          BY <1>1, <1>2, <1>5, <2>2, <5>1 DEF Below
        <5> QED  BY <1>1, <1>4, <2>2, <4>2, <5>2, PageFacts, AppendBelow DEF Ahead
      <4> QED  BY <4>1, <4>2
    <3> QED  BY <1>3, <2>2, <3>1 DEF Ahead, AheadNext
  <2>3. Peer(Owner[t]) \in Users
    BY <1>1, PageFacts, TwoUsers
  <2>4. AllAhead(t)
    <3>1. ASSUME NEW v \in Pages, Owner[v] # Owner[t]
          PROVE  AheadNext(page[v].chats, t) /\ AheadNext(page[v].queue, t)
      BY <2>1, <2>2, <3>1, NumbersArePosted DEF PipesOf, PipeInv
    <3>2. ASSUME NEW v \in Pages, Owner[v] # Owner[t], NEW s \in SocketsOf(v)
          PROVE  AheadNext(link[s].down, t)
      BY <2>1, <2>2, <3>2, NumbersArePosted DEF PipesOf, PipeInv, SocketsOf
    <3>3. AheadNext(stored[Peer(Owner[t])], t)
      BY <2>1, <2>2, <2>3, NumbersArePosted DEF PipesOf, StoredInv
    <3> QED  BY <3>1, <3>2, <3>3 DEF AllAhead
  <2>5. ASSUME NEW v \in Pages, Owner[v] # Owner[t]  PROVE  PipeInv(t, v)'
    <3>1. Kept(page'[v].chats, page[v].chats, t)
      BY <1>1, <1>3, PageFacts, WholePart, PartKeeps
    <3>2. Kept(page'[v].queue, page[v].queue, t)
      <4>1. CASE v = w
        <5>1. m.text[1] # t
          BY <1>5, <2>5, <4>1
        <5> QED  BY <1>1, <1>4, <4>1, <5>1, PageFacts, ForeignKept
      <4>2. CASE v # w
        BY <1>1, <1>3, <4>2, PageFacts, WholePart, PartKeeps
      <4> QED  BY <4>1, <4>2
    <3>3. \A s \in SocketsOf(v) : Kept(link'[s].down, link[s].down, t)
      BY <1>1, <1>3, LinkFacts, WholePart, PartKeeps DEF SocketsOf
    <3> QED  BY <2>1, <2>4, <2>5, <3>1, <3>2, <3>3, PipeStays
  <2>6. StoredInv(t, Peer(Owner[t]))'
    <3>1. stored[Peer(Owner[t])] \in Seq(AnyEntry)
      BY <1>1, <2>3 DEF Types
    <3> QED  BY <1>3, <2>1, <2>4, <3>1, WholePart, PartKeeps, StoredStays
  <2> QED  BY <2>5, <2>6 DEF PipesOf
<1> QED  BY <1>6 DEF PipesInv, PipesOf

(* A message goes up: what was ahead of it in the queue still is.          *)
LEMMA EncryptedPipes ==
    ASSUME Connected, Connected', GenuineInv, CountInv, PipesInv,
           NEW w \in Pages, Encrypted(w)
    PROVE  PipesInv'
<1>1. Types
  BY DEF Connected
<1>2. PICK n \in 1 .. posted, m \in AnyMessage :
        /\ \A b : Below(b, page[w].queue, w) => Below(b, <<m>>, w)
        /\ Sent(w) => link'[Current(w)].up = Append(link[Current(w)].up, m)
  BY EncryptedMoves
<1>3. /\ UNCHANGED stored
      /\ page[w].queue # <<>> /\ page'[w].queue = Tail(page[w].queue)
      /\ \A v \in Pages :
           /\ page'[v].chats = page[v].chats
           /\ v # w => page'[v].queue = page[v].queue
      /\ \A r \in Sockets :
           /\ link'[r].down = link[r].down
           /\ r # Current(w) \/ ~Sent(w) => link'[r].up = link[r].up
      /\ disturbed' = IF Sent(w) THEN disturbed ELSE disturbed \cup {Owner[w]}
  BY EncryptedEffect
<1>4. disturbed \subseteq disturbed'
  BY <1>3
<1>5. Part(page'[w].queue, page[w].queue)
  BY <1>1, <1>3, PageFacts, TailPart
<1>6. ASSUME NEW t \in Pages, Owner[t] \notin disturbed'  PROVE  PipesOf(t)'
  <2>1. PipesOf(t)
    BY <1>4, <1>6 DEF PipesInv, PipesOf
  <2>2. ASSUME NEW a, Len(a) \in Nat, Ahead(a, t)  PROVE  AheadNext(a, t)
    <3>1. \A i \in 1 .. Len(a) : i + 0 \in 1 .. Len(a) /\ a[i] = a[i + 0]
      BY <2>2
    <3>2. Kept(a, a, t)
      BY <3>1 DEF Kept
    <3>3. Kept(page'[t].queue, page[t].queue, t)
      <4>1. CASE t = w
        BY <1>5, <4>1, PartKeeps
      <4>2. CASE t # w
        BY <1>1, <1>3, <4>2, PageFacts, WholePart, PartKeeps
      <4> QED  BY <4>1, <4>2
    <3>4. Len(page'[t].queue) \in Nat /\ Len(page[t].queue) \in Nat
      <4>1. page'[t].queue \in Seq(AnyMessage)
        BY DEF Connected, Types, PageState
      <4> QED  BY <1>1, <4>1, PageFacts, LenProperties
    <3>5. Below(a, page'[t].queue, t)
      BY <2>2, <3>2, <3>3, <3>4, KeptBelow DEF Ahead
    <3>6. ASSUME NEW r \in SocketsOf(t)  PROVE  Below(a, link'[r].up, t)
      <4>1. r \in Sockets /\ r[1] = t /\ Below(a, link[r].up, t)
        BY <2>2 DEF SocketsOf, Ahead
      <4>2. CASE r # Current(w) \/ ~Sent(w)
        BY <1>3, <4>1, <4>2
      <4>3. CASE r = Current(w) /\ Sent(w)
        <5>1. t = w
          BY <4>1, <4>3 DEF Current
        <5>2. Below(a, <<m>>, t)
          BY <1>2, <2>2, <5>1 DEF Ahead
        <5>3. link[r].up \in Seq(AnyMessage)
          BY <1>1, <4>1, LinkFacts
        <5>4. link'[r].up = Append(link[r].up, m)
          BY <1>2, <4>3
        <5> QED  BY <4>1, <5>2, <5>3, <5>4, AppendBelow
      <4> QED  BY <4>2, <4>3
    <3> QED  BY <3>5, <3>6 DEF AheadNext
  <2>3. Peer(Owner[t]) \in Users
    BY <1>1, PageFacts, TwoUsers
  <2>4. stored[Peer(Owner[t])] \in Seq(AnyEntry) /\ Len(stored[Peer(Owner[t])]) \in Nat
    BY <1>1, <2>3, LenProperties DEF Types
  <2>5. AllAhead(t)
    <3>1. ASSUME NEW v \in Pages, Owner[v] # Owner[t]
          PROVE  AheadNext(page[v].chats, t) /\ AheadNext(page[v].queue, t)
      BY <1>1, <2>1, <2>2, <3>1, PageFacts DEF PipesOf, PipeInv
    <3>2. ASSUME NEW v \in Pages, Owner[v] # Owner[t], NEW s \in SocketsOf(v)
          PROVE  AheadNext(link[s].down, t)
      <4>1. Ahead(link[s].down, t)
        BY <2>1, <3>2 DEF PipesOf, PipeInv
      <4>2. Len(link[s].down) \in Nat
        BY <1>1, LinkFacts DEF SocketsOf
      <4> QED  BY <2>2, <4>1, <4>2
    <3>3. AheadNext(stored[Peer(Owner[t])], t)
      BY <2>1, <2>2, <2>4 DEF PipesOf, StoredInv
    <3> QED  BY <3>1, <3>2, <3>3 DEF AllAhead
  <2>6. ASSUME NEW v \in Pages, Owner[v] # Owner[t]  PROVE  PipeInv(t, v)'
    <3>1. Kept(page'[v].chats, page[v].chats, t)
      BY <1>1, <1>3, PageFacts, WholePart, PartKeeps
    <3>2. Kept(page'[v].queue, page[v].queue, t)
      <4>1. CASE v = w
        BY <1>5, <4>1, PartKeeps
      <4>2. CASE v # w
        BY <1>1, <1>3, <4>2, PageFacts, WholePart, PartKeeps
      <4> QED  BY <4>1, <4>2
    <3>3. \A s \in SocketsOf(v) : Kept(link'[s].down, link[s].down, t)
      BY <1>1, <1>3, LinkFacts, WholePart, PartKeeps DEF SocketsOf
    <3> QED  BY <2>1, <2>5, <2>6, <3>1, <3>2, <3>3, PipeStays
  <2>7. StoredInv(t, Peer(Owner[t]))'
    BY <1>3, <2>1, <2>4, <2>5, WholePart, PartKeeps, StoredStays
  <2> QED  BY <2>6, <2>7 DEF PipesOf
<1> QED  BY <1>6 DEF PipesInv, PipesOf

(* The relay passes a message on to the peer's pages, too.                 *)
LEMMA RelayPipes ==
    ASSUME Connected, Connected', GenuineInv, CountInv, EchoesInv, PipesInv,
           NEW s \in Sockets, Relay(s)
    PROVE  PipesInv'
<1>1. Types /\ s[1] \in Pages
  BY LinkFacts DEF Connected
<1>2. /\ UNCHANGED <<page, stored, disturbed>> /\ link[s].up # <<>>
  BY RelayEffect
<1>3. PICK m \in AnyMessage :
        /\ m.text = Head(link[s].up).text
        /\ \A r \in Sockets :
             link'[r].down = link[r].down \/ link'[r].down = Append(link[r].down, m)
  BY RelayEffect
<1>4. m.text[1] = s[1]
  <2>1. Head(link[s].up) \in UpMessages(s[1], posted, chatIds)
    BY <1>1, <1>2, GenuineLink, TailPart
  <2> QED  BY <1>3, <2>1 DEF UpMessages
<1>5. Fewer
  BY RelayFewer
<1>6. ASSUME NEW t \in Pages, Owner[t] \notin disturbed'  PROVE  PipesOf(t)'
  <2>1. PipesOf(t) /\ EchoInv(t)
    BY <1>2, <1>6 DEF PipesInv, PipesOf, EchoesInv
  <2>2. AllAhead(t)
    BY <1>5, <2>1, FewerAhead
  <2>3. StoredInv(t, Peer(Owner[t]))'
    <3>1. stored[Peer(Owner[t])] \in Seq(AnyEntry)
      BY <1>1, PageFacts, TwoUsers DEF Types
    <3> QED  BY <1>2, <2>1, <2>2, <3>1, WholePart, PartKeeps, StoredStays
  <2>4. ASSUME NEW v \in Pages, Owner[v] # Owner[t]  PROVE  PipeInv(t, v)'
    <3>1. /\ Kept(page[v].chats, page[v].chats, t) /\ Kept(page[v].queue, page[v].queue, t)
      BY <1>1, PageFacts, WholePart, PartKeeps
    <3>2. CASE t # s[1]
      <4>1. ASSUME NEW r \in SocketsOf(v)  PROVE  Kept(link'[r].down, link[r].down, t)
        <5>1. r \in Sockets /\ link[r].down \in Seq(AnyMessage)
          BY <1>1, LinkFacts DEF SocketsOf
        <5>2. Kept(link[r].down, link[r].down, t) /\ Kept(Append(link[r].down, m), link[r].down, t)
          BY <1>4, <3>2, <5>1, WholePart, PartKeeps, ForeignKept
        <5> QED  BY <1>3, <5>1, <5>2
      <4> QED  BY <1>2, <2>1, <2>2, <2>4, <3>1, <4>1, PipeStays
    <3>3. CASE t = s[1]
      <4>1. s \in SocketsOf(t) /\ PipeInv(t, v)
        BY <2>1, <2>4, <3>3 DEF SocketsOf, PipesOf
      <4>2. ASSUME NEW a, Ahead(a, t)  PROVE  Below(a, <<m>>, t)
        <5>1. Below(a, link[s].up, t)
          BY <4>1, <4>2 DEF Ahead
        <5>2. 1 \in 1 .. Len(link[s].up) /\ m.text = link[s].up[1].text
          BY <1>1, <1>2, <1>3, LinkFacts, TailPart
        <5>3. Len(<<m>>) = 1 /\ <<m>>[1] = m
          OBVIOUS
        <5> QED  BY <5>1, <5>2, <5>3 DEF Below
      <4>3. ASSUME NEW r \in SocketsOf(v)
            PROVE  /\ Ordered(link'[r].down, t) /\ AheadNext(link'[r].down, t)
                   /\ Below(page[v].chats, link'[r].down, t)
                   /\ Below(page[v].queue, link'[r].down, t)
        <5>1. r \in Sockets /\ link[r].down \in Seq(AnyMessage)
          BY <1>1, LinkFacts DEF SocketsOf
        <5>2. /\ Ordered(link[r].down, t) /\ Ahead(link[r].down, t)
              /\ Below(page[v].chats, link[r].down, t)
              /\ Below(page[v].queue, link[r].down, t)
          BY <4>1 DEF PipeInv
        <5>3. CASE link'[r].down = link[r].down
          BY <2>2, <2>4, <5>2, <5>3 DEF AllAhead
        <5>4. CASE link'[r].down = Append(link[r].down, m)
          <6>1. /\ Ordered(Append(link[r].down, m), t)
                /\ AheadNext(Append(link[r].down, m), t)
            BY <1>3, <2>1, <4>1, <5>1, <5>2, RelayedInOrder DEF AheadNext
          <6>2. Below(page[v].queue, <<m>>, t) /\ Below(page[v].chats, <<m>>, t)
            BY <3>3, <4>1, <4>2 DEF PipeInv
          <6> QED  BY <5>1, <5>2, <5>4, <6>1, <6>2, AppendBelow
        <5> QED  BY <1>3, <5>1, <5>3, <5>4
      <4>4. AheadNext(page[v].chats, t) /\ AheadNext(page[v].queue, t)
        BY <2>2, <2>4 DEF AllAhead
      <4> QED  BY <1>2, <4>1, <4>3, <4>4 DEF PipeInv, Ahead, AheadNext, SocketsOf
    <3> QED  BY <3>2, <3>3
  <2> QED  BY <2>3, <2>4 DEF PipesOf
<1> QED  BY <1>6 DEF PipesInv, PipesOf
-----------------------------------------------------------------------------
(* The invariant.                                                          *)

(* Nothing has happened yet.                                               *)
LEMMA InitChat ==
    ASSUME Init
    PROVE  ChatInv
<1> USE ChatAssumption
<1>1. Len(<<>>) = 0 /\ 1 .. 0 = {} /\ \A S : <<>> \in Seq(S)
  OBVIOUS
<1>2. \A t \in Pages : page[t] = MountedPage(<<>>)
  BY DEF Init
<1>3. \A t \in Pages :
        /\ page[t].queue = <<>> /\ page[t].pending = <<>> /\ page[t].chats = <<>>
        /\ page[t].ws = 0 /\ page[t].opened = 0 /\ due[t] = {}
  BY <1>2 DEF Init, MountedPage, NoSocket
<1>4. \A s \in Sockets : link[s] = NoLink
  BY DEF Init
<1>5. \A s \in Sockets :
        /\ link[s].up = <<>> /\ link[s].down = <<>> /\ link[s].client = "none"
        /\ link[s].server = "none" /\ link[s].whole = FALSE
  BY <1>4 DEF NoLink
<1>6. Connected
  <2>1. MountedPage(<<>>) \in PageState
    BY <1>1 DEF PageState, MountedPage, NoSocket
  <2>2. NoLink \in LinkState
    BY <1>1 DEF LinkState, NoLink
  <2>3. Types
    BY <1>1, <2>1, <2>2 DEF Types, Init
  <2>4. ASSUME NEW s \in Sockets  PROVE  LinkInv(s)
    <3>1. connections[User(s)] = {}
      BY <2>3, LinkFacts DEF Init
    <3> QED  BY <1>5, <3>1 DEF LinkInv, Live
  <2> QED  BY <1>3, <2>3, <2>4 DEF Connected
<1>7. GenuineInv
  <2>1. \A u \in Users : stored[u] = <<>>
    BY DEF Init
  <2> QED  BY <1>1, <1>3, <1>5, <2>1 DEF GenuineInv
<1>8. posted = 0 /\ chatIds = 0 /\ unaddressed = 0 /\ 1 .. posted = {}
  BY DEF Init
<1>9. CountInv
  <2>1. Waiting = {} /\ Chatless = {}
    BY <1>8 DEF Waiting, Chatless
  <2>2. Cardinality({}) = 0
    BY FS_EmptySet
  <2>3. OnePagePerNumber
    BY <1>8 DEF OnePagePerNumber
  <2>4. \A t \in Pages : UpOrder(t)
    BY <1>1, <1>3, <1>5 DEF UpOrder, Ordered, Below, SocketsOf
  <2> QED  BY <1>8, <2>1, <2>2, <2>3, <2>4 DEF CountInv
<1>10. EchoesInv
  <2>1. ASSUME NEW t \in Pages  PROVE  EchoInv(t)
    <3>1. TextsShown(page[t].chats, Owner[t])
      BY <1>1, <1>3 DEF TextsShown
    <3>2. PendingInOrder(t) /\ PendingAreDue(t)
      BY <1>1, <1>3 DEF PendingInOrder, PendingAreDue
    <3>3. UpAreDue(t) /\ EchoesCome(t)
      BY <1>1, <1>3, <1>5 DEF UpAreDue, EchoesCome, SocketsOf
    <3>4. EchoesInOrder(t)
      BY <1>1, <1>5 DEF EchoesInOrder, Ordered, Ahead, Below, SocketsOf
    <3> QED  BY <3>1, <3>2, <3>3, <3>4 DEF EchoInv
  <2>2. \A u \in Users : TextsShown(stored[u], u)
    BY <1>1 DEF Init, TextsShown
  <2> QED  BY <2>1, <2>2 DEF EchoesInv
<1>11. PipesInv
  <2>1. ASSUME NEW t \in Pages, NEW v \in Pages  PROVE  PipeInv(t, v)
    BY <1>1, <1>3, <1>5 DEF PipeInv, Ordered, Ahead, Below, SocketsOf
  <2>2. ASSUME NEW t \in Pages  PROVE  StoredInv(t, Peer(Owner[t]))
    <3>1. stored[Peer(Owner[t])] = <<>>
      BY TwoUsers DEF Init
    <3> QED  BY <1>1, <3>1 DEF StoredInv, Ordered, Ahead, Below
  <2> QED  BY <2>1, <2>2 DEF PipesInv
<1> QED  BY <1>6, <1>7, <1>9, <1>10, <1>11 DEF ChatInv

(* A step that moves nothing forward keeps every part of the invariant.    *)
LEMMA QuietChat ==
    ASSUME ChatInv, Connected', Quiet
    PROVE  ChatInv'
<1>1. GenuineInv'
  BY QuietGenuine DEF ChatInv
<1>2. CountInv'
  BY <1>1, QuietIsFewer, FewerCount DEF ChatInv, Quiet
<1>3. EchoesInv' /\ PipesInv'
  BY <1>1, QuietEchoes, QuietPipes DEF ChatInv
<1> QED  BY <1>1, <1>2, <1>3 DEF ChatInv

(* A stuttering step is quiet.                                             *)
LEMMA StutterQuiet ==
    ASSUME Connected, UNCHANGED vars
    PROVE  Connected' /\ Quiet
<1>1. Types /\ UNCHANGED <<page, link>>
  BY DEF Connected, vars
<1>2. Connected'
  BY DEF Connected, Types, LinkInv, Live, vars
<1>3. ASSUME NEW t \in Pages  PROVE  Part(page'[t].queue, page[t].queue)
  BY <1>1, <1>3, SamePageParts
<1>4. ASSUME NEW s \in Sockets
      PROVE  Part(link'[s].up, link[s].up) /\ Part(link'[s].down, link[s].down)
  BY <1>1, <1>4, SameLinkParts
<1> QED  BY <1>2, <1>3, <1>4 DEF Quiet, vars

(* What the user and the page's promises do.                               *)
LEMMA PostChat ==
    ASSUME ChatInv, NEW t \in Pages, Post(t)
    PROVE  ChatInv'
<1>1. Connected' /\ GenuineInv'
  BY PostEffect, PostGenuine DEF ChatInv
<1> QED  BY <1>1, PostCount, PostEchoes, PostPipes DEF ChatInv

(* An encrypted message is sent.                                           *)
LEMMA EncryptedChat ==
    ASSUME ChatInv, ToldInv, NEW t \in Pages, Encrypted(t)
    PROVE  ChatInv'
<1>1. Connected' /\ GenuineInv'
  BY EncryptedEffect, EncryptedGenuine DEF ChatInv
<1> QED  BY <1>1, EncryptedCount, EncryptedEchoes, EncryptedPipes DEF ChatInv

(* A message is relayed.                                                   *)
LEMMA RelayChat ==
    ASSUME ChatInv, NEW s \in Sockets, Relay(s)
    PROVE  ChatInv'
<1>1. Connected' /\ GenuineInv'
  BY RelayEffect, RelayGenuine DEF ChatInv
<1> QED  BY <1>1, RelayCount, RelayEchoes, RelayPipes DEF ChatInv

(* An echo is shown.                                                       *)
LEMMA ReceiveEchoChat ==
    ASSUME ChatInv, NEW s \in Sockets, ReceiveEcho(s)
    PROVE  ChatInv'
<1>1. Types /\ s[1] \in Pages
  BY LinkFacts DEF ChatInv, Connected
<1>2. Connected' /\ UNCHANGED <<posted, chatIds, unaddressed>>
  BY <1>1, ReceiveEchoEffect DEF ChatInv
<1>3. GenuineInv'
  BY ReceiveEchoGenuine DEF ChatInv
<1>4. CountInv'
  BY <1>2, <1>3, ReceiveEchoFewer, FewerCount DEF ChatInv
<1> QED  BY <1>2, <1>3, <1>4, ReceiveEchoEchoes, ReceiveEchoPipes DEF ChatInv

(* A message of the peer's is queued.                                      *)
LEMMA ReceiveMessageChat ==
    ASSUME ChatInv, NEW s \in Sockets, ReceiveMessage(s)
    PROVE  ChatInv'
<1>1. Types /\ s[1] \in Pages
  BY LinkFacts DEF ChatInv, Connected
<1>2. Connected' /\ UNCHANGED <<posted, chatIds, unaddressed>>
  BY <1>1, ReceiveMessageEffect DEF ChatInv
<1>3. GenuineInv'
  BY ReceiveMessageGenuine DEF ChatInv
<1>4. CountInv'
  BY <1>2, <1>3, ReceiveMessageFewer, FewerCount DEF ChatInv
<1> QED  BY <1>2, <1>3, <1>4, ReceiveMessageEchoes, ReceiveMessagePipes DEF ChatInv

(* A message is decrypted and shown.                                       *)
LEMMA DecryptedChat ==
    ASSUME ChatInv, NEW t \in Pages, Decrypted(t)
    PROVE  ChatInv'
<1>1. Connected' /\ UNCHANGED <<posted, chatIds, unaddressed>>
  BY DecryptedEffect DEF ChatInv
<1>2. GenuineInv'
  BY DecryptedGenuine DEF ChatInv
<1>3. CountInv'
  BY <1>1, <1>2, DecryptedFewer, FewerCount DEF ChatInv
<1> QED  BY <1>1, <1>2, <1>3, DecryptedEchoes, DecryptedPipes DEF ChatInv

(* A page is loaded again.                                                 *)
LEMMA ReloadChat ==
    ASSUME ChatInv, NEW t \in Pages, Reload(t)
    PROVE  ChatInv'
<1>1. Connected' /\ UNCHANGED <<posted, chatIds, unaddressed>>
  BY ReloadEffect DEF ChatInv
<1>2. GenuineInv'
  BY ReloadGenuine DEF ChatInv
<1>3. CountInv'
  BY <1>1, <1>2, ReloadFewer, FewerCount DEF ChatInv
<1> QED  BY <1>1, <1>2, <1>3, ReloadEchoes, ReloadPipes DEF ChatInv

(* A step that posts nothing and tells no page keeps what has been told.   *)
LEMMA ToldStays ==
    ASSUME ToldInv, told' = told, early' = early, stored' = stored,
           \A t \in Pages : page'[t].chats = page[t].chats,
           \A t \in Pages : \A i \in 1 .. Len(page'[t].queue) :
              \/ page'[t].queue[i].op # "encrypt"
              \/ \E j \in 1 .. Len(page[t].queue) : page'[t].queue[i] = page[t].queue[j]
    PROVE  ToldInv'
<1>1. told' \subseteq Pages
  BY DEF ToldInv
<1>2. \A t \in told' : page'[t].chats # <<>> /\ stored'[Owner[t]] # <<>>
  BY DEF ToldInv
<1>3. ASSUME NEW t \in Pages, NEW i \in 1 .. Len(page'[t].queue),
             page'[t].queue[i].op = "encrypt", page'[t].queue[i].chat = NoChatId
      PROVE  page'[t].queue[i].text \in early'
  <2>1. PICK j \in 1 .. Len(page[t].queue) : page'[t].queue[i] = page[t].queue[j]
    BY <1>3
  <2> QED  BY <1>3, <2>1 DEF ToldInv
<1> QED  BY <1>1, <1>2, <1>3 DEF ToldInv

(* A queue that loses messages only holds none that it did not.            *)
LEMMA PartTold ==
    ASSUME ToldInv, told' = told, early' = early, stored' = stored,
           \A t \in Pages : page'[t].chats = page[t].chats,
           \A t \in Pages : Part(page'[t].queue, page[t].queue)
    PROVE  ToldInv'
<1>1. ASSUME NEW t \in Pages, NEW i \in 1 .. Len(page'[t].queue)
      PROVE  \E j \in 1 .. Len(page[t].queue) : page'[t].queue[i] = page[t].queue[j]
  BY DEF Part
<1> QED  BY <1>1, ToldStays

(* A message that is put into a queue to be decrypted does not matter.     *)
LEMMA ReceiveMessageTold ==
    ASSUME ChatInv, ToldInv, NEW s \in Sockets, ReceiveMessage(s)
    PROVE  ToldInv'
<1> DEFINE t == s[1]
           m == Arrival(s)
<1>1. t \in Pages /\ Types
  BY LinkFacts DEF ChatInv, Connected
<1>2. /\ m \in AnyMessage /\ m = Head(link[s].down) /\ link[s].down # <<>>
      /\ stored' = stored
      /\ \A v \in Pages : page'[v].chats = page[v].chats /\ (v # t => page'[v].queue = page[v].queue)
      /\ page'[t].queue = Append(page[t].queue, m)
  BY <1>1, ReceiveMessageEffect DEF ChatInv
<1>3. told' = told /\ early' = early
  BY DEF ReceiveMessage, historyVars
<1>4. m.op = "decrypt"
  <2>1. link[s].down \in Seq(DownMessages(posted, chatIds))
    BY DEF ChatInv, GenuineInv
  <2>2. m \in DownMessages(posted, chatIds)
    BY <1>2, <2>1, TailPart
  <2> QED  BY <2>2 DEF DownMessages
<1> HIDE DEF m, t
<1>5. ASSUME NEW v \in Pages, NEW i \in 1 .. Len(page'[v].queue)
      PROVE  \/ page'[v].queue[i].op # "encrypt"
             \/ \E j \in 1 .. Len(page[v].queue) : page'[v].queue[i] = page[v].queue[j]
  <2>1. CASE v # t
    BY <1>2, <2>1
  <2>2. CASE v = t
    <3>1. page[t].queue \in Seq(AnyMessage) /\ Len(page[t].queue) \in Nat
      BY <1>1, PageFacts, LenProperties
    <3>2. /\ Len(page'[t].queue) = Len(page[t].queue) + 1
          /\ \A j \in 1 .. Len(page[t].queue) : page'[t].queue[j] = page[t].queue[j]
          /\ page'[t].queue[Len(page[t].queue) + 1] = m
      BY <1>2, <3>1, AppendProperties
    <3>3. i \in 1 .. Len(page[t].queue) \/ i = Len(page[t].queue) + 1
      BY <2>2, <3>1, <3>2
    <3> QED  BY <1>4, <2>2, <3>2, <3>3
  <2> QED  BY <2>1, <2>2
<1> QED  BY <1>2, <1>3, <1>5, ToldStays

(* A page that has been told posts with a chat id.                         *)
LEMMA PostTold ==
    ASSUME ChatInv, ToldInv, NEW t \in Pages, Post(t)
    PROVE  ToldInv'
<1>1. Types
  BY DEF ChatInv, Connected
<1>2. /\ stored' = stored
      /\ \A v \in Pages : page'[v].chats = page[v].chats /\ (v # t => page'[v].queue = page[v].queue)
  BY PostEffect DEF ChatInv
<1>3. PICK m \in AnyMessage :
        /\ m.text = <<t, posted + 1>> /\ m.chat = SelectedChatId(t)
        /\ page'[t].queue = Append(page[t].queue, m)
  BY PostEffect DEF ChatInv
<1>4. told' = told /\ early' = early \cup (IF t \in told THEN {} ELSE {<<t, posted + 1>>})
  BY DEF Post
<1>5. m.chat = NoChatId => m.text \in early'
  <2>1. CASE t \notin told
    BY <1>3, <1>4, <2>1
  <2>2. CASE t \in told
    <3>1. page[t].chats # <<>> /\ page[t].chats \in Seq(Entries(posted, chatIds))
      BY <2>2 DEF ToldInv, ChatInv, GenuineInv
    <3>2. Head(page[t].chats) \in Entries(posted, chatIds)
      BY <3>1, TailPart
    <3> QED  BY <1>3, <3>1, <3>2 DEF SelectedChatId, Entries
  <2> QED  BY <2>1, <2>2
<1>6. ASSUME NEW v \in Pages, NEW i \in 1 .. Len(page'[v].queue),
             page'[v].queue[i].op = "encrypt", page'[v].queue[i].chat = NoChatId
      PROVE  page'[v].queue[i].text \in early'
  <2>1. CASE v # t
    <3>1. page'[v].queue = page[v].queue
      BY <1>2, <2>1
    <3> QED  BY <1>4, <1>6, <3>1 DEF ToldInv
  <2>2. CASE v = t
    <3>1. page[t].queue \in Seq(AnyMessage) /\ Len(page[t].queue) \in Nat
      BY <1>1, PageFacts, LenProperties
    <3>2. /\ Len(page'[t].queue) = Len(page[t].queue) + 1
          /\ \A j \in 1 .. Len(page[t].queue) : page'[t].queue[j] = page[t].queue[j]
          /\ page'[t].queue[Len(page[t].queue) + 1] = m
      BY <1>3, <3>1, AppendProperties
    <3>3. CASE i \in 1 .. Len(page[t].queue)
      <4>1. page'[v].queue[i] = page[t].queue[i]
        BY <2>2, <3>2, <3>3
      <4> QED  BY <1>4, <1>6, <3>3, <4>1 DEF ToldInv
    <3>4. CASE i = Len(page[t].queue) + 1
      BY <1>5, <1>6, <2>2, <3>2, <3>4
    <3>5. i \in 1 .. Len(page[t].queue) + 1
      BY <2>2, <3>2
    <3>6. i \in 1 .. Len(page[t].queue) \/ i = Len(page[t].queue) + 1
      BY <3>1, <3>5
    <3> QED  BY <3>3, <3>4, <3>6
  <2> QED  BY <2>1, <2>2
<1>7. told' \subseteq Pages /\ \A v \in told' : page'[v].chats # <<>> /\ stored'[Owner[v]] # <<>>
  BY <1>2, <1>4 DEF ToldInv
<1> QED  BY <1>6, <1>7 DEF ToldInv

(* A page that shows a message has it, and stores it for its user.         *)
LEMMA ShownTold ==
    ASSUME Types, ToldInv, NEW t \in Pages, NEW e \in AnyEntry,
           page'[t].chats = Append(page[t].chats, e), stored'[Owner[t]] = page'[t].chats,
           \A u \in Users : u # Owner[t] => stored'[u] = stored[u],
           \A v \in Pages : v # t => page'[v] = page[v],
           Part(page'[t].queue, page[t].queue),
           told' = told \cup {t}, early' = early
    PROVE  ToldInv'
<1>1. page'[t].chats # <<>>
  <2>1. page[t].chats \in Seq(AnyEntry)
    BY PageFacts
  <2>2. page'[t].chats \in Seq(AnyEntry) /\ Len(page'[t].chats) = Len(page[t].chats) + 1
    BY <2>1, AppendProperties
  <2> QED  BY <2>1, <2>2, EmptySeq, LenProperties
<1>2. told' \subseteq Pages
  BY DEF ToldInv
<1>3. ASSUME NEW v \in told'
      PROVE  page'[v].chats # <<>> /\ stored'[Owner[v]] # <<>>
  <2>1. v \in Pages /\ Owner[v] \in Users
    BY <1>2, ChatAssumption
  <2>2. CASE v = t
    BY <1>1, <2>2
  <2>3. CASE v # t
    <3>1. v \in told /\ page'[v] = page[v]
      BY <2>1, <2>3
    <3> QED  BY <1>1, <2>1, <3>1 DEF ToldInv
  <2> QED  BY <2>2, <2>3
<1>4. ASSUME NEW v \in Pages, NEW i \in 1 .. Len(page'[v].queue),
             page'[v].queue[i].op = "encrypt", page'[v].queue[i].chat = NoChatId
      PROVE  page'[v].queue[i].text \in early'
  <2>1. \E j \in 1 .. Len(page[v].queue) : page'[v].queue[i] = page[v].queue[j]
    <3>1. CASE v = t
      BY <3>1 DEF Part
    <3>2. CASE v # t
      BY <3>2
    <3> QED  BY <3>1, <3>2
  <2> QED  BY <1>4, <2>1 DEF ToldInv
<1> QED  BY <1>2, <1>3, <1>4 DEF ToldInv

(* An echo is shown.                                                       *)
LEMMA ReceiveEchoTold ==
    ASSUME ChatInv, ToldInv, NEW s \in Sockets, ReceiveEcho(s)
    PROVE  ToldInv'
<1> DEFINE t == s[1]
<1>1. t \in Pages /\ Types
  BY LinkFacts DEF ChatInv, Connected
<1>2. /\ \A v \in Pages : v # t => page'[v] = page[v]
      /\ page'[t].queue = page[t].queue
      /\ \E e \in AnyEntry : page'[t].chats = Append(page[t].chats, e)
      /\ stored'[Owner[t]] = page'[t].chats
      /\ \A u \in Users : u # Owner[t] => stored'[u] = stored[u]
  <2>1. Connected
    BY DEF ChatInv
  <2> HIDE DEF t
  <2>2. t = s[1]
    BY DEF t
  <2> QED  BY <1>1, <2>1, <2>2, ReceiveEchoEffect
<1>3. told' = told \cup {t} /\ early' = early
  BY DEF ReceiveEcho, Show
<1>4. Part(page'[t].queue, page[t].queue)
  BY <1>1, <1>2, PageFacts, WholePart
<1> HIDE DEF t
<1> QED  BY <1>1, <1>2, <1>3, <1>4, ShownTold

(* A message of the peer's is shown.                                       *)
LEMMA DecryptedTold ==
    ASSUME ChatInv, ToldInv, NEW t \in Pages, Decrypted(t)
    PROVE  ToldInv'
<1>1. Types
  BY DEF ChatInv, Connected
<1>2. /\ \A v \in Pages : v # t => page'[v] = page[v]
      /\ page[t].queue # <<>> /\ page'[t].queue = Tail(page[t].queue)
      /\ \E e \in AnyEntry : page'[t].chats = Append(page[t].chats, e)
      /\ stored'[Owner[t]] = page'[t].chats
      /\ \A u \in Users : u # Owner[t] => stored'[u] = stored[u]
  BY DecryptedEffect DEF ChatInv
<1>3. told' = told \cup {t} /\ early' = early
  BY DEF Decrypted, Show
<1>4. Part(page'[t].queue, page[t].queue)
  BY <1>1, <1>2, PageFacts, TailPart
<1> QED  BY <1>1, <1>2, <1>3, <1>4, ShownTold

(* A page that is loaded again finds what its user's pages have stored.    *)
LEMMA ReloadTold ==
    ASSUME ChatInv, ToldInv, NEW t \in Pages, Reload(t)
    PROVE  ToldInv'
<1>1. /\ stored' = stored
      /\ \A v \in Pages : v # t => page'[v] = page[v]
      /\ page'[t].queue = <<>> /\ page'[t].chats = stored[Owner[t]]
  BY ReloadEffect DEF ChatInv
<1>2. /\ told' = told \cup {v \in {t} : \E w \in told : Owner[w] = Owner[t]}
      /\ early' = early
  BY DEF Reload
<1>3. t \in told' => stored[Owner[t]] # <<>>
  BY <1>2 DEF ToldInv
<1>4. told' \subseteq Pages /\ \A v \in told' : page'[v].chats # <<>> /\ stored'[Owner[v]] # <<>>
  BY <1>1, <1>2, <1>3 DEF ToldInv
<1>5. Len(page'[t].queue) = 0
  BY <1>1, EmptySeq
<1>6. ASSUME NEW v \in Pages, NEW i \in 1 .. Len(page'[v].queue),
             page'[v].queue[i].op = "encrypt", page'[v].queue[i].chat = NoChatId
      PROVE  page'[v].queue[i].text \in early'
  <2>1. v # t
    BY <1>5
  <2> QED  BY <1>1, <1>2, <1>6, <2>1 DEF ToldInv
<1> QED  BY <1>4, <1>6 DEF ToldInv

(* What has been told stays told, by every step.                           *)
LEMMA ToldNext ==
    ASSUME ChatInv, ToldInv, [Next]_vars
    PROVE  ToldInv'
<1>1. Connected /\ Types
  BY DEF ChatInv, Connected
<1>2. ASSUME Quiet, told' = told, early' = early  PROVE ToldInv'
  BY <1>2, PartTold DEF Quiet
<1>3. ASSUME UNCHANGED <<page, stored>>, told' = told, early' = early  PROVE ToldInv'
  BY <1>1, <1>3, SamePageParts, PartTold
<1>4. ASSUME NEW s \in Sockets, Accept(s)  PROVE ToldInv'
  BY <1>1, <1>2, <1>4, AcceptQuiet DEF Accept, historyVars
<1>5. ASSUME NEW s \in Sockets, ServerClosed(s)  PROVE ToldInv'
  BY <1>1, <1>2, <1>5, ServerClosedQuiet DEF ServerClosed, historyVars
<1>6. ASSUME NEW s \in Sockets, Break(s)  PROVE ToldInv'
  BY <1>1, <1>2, <1>6, BreakQuiet DEF Break
<1>7. ASSUME NEW t \in Pages, ConnectWebSocket(t)  PROVE ToldInv'
  BY <1>1, <1>2, <1>7, ConnectQuiet DEF ConnectWebSocket, historyVars
<1>8. ASSUME NEW s \in Sockets, Opened(s)  PROVE ToldInv'
  BY <1>1, <1>2, <1>8, OpenedQuiet DEF Opened, historyVars
<1>9. ASSUME NEW s \in Sockets, ClientClosed(s)  PROVE ToldInv'
  BY <1>1, <1>2, <1>9, ClientClosedQuiet DEF ClientClosed, historyVars
<1>10. ASSUME NEW t \in Pages, NotEncrypted(t)  PROVE ToldInv'
  BY <1>1, <1>2, <1>10, NotEncryptedQuiet DEF NotEncrypted, historyVars
<1>11. ASSUME NEW s \in Sockets, Relay(s)  PROVE ToldInv'
  BY <1>3, <1>11 DEF Relay, historyVars
<1>12. ASSUME NEW t \in Pages, Encrypted(t)  PROVE ToldInv'
  <2>1. /\ stored' = stored
        /\ page[t].queue # <<>> /\ page'[t].queue = Tail(page[t].queue)
        /\ \A v \in Pages :
             page'[v].chats = page[v].chats /\ (v # t => page'[v].queue = page[v].queue)
    BY <1>1, <1>12, EncryptedEffect
  <2>2. told' = told /\ early' = early
    BY <1>12 DEF Encrypted
  <2>3. ASSUME NEW v \in Pages  PROVE Part(page'[v].queue, page[v].queue)
    <3>1. page[v].queue \in Seq(AnyMessage)
      BY <1>1, PageFacts
    <3>2. CASE v = t
      BY <2>1, <3>1, <3>2, TailPart
    <3>3. CASE v # t
      BY <2>1, <3>1, <3>3, WholePart
    <3> QED  BY <3>2, <3>3
  <2> QED  BY <2>1, <2>2, <2>3, PartTold
<1>13. ASSUME NEW s \in Sockets, ReceiveEcho(s)  PROVE ToldInv'
  BY <1>13, ReceiveEchoTold
<1>14. ASSUME NEW s \in Sockets, ReceiveMessage(s)  PROVE ToldInv'
  BY <1>14, ReceiveMessageTold
<1>15. ASSUME NEW t \in Pages, Post(t)  PROVE ToldInv'
  BY <1>15, PostTold
<1>16. ASSUME NEW t \in Pages, Decrypted(t)  PROVE ToldInv'
  BY <1>16, DecryptedTold
<1>17. ASSUME NEW t \in Pages, Reload(t)  PROVE ToldInv'
  BY <1>17, ReloadTold
<1>18. ASSUME NEW t \in Pages, PageStep(t)  PROVE ToldInv'
  BY <1>7, <1>8, <1>9, <1>13, <1>14, <1>18 DEF PageStep, SocketsOf
<1>19. CASE RelayStep
  BY <1>4, <1>5, <1>11, <1>19 DEF RelayStep
<1>20. CASE UNCHANGED vars
  BY <1>3, <1>20 DEF vars
<1>21. CASE Next
  BY <1>6, <1>10, <1>12, <1>15, <1>16, <1>17, <1>18, <1>19, <1>21 DEF Next
<1> QED  BY <1>20, <1>21

(* ChatInv holds in every state, however the two users' pages, the relay   *)
(* and the connections that break are interleaved (chatWindow.jsx, ws.ts). *)
THEOREM ChatInvariant == Spec => [](ChatInv /\ ToldInv)
<1>1. Init => ChatInv /\ ToldInv
  <2>1. ASSUME Init PROVE ToldInv
    <3>1. \A t \in Pages : Len(page[t].queue) = 0
      BY <2>1, EmptySeq DEF Init, MountedPage
    <3> QED  BY <2>1, <3>1 DEF Init, ToldInv
  <2> QED  BY <2>1, InitChat
<1>2. ASSUME ChatInv, ToldInv, [Next]_vars  PROVE  ChatInv'
  <2>1. Connected
    BY <1>2 DEF ChatInv
  <2>2. CASE UNCHANGED vars
    BY <1>2, <2>1, <2>2, StutterQuiet, QuietChat
  <2>3. ASSUME NEW s \in Sockets, Accept(s)  PROVE  ChatInv'
    BY <1>2, <2>1, <2>3, AcceptQuiet, QuietChat
  <2>4. ASSUME NEW s \in Sockets, ServerClosed(s)  PROVE  ChatInv'
    BY <1>2, <2>1, <2>4, ServerClosedQuiet, QuietChat
  <2>5. ASSUME NEW s \in Sockets, Relay(s)  PROVE  ChatInv'
    BY <1>2, <2>5, RelayChat
  <2>6. ASSUME NEW s \in Sockets, Break(s)  PROVE  ChatInv'
    BY <1>2, <2>1, <2>6, BreakQuiet, QuietChat
  <2>7. ASSUME NEW t \in Pages, ConnectWebSocket(t)  PROVE  ChatInv'
    BY <1>2, <2>1, <2>7, ConnectQuiet, QuietChat
  <2>8. ASSUME NEW s \in Sockets, Opened(s)  PROVE  ChatInv'
    BY <1>2, <2>1, <2>8, OpenedQuiet, QuietChat
  <2>9. ASSUME NEW s \in Sockets, ClientClosed(s)  PROVE  ChatInv'
    BY <1>2, <2>1, <2>9, ClientClosedQuiet, QuietChat
  <2>10. ASSUME NEW s \in Sockets, ReceiveEcho(s)  PROVE  ChatInv'
    BY <1>2, <2>10, ReceiveEchoChat
  <2>11. ASSUME NEW s \in Sockets, ReceiveMessage(s)  PROVE  ChatInv'
    BY <1>2, <2>11, ReceiveMessageChat
  <2>12. ASSUME NEW t \in Pages, Post(t)  PROVE  ChatInv'
    BY <1>2, <2>12, PostChat
  <2>13. ASSUME NEW t \in Pages, Encrypted(t)  PROVE  ChatInv'
    BY <1>2, <2>13, EncryptedChat
  <2>14. ASSUME NEW t \in Pages, NotEncrypted(t)  PROVE  ChatInv'
    BY <1>2, <2>1, <2>14, NotEncryptedQuiet, QuietChat
  <2>15. ASSUME NEW t \in Pages, Decrypted(t)  PROVE  ChatInv'
    BY <1>2, <2>15, DecryptedChat
  <2>16. ASSUME NEW t \in Pages, Reload(t)  PROVE  ChatInv'
    BY <1>2, <2>16, ReloadChat
  <2>17. ASSUME NEW t \in Pages, PageStep(t)  PROVE  ChatInv'
    BY <2>7, <2>8, <2>9, <2>10, <2>11, <2>17 DEF PageStep, SocketsOf
  <2>18. CASE RelayStep
    BY <2>3, <2>4, <2>5, <2>18 DEF RelayStep
  <2>19. CASE Next
    BY <2>6, <2>12, <2>13, <2>14, <2>15, <2>16, <2>17, <2>18, <2>19 DEF Next
  <2> QED  BY <1>2, <2>2, <2>19
<1>3. ChatInv /\ ToldInv /\ [Next]_vars => (ChatInv /\ ToldInv)'
  BY <1>2, ToldNext
<1> QED  BY <1>1, <1>3, PTL DEF Spec

(* What is posted has a number within the bound, and there is no chat for  *)
(* which no message without a chat id was encrypted.                       *)
LEMMA ChatBounds ==
    ASSUME ChatInv
    PROVE  /\ posted \in Nat /\ chatIds \in Nat
           /\ posted <= MaxEvents /\ chatIds <= unaddressed /\ unaddressed <= posted
<1>1. /\ posted \in Nat /\ losses \in Nat /\ chatIds \in Nat /\ unaddressed \in Nat
      /\ posted + losses <= MaxEvents
  BY DEF ChatInv, Connected, Types
<1>2. IsFiniteSet(Waiting) /\ IsFiniteSet(Chatless)
  BY <1>1, CountedAreFinite
<1>3. Cardinality(Waiting) \in Nat /\ Cardinality(Chatless) \in Nat
  BY <1>2, FS_CardinalityType
<1> QED  BY <1>1, <1>3, ChatAssumption DEF ChatInv, CountInv

(* The types, and the relay's Map holds exactly the sockets that are open  *)
(* at its end (ws.ts:27-30, 56-63).                                        *)
THEOREM ChatTypeCorrect == Spec => []TypeOK
<1>1. ChatInv => TypeOK
  <2> SUFFICES ASSUME ChatInv  PROVE  TypeOK
    OBVIOUS
  <2>1. /\ Connected /\ Types /\ GenuineInv
    BY DEF ChatInv, Connected
  <2>2. posted \in Nat /\ posted <= MaxEvents /\ chatIds \in Nat /\ chatIds <= MaxEvents
        /\ MaxEvents \in Nat
    BY <2>1, ChatBounds, ChatAssumption DEF Types
  <2>3. ASSUME NEW x \in AnyText, x[2] \in 1 .. posted  PROVE  x \in Text
    BY <2>2, <2>3 DEF AnyText, Text
  <2>4. \A t \in Pages : Plaintexts(t, posted) \subseteq Text
    BY <2>3 DEF Plaintexts
  <2>5. ASSUME NEW m \in AnyMessage, Genuine(m, posted, chatIds)  PROVE  m \in Message
    <3>1. m.text \in Text /\ m.chat \in 0 .. MaxEvents
      BY <2>2, <2>3, <2>5, MessageFacts DEF Genuine
    <3> QED  BY <3>1 DEF AnyMessage, Message
  <2>6. /\ \A t \in Pages : /\ QueueMessages(t, posted, chatIds) \subseteq Message
                            /\ UpMessages(t, posted, chatIds) \subseteq Message
        /\ DownMessages(posted, chatIds) \subseteq Message
    BY <2>5 DEF QueueMessages, UpMessages, DownMessages
  <2>7. Entries(posted, chatIds) \subseteq Entry
    <3> SUFFICES ASSUME NEW e \in Entries(posted, chatIds)  PROVE  e \in Entry
      OBVIOUS
    <3>1. e \in AnyEntry /\ Genuine(e, posted, chatIds) /\ e.chat # NoChatId
          /\ (e.as # NoPlaintext => e.as[2] \in 1 .. posted)
      BY DEF Entries
    <3>2. e.text \in AnyText /\ e.as \in AnyText \cup {NoPlaintext}
      BY <3>1 DEF AnyEntry
    <3>3. e.text \in Text /\ e.as \in Text \cup {NoPlaintext}
      BY <2>3, <3>1, <3>2 DEF Genuine
    <3>4. e.chat \in 1 .. MaxEvents
      BY <2>2, <3>1 DEF Genuine, NoChatId
    <3> QED  BY <3>1, <3>3, <3>4 DEF AnyEntry, Entry
  <2>8. ASSUME NEW t \in Pages
        PROVE  /\ page[t].pending \in Seq(Text) /\ page[t].queue \in Seq(Message)
               /\ page[t].chats \in Seq(Entry) /\ page[t].ws \in 0 .. page[t].opened
    <3>1. page[t].pending \in Seq(Text) /\ page[t].queue \in Seq(Message)
          /\ page[t].chats \in Seq(Entry)
      BY <2>1, <2>4, <2>6, <2>7, GenuinePage, SeqMonotonic
    <3>2. page[t].ws \in 0 .. page[t].opened
      BY <2>1, PageFacts DEF Connected
    <3> QED  BY <3>1, <3>2
  <2>9. ASSUME NEW s \in Sockets
        PROVE  /\ link[s].client \in {"none", "connecting", "open", "closed"}
               /\ link[s].up \in Seq(Message) /\ link[s].down \in Seq(Message)
               /\ link[s].server = "open" <=> s \in connections[User(s)]
    <3>1. link[s].up \in Seq(Message) /\ link[s].down \in Seq(Message)
      BY <2>1, <2>6, LinkFacts, GenuineLink, SeqMonotonic
    <3>2. link[s].client \in {"none", "connecting", "open", "closed"}
      BY <2>1, LinkFacts DEF LinkState
    <3> QED  BY <2>1, <3>1, <3>2 DEF Connected, LinkInv
  <2>10. ASSUME NEW u \in Users
         PROVE  stored[u] \in Seq(Entry) /\ connections[u] \subseteq Sockets
    <3>1. stored[u] \in Seq(Entries(posted, chatIds)) /\ connections[u] \subseteq Sockets
      BY <2>1 DEF GenuineInv, Types
    <3> QED  BY <2>7, <3>1, SeqMonotonic
  <2> QED  BY <2>8, <2>9, <2>10 DEF TypeOK
<1> QED  BY <1>1, ChatInvariant, PTL

(* The user sees the own messages with their own texts, unless an echo was *)
(* lost or another page's echo came (chatWindow.jsx:16-19, 91).            *)
THEOREM OwnTextsAreShown == Spec => []EchoesPairedUndisturbed
<1>1. ChatInv => EchoesPairedUndisturbed
  <2> SUFFICES ASSUME ChatInv, NEW t \in Pages, Owner[t] \notin disturbed
               PROVE  EchoesShown(t)
    BY DEF EchoesPairedUndisturbed
  <2>1. TextsShown(page[t].chats, Owner[t])
    BY DEF ChatInv, EchoesInv, EchoInv
  <2>2. DOMAIN page[t].chats = 1 .. Len(page[t].chats)
    BY PageFacts, LenProperties DEF ChatInv, Connected
  <2> QED  BY <2>1, <2>2 DEF EchoesShown, TextsShown
<1> QED  BY <1>1, ChatInvariant, PTL

(* What one page sends is shown to the peer in the order it was sent, over *)
(* every page of the peer, the relay and all reconnecting.                 *)
THEOREM PeerSeesOrder == Spec => []PeerInOrder
<1>1. ChatInv => PeerInOrder
  <2> SUFFICES ASSUME ChatInv, NEW v \in Pages, Peer(Owner[v]) \notin disturbed,
                      NEW i \in DOMAIN page[v].chats, NEW j \in DOMAIN page[v].chats,
                      i < j, page[v].chats[i].from # Owner[v],
                      page[v].chats[i].text[1] = page[v].chats[j].text[1]
               PROVE  page[v].chats[i].text[2] < page[v].chats[j].text[2]
    BY DEF PeerInOrder
  <2>1. Types /\ GenuineInv
    BY DEF ChatInv, Connected
  <2>2. DOMAIN page[v].chats = 1 .. Len(page[v].chats)
    BY <2>1, PageFacts, LenProperties
  <2>3. page[v].chats[i] \in Entries(posted, chatIds)
    BY <2>1, <2>2, GenuinePage, ElementOfSeq
  <2>4. PICK t \in Pages : t = page[v].chats[i].text[1]
    BY <2>3 DEF Entries, AnyEntry, AnyText
  <2>5. Owner[t] # Owner[v] /\ Owner[t] \in Users /\ Owner[v] \in Users
    BY <2>3, <2>4, ChatAssumption DEF Entries, Genuine
  <2>6. Owner[t] = Peer(Owner[v])
    BY <2>5, TwoUsers
  <2>7. Ordered(page[v].chats, t)
    BY <2>5, <2>6 DEF ChatInv, PipesInv, PipeInv
  <2> QED  BY <2>2, <2>4, <2>7 DEF Ordered
<1> QED  BY <1>1, ChatInvariant, PTL

(* There is one chat for the two, unless a second message was encrypted    *)
(* that had been posted before its page could know of the first one's chat *)
(* (chatWindow.jsx:142-152, ws.ts:40).                                     *)
THEOREM OneChatForTwo == Spec => []OneChat
<1>1. ChatInv => OneChat
  <2> SUFFICES ASSUME ChatInv, unaddressed <= 1, NEW t \in Pages,
                      NEW i \in DOMAIN page[t].chats
               PROVE  page[t].chats[i].chat = 1
    BY DEF OneChat
  <2>1. Types /\ GenuineInv /\ unaddressed \in Nat
    BY DEF ChatInv, Connected, Types
  <2>2. chatIds \in Nat /\ chatIds <= 1
    BY <2>1, ChatBounds
  <2>3. DOMAIN page[t].chats = 1 .. Len(page[t].chats)
    BY <2>1, PageFacts, LenProperties
  <2>4. page[t].chats[i] \in Entries(posted, chatIds)
    BY <2>1, <2>3, GenuinePage, ElementOfSeq
  <2>5. page[t].chats[i].chat \in 0 .. chatIds /\ page[t].chats[i].chat # 0
    BY <2>4 DEF Entries, Genuine, NoChatId
  <2> QED  BY <2>2, <2>5
<1> QED  BY <1>1, ChatInvariant, PTL
==============================================================================
