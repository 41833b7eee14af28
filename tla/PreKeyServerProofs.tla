-------------------------- MODULE PreKeyServerProofs --------------------------
(***************************************************************************)
(* Theorems about PreKeyServer, for every set of requests and of OPK ids.  *)
(* ServerInv is inductive; the theorems are its conjuncts.                 *)
(***************************************************************************)
EXTENDS PreKeyServer, FiniteSetTheorems, TLAPS

(* What has been published grows by the publication appended.              *)
LEMMA ToSetAppend ==
    ASSUME NEW S, NEW s \in Seq(S), NEW x \in S
    PROVE  /\ ToSet(Append(s, x)) = ToSet(s) \cup {x}
           /\ Last(Append(s, x)) = x
           /\ Append(s, x) # <<>>
           /\ Append(s, x) \in Seq(S)
PROOF
  <1>1. /\ Len(Append(s, x)) = Len(s) + 1
        /\ \A i \in 1 .. Len(s) : Append(s, x)[i] = s[i]
        /\ Append(s, x)[Len(s) + 1] = x
        /\ DOMAIN s = 1 .. Len(s)
        /\ DOMAIN Append(s, x) = 1 .. Len(s) + 1
        /\ Len(s) \in Nat
        /\ Append(s, x) \in Seq(S)
    OBVIOUS
  <1>2. Append(s, x) # <<>>
    BY <1>1, Len(<<>>) = 0
  <1>3. Last(Append(s, x)) = x
    BY <1>1 DEF Last
  <1>4. ToSet(Append(s, x)) = ToSet(s) \cup {x}
    <2>1. ASSUME NEW y \in ToSet(Append(s, x)) PROVE y \in ToSet(s) \cup {x}
      <3>1. PICK i \in 1 .. Len(s) + 1 : y = Append(s, x)[i]
        BY <1>1 DEF ToSet
      <3>2. CASE i = Len(s) + 1
        BY <3>1, <3>2, <1>1
      <3>3. CASE i \in 1 .. Len(s)
        BY <3>1, <3>3, <1>1 DEF ToSet
      <3>. QED BY <3>2, <3>3, <1>1
    <2>2. ASSUME NEW y \in ToSet(s) PROVE y \in ToSet(Append(s, x))
      <3>1. PICK i \in 1 .. Len(s) : y = s[i]
        BY <1>1 DEF ToSet
      <3>2. i \in 1 .. Len(s) + 1 /\ y = Append(s, x)[i]
        BY <3>1, <1>1
      <3>. QED BY <3>2, <1>1 DEF ToSet
    <2>3. x \in ToSet(Append(s, x))
      <3>1. Len(s) + 1 \in 1 .. Len(s) + 1
        BY <1>1
      <3>. QED BY <3>1, <1>1 DEF ToSet
    <2>. QED BY <2>1, <2>2, <2>3
  <1>. QED BY <1>1, <1>2, <1>3, <1>4

(* The empty set and singletons have at most one element.                  *)
LEMMA AtMostOneOpk == Cardinality({}) <= 1 /\ \A row : Cardinality({row}) <= 1
  BY FS_EmptySet, FS_Singleton

(* Nothing is published, locked or answered at first.                      *)
LEMMA InitServerInv == Init => ServerInv
  <1>. SUFFICES ASSUME Init PROVE ServerInv
    OBVIOUS
  <1>1. ToSet(<<>>) = {}
    BY DEF ToSet
  <1>2. TypeOK
    BY AtMostOneOpk DEF Init, TypeOK, Requests
  <1>3. LocksInv
    BY DEF Init, LocksInv, Requests
  <1>4. PostsInv
    BY <1>1 DEF Init, PostsInv, Requests, Open
  <1>5. AnswersInv
    BY DEF Init, AnswersInv, Requests
  <1>6. PoolMatchesBundle /\ NoKeyTwice
    BY DEF Init, PoolMatchesBundle, NoKeyTwice, Requests
  <1>. QED BY <1>2, <1>3, <1>4, <1>5, <1>6 DEF ServerInv

-----------------------------------------------------------------------------
(* POST.                                                                   *)

(* Only one POST writes the bundle row at a time.                          *)
LEMMA PostBundleStep ==
    ASSUME ServerInv, NEW t \in Posts, PostBundle(t) PROVE ServerInv'
  <1>. USE DEF PostBundle, Goto, Requests
  <1>1. TypeOK'
    BY DEF ServerInv, TypeOK
  <1>2. LocksInv'
    BY DEF ServerInv, TypeOK, LocksInv
  <1>3. PostsInv'
    BY RequestsAssumption DEF ServerInv, TypeOK, LocksInv, PostsInv, Open, BundleRowFree
  <1>4. AnswersInv' /\ PoolMatchesBundle' /\ NoKeyTwice'
    BY DEF ServerInv, AnswersInv, PoolMatchesBundle, NoKeyTwice
  <1>. QED BY <1>1, <1>2, <1>3, <1>4 DEF ServerInv

(* DELETE sees every row there is.                                         *)
LEMMA PostDeleteStep ==
    ASSUME ServerInv, NEW t \in Posts, PostDelete(t) PROVE ServerInv'
  <1>. USE DEF PostDelete, Goto, Requests
  <1>1. TypeOK'
    BY DEF ServerInv, TypeOK
  <1>2. LocksInv'
    BY DEF ServerInv, TypeOK, LocksInv
  <1>3. PostsInv'
    BY RequestsAssumption DEF ServerInv, TypeOK, LocksInv, PostsInv, Open
  <1>4. AnswersInv' /\ PoolMatchesBundle' /\ NoKeyTwice'
    BY DEF ServerInv, AnswersInv, PoolMatchesBundle, NoKeyTwice
  <1>. QED BY <1>1, <1>2, <1>3, <1>4 DEF ServerInv

(* A row that is gone through is either locked or no longer there.         *)
LEMMA PostDeleteRowStep ==
    ASSUME ServerInv, NEW t \in Posts, PostDeleteRow(t) PROVE ServerInv'
  <1>. USE DEF Requests
  <1>1. PICK row \in remaining[t] \ LockedFor(t) :
          /\ remaining' = [remaining EXCEPT ![t] = @ \ {row}]
          /\ deleted' = [deleted EXCEPT ![t] = @ \cup ({row} \cap rows)]
    BY DEF PostDeleteRow
  <1>2. pc[t] = "deleting" /\ UNCHANGED <<published, rows, pc, inserted, read, answer>>
    BY DEF PostDeleteRow
  <1>3. \A u \in Requests \ {t} : row \notin deleted[u]
    BY <1>1 DEF LockedFor
  <1>4. TypeOK'
    <2>1. deleted' \in [Requests -> SUBSET Row] /\ remaining' \in [Requests -> SUBSET Row]
      BY <1>1 DEF ServerInv, TypeOK
    <2>2. \A g \in Gets : deleted'[g] = deleted[g]
      BY <1>1, RequestsAssumption DEF ServerInv, TypeOK
    <2>. QED BY <1>2, <2>1, <2>2 DEF ServerInv, TypeOK
  <1>5. LocksInv'
    BY <1>1, <1>2, <1>3 DEF ServerInv, TypeOK, LocksInv
  <1>6. PostsInv'
    BY <1>1, <1>2 DEF ServerInv, TypeOK, PostsInv, Open
  <1>7. AnswersInv' /\ PoolMatchesBundle' /\ NoKeyTwice'
    BY <1>2 DEF ServerInv, AnswersInv, PoolMatchesBundle, NoKeyTwice
  <1>. QED BY <1>4, <1>5, <1>6, <1>7 DEF ServerInv

(* By the time a POST inserts its rows, it has locked all the others.      *)
LEMMA PostInsertStep ==
    ASSUME ServerInv, NEW t \in Posts, PostInsert(t) PROVE ServerInv'
  <1>. USE DEF Requests
  <1>1. PICK ids \in SUBSET OpkIds :
          inserted' = [inserted EXCEPT ![t] = {Opk(id, t) : id \in ids}]
    BY DEF PostInsert
  <1>2. /\ pc[t] = "deleting" /\ remaining[t] = {}
        /\ pc' = [pc EXCEPT ![t] = "inserted"]
        /\ UNCHANGED <<published, rows, deleted, remaining, read, answer>>
    BY DEF PostInsert, Goto
  <1>3. {Opk(id, t) : id \in ids} \subseteq Row
    BY DEF Opk, Row
  <1>4. \A row \in {Opk(id, t) : id \in ids} : row.by = t
    BY DEF Opk
  <1>5. TypeOK'
    BY <1>1, <1>2, <1>3 DEF ServerInv, TypeOK
  <1>6. LocksInv'
    BY <1>2 DEF ServerInv, TypeOK, LocksInv
  <1>7. PostsInv'
    BY <1>1, <1>2, <1>4, RequestsAssumption DEF ServerInv, TypeOK, PostsInv, Open
  <1>8. AnswersInv' /\ PoolMatchesBundle' /\ NoKeyTwice'
    BY <1>2 DEF ServerInv, AnswersInv, PoolMatchesBundle, NoKeyTwice
  <1>. QED BY <1>5, <1>6, <1>7, <1>8 DEF ServerInv

(* COMMIT of a POST, acknowledged or not: its rows are all that is left.   *)
LEMMA PublishStep ==
    ASSUME ServerInv, NEW t \in Posts, pc[t] = "inserted",
           published' = Append(published, t),
           rows' = (rows \ deleted[t]) \cup inserted[t],
           NEW end \in {"answered", "failed"}, pc' = [pc EXCEPT ![t] = end],
           End(t), UNCHANGED <<read, answer>>
    PROVE  ServerInv'
  <1>. USE DEF Requests
  <1>1. /\ ToSet(published') = ToSet(published) \cup {t}
        /\ Last(published') = t
        /\ published' # <<>>
        /\ published' \in Seq(Posts)
    BY ToSetAppend, SMTT(30) DEF ServerInv, TypeOK
  <1>2. rows' = inserted[t]
    BY DEF ServerInv, PostsInv
  <1>3. t \notin ToSet(published)
    BY DEF ServerInv, PostsInv, Open
  <1>4. \A row \in rows' : row.by = t
    BY <1>2 DEF ServerInv, PostsInv
  <1>5. \A u \in Requests \ {t} : deleted[u] = {}
    BY DEF ServerInv, PostsInv, LocksInv
  <1>6. TypeOK'
    <2>1. rows' \subseteq Row
      BY <1>2 DEF ServerInv, TypeOK
    <2>2. \A g \in Gets : deleted'[g] = {} \/ deleted'[g] = deleted[g]
      BY DEF End, ServerInv, TypeOK
    <2>. QED BY <1>1, <2>1, <2>2, AtMostOneOpk DEF End, ServerInv, TypeOK
  <1>7. LocksInv'
    BY <1>5 DEF End, ServerInv, TypeOK, LocksInv
  <1>8. PostsInv'
    <2>1. \A u \in Posts \ {t} : ~Open(u)
      BY DEF ServerInv, PostsInv, Open
    <2>. QED BY <1>1, <2>1, RequestsAssumption DEF End, ServerInv, TypeOK, PostsInv, Open
  <1>9. AnswersInv'
    BY <1>1, <1>3, <1>4 DEF ServerInv, AnswersInv
  <1>10. PoolMatchesBundle' /\ NoKeyTwice'
    BY <1>1, <1>4 DEF ServerInv, PoolMatchesBundle, NoKeyTwice
  <1>. QED BY <1>6, <1>7, <1>8, <1>9, <1>10 DEF ServerInv

-----------------------------------------------------------------------------
(* GET.                                                                    *)

(* Reading the bundle, or finding none, locks nothing.                     *)
LEMMA GetBundleStep ==
    ASSUME ServerInv, NEW t \in Gets, GetBundle(t) \/ GetNoBundle(t)
    PROVE  ServerInv'
  <1>. USE DEF Requests, Goto
  <1>1. /\ pc[t] = "new"
        /\ \E end \in {"bundle", "failed"} : pc' = [pc EXCEPT ![t] = end]
        /\ UNCHANGED <<published, rows, deleted, remaining, inserted, answer>>
    BY DEF GetBundle, GetNoBundle
  <1>2. read' \in [Requests -> Nat]
    <2>1. published \in Seq(Posts) /\ read \in [Requests -> Nat]
      BY DEF ServerInv, TypeOK
    <2>2. Len(published) \in Nat
      BY <2>1
    <2>. QED BY <2>1, <2>2 DEF GetBundle, GetNoBundle
  <1>3. TypeOK'
    BY <1>1, <1>2 DEF ServerInv, TypeOK
  <1>4. LocksInv'
    BY <1>1 DEF ServerInv, TypeOK, LocksInv
  <1>5. PostsInv'
    BY <1>1, RequestsAssumption DEF ServerInv, TypeOK, PostsInv, Open
  <1>6. AnswersInv' /\ PoolMatchesBundle' /\ NoKeyTwice'
    BY <1>1 DEF ServerInv, AnswersInv, PoolMatchesBundle, NoKeyTwice
  <1>. QED BY <1>3, <1>4, <1>5, <1>6 DEF ServerInv

(* A GET locks one row that no other request has locked.                   *)
LEMMA GetConsumeStep ==
    ASSUME ServerInv, NEW t \in Gets, GetConsume(t) PROVE ServerInv'
  <1>. USE DEF Requests
  <1>1. PICK taken \in SUBSET (rows \ LockedFor(t)) :
          /\ deleted' = [deleted EXCEPT ![t] = taken]
          /\ Cardinality(taken) <= 1
    <2>1. CASE \E row \in Consumable(t) : deleted' = [deleted EXCEPT ![t] = {row}]
      <3>1. PICK row \in Consumable(t) : deleted' = [deleted EXCEPT ![t] = {row}]
        BY <2>1
      <3>2. {row} \in SUBSET (rows \ LockedFor(t))
        BY <3>1 DEF Consumable
      <3>. QED BY <3>1, <3>2, AtMostOneOpk
    <2>2. CASE UNCHANGED deleted
      <3>1. deleted[t] = {}
        BY DEF GetConsume, ServerInv, LocksInv
      <3>2. deleted' = [deleted EXCEPT ![t] = {}]
        BY <2>2, <3>1 DEF ServerInv, TypeOK
      <3>. QED BY <3>2, AtMostOneOpk
    <2>. QED BY <2>1, <2>2 DEF GetConsume
  <1>2. /\ pc[t] = "bundle" /\ pc' = [pc EXCEPT ![t] = "consumed"]
        /\ UNCHANGED <<published, rows, remaining, inserted, read, answer>>
    BY DEF GetConsume, Goto
  <1>3. \A u \in Requests \ {t} : taken \cap deleted[u] = {}
    BY <1>1 DEF LockedFor
  <1>4. TypeOK'
    <2>1. deleted' \in [Requests -> SUBSET Row]
      BY <1>1 DEF ServerInv, TypeOK
    <2>2. \A g \in Gets : Cardinality(deleted'[g]) <= 1
      BY <1>1 DEF ServerInv, TypeOK
    <2>3. pc' \in [Requests -> {"new", "bundle", "deleting", "inserted", "consumed",
                                "answered", "failed"}]
      BY <1>2 DEF ServerInv, TypeOK
    <2>. QED BY <1>2, <2>1, <2>2, <2>3 DEF ServerInv, TypeOK
  <1>5. LocksInv'
    BY <1>1, <1>2, <1>3 DEF ServerInv, TypeOK, LocksInv
  <1>6. PostsInv'
    BY <1>1, <1>2, RequestsAssumption DEF ServerInv, TypeOK, PostsInv, Open
  <1>7. AnswersInv' /\ PoolMatchesBundle' /\ NoKeyTwice'
    BY <1>2 DEF ServerInv, AnswersInv, PoolMatchesBundle, NoKeyTwice
  <1>. QED BY <1>4, <1>5, <1>6, <1>7 DEF ServerInv

(* COMMIT of a GET, acknowledged or not: what it locked leaves the pool.   *)
LEMMA ConsumeStep ==
    ASSUME ServerInv, NEW t \in Gets, pc[t] = "consumed",
           rows' = rows \ deleted[t],
           NEW end \in {"answered", "failed"}, pc' = [pc EXCEPT ![t] = end],
           End(t), UNCHANGED <<published, read>>,
           answer' = answer \/ answer' = [answer EXCEPT ![t] = deleted[t]]
    PROVE  ServerInv'
  <1>. USE DEF Requests
  <1>1. \A g \in Gets : answer'[g] = answer[g] \/ (g = t /\ answer'[g] = deleted[t])
    BY DEF ServerInv, TypeOK
  <1>2. deleted[t] \subseteq rows
    BY DEF ServerInv, LocksInv
  <1>3. TypeOK'
    <2>1. answer' \in [Requests -> SUBSET Row]
      BY DEF ServerInv, TypeOK
    <2>2. \A g \in Gets : Cardinality(answer'[g]) <= 1
      BY <1>1 DEF ServerInv, TypeOK
    <2>3. \A g \in Gets : deleted'[g] = {} \/ deleted'[g] = deleted[g]
      BY DEF End, ServerInv, TypeOK
    <2>. QED BY <2>1, <2>2, <2>3, AtMostOneOpk DEF End, ServerInv, TypeOK
  <1>4. LocksInv'
    BY DEF End, ServerInv, TypeOK, LocksInv
  <1>5. PostsInv'
    <2>1. \A u \in Posts : u # t
      BY RequestsAssumption
    <2>. QED BY <2>1 DEF End, ServerInv, TypeOK, PostsInv, Open
  <1>6. AnswersInv'
    <2>1. \A row \in rows : row.by \in ToSet(published)
      <3>1. published # <<>> => Last(published) \in ToSet(published)
        <4>1. published \in Seq(Posts)
          BY DEF ServerInv, TypeOK
        <4>2. published # <<>> => Len(published) \in 1 .. Len(published)
          BY <4>1
        <4>. QED BY <4>1, <4>2 DEF Last, ToSet
      <3>. QED BY <3>1 DEF ServerInv, PoolMatchesBundle
    <2>. QED BY <1>1, <1>2, <2>1 DEF ServerInv, AnswersInv
  <1>7. PoolMatchesBundle'
    BY DEF ServerInv, PoolMatchesBundle
  <1>8. NoKeyTwice'
    BY <1>1, <1>2 DEF ServerInv, AnswersInv, NoKeyTwice
  <1>. QED BY <1>3, <1>4, <1>5, <1>6, <1>7, <1>8 DEF ServerInv

-----------------------------------------------------------------------------
(* Failures.                                                               *)

(* ROLLBACK gives up locks and nothing else.                               *)
LEMMA FailStep ==
    ASSUME ServerInv, NEW t \in Requests, Fail(t) PROVE ServerInv'
  <1>. USE DEF Fail, Goto, End
  <1>1. TypeOK'
    <2>1. \A g \in Gets : deleted'[g] = {} \/ deleted'[g] = deleted[g]
      BY DEF Requests, ServerInv, TypeOK
    <2>. QED BY <2>1, AtMostOneOpk DEF ServerInv, TypeOK
  <1>2. LocksInv'
    BY DEF ServerInv, TypeOK, LocksInv
  <1>3. PostsInv'
    BY DEF Requests, ServerInv, TypeOK, PostsInv, Open
  <1>4. AnswersInv' /\ PoolMatchesBundle' /\ NoKeyTwice'
    BY DEF ServerInv, AnswersInv, PoolMatchesBundle, NoKeyTwice
  <1>. QED BY <1>1, <1>2, <1>3, <1>4 DEF ServerInv

(* A COMMIT without an answer is a POST's or a GET's.                      *)
LEMMA UnacknowledgedStep ==
    ASSUME ServerInv, NEW t \in Requests, CommitUnacknowledged(t) PROVE ServerInv'
  <1>1. CASE pc[t] = "inserted"
    <2>1. t \in Posts
      BY <1>1 DEF Requests, ServerInv, PostsInv
    <2>2. /\ published' = Append(published, t)
          /\ rows' = (rows \ deleted[t]) \cup inserted[t]
          /\ pc' = [pc EXCEPT ![t] = "failed"]
          /\ End(t) /\ UNCHANGED <<read, answer>>
      BY <1>1 DEF CommitUnacknowledged, Goto
    <2>. QED BY <1>1, <2>1, <2>2, PublishStep
  <1>2. CASE pc[t] = "consumed"
    <2>1. t \in Gets
      BY <1>2 DEF Requests, ServerInv, PostsInv
    <2>2. /\ rows' = rows \ deleted[t]
          /\ pc' = [pc EXCEPT ![t] = "failed"]
          /\ End(t) /\ UNCHANGED <<published, read>> /\ answer' = answer
      BY <1>2 DEF CommitUnacknowledged, Goto
    <2>. QED BY <1>2, <2>1, <2>2, ConsumeStep
  <1>. QED BY <1>1, <1>2 DEF CommitUnacknowledged

-----------------------------------------------------------------------------
(* ServerInv is inductive.                                                 *)
LEMMA NextServerInv == ServerInv /\ [Next]_vars => ServerInv'
  <1>. SUFFICES ASSUME ServerInv, [Next]_vars PROVE ServerInv'
    OBVIOUS
  <1>1. ASSUME NEW t \in Posts, Post(t) PROVE ServerInv'
    <2>1. CASE PostBundle(t)
      BY <2>1, PostBundleStep
    <2>2. CASE PostDelete(t)
      BY <2>2, PostDeleteStep
    <2>3. CASE PostDeleteRow(t)
      BY <2>3, PostDeleteRowStep
    <2>4. CASE PostInsert(t)
      BY <2>4, PostInsertStep
    <2>5. CASE PostCommit(t)
      BY <2>5, PublishStep DEF PostCommit, Goto
    <2>. QED BY <1>1, <2>1, <2>2, <2>3, <2>4, <2>5 DEF Post
  <1>2. ASSUME NEW t \in Gets, Get(t) PROVE ServerInv'
    <2>1. CASE GetBundle(t) \/ GetNoBundle(t)
      BY <2>1, GetBundleStep
    <2>2. CASE GetConsume(t)
      BY <2>2, GetConsumeStep
    <2>3. CASE GetCommit(t)
      BY <2>3, ConsumeStep DEF GetCommit, Goto
    <2>. QED BY <1>2, <2>1, <2>2, <2>3 DEF Get
  <1>3. ASSUME NEW t \in Requests, Fail(t) \/ CommitUnacknowledged(t) PROVE ServerInv'
    BY <1>3, FailStep, UnacknowledgedStep
  <1>4. CASE UNCHANGED vars
    BY <1>4 DEF vars, ServerInv, TypeOK, LocksInv, PostsInv, AnswersInv,
                PoolMatchesBundle, NoKeyTwice, Open
  <1>. QED BY <1>1, <1>2, <1>3, <1>4 DEF Next

(* For every set of requests: in every reachable state a row is locked by  *)
(* one request at most, and one POST at most is open.                      *)
THEOREM ServerInvariant == Spec => []ServerInv
  <1>1. Init => ServerInv
    BY InitServerInv
  <1>2. ServerInv /\ [Next]_vars => ServerInv'
    BY NextServerInv
  <1>. QED BY <1>1, <1>2, PTL DEF Spec

(* Types, and never more than one OPK for a GET.                           *)
THEOREM ServerTypeCorrect == Spec => []TypeOK
  <1>1. ServerInv => TypeOK
    BY DEF ServerInv
  <1>. QED BY <1>1, ServerInvariant, PTL

(* However many GETs overlap, no OPK is handed out twice (keys.ts:95-96).  *)
THEOREM KeysHandedOutOnce == Spec => []NoKeyTwice
  <1>1. ServerInv => NoKeyTwice
    BY DEF ServerInv
  <1>. QED BY <1>1, ServerInvariant, PTL

(* However POSTs and GETs overlap, the pool belongs to the bundle.         *)
THEOREM PoolIsOfTheBundle == Spec => []PoolMatchesBundle
  <1>1. ServerInv => PoolMatchesBundle
    BY DEF ServerInv
  <1>. QED BY <1>1, ServerInvariant, PTL
-----------------------------------------------------------------------------
(* An OPK is never of an earlier publication than the bundle it goes with. *)

(* A POST publishes once, and a GET has its answer when it is done.        *)
OrderInv ==
    /\ \A i, j \in 1 .. Len(published) : published[i] = published[j] => i = j
    /\ \A t \in Gets :
        /\ read[t] \in 0 .. Len(published)
        /\ pc[t] # "answered" => answer[t] = {}
    /\ NoStaleKey

(* The publication of a key is the one place at which its POST stands.     *)
LEMMA IndexIs ==
    ASSUME NEW n \in Nat, NEW s, NEW x, NEW i \in 1 .. n, s[i] = x,
           \A j, k \in 1 .. n : s[j] = s[k] => j = k
    PROVE  (CHOOSE j \in 1 .. n : s[j] = x) = i
  OBVIOUS

(* Nothing has been answered at first.                                     *)
LEMMA InitOrderInv == Init => OrderInv
  <1>. SUFFICES ASSUME Init PROVE OrderInv
    OBVIOUS
  <1>1. Len(published) = 0
    BY DEF Init
  <1>. QED BY <1>1 DEF Init, OrderInv, NoStaleKey, Requests

(* A step that publishes nothing and answers nobody.                       *)
LEMMA QuietStep ==
    ASSUME ServerInv, OrderInv, UNCHANGED <<published, answer>>,
           \A t \in Gets : /\ \/ read'[t] = read[t]
                              \/ read'[t] = Len(published) /\ pc[t] = "new"
                           /\ pc[t] = "answered" => pc'[t] = "answered"
    PROVE  OrderInv'
  <1>1. published \in Seq(Posts)
    BY DEF ServerInv, TypeOK
  <1>2. Len(published) \in 0 .. Len(published)
    BY <1>1
  <1>3. \A t \in Gets : read'[t] \in 0 .. Len(published)
    BY <1>2 DEF OrderInv
  <1>4. \A t \in Gets : answer[t] # {} => read'[t] = read[t]
    BY DEF OrderInv
  <1>5. NoStaleKey'
    BY <1>4 DEF OrderInv, NoStaleKey, Publication
  <1>. QED BY <1>3, <1>5 DEF OrderInv

(* COMMIT of a POST: what has been answered stays where it was.            *)
LEMMA PublishOrder ==
    ASSUME ServerInv, OrderInv, NEW t \in Posts, pc[t] = "inserted",
           published' = Append(published, t), NEW end, pc' = [pc EXCEPT ![t] = end],
           UNCHANGED <<read, answer>>
    PROVE  OrderInv'
  <1>. DEFINE n == Len(published)
  <1>1. published \in Seq(Posts) /\ t \notin ToSet(published)
    BY DEF ServerInv, TypeOK, PostsInv, Open
  <1>2. /\ n \in Nat /\ Len(published') = n + 1
        /\ \A i \in 1 .. n : published'[i] = published[i] /\ published[i] # t
        /\ published'[n + 1] = t
        /\ ToSet(published') = ToSet(published) \cup {t}
    BY <1>1, ToSetAppend DEF ToSet
  <1>3. \A i, j \in 1 .. n + 1 : published'[i] = published'[j] => i = j
    <2>1. \A i \in 1 .. n + 1 : i \in 1 .. n \/ i = n + 1
      BY <1>2
    <2>. QED BY <1>2, <2>1 DEF OrderInv
  <1>4. \A g \in Gets : pc'[g] = pc[g]
    BY RequestsAssumption DEF ServerInv, TypeOK
  <1>5. NoStaleKey'
    <2>. SUFFICES ASSUME NEW g \in Gets, NEW row \in answer[g]
                  PROVE  row.by \in ToSet(published') /\ Publication(row)' >= read[g]
      BY DEF NoStaleKey
    <2>1. row.by \in ToSet(published) /\ Publication(row) >= read[g]
      BY DEF OrderInv, NoStaleKey
    <2>2. PICK i \in 1 .. n : published[i] = row.by
      BY <1>1, <2>1 DEF ToSet
    <2>3. Publication(row) = i
      BY <1>2, <2>2, IndexIs DEF Publication, OrderInv
    <2>4. Publication(row)' = i
      <3>1. i \in 1 .. n + 1 /\ published'[i] = row.by /\ n + 1 \in Nat
        BY <1>2, <2>2
      <3>2. (CHOOSE j \in 1 .. n + 1 : published'[j] = row.by) = i
        BY <1>3, <3>1, IndexIs
      <3>. QED BY <1>2, <3>2 DEF Publication
    <2>. QED BY <1>2, <2>1, <2>3, <2>4
  <1>6. \A g \in Gets : read[g] \in 0 .. n + 1
    BY <1>2 DEF OrderInv
  <1>. QED BY <1>2, <1>3, <1>4, <1>5, <1>6 DEF OrderInv

(* COMMIT of a GET: the OPK it consumed is of the last publication.        *)
LEMMA AnswerOrder ==
    ASSUME ServerInv, OrderInv, NEW t \in Gets, GetCommit(t)
    PROVE  OrderInv'
  <1>1. /\ published' = published /\ read' = read
        /\ pc' = [pc EXCEPT ![t] = "answered"] /\ t \in Requests
        /\ answer' = [answer EXCEPT ![t] = deleted[t]]
        /\ published \in Seq(Posts) /\ Len(published) \in Nat
        /\ pc \in [Requests -> {"new", "bundle", "deleting", "inserted", "consumed",
                                "answered", "failed"}]
        /\ answer \in [Requests -> SUBSET Row]
    BY DEF GetCommit, Goto, ServerInv, TypeOK, Requests
  <1>2. ASSUME NEW row \in deleted[t]
        PROVE  row.by \in ToSet(published) /\ Publication(row) = Len(published)
    <2>1. published # <<>> /\ row.by = Last(published)
      BY <1>1 DEF ServerInv, LocksInv, PoolMatchesBundle
    <2>2. Len(published) \in 1 .. Len(published) /\ published[Len(published)] = row.by
      BY <1>1, <2>1 DEF Last
    <2>3. Publication(row) = Len(published)
      BY <1>1, <2>2, IndexIs DEF Publication, OrderInv
    <2>. QED BY <1>1, <2>2, <2>3 DEF ToSet
  <1>3. NoStaleKey'
    <2>. SUFFICES ASSUME NEW g \in Gets, NEW row \in answer'[g]
                  PROVE  row.by \in ToSet(published) /\ Publication(row) >= read[g]
      BY <1>1 DEF NoStaleKey, Publication
    <2>1. CASE g = t
      <3>1. row \in deleted[t]
        BY <1>1, <2>1
      <3>2. read[g] \in 0 .. Len(published)
        BY DEF OrderInv
      <3>. QED BY <1>1, <1>2, <3>1, <3>2
    <2>2. CASE g # t
      BY <1>1, <2>2 DEF OrderInv, NoStaleKey
    <2>. QED BY <2>1, <2>2
  <1>4. \A g \in Gets : pc'[g] # "answered" => answer'[g] = {}
    BY <1>1 DEF OrderInv, Requests
  <1>. QED BY <1>1, <1>3, <1>4 DEF OrderInv

(* Every step keeps the order of the answers.                              *)
LEMMA NextOrderInv == ServerInv /\ OrderInv /\ [Next]_vars => OrderInv'
  <1>. SUFFICES ASSUME ServerInv, OrderInv, [Next]_vars PROVE OrderInv'
    OBVIOUS
  <1>. USE DEF Goto, Requests
  <1>1. ASSUME NEW t \in Posts, Post(t) PROVE OrderInv'
    <2>1. CASE PostCommit(t)
      BY <2>1, PublishOrder DEF PostCommit
    <2>2. CASE PostBundle(t) \/ PostDelete(t) \/ PostDeleteRow(t) \/ PostInsert(t)
      <3>1. /\ UNCHANGED <<published, read, answer>>
            /\ \A g \in Gets : pc'[g] = pc[g]
        BY <2>2, RequestsAssumption
        DEF PostBundle, PostDelete, PostDeleteRow, PostInsert, ServerInv, TypeOK
      <3>. QED BY <3>1, QuietStep
    <2>. QED BY <1>1, <2>1, <2>2 DEF Post
  <1>2. ASSUME NEW t \in Gets, Get(t) PROVE OrderInv'
    <2>1. CASE GetCommit(t)
      BY <2>1, AnswerOrder
    <2>2. CASE GetBundle(t) \/ GetNoBundle(t) \/ GetConsume(t)
      <3>1. /\ UNCHANGED <<published, answer>>
            /\ \A g \in Gets : /\ \/ read'[g] = read[g]
                                  \/ read'[g] = Len(published) /\ pc[g] = "new"
                               /\ pc[g] = "answered" => pc'[g] = "answered"
        BY <2>2 DEF GetBundle, GetNoBundle, GetConsume, ServerInv, TypeOK
      <3>. QED BY <3>1, QuietStep
    <2>. QED BY <1>2, <2>1, <2>2 DEF Get
  <1>3. ASSUME NEW t \in Requests, Fail(t) PROVE OrderInv'
    <2>1. /\ UNCHANGED <<published, read, answer>>
          /\ \A g \in Gets : pc[g] = "answered" => pc'[g] = "answered"
      BY <1>3 DEF Fail, Open, ServerInv, TypeOK
    <2>. QED BY <2>1, QuietStep
  <1>4. ASSUME NEW t \in Requests, CommitUnacknowledged(t) PROVE OrderInv'
    <2>1. CASE pc[t] = "inserted"
      <3>1. t \in Posts
        BY <2>1 DEF ServerInv, PostsInv
      <3>2. published' = Append(published, t)
        BY <1>4, <2>1 DEF CommitUnacknowledged
      <3>. QED BY <1>4, <2>1, <3>1, <3>2, PublishOrder DEF CommitUnacknowledged
    <2>2. CASE pc[t] # "inserted"
      <3>1. /\ UNCHANGED <<published, read, answer>>
            /\ \A g \in Gets : pc[g] = "answered" => pc'[g] = "answered"
        BY <1>4, <2>2 DEF CommitUnacknowledged, ServerInv, TypeOK
      <3>. QED BY <3>1, QuietStep
    <2>. QED BY <2>1, <2>2
  <1>5. CASE UNCHANGED vars
    BY <1>5, QuietStep DEF vars
  <1>. QED BY <1>1, <1>2, <1>3, <1>4, <1>5 DEF Next

(* However a GET overlaps with POSTs, the OPK in its answer is not of an   *)
(* earlier publication than its bundle (keys.ts:105-132).                  *)
THEOREM AnswersAreNotStale == Spec => []NoStaleKey
  <1>1. Init => ServerInv /\ OrderInv
    BY InitServerInv, InitOrderInv
  <1>2. ServerInv /\ OrderInv /\ [Next]_vars => (ServerInv /\ OrderInv)'
    BY NextServerInv, NextOrderInv
  <1>3. OrderInv => NoStaleKey
    BY DEF OrderInv
  <1>. QED BY <1>1, <1>2, <1>3, PTL DEF Spec
=============================================================================
