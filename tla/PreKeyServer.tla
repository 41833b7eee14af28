----------------------------- MODULE PreKeyServer -----------------------------
(***************************************************************************)
(* The key server's PostgreSQL rows of one user and the requests that use  *)
(* them (backend/src/routes/keys.ts): POST /keys/:userId publishes a bundle*)
(* and a pool of one-time prekeys (OPKs), GET /keys/:userId reads the      *)
(* bundle and consumes one OPK.  Each request is a READ COMMITTED          *)
(* transaction on a connection of its own, so every statement is a step    *)
(* that sees what is committed by then.  Rows of different users are       *)
(* independent.                                                            *)
(*                                                                         *)
(* A row a transaction deletes stays visible to the others, and locked     *)
(* against them, until it commits.  A DELETE goes through the rows it saw  *)
(* when it started one by one and waits for locked ones.                   *)
(***************************************************************************)
EXTENDS Naturals, Sequences, FiniteSets, SequencesExt

CONSTANTS Posts,      \* POST requests; one publishes its own keys
          Gets,       \* GET requests
          OpkIds      \* ids of the OPKs in every publication

ASSUME RequestsAssumption == Posts \cap Gets = {}

VARIABLES published,  \* the committed publications in order; the bundle row
                      \* is that of the last
          rows,       \* the committed rows of one_time_prekey
          pc,         \* pc[t]: the last statement of t that is done
          deleted,    \* deleted[t]: the rows t has deleted and so locked
          remaining,  \* remaining[t]: rows t's DELETE still has to go through
          inserted,   \* inserted[t]: the OPK rows t has inserted
          read,       \* read[t]: number of the publication t's SELECT has read
          answer      \* answer[t]: the OPKs in the answer of t, at most one

vars == <<published, rows, pc, deleted, remaining, inserted, read, answer>>

Requests == Posts \cup Gets

Opk(id, post) == [id |-> id, by |-> post]

LockedFor(t) == UNION {deleted[u] : u \in Requests \ {t}}

Init ==
    /\ published = <<>>
    /\ rows = {}
    /\ pc = [t \in Requests |-> "new"]
    /\ deleted = [t \in Requests |-> {}]
    /\ remaining = [t \in Requests |-> {}]
    /\ inserted = [t \in Requests |-> {}]
    /\ read = [t \in Requests |-> 0]
    /\ answer = [t \in Requests |-> {}]

Goto(t, statement) == pc' = [pc EXCEPT ![t] = statement]

Open(t) == pc[t] \notin {"new", "answered", "failed"}

(* Plausible slip: the connection is given back with its transaction open. *)
EndLeavesOpen(t) == UNCHANGED <<deleted, remaining, inserted>>

(* COMMIT or ROLLBACK: the locks of t are gone.                            *)
End(t) ==
    /\ deleted' = [deleted EXCEPT ![t] = {}]
    /\ remaining' = [remaining EXCEPT ![t] = {}]
    /\ inserted' = [inserted EXCEPT ![t] = {}]

-----------------------------------------------------------------------------
(* POST /keys/:userId.                                                     *)

(* Plausible slip: the bundle row is not written, and locked, first.       *)
BundleRowUnlocked(t) == TRUE

(* Two transactions cannot have written the one bundle row both.           *)
BundleRowFree(t) == \A u \in Posts \ {t} : ~Open(u)

PostBundle(t) ==
    /\ pc[t] = "new"
    /\ BundleRowFree(t)
    /\ Goto(t, "bundle")
    /\ UNCHANGED <<published, rows, deleted, remaining, inserted, read, answer>>

(* Plausible slip: the keys of the earlier publication are not deleted.    *)
PostDeleteNothing(t) ==
    /\ pc[t] = "bundle"
    /\ Goto(t, "deleting")
    /\ UNCHANGED <<published, rows, deleted, remaining, inserted, read, answer>>

PostDelete(t) ==
    /\ pc[t] = "bundle"
    /\ remaining' = [remaining EXCEPT ![t] = rows]
    /\ Goto(t, "deleting")
    /\ UNCHANGED <<published, rows, deleted, inserted, read, answer>>

PostDeleteRow(t) ==
    /\ pc[t] = "deleting"
    /\ \E row \in remaining[t] \ LockedFor(t) :
        /\ remaining' = [remaining EXCEPT ![t] = @ \ {row}]
        /\ deleted' = [deleted EXCEPT ![t] = @ \cup ({row} \cap rows)]
    /\ UNCHANGED <<published, rows, pc, inserted, read, answer>>

(* ON CONFLICT DO NOTHING keeps the row that has the id already.           *)
PostInsert(t) ==
    /\ pc[t] = "deleting"
    /\ remaining[t] = {}
    /\ \A row \in rows \cap LockedFor(t) : row.id \notin OpkIds
    /\ LET taken == {row.id : row \in rows \ deleted[t]}
       IN  inserted' = [inserted EXCEPT ![t] = {Opk(id, t) : id \in OpkIds \ taken}]
    /\ Goto(t, "inserted")
    /\ UNCHANGED <<published, rows, deleted, remaining, read, answer>>

PostCommit(t) ==
    /\ pc[t] = "inserted"
    /\ published' = Append(published, t)
    /\ rows' = (rows \ deleted[t]) \cup inserted[t]
    /\ Goto(t, "answered")
    /\ End(t)
    /\ UNCHANGED <<read, answer>>

-----------------------------------------------------------------------------
(* GET /keys/:userId.                                                      *)

GetBundle(t) ==
    /\ pc[t] = "new"
    /\ published # <<>>
    /\ read' = [read EXCEPT ![t] = Len(published)]
    /\ Goto(t, "bundle")
    /\ UNCHANGED <<published, rows, deleted, remaining, inserted, answer>>

(* NO_BUNDLE: rolled back at once.                                         *)
GetNoBundle(t) ==
    /\ pc[t] = "new"
    /\ published = <<>>
    /\ Goto(t, "failed")
    /\ UNCHANGED <<published, rows, deleted, remaining, inserted, read, answer>>

(* Plausible slip: the OPK is read first and deleted by a later statement. *)
ConsumableUnlocked(t) == rows

(* FOR UPDATE SKIP LOCKED: rows another transaction has locked are passed  *)
(* over.                                                                   *)
Consumable(t) == rows \ LockedFor(t)

(* Plausible slip: LIMIT 1 is missing.                                     *)
GetConsumeAll(t) ==
    /\ pc[t] = "bundle"
    /\ deleted' = [deleted EXCEPT ![t] = Consumable(t)]
    /\ Goto(t, "consumed")
    /\ UNCHANGED <<published, rows, remaining, inserted, read, answer>>

GetConsume(t) ==
    /\ pc[t] = "bundle"
    /\ \/ \E row \in Consumable(t) : deleted' = [deleted EXCEPT ![t] = {row}]
       \/ Consumable(t) = {} /\ UNCHANGED deleted
    /\ Goto(t, "consumed")
    /\ UNCHANGED <<published, rows, remaining, inserted, read, answer>>

GetCommit(t) ==
    /\ pc[t] = "consumed"
    /\ rows' = rows \ deleted[t]
    /\ answer' = [answer EXCEPT ![t] = deleted[t]]
    /\ Goto(t, "answered")
    /\ End(t)
    /\ UNCHANGED <<published, read>>

-----------------------------------------------------------------------------
(* A statement fails, or the connection or the server goes down: ROLLBACK, *)
(* by the handler or by PostgreSQL itself.                                 *)
Fail(t) ==
    /\ Open(t)
    /\ Goto(t, "failed")
    /\ End(t)
    /\ UNCHANGED <<published, rows, read, answer>>

(* The connection is lost with COMMIT done but not acknowledged.           *)
CommitUnacknowledged(t) ==
    /\ \/ /\ pc[t] = "inserted"
          /\ published' = Append(published, t)
          /\ rows' = (rows \ deleted[t]) \cup inserted[t]
       \/ /\ pc[t] = "consumed"
          /\ rows' = rows \ deleted[t]
          /\ UNCHANGED published
    /\ Goto(t, "failed")
    /\ End(t)
    /\ UNCHANGED <<read, answer>>

Post(t) ==
    \/ PostBundle(t)
    \/ PostDelete(t)
    \/ PostDeleteRow(t)
    \/ PostInsert(t)
    \/ PostCommit(t)

Get(t) ==
    \/ GetBundle(t)
    \/ GetNoBundle(t)
    \/ GetConsume(t)
    \/ GetCommit(t)

Next ==
    \/ \E t \in Posts : Post(t)
    \/ \E t \in Gets : Get(t)
    \/ \E t \in Requests : Fail(t) \/ CommitUnacknowledged(t)

Spec == Init /\ [][Next]_vars

(* PostgreSQL executes the next statement of every open transaction, unless*)
(* it waits for a lock.                                                    *)
FairSpec ==
    /\ Spec
    /\ \A t \in Posts : WF_vars(Post(t))
    /\ \A t \in Gets : WF_vars(Get(t))

-----------------------------------------------------------------------------
(* Properties.                                                             *)

Row == [id : OpkIds, by : Posts]

(* Every variable has its type, and no GET is answered with, or deletes,   *)
(* more than one OPK (keys.ts:127, LIMIT 1).                               *)
TypeOK ==
    /\ published \in Seq(Posts)
    /\ rows \subseteq Row
    /\ pc \in [Requests -> {"new", "bundle", "deleting", "inserted", "consumed",
                            "answered", "failed"}]
    /\ {deleted, remaining, inserted, answer} \subseteq [Requests -> SUBSET Row]
    /\ read \in [Requests -> Nat]
    /\ \A t \in Gets : Cardinality(deleted[t]) <= 1 /\ Cardinality(answer[t]) <= 1

(* keys.ts:95-96, 119-121: two requests never receive the same OPK.        *)
NoKeyTwice ==
    \A t, u \in Gets : t # u => answer[t] \cap answer[u] = {}

(* Whatever POSTs and GETs overlap, the pool holds OPKs of the bundle that *)
(* stands next to it and no others: one left over from an earlier          *)
(* publication has a private key its owner no longer holds (keys.ts:40-76).*)
PoolMatchesBundle ==
    \A row \in rows : published # <<>> /\ row.by = Last(published)

Publication(row) == CHOOSE i \in 1 .. Len(published) : published[i] = row.by

(* A GET reads its bundle before it consumes the OPK (keys.ts:105-132), so *)
(* the OPK can be of a later publication than the bundle it is answered    *)
(* with; it is never of an earlier one.                                    *)
NoStaleKey ==
    \A t \in Gets : \A row \in answer[t] :
        row.by \in ToSet(published) /\ Publication(row) >= read[t]

(* backend/README.md:22, "oneTimePreKey omitted when the pool is empty":   *)
(* a GET goes without an OPK only when other GETs have taken, or are just  *)
(* taking, all there are.                                                  *)
Omits(t) == pc[t] = "bundle" /\ pc'[t] = "consumed" /\ deleted'[t] = {}

OmittedOnlyWhenEmpty ==
    [][\A t \in Gets : Omits(t) => rows \subseteq UNION {deleted[u] : u \in Gets}]_vars

(* Every request is answered or fails: no transaction waits for ever.      *)
EveryRequestEnds == \A t \in Requests : <>(pc[t] \in {"answered", "failed"})

-----------------------------------------------------------------------------
(* The inductive invariant.                                                *)

LocksInv ==
    /\ \A t \in Requests :
        /\ pc[t] \in {"new", "bundle", "answered", "failed"} => deleted[t] = {}
        /\ deleted[t] \subseteq rows
    /\ \A t, u \in Requests : t # u => deleted[t] \cap deleted[u] = {}

PostsInv ==
    /\ \A t, u \in Posts : Open(t) /\ Open(u) => t = u
    /\ \A t \in Gets : pc[t] \notin {"deleting", "inserted"}
    /\ \A t \in Posts :
        /\ pc[t] # "consumed"
        /\ Open(t) \/ pc[t] = "new" => t \notin ToSet(published)
        /\ pc[t] = "deleting" => rows \subseteq deleted[t] \cup remaining[t]
        /\ pc[t] = "inserted" => rows \subseteq deleted[t]
        /\ \A row \in inserted[t] : row.by = t

AnswersInv ==
    \A t \in Gets :
        /\ answer[t] \cap rows = {}
        /\ \A row \in answer[t] : row.by \in ToSet(published)

(* Why no OPK is handed out twice and none is left over: a row is locked by*)
(* one request at most, one POST is open at most, by the time it inserts   *)
(* its own rows it holds all others, and what has been answered is gone    *)
(* from the pool (keys.ts:38-76, 105-134).                                 *)
ServerInv ==
    /\ TypeOK
    /\ LocksInv
    /\ PostsInv
    /\ AnswersInv
    /\ PoolMatchesBundle
    /\ NoKeyTwice
=============================================================================
