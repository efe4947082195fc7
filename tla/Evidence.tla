------------------------------ MODULE Evidence ------------------------------
(***************************************************************************)
(* Evidence objects: uploads that stream to the object store and then      *)
(* switch the canonical pointer under the organization lock                *)
(* (app/evidence.py), the garbage collector of superseded and tombstoned   *)
(* versions (app/evidence_gc.py), and the sync pushes that create, delete, *)
(* restore and reference evidence metadata.  The database is transactional *)
(* and its deadlock detector aborts a waiter of a cycle; the store is not. *)
(***************************************************************************)
EXTENDS Integers, FiniteSets, FiniteSetsExt

CONSTANTS
    Orgs,        \* organizations
    Docs,        \* evidence documents
    OrgOf,       \* the organization of each document
    Items,       \* items an upload may claim the document for
    Digests,     \* contents, named by their SHA-256
    Uploaders,   \* request handlers running put_blob
    Collectors,  \* runs of the collector
    Limit,       \* rows a collector takes
    Modes,       \* what may fail in a behaviour, and bounds: the uploads begun and the ids of
                 \* queue rows, of which a push leaves one for each upload
    NoRow,       \* no such row
    Free         \* no holder of a lock

\* refusal: access is withdrawn during the stream; commit: a commit raises; ambiguous: it raises
\* although the database has committed; abort: the handler dies or an exception escapes it;
\* crash: a collector dies; storage: the store refuses a request.
FaultKinds == {"refusal", "commit", "ambiguous", "abort", "crash", "storage"}

Procs == Uploaders \cup Collectors
\* object_key_for: a key names the document and the content.
Keys == Docs \X Digests

Blobs == [item : Items, sha : Digests]

ASSUME EvidenceConstants ==
    /\ OrgOf \in [Docs -> Orgs]
    /\ Limit \in Nat \ {0}
    /\ Modes \subseteq [faults : SUBSET FaultKinds, uploads : Nat, rows : Nat]
    /\ \A m \in Modes : m.uploads <= m.rows
    /\ Uploaders \cup Items \cup Digests \subseteq Nat
    /\ Uploaders \cap Collectors = {} /\ Free \notin Procs
    /\ NoRow \notin Blobs

VARIABLES
    blob,       \* committed EvidenceBlob rows
    meta,       \* CanonicalItemChild of the document: "none", "live" or "deleted"
    refs,       \* documents a live measurement or requirement lists
    queue,      \* committed EvidenceObjectGC rows: id, doc, sha and whether it is due
    nextId,     \* the queue's autoincrement counter
    objects,    \* keys present in the object store
    lock,       \* holder of each organization's row lock
    up,         \* state of each upload
    col,        \* state of each collector run, its uncommitted writes included
    begun,      \* uploads begun
    published,  \* history: keys whose object, as it is in the store, has been canonical
    discarded,  \* history: keys whose object _discard_candidate removed since it was last written
    torn,       \* history: pointers whose object a run of the collector had deleted when it died
    misjudged,  \* history: documents judged by what a collector's session had loaded before
    mode        \* what may fail in this behaviour, and its bounds

tables == <<blob, meta, refs, queue, nextId>>
dbVars == <<tables, published>>
input == <<begun, mode>>
history == <<discarded, torn, misjudged>>
vars == <<blob, meta, refs, queue, nextId, objects, lock, up, col, input, published, history>>

IdleUp == [pc |-> "idle", doc |-> NoRow, item |-> NoRow, sha |-> NoRow, cancel |-> {}]
IdleCol == [pc |-> "idle", rows |-> {}, todo |-> {}, gone |-> {}, later |-> {}, drop |-> {},
            cur |-> <<NoRow, NoRow>>, canon |-> <<NoRow, "none">>]

-----------------------------------------------------------------------------
(* Locks.                                                                  *)

KeyOf(u) == <<up[u].doc, up[u].sha>>
IsPointer(k) == blob[k[1]] # NoRow /\ blob[k[1]].sha = k[2]
RowIds(k) == {r.id : r \in {q \in queue : <<q.doc, q.sha>> = k}}

\* The transactions that hold row locks on the queue rows ids.
RowHolders(ids) ==
    {u \in Uploaders : up[u].cancel \cap ids # {}} \cup
    {g \in Collectors : col[g].rows \cap ids # {}}

Release(p) == [o \in Orgs |-> IF lock[o] = p THEN Free ELSE lock[o]]

\* The row a collector turns to: rows are processed in the order of their ids.
NextRow(g) == CHOOSE r \in queue : r.id = Min(col[g].todo)

\* Whom a transaction is waiting for.
WaitsFor(p) ==
    IF p \in Uploaders
    THEN CASE up[p].pc = "lock" -> {lock[OrgOf[up[p].doc]]} \ {Free, p}
           [] up[p].pc = "cancel" -> RowHolders(RowIds(KeyOf(p))) \ {p}
           [] OTHER -> {}
    ELSE IF col[p].todo # {} THEN {lock[OrgOf[NextRow(p).doc]]} \ {Free, p} ELSE {}

WaitCycle(S) == S # {} /\ \A p \in S : WaitsFor(p) \cap S # {}

\* PostgreSQL's deadlock detector may abort p.
IsVictim(p) == \E S \in SUBSET Procs : p \in S /\ WaitCycle(S) /\ ~WaitCycle(S \ {p})

-----------------------------------------------------------------------------
(* Uploads: put_blob.                                                      *)

\* Bound: handlers, items and contents are only names.  The first idle handler takes a request,
\* and the first request of all has the first item and content.
InOrder(u, i, c) ==
    /\ \A v \in Uploaders : v < u => up[v].pc # "idle"
    /\ begun = 0 => (\A j \in Items : i <= j) /\ (\A k \in Digests : c <= k)

\* The checks made before the stream, in a transaction that is then given up.
BeginUpload(u, d, i, c) ==
    /\ up[u].pc = "idle" /\ InOrder(u, i, c)
    /\ begun < mode.uploads
    /\ blob[d] # NoRow => blob[d].item = i
    /\ meta[d] # "deleted"
    /\ up' = [up EXCEPT ![u] = [IdleUp EXCEPT !.pc = "put", !.doc = d, !.item = i, !.sha = c]]
    /\ begun' = begun + 1
    /\ UNCHANGED <<dbVars, objects, lock, col, mode, history>>

\* put_verified: the object appears under its final key, no database lock is held.
PutObject(u) ==
    /\ up[u].pc = "put"
    /\ objects' = objects \cup {KeyOf(u)}
    /\ discarded' = discarded \ {KeyOf(u)} /\ torn' = torn \ {KeyOf(u)}
    /\ up' = [up EXCEPT ![u].pc = "lock"]
    /\ UNCHANGED <<dbVars, lock, col, input, misjudged>>

\* Too large, wrong digest or store unavailable: the request fails and nothing was stored.
PutFails(u) ==
    /\ up[u].pc = "put"
    /\ up' = [up EXCEPT ![u] = IdleUp]
    /\ UNCHANGED <<dbVars, objects, lock, col, input, history>>

\* candidate_is_canonical
IsCanonical(u) == blob[up[u].doc] # NoRow /\ blob[up[u].doc].sha = up[u].sha

\* Refused under the lock: roll back, which releases the lock, and only then discard the
\* candidate unless it is to be preserved.
GiveUp(u, preserve) ==
    /\ lock' = Release(u)
    /\ up' = [up EXCEPT ![u] = IF preserve THEN IdleUp
                               ELSE [@ EXCEPT !.pc = "discard", !.cancel = {}]]

\* The organization row FOR UPDATE, and the canonical state read again.
LockForUpload(u) ==
    LET d == up[u].doc
    IN  /\ up[u].pc = "lock"
        /\ lock[OrgOf[d]] = Free
        /\ IF meta[d] = "deleted" \/ (blob[d] # NoRow /\ blob[d].item # up[u].item)
           THEN GiveUp(u, IsCanonical(u))
           ELSE /\ lock' = [lock EXCEPT ![OrgOf[d]] = u]
                /\ up' = [up EXCEPT ![u].pc = "cancel"]
        /\ UNCHANGED <<dbVars, objects, col, input, history>>

\* Mutant: pending collections of the key are left in the queue.
CancelNothing(u) ==
    /\ up[u].pc = "cancel"
    /\ up' = [up EXCEPT ![u].pc = "verify"]
    /\ UNCHANGED <<dbVars, objects, lock, col, input, history>>

\* _cancel_gc_for_key: waits for the row locks of a collector.
CancelGc(u) ==
    LET ids == RowIds(KeyOf(u))
    IN  /\ up[u].pc = "cancel"
        /\ RowHolders(ids) \subseteq {u}
        /\ up' = [up EXCEPT ![u].pc = "verify", ![u].cancel = ids]
        /\ UNCHANGED <<dbVars, objects, lock, col, input, history>>

\* The object must still exist, and the item still be accessible.
VerifyObject(u) ==
    /\ up[u].pc = "verify"
    /\ \/ /\ KeyOf(u) \in objects
          /\ up' = [up EXCEPT ![u].pc = "commit"]
          /\ UNCHANGED lock
       \/ /\ KeyOf(u) \notin objects \/ "refusal" \in mode.faults
          /\ GiveUp(u, IsCanonical(u))
    /\ UNCHANGED <<dbVars, objects, col, input, history>>

\* queue_blob_gc
Queued(d) == {[id |-> nextId, doc |-> d, sha |-> blob[d].sha, due |-> FALSE]}

\* Mutant: the version replaced is forgotten.
ReplacedForgotten(u) == {}

\* The version an upload replaces is queued in the same transaction.
Replaced(u) ==
    IF blob[up[u].doc] # NoRow /\ ~IsCanonical(u) THEN Queued(up[u].doc) ELSE {}

\* What the commit of an upload makes visible.
Publish(u) ==
    LET d == up[u].doc
    IN  /\ blob' = [blob EXCEPT ![d] = [item |-> up[u].item, sha |-> up[u].sha]]
        /\ queue' = {r \in queue : r.id \notin up[u].cancel} \cup Replaced(u)
        /\ nextId' = IF Replaced(u) = {} THEN nextId ELSE nextId + 1
        /\ published' = published \cup {KeyOf(u)}
        /\ UNCHANGED <<meta, refs>>

CommitUpload(u) ==
    /\ up[u].pc = "commit"
    /\ Publish(u)
    /\ lock' = Release(u)
    /\ up' = [up EXCEPT ![u] = IdleUp]
    /\ UNCHANGED <<objects, col, input, history>>

\* The commit raises: rolled back, or (ambiguous) committed without the handler learning it.
CommitRaises(u) ==
    /\ up[u].pc = "commit"
    /\ \/ "commit" \in mode.faults /\ UNCHANGED dbVars
       \/ "ambiguous" \in mode.faults /\ Publish(u)
    /\ GiveUp(u, IsCanonical(u))
    /\ UNCHANGED <<objects, col, input, history>>

\* _discard_candidate, after the rollback; a failure of the store is swallowed.
DiscardCandidate(u) ==
    /\ up[u].pc = "discard"
    /\ \/ /\ objects' = objects \ {KeyOf(u)}
          /\ published' = published \ {KeyOf(u)}
          /\ discarded' = discarded \cup {KeyOf(u)}
       \/ "storage" \in mode.faults /\ UNCHANGED <<objects, published, discarded>>
    /\ up' = [up EXCEPT ![u] = IdleUp]
    /\ UNCHANGED <<tables, lock, col, input, torn, misjudged>>

\* The request dies: a crash, an exception put_blob does not handle (a failing exists among
\* them), or the deadlock detector's.
AbortUpload(u) ==
    /\ up[u].pc # "idle"
    /\ "abort" \in mode.faults \/ IsVictim(u)
    /\ lock' = Release(u)
    /\ up' = [up EXCEPT ![u] = IdleUp]
    /\ UNCHANGED <<dbVars, objects, col, input, history>>

-----------------------------------------------------------------------------
(* The collector: collect_due_evidence_gc.                                 *)

\* FOR UPDATE SKIP LOCKED: the first Limit due rows nobody has locked.
Collect(g) ==
    LET due == {r.id : r \in {q \in queue : q.due /\ RowHolders({q.id}) = {}}}
        mine == {n \in due : Cardinality({m \in due : m < n}) < Limit}
    IN  /\ col[g].pc = "idle"
        /\ mine # {}
        /\ col' = [col EXCEPT ![g] = [IdleCol EXCEPT !.pc = "run", !.rows = mine, !.todo = mine]]
        /\ UNCHANGED <<dbVars, objects, lock, up, input, history>>

\* db.get answers from the session's identity map while the instance is referenced there: the
\* blob of the row before, the metadata that was looked at last.  A blob the run has deleted is
\* gone for the run.
CachedBlob(g, d) ==
    IF d \in col[g].drop THEN NoRow ELSE IF col[g].cur[1] = d THEN col[g].cur[2] ELSE blob[d]
CachedMeta(g, d) == IF col[g].canon[1] = d THEN col[g].canon[2] ELSE meta[d]

\* current_points_to_candidate
PointsTo(g, r) == CachedBlob(g, r.doc) # NoRow /\ CachedBlob(g, r.doc).sha = r.sha

\* Canonical and live: drop the row; still referenced: try again later; else delete.
Verdict(g, r) ==
    IF ~PointsTo(g, r) THEN "delete"
    ELSE IF CachedMeta(g, r.doc) = "live" THEN "skip"
    ELSE IF r.doc \in refs THEN "later" ELSE "delete"

\* What the session has loaded is no longer so.
IsStale(g, r) ==
    \/ r.doc \notin col[g].drop /\ CachedBlob(g, r.doc) # blob[r.doc]
    \/ PointsTo(g, r) /\ CachedMeta(g, r.doc) # meta[r.doc]

\* What the session has loaded once row r has been looked at.
Seen(g, r) ==
    [col[g] EXCEPT !.todo = @ \ {r.id},
                   !.cur = <<r.doc, CachedBlob(g, r.doc)>>,
                   !.canon = IF PointsTo(g, r) THEN <<r.doc, CachedMeta(g, r.doc)>> ELSE @]

\* One row under its savepoint, with the organization row FOR UPDATE.  The object is deleted
\* at once, rows and pointer when the run commits.
ProcessRow(g) ==
    LET r == NextRow(g)
        o == OrgOf[r.doc]
        v == Verdict(g, r)
        w == Seen(g, r)
    IN  /\ col[g].todo # {}
        /\ lock[o] \in {Free, g}
        /\ lock' = [lock EXCEPT ![o] = g]
        /\ IF v = "later"
           THEN col' = [col EXCEPT ![g] = [w EXCEPT !.later = @ \cup {r.id}]]
           ELSE col' = [col EXCEPT ![g] = [w EXCEPT !.gone = @ \cup {r.id},
                    !.drop = IF v = "delete" /\ PointsTo(g, r) THEN @ \cup {r.doc} ELSE @]]
        /\ objects' = IF v = "delete" THEN objects \ {<<r.doc, r.sha>>} ELSE objects
        /\ published' = published \cap objects'
        /\ misjudged' = IF IsStale(g, r) THEN misjudged \cup {r.doc} ELSE misjudged
        /\ UNCHANGED <<tables, up, input, discarded, torn>>

\* The store refuses the deletion: the savepoint is rolled back, which gives up an organization
\* lock it took, and the row is rescheduled; what the session has loaded stays loaded.
StoreRefuses(g) ==
    LET r == NextRow(g)
    IN  /\ "storage" \in mode.faults
        /\ col[g].todo # {}
        /\ lock[OrgOf[r.doc]] \in {Free, g}
        /\ Verdict(g, r) = "delete"
        /\ col' = [col EXCEPT ![g] = [Seen(g, r) EXCEPT !.later = @ \cup {r.id}]]
        /\ UNCHANGED <<dbVars, objects, lock, up, input, history>>

\* Mutant: the row of a deletion that failed is dropped with the others.
CommitDropsFailed(g) ==
    /\ col[g].pc = "run"
    /\ col[g].todo = {}
    /\ queue' = {q \in queue : q.id \notin col[g].gone \cup col[g].later}
    /\ blob' = [d \in Docs |-> IF d \in col[g].drop THEN NoRow ELSE blob[d]]
    /\ lock' = Release(g)
    /\ col' = [col EXCEPT ![g] = IdleCol]
    /\ UNCHANGED <<meta, refs, nextId, objects, up, input, published, history>>

\* One commit for the run.
CommitCollect(g) ==
    /\ col[g].pc = "run"
    /\ col[g].todo = {}
    /\ queue' = {[r EXCEPT !.due = @ /\ r.id \notin col[g].later] :
                    r \in {q \in queue : q.id \notin col[g].gone}}
    /\ blob' = [d \in Docs |-> IF d \in col[g].drop THEN NoRow ELSE blob[d]]
    /\ lock' = Release(g)
    /\ col' = [col EXCEPT ![g] = IdleCol]
    /\ UNCHANGED <<meta, refs, nextId, objects, up, input, published, history>>

\* The run dies before its commit, or is the deadlock detector's victim: rows and pointers are
\* as before, deleted objects are not.
AbortCollect(g) ==
    /\ col[g].pc = "run"
    /\ "crash" \in mode.faults \/ IsVictim(g)
    /\ lock' = Release(g)
    /\ col' = [col EXCEPT ![g] = IdleCol]
    /\ torn' = torn \cup {k \in Keys : IsPointer(k) /\ k[1] \in col[g].drop}
    /\ UNCHANGED <<dbVars, objects, up, input, discarded, misjudged>>

\* The grace period or the backoff of a row is over.
BecomesDue(r) ==
    /\ ~r.due
    /\ queue' = (queue \ {r}) \cup {[r EXCEPT !.due = TRUE]}
    /\ UNCHANGED <<blob, meta, refs, nextId, objects, lock, up, col, input, published, history>>

-----------------------------------------------------------------------------
(* Sync pushes: each is a transaction under the organization lock.         *)

\* An upsert of the evidence record; it also restores a tombstoned one.
PushMetadata(d) ==
    /\ lock[OrgOf[d]] = Free
    /\ meta[d] # "live"
    /\ meta' = [meta EXCEPT ![d] = "live"]
    /\ UNCHANGED <<blob, refs, queue, nextId, objects, lock, up, col, input, published, history>>

\* Mutant: a deletion does not look for references.
TombstoneReferenced(d) ==
    /\ lock[OrgOf[d]] = Free
    /\ meta[d] # "none"
    /\ blob[d] # NoRow => nextId + mode.uploads <= mode.rows
    /\ meta' = [meta EXCEPT ![d] = "deleted"]
    /\ queue' = IF blob[d] # NoRow THEN queue \cup Queued(d) ELSE queue
    /\ nextId' = IF blob[d] # NoRow THEN nextId + 1 ELSE nextId
    /\ UNCHANGED <<blob, refs, objects, lock, up, col, input, published, history>>

\* A deletion, refused while the document is referenced; repeating one is allowed.
PushTombstone(d) ==
    /\ lock[OrgOf[d]] = Free
    /\ meta[d] # "none"
    /\ d \notin refs
    /\ blob[d] # NoRow => nextId + mode.uploads <= mode.rows
    /\ meta' = [meta EXCEPT ![d] = "deleted"]
    /\ queue' = IF blob[d] # NoRow THEN queue \cup Queued(d) ELSE queue
    /\ nextId' = IF blob[d] # NoRow THEN nextId + 1 ELSE nextId
    /\ UNCHANGED <<blob, refs, objects, lock, up, col, input, published, history>>

\* A measurement or requirement that lists the document, and one that no longer does.
PushReference(d) ==
    /\ lock[OrgOf[d]] = Free
    /\ refs' = IF d \in refs THEN refs \ {d} ELSE refs \cup {d}
    /\ d \notin refs => meta[d] = "live"
    /\ UNCHANGED <<blob, meta, queue, nextId, objects, lock, up, col, input, published, history>>

-----------------------------------------------------------------------------

Init ==
    /\ blob = [d \in Docs |-> NoRow]
    /\ meta = [d \in Docs |-> "none"]
    /\ refs = {} /\ queue = {} /\ nextId = 1
    /\ objects = {} /\ published = {} /\ discarded = {} /\ torn = {} /\ misjudged = {}
    /\ lock = [o \in Orgs |-> Free]
    /\ up = [u \in Uploaders |-> IdleUp]
    /\ col = [g \in Collectors |-> IdleCol]
    /\ begun = 0 /\ mode \in Modes

UploadStep(u) ==
    \/ \E d \in Docs, i \in Items, c \in Digests : BeginUpload(u, d, i, c)
    \/ PutObject(u) \/ PutFails(u)
    \/ LockForUpload(u) \/ CancelGc(u) \/ VerifyObject(u)
    \/ CommitUpload(u) \/ CommitRaises(u)
    \/ DiscardCandidate(u)
    \/ AbortUpload(u)

CollectStep(g) ==
    Collect(g) \/ ProcessRow(g) \/ StoreRefuses(g) \/ CommitCollect(g) \/ AbortCollect(g)

PushStep(d) == PushMetadata(d) \/ PushTombstone(d) \/ PushReference(d)

Next ==
    \/ \E u \in Uploaders : UploadStep(u)
    \/ \E g \in Collectors : CollectStep(g)
    \/ \E d \in Docs : PushStep(d)
    \/ \E r \in queue : BecomesDue(r)

Spec == Init /\ [][Next]_vars

\* Handlers run to completion, the database resolves deadlocks, time passes, and the collector
\* is started again and again.
Fairness ==
    /\ \A u \in Uploaders : WF_vars(
            PutObject(u) \/ LockForUpload(u) \/ CancelGc(u) \/ VerifyObject(u)
            \/ CommitUpload(u) \/ DiscardCandidate(u) \/ (IsVictim(u) /\ AbortUpload(u)))
    /\ \A g \in Collectors : SF_vars(ProcessRow(g)) /\ WF_vars(Collect(g))
            /\ WF_vars(CommitCollect(g) \/ (IsVictim(g) /\ AbortCollect(g)))
    /\ WF_vars(\E r \in queue : BecomesDue(r))
FairSpec == Spec /\ Fairness

-----------------------------------------------------------------------------
(* Properties.                                                             *)

Pending(k) == RowIds(k) # {}

\* "The pointer names an object that exists" (tests/test_evidence_replace_contention_postgres.py):
\* a committed blob whose metadata is not deleted can be read from the store.
PointerNamesObject ==
    \A k \in Keys : IsPointer(k) /\ meta[k[1]] # "deleted" => k \in objects

\* The collector never takes the object of evidence that can be read: if one is missing, a
\* failed upload of the same content discarded it, a run died after deleting it, or a run that
\* the store had refused judged the document by what it had loaded before.  Cancelling the queue
\* row and looking at the store again, both under the organization lock, are what put_blob does
\* for this.
CollectorSparesPublished ==
    \A k \in Keys : IsPointer(k) /\ meta[k[1]] # "deleted" =>
        k \in objects \cup discarded \cup torn \/ k[1] \in misjudged

\* A version that has been replaced, or whose document was collected, is never leaked: it is
\* the pointer, or queued, or gone from the store.  Only a run that goes by what it had loaded
\* before can remove a pointer it has not seen.
SupersededIsQueued == \A k \in published : IsPointer(k) \/ Pending(k) \/ k[1] \in misjudged

\* Evidence listed by a live measurement or requirement is live, and a collection in progress
\* leaves its pointer alone.
ReferencedIsKept ==
    \A d \in refs : meta[d] = "live" /\ \A g \in Collectors : d \notin col[g].drop

\* A superseded version does not stay in the store for ever.
SupersededIsReclaimed ==
    \A k \in Keys : []<>(k \notin published \/ IsPointer(k) \/ k[1] \in misjudged)
=============================================================================
