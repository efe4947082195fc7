------------------------------- MODULE SyncLog -------------------------------
(***************************************************************************)
(* Synchronisation of devices through the change log of an organization:   *)
(* push batches (app/sync_service.py, app/transient_retry.py) are database *)
(* transactions serialised by the organization row lock; pulls read the    *)
(* committed log from a cursor.  Requests may be duplicated, retried and   *)
(* answered or not: a push handler may be given any batch at any time.     *)
(***************************************************************************)
EXTENDS Integers, FiniteSets, Sequences, FiniteSetsExt

CONSTANTS
    Orgs,          \* organizations
    Sessions,      \* request handlers that run pushes
    Devices,       \* clients that pull
    OrgOf,         \* the organization of each device
    Entities,      \* (entityType, entityID) pairs
    Rank,          \* ENTITY_ORDER of each entity's type
    MutationIds,   \* client mutation ids
    Payloads,      \* payloads of upserts
    Batches,       \* the batches clients may send: sequences of Records
    WireSize,      \* size of a value as a client sends it
    OutSize,       \* size of the stored value once encoded again for a pull
    ScanLimit,     \* MAX_SYNC_PULL_SCAN_CHANGES
    PageRecords,   \* MAX_SYNC_RECORDS
    PageBytes,     \* MAX_SYNC_V1_WIRE_PAYLOAD_BYTES, also the limit of a batch or page
    Framing,       \* what a record takes in a serialized page besides its payload
    ResponseBytes, \* MAX_SYNC_PULL_RESPONSE_BYTES
    MaxAttempts,   \* DEFAULT_ATTEMPTS of the transient retry
    MaxSeq,        \* bound: change-log sequence numbers handed out
    InitScope,     \* the entities each device may see at first
    NoRow          \* no such row in a table

None == -1                     \* an absent revision (SQL NULL)
NoId == "no mutation id"
Tombstone == "tombstone"
Free == "free"

Values == Payloads \cup {Tombstone}
Bases == {None} \cup 0..MaxSeq

\* A SyncRecord as the server reads it; a Tombstone value is a record with deletedAt.
Records == [mid : MutationIds \cup {NoId}, ent : Entities, base : Bases, val : Values]

Fingerprints == [ent : Entities, base : Bases, val : Values]
MutationRows == [fp : Fingerprints, status : {"accepted", "rejected"}, rev : Int]
LogRows == [seq : 1..MaxSeq, ent : Entities, rev : Int, mid : MutationIds]
EntityStates == [rev : Int, val : Values]
Outcomes == Records \X BOOLEAN   \* a record and whether it is reported accepted

ASSUME SyncConstants ==
    /\ OrgOf \in [Devices -> Orgs]
    /\ Rank \in [Entities -> Nat]
    /\ Batches \subseteq Seq(Records)
    /\ WireSize \in [Values -> Nat] /\ OutSize \in [Values -> Nat]
    /\ ScanLimit \in Nat \ {0} /\ PageRecords \in Nat \ {0} /\ PageBytes \in Nat
    /\ Framing \in Nat /\ ResponseBytes \in Nat
    /\ MaxAttempts \in Nat \ {0} /\ MaxSeq \in Nat
    /\ InitScope \in [Devices -> SUBSET Entities]
    /\ Free \notin Sessions /\ NoId \notin MutationIds /\ NoRow \notin MutationRows

VARIABLES
    entity,    \* committed SyncEntity rows: entity[o][e]
    mutation,  \* committed SyncMutation rows with their fingerprint: mutation[o][m]
    log,       \* committed SyncChangeLog rows of an organization, in commit order
    nextSeq,   \* the change log's autoincrement counter, shared by all organizations
    lock,      \* holder of each organization's row lock
    push,      \* state of each push handler, its uncommitted writes included
    pull,      \* state of each device's pull request
    scope,     \* what the device's principal may see
    cursor,    \* the cursor a device holds
    got,       \* the newest revision of each entity a device has received
    answers,   \* outcomes clients have been told
    handed     \* the highest cursor handed to a client of the organization

dbVars == <<entity, mutation, log>>
clientVars == <<pull, scope, cursor, got>>
vars == <<entity, mutation, log, nextSeq, lock, push, pull, scope, cursor, got, answers, handed>>

Absent == [rev |-> None, val |-> Tombstone]
NoWrites == [e \in Entities |-> Absent]
NoMutations == [m \in MutationIds |-> NoRow]

IdlePush == [pc |-> "idle", org |-> None, batch |-> << >>, pending |-> {}, attempt |-> 0,
             done |-> {}, ent |-> NoWrites, mut |-> NoMutations, rows |-> << >>]
IdlePull == [pc |-> "idle", scope |-> {}, changes |-> {}]

-----------------------------------------------------------------------------
(* Reads of a push transaction: committed rows overlaid by its own writes. *)

EntityAt(s, e) ==
    IF push[s].ent[e] # Absent THEN push[s].ent[e] ELSE entity[push[s].org][e]

MutationAt(s, m) ==
    IF push[s].mut[m] # NoRow THEN push[s].mut[m] ELSE mutation[push[s].org][m]

\* Mutant: the transaction's own writes are not flushed before the query.
NextRevisionUnflushed(s) == Max({0} \cup {entity[push[s].org][e].rev : e \in Entities}) + 1

\* _next_revision: one above the highest revision of any entity of the organization.
NextRevision(s) == Max({0} \cup {EntityAt(s, e).rev : e \in Entities}) + 1

request_fingerprint(r) == [ent |-> r.ent, base |-> r.base, val |-> r.val]

\* A replayed id is accepted only when it names the request that was accepted before.
AcceptedReplay(row, r) == row.fp = request_fingerprint(r) /\ row.status = "accepted"

\* mutation_sort_key: parents first, then the order of the batch.
IsNext(s, i) ==
    LET Key(j) == Rank[push[s].batch[j].ent]
    IN  /\ i \in push[s].pending
        /\ \A j \in push[s].pending : Key(i) < Key(j) \/ (Key(i) = Key(j) /\ i <= j)

-----------------------------------------------------------------------------
(* Push: apply_push and _apply_push_once.                                  *)

\* The request schema bounds the payload bytes of a batch, as they are on the wire.
AdmitsBatch(b) == MapThenSumSet(LAMBDA i : WireSize[b[i].val], DOMAIN b) <= PageBytes

\* A handler is given a batch and asks for the organization row FOR UPDATE.
BeginPush(s, o, b) ==
    /\ push[s].pc = "idle"
    /\ AdmitsBatch(b)
    /\ push' = [push EXCEPT ![s] = [IdlePush EXCEPT !.pc = "lock", !.org = o, !.batch = b,
                                                   !.pending = DOMAIN b, !.attempt = 1]]
    /\ UNCHANGED <<dbVars, nextSeq, lock, clientVars, answers, handed>>

\* Mutant: the row is read without FOR UPDATE.
LockOrgShared(s) ==
    /\ push[s].pc = "lock"
    /\ lock' = [lock EXCEPT ![push[s].org] = s]
    /\ push' = [push EXCEPT ![s].pc = "apply"]
    /\ UNCHANGED <<dbVars, nextSeq, clientVars, answers, handed>>

LockOrg(s) ==
    /\ push[s].pc = "lock"
    /\ lock[push[s].org] = Free
    /\ lock' = [lock EXCEPT ![push[s].org] = s]
    /\ push' = [push EXCEPT ![s].pc = "apply"]
    /\ UNCHANGED <<dbVars, nextSeq, clientVars, answers, handed>>

\* The record the loop turns to, and its outcome.
Turn(s, i) == push[s].pc = "apply" /\ IsNext(s, i)
Settle(s, i, accepted) ==
    [push[s] EXCEPT !.pending = @ \ {i}, !.done = @ \cup {<<push[s].batch[i], accepted>>}]

\* _record_mutation: the mutation row and its fingerprint.
RecordMutation(w, r, status, rev) ==
    [w EXCEPT !.mut[r.mid] = [fp |-> request_fingerprint(r), status |-> status, rev |-> rev]]

MissingId(s, i) ==
    /\ Turn(s, i)
    /\ push[s].batch[i].mid = NoId
    /\ push' = [push EXCEPT ![s] = Settle(s, i, FALSE)]
    /\ UNCHANGED <<dbVars, nextSeq, lock, clientVars, answers, handed>>

\* Replay, collision or reuse of a rejected id: answered from the row, nothing is written.
PriorMutation(s, i) ==
    LET r == push[s].batch[i]
    IN  /\ Turn(s, i)
        /\ r.mid # NoId
        /\ MutationAt(s, r.mid) # NoRow
        /\ push' = [push EXCEPT ![s] = Settle(s, i, AcceptedReplay(MutationAt(s, r.mid), r))]
        /\ UNCHANGED <<dbVars, nextSeq, lock, clientVars, answers, handed>>

\* Mutants: ids are not looked up; the base revision is not compared.
FreshAlways(s, i) == Turn(s, i) /\ push[s].batch[i].mid # NoId
NeverStale(s, r) == FALSE

\* The record's id is new: the base revision decides whether it is examined further.
Fresh(s, i) ==
    /\ Turn(s, i)
    /\ push[s].batch[i].mid # NoId
    /\ MutationAt(s, push[s].batch[i].mid) = NoRow
IsStale(s, r) == r.base # EntityAt(s, r.ent).rev

\* A stale base revision, or a record the validators refuse (their verdict is free here),
\* spends the id.
RejectRecord(s, i) ==
    LET r == push[s].batch[i]
    IN  /\ Fresh(s, i)
        /\ push' = [push EXCEPT ![s] = RecordMutation(Settle(s, i, FALSE), r, "rejected",
                                                      EntityAt(s, r.ent).rev)]
        /\ UNCHANGED <<dbVars, nextSeq, lock, clientVars, answers, handed>>

AcceptRecord(s, i) ==
    LET r == push[s].batch[i]
        rev == NextRevision(s)
        w == RecordMutation(Settle(s, i, TRUE), r, "accepted", rev)
    IN  /\ Fresh(s, i)
        /\ ~IsStale(s, r)
        /\ nextSeq <= MaxSeq
        /\ push' = [push EXCEPT ![s] =
                [w EXCEPT !.ent[r.ent] = [rev |-> rev, val |-> r.val],
                          !.rows = Append(@, [seq |-> nextSeq, ent |-> r.ent, rev |-> rev,
                                              mid |-> r.mid])]]
        /\ nextSeq' = nextSeq + 1
        /\ UNCHANGED <<dbVars, lock, clientVars, answers, handed>>

CommitPush(s) ==
    LET o == push[s].org
    IN  /\ push[s].pc = "apply"
        /\ push[s].pending = {}
        /\ entity' = [entity EXCEPT ![o] = [e \in Entities |-> EntityAt(s, e)]]
        /\ mutation' = [mutation EXCEPT ![o] = [m \in MutationIds |-> MutationAt(s, m)]]
        /\ log' = [log EXCEPT ![o] = @ \o push[s].rows]
        /\ lock' = [lock EXCEPT ![o] = Free]
        /\ push' = [push EXCEPT ![s] = [IdlePush EXCEPT !.pc = "read", !.org = o,
                        !.batch = push[s].batch, !.attempt = push[s].attempt,
                        !.done = push[s].done]]
        /\ UNCHANGED <<nextSeq, clientVars, answers, handed>>

\* The highest committed sequence number of an organization.
LastSeq(o) == Max({0} \cup {log[o][n].seq : n \in DOMAIN log[o]})
Later(o, c) == Max({handed[o], c})

\* nextCursor is read after the commit has released the lock.
RespondPush(s) ==
    LET o == push[s].org
    IN  /\ push[s].pc = "read"
        /\ answers' = answers \cup {<<o, d[1], d[2]>> : d \in push[s].done}
        /\ handed' = [handed EXCEPT ![o] = Later(o, LastSeq(o))]
        /\ push' = [push EXCEPT ![s] = IdlePush]
        /\ UNCHANGED <<dbVars, nextSeq, lock, clientVars>>

\* Mutant: a failed handler leaves its transaction open.
KeepLock(s) == lock

\* What a rollback does to the lock.
Release(s) == [o \in Orgs |-> IF lock[o] = s THEN Free ELSE lock[o]]

\* Mutant: the retry keeps the results of the attempt it abandons.
RetryKeepsResults(s) ==
    /\ push[s].pc # "idle"
    /\ push[s].attempt < MaxAttempts
    /\ lock' = Release(s)
    /\ push' = [push EXCEPT ![s] = [IdlePush EXCEPT !.pc = "lock", !.org = push[s].org,
                    !.batch = push[s].batch, !.pending = DOMAIN push[s].batch,
                    !.attempt = push[s].attempt + 1, !.done = push[s].done]]
    /\ UNCHANGED <<dbVars, nextSeq, clientVars, answers, handed>>

\* A transient database error: the transaction is rolled back and the batch run again.
RetryPush(s) ==
    /\ push[s].pc # "idle"
    /\ push[s].attempt < MaxAttempts
    /\ lock' = Release(s)
    /\ push' = [push EXCEPT ![s] = [IdlePush EXCEPT !.pc = "lock", !.org = push[s].org,
                    !.batch = push[s].batch, !.pending = DOMAIN push[s].batch,
                    !.attempt = push[s].attempt + 1]]
    /\ UNCHANGED <<dbVars, nextSeq, clientVars, answers, handed>>

\* Any other error, the last transient one, or a crash: rolled back, no answer.  After the
\* commit this is a lost acknowledgement.
FailPush(s) ==
    /\ push[s].pc # "idle"
    /\ lock' = Release(s)
    /\ push' = [push EXCEPT ![s] = IdlePush]
    /\ UNCHANGED <<dbVars, nextSeq, clientVars, answers, handed>>

-----------------------------------------------------------------------------
(* Pull: pull_since.                                                       *)

\* The principal is authenticated and the log is scanned from the cursor, in sequence order.
PullScan(d) ==
    LET rows == {c \in Range(log[OrgOf[d]]) : c.seq > cursor[d]}
        Ahead(c) == {x \in rows : x.seq < c.seq}
    IN  /\ pull[d].pc = "idle"
        /\ pull' = [pull EXCEPT ![d] = [pc |-> "page", scope |-> scope[d],
                       changes |-> {c \in rows : Cardinality(Ahead(c)) < ScanLimit}]]
        /\ UNCHANGED <<dbVars, nextSeq, lock, push, scope, cursor, got, answers, handed>>

\* The changes up to c that the device may see; a record carries the entity as it is now, not
\* as it was when the change was logged.
Shown(d, c) == {x \in pull[d].changes : x.seq <= c.seq /\ x.ent \in pull[d].scope}
SizeOf(d, c) == OutSize[entity[OrgOf[d]][c.ent].val]

\* pull_page_accepts, for the page that ends with c.
Fits(d, c) ==
    /\ Cardinality(Shown(d, c)) <= PageRecords
    /\ MapThenSumSet(LAMBDA x : SizeOf(d, x), Shown(d, c)) <= PageBytes
    /\ MapThenSumSet(LAMBDA x : SizeOf(d, x) + Framing, Shown(d, c)) <= ResponseBytes

\* Mutant: a change the device may not see is left unconsumed.
ConsumedVisible(d) ==
    {c \in pull[d].changes : \A x \in pull[d].changes :
        x.seq <= c.seq => x.ent \in pull[d].scope /\ Fits(d, x)}

\* The changes consumed: invisible ones count, the first one that does not fit ends the page.
Consumed(d) ==
    {c \in pull[d].changes : \A x \in pull[d].changes : x.seq <= c.seq => Fits(d, x)}

\* The change that would end the page is larger than a SyncRecord may be: building the record
\* raises and the pull fails as a whole.
Unencodable(d) ==
    \E c \in pull[d].changes :
        /\ c.ent \in pull[d].scope /\ SizeOf(d, c) > PageBytes
        /\ \A x \in pull[d].changes : x.seq < c.seq => x \in Consumed(d)

\* Mutant: the cursor moves to the end of the scan although the page stopped before it.
PullPageToEnd(d) ==
    LET o == OrgOf[d]
        next == Max({cursor[d]} \cup {c.seq : c \in pull[d].changes})
        sent == {c.ent : c \in {x \in Consumed(d) : x.ent \in pull[d].scope}}
    IN  /\ pull[d].pc = "page"
        /\ ~Unencodable(d)
        /\ cursor' = [cursor EXCEPT ![d] = next]
        /\ handed' = [handed EXCEPT ![o] = Later(o, next)]
        /\ got' = [got EXCEPT ![d] = [e \in Entities |->
                        IF e \in sent THEN entity[o][e].rev ELSE @[e]]]
        /\ pull' = [pull EXCEPT ![d] = IdlePull]
        /\ UNCHANGED <<dbVars, nextSeq, lock, push, scope, answers>>

\* The page and the new cursor, the highest sequence number consumed, reach the device.
PullPage(d) ==
    LET o == OrgOf[d]
        seqs == {cursor[d]} \cup {c.seq : c \in Consumed(d)}
        sent == {c.ent : c \in {x \in Consumed(d) : x.ent \in pull[d].scope}}
    IN  /\ pull[d].pc = "page"
        /\ ~Unencodable(d)
        /\ \E next \in seqs :
            /\ \A x \in seqs : x <= next
            /\ cursor' = [cursor EXCEPT ![d] = next]
            /\ handed' = [handed EXCEPT ![o] = Later(o, next)]
        /\ got' = [got EXCEPT ![d] = [e \in Entities |->
                        IF e \in sent THEN entity[o][e].rev ELSE @[e]]]
        /\ pull' = [pull EXCEPT ![d] = IdlePull]
        /\ UNCHANGED <<dbVars, nextSeq, lock, push, scope, answers>>

\* The pull fails or its response is lost: the device pulls again from the cursor it has.
PullLost(d) ==
    /\ pull[d].pc = "page"
    /\ pull' = [pull EXCEPT ![d] = IdlePull]
    /\ UNCHANGED <<dbVars, nextSeq, lock, push, scope, cursor, got, answers, handed>>

\* An administrator widens the membership's scope (bootstrap_identity).
GrantScope(d, e) ==
    /\ e \notin scope[d]
    /\ scope' = [scope EXCEPT ![d] = @ \cup {e}]
    /\ UNCHANGED <<dbVars, nextSeq, lock, push, pull, cursor, got, answers, handed>>

-----------------------------------------------------------------------------

Init ==
    /\ entity = [o \in Orgs |-> NoWrites]
    /\ mutation = [o \in Orgs |-> NoMutations]
    /\ log = [o \in Orgs |-> << >>]
    /\ nextSeq = 1
    /\ lock = [o \in Orgs |-> Free]
    /\ push = [s \in Sessions |-> IdlePush]
    /\ pull = [d \in Devices |-> IdlePull]
    /\ scope = InitScope
    /\ cursor = [d \in Devices |-> 0]
    /\ got = [d \in Devices |-> [e \in Entities |-> None]]
    /\ answers = {}
    /\ handed = [o \in Orgs |-> 0]

PushStep(s) ==
    \/ \E o \in Orgs, b \in Batches : BeginPush(s, o, b)
    \/ LockOrg(s)
    \/ \E i \in push[s].pending :
        MissingId(s, i) \/ PriorMutation(s, i) \/ RejectRecord(s, i) \/ AcceptRecord(s, i)
    \/ CommitPush(s)
    \/ RespondPush(s)
    \/ RetryPush(s)
    \/ FailPush(s)

PullStep(d) ==
    \/ PullScan(d)
    \/ PullPage(d)
    \/ PullLost(d)
    \/ \E e \in Entities : GrantScope(d, e)

Next == (\E s \in Sessions : PushStep(s)) \/ (\E d \in Devices : PullStep(d))

Spec == Init /\ [][Next]_vars

\* A device keeps pulling, and not every response is lost.
Fairness == \A d \in Devices : WF_vars(PullScan(d)) /\ SF_vars(PullPage(d))
FairSpec == Spec /\ Fairness

-----------------------------------------------------------------------------
(* Properties.                                                             *)

PushStates ==
    [pc : {"idle", "lock", "apply", "read"}, org : Orgs \cup {None}, batch : Seq(Records),
     pending : SUBSET Nat, attempt : 0..MaxAttempts, done : SUBSET Outcomes,
     ent : [Entities -> EntityStates], mut : [MutationIds -> MutationRows \cup {NoRow}],
     rows : Seq(LogRows)]
PullStates == [pc : {"idle", "page"}, scope : SUBSET Entities, changes : SUBSET LogRows]

\* Every variable has its type.
TypeOK ==
    /\ entity \in [Orgs -> [Entities -> EntityStates]]
    /\ mutation \in [Orgs -> [MutationIds -> MutationRows \cup {NoRow}]]
    /\ log \in [Orgs -> Seq(LogRows)]
    /\ nextSeq \in 1..(MaxSeq + 1)
    /\ lock \in [Orgs -> Sessions \cup {Free}]
    /\ push \in [Sessions -> PushStates]
    /\ pull \in [Devices -> PullStates]
    /\ scope \in [Devices -> SUBSET Entities]
    /\ cursor \in [Devices -> 0..MaxSeq]
    /\ got \in [Devices -> [Entities -> Int]]
    /\ answers \subseteq (Orgs \X Records \X BOOLEAN)
    /\ handed \in [Orgs -> 0..MaxSeq]

\* A cursor handed out by a push or a pull is a stable cut: no change that becomes visible
\* later has a sequence number at or below it.  The autoincrement counter is not
\* transactional; only the organization lock taken before the first insert makes commit
\* order and sequence order agree.
CursorIsStableCut ==
    [][\A o \in Orgs : \A n \in DOMAIN log'[o] :
          n > Len(log[o]) => log'[o][n].seq > handed[o]]_vars

\* A device whose cursor has passed a change it was always allowed to see holds that entity at
\* the change's revision or a newer one: truncated pages, lost responses and pushes that
\* commit between the scan and the page never make a pull skip a change.
NothingSkipped ==
    \A d \in Devices : \A n \in DOMAIN log[OrgOf[d]] :
        LET c == log[OrgOf[d]][n]
        IN  c.seq <= cursor[d] /\ c.ent \in InitScope[d] => got[d][c.ent] >= c.rev

\* The n-th change of an organization has revision n, although sequence numbers have gaps:
\* no two accepted records share a revision and none is lost, whatever was rolled back.
RevisionIsPosition ==
    \A o \in Orgs : \A n \in DOMAIN log[o] : log[o][n].rev = n

\* Each accepted mutation is in the log exactly once, and nothing else is: retries, duplicate
\* deliveries and replays after a lost acknowledgement apply a mutation once.
AppliedOnce ==
    \A o \in Orgs :
        /\ \A m \in MutationIds :
            mutation[o][m] # NoRow /\ mutation[o][m].status = "accepted" =>
                \E n \in DOMAIN log[o] : log[o][n].mid = m /\ log[o][n].rev = mutation[o][m].rev
        /\ \A n \in DOMAIN log[o] :
            LET m == log[o][n].mid
            IN  mutation[o][m] # NoRow /\ mutation[o][m].status = "accepted"
                /\ mutation[o][m].rev = log[o][n].rev

\* Change k is the last one to entity e among the first n - 1 of a history (0: there is none).
IsLast(h, e, n, k) ==
    /\ k = 0 \/ h[k].ent = e
    /\ \A j \in (k + 1)..(n - 1) : h[j].ent # e

\* No lost update: every change was made on top of the change to the same entity just before
\* it, and the entity row is what the last change made it.
NoLostUpdate ==
    \A o \in Orgs :
        LET h == log[o]
            Fp(n) == mutation[o][h[n].mid].fp
        IN  /\ \A n \in DOMAIN h : \E k \in 0..(n - 1) :
                /\ IsLast(h, h[n].ent, n, k)
                /\ Fp(n).base = IF k = 0 THEN None ELSE h[k].rev
            /\ \A e \in Entities : \E k \in 0..Len(h) :
                /\ IsLast(h, e, Len(h) + 1, k)
                /\ entity[o][e] = IF k = 0 THEN Absent
                                  ELSE [rev |-> h[k].rev, val |-> Fp(k).val]

\* What clients are told is durable and consistent: a record answered "accepted" is in the
\* committed tables, and the same request is never answered both ways, however often it is
\* sent and whichever of its attempts were aborted, replayed or left unanswered.
AnswersDurable ==
    \A a \in answers : a[2].mid # NoId =>
        /\ mutation[a[1]][a[2].mid] # NoRow
        /\ a[3] = AcceptedReplay(mutation[a[1]][a[2].mid], a[2])

\* With the log no longer growing, every device's cursor reaches its end: a page that stops
\* early, and changes the device may not see, never stall it.
PullCatchesUp ==
    \A d \in Devices : <>[](cursor[d] = LastSeq(OrgOf[d]))

-----------------------------------------------------------------------------
(* The inductive invariant behind the safety properties.                   *)

\* Change n of history h was accepted as revision n, on the change before it to its entity.
ChangeOK(h, mu, n) ==
    /\ h[n].rev = n
    /\ mu[h[n].mid] # NoRow
    /\ mu[h[n].mid].status = "accepted"
    /\ mu[h[n].mid].rev = n
    /\ \E k \in 0..(n - 1) :
        /\ IsLast(h, h[n].ent, n, k)
        /\ mu[h[n].mid].fp.base = IF k = 0 THEN None ELSE k

\* Mutation m, if accepted, is the change of the history it says it is.
MutationOK(h, mu, m) ==
    mu[m] # NoRow /\ mu[m].status = "accepted" => mu[m].rev \in DOMAIN h /\ h[mu[m].rev].mid = m

\* Entity e is as its last change left it.
EntityOK(h, en, mu, e) ==
    \E k \in 0..Len(h) :
        /\ IsLast(h, e, Len(h) + 1, k)
        /\ en[e] = IF k = 0 THEN Absent ELSE [rev |-> k, val |-> mu[h[k].mid].fp.val]

\* History h, entity rows en and mutation rows mu describe the same accepted changes.
Consistent(h, en, mu) ==
    /\ \A n \in DOMAIN h : ChangeOK(h, mu, n)
    /\ \A m \in MutationIds : MutationOK(h, mu, m)
    /\ \A e \in Entities : EntityOK(h, en, mu, e)

\* Sequence numbers increase along a history and are below the counter.
Ordered(h) ==
    /\ \A i, j \in DOMAIN h : i < j => h[i].seq < h[j].seq
    /\ \A n \in DOMAIN h : h[n].seq < nextSeq

\* The organization as a push transaction sees it.
WorkLog(s) == log[push[s].org] \o push[s].rows
WorkEnt(s) == [e \in Entities |-> EntityAt(s, e)]
WorkMut(s) == [m \in MutationIds |-> MutationAt(s, m)]

\* Only the holder of the organization lock has uncommitted writes, and it overwrites no
\* mutation row.
HolderInv ==
    /\ \A s \in Sessions :
        /\ push[s].pc # "idle" => push[s].org \in Orgs
        /\ push[s].pending \subseteq DOMAIN push[s].batch
        /\ push[s].pc = "apply" => lock[push[s].org] = s
        /\ push[s].pc # "apply" =>
            push[s].ent = NoWrites /\ push[s].mut = NoMutations /\ push[s].rows = << >>
        /\ push[s].pc = "apply" => \A m \in MutationIds :
            push[s].mut[m] # NoRow => mutation[push[s].org][m] = NoRow
    /\ \A o \in Orgs : lock[o] # Free => push[lock[o]].pc = "apply" /\ push[lock[o]].org = o

HistoryInv ==
    /\ \A o \in Orgs : Consistent(log[o], entity[o], mutation[o]) /\ Ordered(log[o])
    /\ \A s \in Sessions : push[s].pc = "apply" =>
        Consistent(WorkLog(s), WorkEnt(s), WorkMut(s)) /\ Ordered(WorkLog(s))

\* Cursors handed out are below every sequence number still to be committed.
HandedInv ==
    /\ \A o \in Orgs : handed[o] < nextSeq
    /\ \A d \in Devices : cursor[d] <= handed[OrgOf[d]]
    /\ \A s \in Sessions : push[s].pc = "apply" => \A n \in DOMAIN push[s].rows :
        push[s].rows[n].seq > handed[push[s].org]

\* A scan holds every committed change between the cursor and any change it returned.
PullInv ==
    \A d \in Devices :
        /\ InitScope[d] \subseteq scope[d]
        /\ \A e \in Entities : got[d][e] <= entity[OrgOf[d]][e].rev
        /\ pull[d].pc = "page" =>
            /\ InitScope[d] \subseteq pull[d].scope
            /\ pull[d].changes \subseteq Range(log[OrgOf[d]])
            /\ \A c \in pull[d].changes, x \in Range(log[OrgOf[d]]) :
                cursor[d] < x.seq /\ x.seq <= c.seq => x \in pull[d].changes

\* The outcomes a handler has collected agree with the mutation rows it will commit or has
\* committed.
DoneInv ==
    \A s \in Sessions :
        /\ push[s].pc \in {"idle", "lock"} => push[s].done = {}
        /\ push[s].pc \in {"apply", "read"} => \A x \in push[s].done : x[1].mid # NoId =>
            /\ MutationAt(s, x[1].mid) # NoRow
            /\ x[2] = AcceptedReplay(MutationAt(s, x[1].mid), x[1])

\* Everything an induction over the steps of Next needs.
SyncInv ==
    /\ TypeOK /\ HolderInv /\ HistoryInv /\ HandedInv /\ PullInv /\ DoneInv
    /\ NothingSkipped /\ AnswersDurable
=============================================================================
