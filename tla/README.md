# TLA+ models of the Vitrial API

Models, model-checking runs and proofs for the synchronisation service in `src/app` (FastAPI,
SQLAlchemy, PostgreSQL, an object store) and its BEAM port in `src/beam`. Everything here is
translated from the code. Where a comment, a test or a document says something the code does not
do, the four weightiest cases have a run that shows it and a finding in `PROJECT.json`; the others
are listed under "Departures seen and not covered by a run".

## The system

Devices of an organization keep their own copy of customers, projects, items, measurements,
evidence, quotations and deliveries. They **push** batches of records and **pull** the changes of
others from a cursor. Evidence files are **uploaded** to an object store beside the records.

| part | state | operations | interacts with |
|---|---|---|---|
| push (`sync_service.py`, `idempotency.py`, `transient_retry.py`) | `sync_entities`, `sync_mutations` with fingerprints, `sync_change_log` and its sequence, the organization row lock | apply a batch: replay, reject, accept, commit, answer; retry on a transient error | every validator below; pull through the log |
| pull (`sync_service.py`, `pull_prefetch.py`) | the device's cursor | scan, filter by scope, page, advance | push, scope |
| evidence upload (`evidence.py`, `storage.py`) | `evidence_blobs`, objects in the store | check, stream, lock, cancel, verify, commit, discard | collector, push |
| evidence collection (`evidence_gc.py`) | `evidence_object_gc` and its row locks | select due rows, process each under a savepoint, commit | upload, push |
| ownership and scope (`ownership.py`) | canonical customers, projects, sectors, items and children; memberships | authorize a record, apply the ownership plan, grant created scope, decide visibility | push, pull, upload |
| lifecycle (`lifecycle.py`) | blocker histories, quotation states | validate an upsert against the stored payload | push |
| delivery (`delivery_*.py`) | delivery executions: events, handoffs, production, installation | validate and authorize an update | push, quotations |
| identity (`auth.py`, `admin.py`, `pairing.py`) | sessions, memberships, authorization revision, pairing codes | authenticate, bootstrap, revoke, issue and exchange a code | all requests |
| reference data (`reference_data.py`) | publications per organization | seed, publish, list, current | push (assembly pins), admin |
| limits (`rate_limit.py`, `request_size.py`, `drain.py`) | a sliding window of timestamps per client, a flag | allow, evict, drain | all requests |
| BEAM port (`src/beam`) | connection pool; ports of push, pull and the validators | checkout, checkin, drain; batch admission | PostgreSQL |

What makes it hard: handlers interleave at every await; the log's sequence counter is not
transactional; acknowledgements are lost and batches are sent again; transactions are aborted and
rerun; the object store is not transactional at all; collectors overlap with uploads; scope changes
between requests and during them; whole documents are pushed, histories included, and every rule about
what may change is a comparison of two of them. The hazards of each part are listed in `PROJECT.json` at the line where they bite.

## Modules

| module | models |
|---|---|
| `SyncLog` | push and pull of any number of organizations, with the inductive invariant `SyncInv` |
| `SyncLogProofs` | the proofs about `SyncLog` |
| `MCSyncLog` with `Sync`, `SyncPullOversize` (`.cfg`) | its instances for TLC |
| `Evidence` | uploads, the collector, and the pushes that touch evidence metadata |
| `EvidenceProofs` | the proofs about `Evidence`, with the inductive invariant `EvidenceInv` |
| `MCEvidence` with `Evidence`, `EvidenceDiscard` (`.cfg`) | its instances for TLC |
| `Pool` | the BEAM connection pool, its callers and its connections |
| `PoolTables`, `PoolProofs` | the proofs about `Pool`, with the inductive invariant `PoolInv` |
| `MCPool` with `Pool`, `PoolLive`, `PoolSockets` (`.cfg`) | its instances for TLC |
| `Ownership` | canonical ownership, deletion rules, created scope and visibility in one organization |
| `OwnershipProofs` | the proofs about `Ownership` |
| `MCOwnership` with `Ownership` (`.cfg`) | its instance for TLC |
| `QuotationHandoff` | what quotations promise to deliveries: implemented by `Lifecycle`, relied on by `Delivery` |
| `Lifecycle` | quotations and blockers, push by push |
| `LifecycleProofs` | the proofs about `Lifecycle`, the refinement included |
| `MCLifecycle` with `Lifecycle` (`.cfg`) | its instance for TLC |
| `Delivery` | delivery executions with their plans, over `QuotationHandoff` |
| `DeliveryProofs` | the proofs about `Delivery` |
| `MCDelivery` with `Delivery` (`.cfg`) | its instance for TLC |
| `Authority` | memberships, sessions, pairing codes, the authorization revision and the seed of the reference data |
| `AuthorityProofs` | the proofs about `Authority` |
| `MCAuthority` with `Authority`, `AuthorityRevision` (`.cfg`) | its instances for TLC |

Operators called mutants in a comment are plausible bugs of the definition below them; they are not
part of the specification and exist to show that each property can fail.

### SyncLog

A push handler (`push[s]`) goes through the stages of `_apply_push_once`: it is given a batch
(`BeginPush`, the schema's size limit), takes the organization row (`LockOrg`), turns to the records
in the order of `mutation_sort_key`, and settles each by exactly one of `MissingId`, `PriorMutation`
(replay, collision, reuse), `RejectRecord` (stale base revision, or a validator's refusal) and
`AcceptRecord` (the next revision, the entity row, the mutation row, the change row). `CommitPush`
publishes the transaction's writes and releases the lock; `RespondPush` reads `nextCursor` afterwards,
outside the lock, as the code does. `RetryPush` and `FailPush` can happen at any stage, also between
commit and answer. Uncommitted writes live in `push[s]` and are overlaid on the committed tables by
`EntityAt` and `MutationAt`, which is what autoflush gives the code's queries.

A pull is two steps: `PullScan` authenticates and reads the log, `PullPage` loads the entities as they
are *then* and builds the page. Pushes commit in between. `PullLost` is a failed pull or a lost
response, after which the device pulls again from the cursor it has.

Abstractions. A payload is a value with two sizes, as sent and as encoded again for a pull; a page ends at
the number of records, at the bytes of their payloads, or at the bytes of the response, in which each record
has a `Framing` of its own. What the
validators decide is free (any fresh record may be refused), so the properties hold for all of them.
A deletion is the value `Tombstone`. Rows written before fingerprints existed are not modelled, and
neither are requests refused before any state is touched.

### Evidence

An upload (`up[u]`) makes its first checks and gives up that transaction (`BeginUpload`), streams
(`PutObject`, no lock held), takes the organization row and reads the canonical state again
(`LockForUpload`), deletes queue rows of its key (`CancelGc`, which waits for their row locks), looks at
the store and at its access again (`VerifyObject`), and commits. Every refusal under the lock rolls back,
which releases the lock, and then deletes the candidate in a step of its own (`DiscardCandidate`).

A collector run (`col[g]`) locks the due rows nobody else has locked (`Collect`), processes them in the
order of their ids under the organization row (`ProcessRow`: the object is deleted at once, rows and
pointers with the commit), and commits once (`CommitCollect`). `StoreRefuses` is a failed deletion: the
savepoint's rollback gives up an organization lock taken inside it, and the row is rescheduled. What
`db.get` answers from the session's identity map is `CachedBlob` and `CachedMeta`.

Three history variables name the ways in which a pointer and its object can come apart: `discarded`, the
object was removed by an upload that failed; `torn`, a run of the collector had deleted it and died;
`misjudged`, a run judged the document by an answer of its session that was no longer true (`IsStale`).
The properties make these exceptions and no others.

PostgreSQL's part is marked external in the map: row locks, their release, lock waits, and a deadlock
detector that aborts some transaction of a cycle. `mode`, chosen in `Init` from the constant `Modes`, says
which failures a behaviour may have and how long it may be, so that a property can be stated with exactly
the faults it survives. `InOrder` is a bound: handlers, items and contents are names, and the first of
each are used first.

Abstractions. One storage provider; time is the flag `due` of a row; the number of attempts only sets
the backoff and is left out; references from measurements and requirements are one set.
A dry run of the collector changes nothing and is left out. The verdict that keeps a row because its
document is referenced again cannot arise from `Init`; `ReferencedIsKept` shows why.

### Pool

The pool is a process that handles one message at a time. `HandleCheckout`, `HandleCheckin`,
`HandleDiscard`, `HandleAbandoned`, `Drain`, `DrainDeadline`, `ConnectionDied`, `OwnerDeparted` and
`WaiterDeparted` are its handlers. `serve_waiters/1`, which ends several of them, opens connections and so
takes time: while `serving` holds its rounds (`Serve...`) are the pool's only steps, but callers and
connections go on. A caller (`caller[p]`) is a process inside `with_conn/3`; `mail[p]` holds its messages
in the order sent, and the notice of its death comes after all of them, as the BEAM guarantees. A
connection is a process in `alive`; `Close` leaves it there, because a process that traps exits and has no
clause for the exit message does not end (this is the finding of `pool_sockets`).

Two history variables keep what the code cannot see: `unheard`, the connections granted to a caller that
had given up waiting, and `stalled`, that the queue was last left because a connect failed. Their
exceptions in `CheckedOutIsUsed` and `ServedWhenPossible` are the ones the code's comments make.

`Conns` are names, reused when nobody remembers them; `Slots` is the server's limit on connections.
Left out: the wire protocol, the pool's own termination, the health report, and exit signals from
processes linked to the pool.

### Ownership

`canon` has the canonical rows of all types (owner, project, active or not), `entity` what
`sync_entities` adds to that: whether the record is active and which evidence it lists. One action per
type stands for `authorize_record` followed by `apply_ownership_plan` and the entity row: its first
disjunct creates, its second changes, deletes or restores. `StoreAndGrant` is the creation of a customer
or project, with the scope the creator is granted, and with the rejection after the row was added.
`BeginPush` takes the scope when the principal authenticates; `SetAuthority` is the administrator.

`RecordIsVisible` and `DeliveryIsVisible` read the rows one by one, `PageContext` and `ResolveVisible`
are the prefetching version a pull uses.

Abstractions. Refusals that depend on capabilities, provenance or the contents of a payload are free
(such a record is no step). Pushes of an organization are serialized by its lock, so there is one at a
time, and a push that is rolled back leaves a state the model has already. The order of records in a
batch is not imposed. The evidence of an installation record is in `Delivery`.

### Lifecycle and QuotationHandoff

A push carries a whole document. `PushQuotation` proposes any document with a history from
`QuotationHistories`, and `QuotationValid` is what `validate_quotation_lifecycle` and the quotation branch
of `authorize_record` make of it: the stored history is a prefix (`Extends`), its events can follow each
other (`ValidOrder`: the set of states the code carries along is always the closure of one, so
`StateAfter` is a single state), the status is one the history leads to without further events
(`Closure`), what is appended is by the pusher, revision and predecessor stay, and so does the content in a
locked status (`Keeps`). `Replaces` is the rule for a new document. `DeleteQuotation` drops the payload
whatever the status. `PushBlocker` and `DeleteBlocker` do the same for blockers; `BlockerState` folds
the history as the loop of `validate_blocker_lifecycle` does.

`sentAs` and `erased` are history: what a quotation said when the latest sent event was stored, and which
quotations have been deleted. `QuotationHandoff` is the abstract specification: terms appear, stand, and
disappear by deletion. The refinement mapping `Standing` shows an approved quotation as its content and
everything else as nothing.

Abstractions. Customer, lines and prices are one `content`. The scope, the numbers and the form of a
quotation may refuse any push and are left out. Pushes are serialized by the organization lock.

### Delivery

A delivery is one document whose history ends in its status. `PushDelivery` proposes a history (the stored
one, one more event, or a creation history) and any plans, and then goes through the validators in the
code's order: the chain of `DELIVERY_TRANSITIONS`, the approved quotation with its terms, the materials,
procurement, production and installation handoffs, the comparison with the stored document
(`Updates`), and the evidence that is newly referred to (`EvidenceAuthority`). The first three handoffs
have one shape (`Authored`): a plan is revised in its own status, saved before the next and frozen from
then on.
The quotation's side is `QuotationHandoff`, extended here, so that a delivery sees exactly the quotations
`Lifecycle` is proved to provide; `EvidenceStep` stores and deletes evidence at any moment.

`ahead` and `withdrawn` are history: the deliveries that were created with more than their first
event, and the quotations that were deleted.

Abstractions. A plan is its revision, the revision it rests on, and what the next stage asks of it
(which materials, available or not, done or not, an installer assigned, evidence). Capabilities, scope,
provenance and timestamps may refuse any push. A delivery cannot be deleted, as in the code.

### Authority

Each request is a transaction in READ COMMITTED, with a step for each point at which another one can come
between: `bootstrap_identity` reads the organization and the membership without a lock, writes the
membership, then the revision, then seeds the reference data, which commits everything or loses a race and
rolls everything back; a push locks the organization (`LockOrganization`), reads the creator's membership
again (`ReadCreator`) and writes it; a read or a publish seeds first and then acts; a code is issued, expires,
is selected `FOR UPDATE` and exchanged. Sessions are revoked or logged out. `Abort` ends any request at any step.

A bootstrap assigns every column of the membership, whether the authority changed or not, and the database is
sent those that differ from what was read. `authority_changed` compares sorted lists (`Changed`), but a grant
appends to the stored one: a bootstrap that asks for what it has read still writes the list when that was
not in order (`Writes`), and does so without a new revision (`Flush`, `Written`).

The seed reads a publication three times before it inserts it: `SeedCheck` finds it missing, `SeedLookup` takes
one that has been stored since for its own, `SeedOwner` raises `PublicationConflict` for it, and `SeedInsert`
meets the primary key. Only the last is tried again.

Rows that a transaction inserts and commits at once are one step. A bootstrap that also renames the
organization locks its row earlier, which only removes interleavings. `answered`, `failed`, `changes` and
`overlapped` are history: what clients were told, the errors nobody handles, the number of committed
changes of an authority, and whether a bootstrap stored a membership after the revision it read had moved.

Abstractions. An authority is active or not, with a list of customers, of which the model keeps the members
and whether they are in order; it stands for the lists of projects, roles and capabilities as well. The
expiry of a session is its revocation. Users and e-mail addresses may refuse a bootstrap. All
publications of users are one.

## Runs

| run | checks | shows |
|---|---|---|
| `sync` | `SyncInv`, `RevisionIsPosition`, `AppliedOnce`, `NoLostUpdate`, `AnswersDurable`, `CursorIsStableCut`, `NothingSkipped`, `PullCatchesUp` | pushes that race, collide, are retried, fail and lose their acknowledgement; paging with limits and invisible changes while pushes commit |
| `pull_oversize` | `PullCatchesUp` is violated | a record larger when encoded for a pull than on the wire stalls the device |
| `evidence` | `SupersededIsQueued`, `CollectorSparesPublished`, `ReferencedIsKept`, `SupersededIsReclaimed` | uploads, refusals, aborts, ambiguous commits, collector, deletions and restores; collection goes on with failing deletions, crashes and deadlocks |
| `evidence_discard` | `PointerNamesObject` is violated | a refused upload deletes the object another upload has verified |
| `pool` | `TypeOK`, `WithinCapacity`, `Exclusive`, `Tracked`, `ServedWhenPossible`, `CheckedOutIsUsed` | the pool's tables under every fault at once; nobody waits for a connection that could be had, and `with_conn` returns its connection on every path |
| `pool_live` | `DrainEnds`, `CheckoutAnswered` | a drain ends, and callers in the queue are served |
| `pool_sockets` | `SocketBound` is violated | closed connections keep their process and socket |
| `ownership` | `RecordsAreOwned`, `OwnersExist`, `ActiveUnderActive`, `ReferencesHold`, `PrefetchAgrees`, `WritesAreVisible` | records of every type created, deleted and restored in every order while authority is taken away and given back |
| `lifecycle` | `ApprovedAsSent`, `ApprovalsAreAuthentic`, `RevisionsAreContiguous`, `BlockerIsOnRecord`, `ApprovedTermsStand` | what was approved is what was sent, by whom histories are written, and the refinement of `QuotationHandoff`, with deletions and new creations in between |
| `delivery` | `DeliversWhatWasApproved`, `HistoryAccountsForPlans`, `NeverStuck`, `EachPushDoesOneThing` | every way through the eight statuses: no push changes two things, no revision is unrecorded, the validators together never shut the door |
| `authority` | `CodeMintsOnce`, `AnswersAreTrue`, `RevisionCountsChanges`, `SeedGivesWay`, `InactiveGainsNothing` | bootstraps, pushes, seeds, publications, codes and revocations as overlapping transactions |
| `authority_revision` | `EveryChangeIncrements` is violated | a push grants a customer between the reads and the write of a bootstrap, which takes the grant back without a new revision |

### Departures seen and not covered by a run

Modelling met these too; no run states them, so that each run asks one question.

* A grant of scope does not deliver what the cursor has already passed: a device sees such a record
  only when it changes again.
* The collector deletes objects before its one commit; a run that dies in between leaves pointers without
  their objects (`torn`). The queue rows are still there, so nothing is leaked.
* `evidence_gc.py:141` says of a failing store that "the locks, and the work of every row already processed,
  all survive". The rollback to the savepoint gives up the organization lock that was taken inside it, while the
  blob and the metadata stay loaded in the session. Two deletions of a document, with a restore in between,
  queue its pointer twice. If the store refuses the first of the two rows, the document is restored and an
  upload switches the pointer, then the second row is judged by the old blob and the old metadata: the run
  deletes the new pointer, whose object is in no queue. TLC finds this if `misjudged` is removed from
  `SupersededIsQueued`.
* An upload holds the organization and waits for a queue row, a collector holds queue rows and waits for
  the organization. PostgreSQL resolves it by aborting one; `SupersededIsReclaimed` shows that this is harmless.
* `pool.ex:459` says "Null pool has no bounds and no queue", but `open_and_grant/2`, which it calls, has
  both. A connection granted to a caller that timed out stays checked out until that caller ends (hence `unheard` in `CheckedOutIsUsed`);
  `take_connection/1` parks expired connections again when the connect after them fails.
* `apply_ownership_plan` adds the canonical row before `_grant_created_scope` can refuse: after such a
  rejection the name exists without a record, and a member of limited scope can never use it.
* A deleted project is restored without a look at its customer (hence the exception in
  `ActiveUnderActive`), and an approved quotation can be deleted under a live delivery, which can then
  not be updated; nor can it if the quotation is approved again with other terms.
* `docs/REAL-WORLD-QUOTE-DOMAIN-MAPPING.md:25` calls an approved quotation "an immutable commercial
  handoff", and line 86 says that a field change "should never rewrite an approved quotation in place". A
  deletion followed by a new creation does both, since the tombstone keeps no payload to compare with
  (hence `Withdraw` in `QuotationHandoff`). A rejected quotation's content changes by way of draft.
* A delivery can be created in any status, with a history of several events (hence `ahead`). Evidence that
  only a completion or a closeout refers to can be deleted.
* `reference_data.py:467` says that the baselines are seeded "tolerating a concurrent seed". A seed that finds a
  publication missing, and finds its version taken when it looks again, raises `PublicationConflict`, which
  the loop does not catch: the request fails, a bootstrap with it. What it asks for is stored by then, so
  the next request is served (`SeedGivesWay`). A bootstrap that loses the other race, for the insert, is
  answered with an error too, and nothing of it is stored.
* A bootstrap writes the membership and then the organization, a push locks the organization and then
  writes the membership. PostgreSQL resolves the deadlock by aborting one (`Abort`).

### Bounds

`sync`: two organizations, which share only the sequence counter. `mcSpec` lets a behaviour be about one
of them at a time, and turn to the other while the first has committed nothing. In the first, two handlers
push three batches to two entities of different rank, with two mutation ids, two attempts and three
sequence numbers: a create, a deletion that reuses its id, and a batch that creates the same entity, arrives
child first and contains a record without an id. That is enough for every pair of outcomes to meet: two
accepted changes to one entity, a rejected and a replayed record, and a rollback that leaves a gap. The
handlers are interchangeable, and the first one begins. In the second, one handler pushes three other batches
and a device pulls that sees two of three entities, with a scan limit of two changes, a page limit of
two records and three bytes of payload, and four bytes of response with one of framing for each record, so that
pages end inside a scan, between visible changes, and changes out of scope lie between them. `pull_oversize` is
the second alone, with a device that sees all entities and a payload that grows when it is encoded.

`evidence`: one document, two contents, two items, two uploads at a time, one collector. Races need two
uploads of one content, and a third to supersede it. Four modes: all failures of uploads with three
uploads and one deletion that queues an object, the same with two of each, the failures of the
collector and of commits with three uploads and one deletion, and a failing store with two uploads and two
deletions, where the session's view can be out of date. 275,300 states. The proofs remove these bounds.

`pool`: two callers and two connections for one persistent and one overflow place, so that a caller can
hold a dead or expired connection while the other is granted the next one; two messages of a caller under way, so
that a check-in can be overtaken by a timeout and a new checkout. `pool_live` has no crashes of callers,
because each leaks a connection of the server.

`ownership`: one record of each type (measurements and blockers follow the rules of requirements, versions
those of configurations and audit events), two projects (so that every check of a foreign owner can
fail), and a membership that the administrator can deactivate or reset to an empty scope at any
moment. The two projects are interchangeable. Pages are a child without its item, a sector with
a delivery, and all records together.

`lifecycle`: two interchangeable quotations of one project (a replacement and its predecessor), one
blocker, two users of whom one creates and sends and the other only approves, two contents, two revisions,
histories of up to four events, among them one in which a supersession follows the approval in the same push. `delivery`: one quotation with two possible terms, one delivery, two
materials, one evidence document, two revisions of each plan, creation with the first event or in
production. `authority`: three interchangeable handlers and three
requests, one member, who may hold two customers out of order when they are asked for in order, a third
customer for a push to grant, two baselines and two contents of the users' publication; a
behaviour has bootstraps with pushes and revocations, with reads and publishing, or with pairing
(`Loads`), which are the operations that share rows. The proofs remove the bounds of all of these but that
of `NeverStuck` and the liveness properties.

Deadlock is not checked: all systems here may come to rest when the bounds are used up.

### Fairness

`PullCatchesUp` assumes that a device keeps pulling (`WF` of `PullScan`) and that not every response is
lost (`SF` of `PullPage`); nothing is assumed about pushes. `mcSpec` assumes it of the behaviours in which a
device pulls at all. `SupersededIsReclaimed` assumes that handlers
run on, that the database resolves deadlocks, that time passes (`WF`), that the timer unit starts the
collector again and again (`WF` of `Collect`), and that the store does not refuse for ever
(`SF` of `ProcessRow`). `Pool` assumes that the pool handles its messages, timers and rounds, and that
callers finish what they do with a connection (`WF` of each): a process of the BEAM is scheduled, and the
queries of a caller have a timeout. Nothing is assumed about callers that ask, or about failures.
`Lifecycle`, `Delivery` and `Authority` have no fairness: their properties are safety properties. That a
delivery can go on is stated by what is enabled (`NeverStuck`), since nobody is obliged to push.

## Proofs

`SyncLogProofs` proves, for every value of the constants (any number of
organizations, handlers, devices, entities and batches; `SyncConstants` only types them), that `SyncInv`
is an invariant of `Spec`, and from it `TypeOK`, `AppliedOnce`, `NoLostUpdate`, `RevisionIsPosition`,
`AnswersDurable`, `NothingSkipped` and the action property `CursorIsStableCut`.

None of those is inductive alone. The argument:

* `HolderInv`: only the holder of an organization's lock has uncommitted writes, and it never
  overwrites a mutation row. So a transaction's view can change only by its own steps.
* `HistoryInv`: the committed log, entity rows and mutation rows of an organization describe the same
  changes, the n-th with revision n, each on top of the last one to its entity; and so do the log, rows
  and mutations *as the lock holder sees them*. The second half is what makes the commit preserve the
  first. `HighestRevision` shows that then `MAX(revision)` is the length of the log, which is why
  `_next_revision` numbers without gaps.
* `HandedInv`: cursors handed out are below the counter and below every uncommitted sequence number of
  the organization. This is where the lock before the first insert matters.
* `PullInv`: a scan holds every committed change between the cursor and any change it returned.
* `DoneInv`: the outcomes a handler has collected agree with the mutation rows it will commit.

The module has first a few lemmas about sequences and numbers, then the lemmas about the tables (what an
acceptance, a rejection and a commit do to the view of the holder), then the ones about answers and pulls and the theorems. Proved step by
step over the actions of `Next`; the temporal theorems combine `InitInv` and `StepInv` by `PTL`.

`OwnershipProofs` proves all six properties of the run and `TypeOK` for every set of records of any types, every
set of authorities and every set of pages (`OwnershipConstants` types them and keeps `NoRow` apart from
the rows). The inductive invariant `OwnInv` is the conjunction of the five state properties: a deletion is
safe only because owners have the right type, an evidence reference only because the tree is intact. The
argument has one waist: `LawfulWrite` says in terms of the tables alone what the checks of
`authorize_record` establish (the owner is kept, or is active and of the right type; a deleted record is
not used; listed evidence is active and of the same item). `WriteKeepsTree` shows that every lawful write
keeps the invariant, one lemma per record type (`...Lawful`) that its action is one, and `SafeIsUnused` that the
four deletion rules cover every kind of dependent. `SameAnswer` compares the two visibility checks row by
row: `PrefetchIsExact` needs the tree, since the prefetch finds an item's project only if it is one.
`WritersCanRead` has one lemma per type (`...Visible`).

`LifecycleProofs` proves, for every set of quotations, users, capabilities, contents and histories
(`LifecycleConstants` types them and keeps `NoDoc` apart), `TypeOK`, `ApprovedAsSent`,
`ApprovalsAreAuthentic`, `RevisionsAreContiguous`, `BlockerIsOnRecord` and the refinement
`ApprovedTermsStand`. `ApprovedAsSent` is
not inductive: a quotation is approved from *sent*, and possibly by a push that adds both events at
once. `SentAsSent` strengthens it to quotations that are sent. The refinement
needs only the invariant's types and `Keeps`: an approved status has no successor, so a push to an
approved quotation keeps its content, and every other push leaves `Standing` alone or approves.
`BlockerIsOnRecord` is about histories of any length: the replay of `validate_blocker_lifecycle` is a
recursive function, and that it is defined and ends *resolved* exactly when the last resolution was not
undone is shown by induction on the number of events. The induction theorems of the library take an operator,
which the provers cannot instantiate; `SetInduction` states the same principle for a set of numbers,
from the least-element principle of `WellFoundedInduction`.

`DeliveryProofs` proves `TypeOK`, `DeliversWhatWasApproved`, `HistoryAccountsForPlans` and
`EachPushDoesOneThing` for every set of constants that `DeliveryConstants` and `HandoffConstants` allow, with
histories of any length and any bound on revisions. The invariant adds that stored documents are sound (each
plan present, absent or complete as its status demands) and that revisions and events agree
plan by plan, where the schedule and the completion share a count. The argument goes through the validators
once, to show that a push of each kind changes one plan, and then counts.

`AuthorityProofs` proves all five properties of the `authority`
run for every set of members, handlers, baselines and authorities and any number of requests
(`AuthorityConstants` types them and keeps `NoRow` apart from the rows). The properties are about rows
and the argument is about requests in flight, so the invariant `Inv` says of each request how far the
rows can have moved since it read them:

* `NamesOK`: the name of a session or code belongs to one request, which has used it at most once.
* `CodesOK`: a request about to mint holds the lock of a code that is not spent.
* `SeedOK`: the publication a seed found missing is stored only when all of them are, so a request that meets it
  finds nothing to insert at its second attempt, or leaves nothing undone when it gives up. This holds because a seed
  inserts all that is missing in one commit.
* `RevisionOK` with `Knows`: a request that has read an authority which is no longer the stored one has
  also read a revision below the count of changes. That is why an absolute write can lose a bump but
  never invent one, and why a list written for its order changes no authority as long as the revision
  that was read still stands. Whoever writes the revision, or makes a member inactive, holds the organization's row;
  a list can be rewritten without it.

`Writers` is the waist here: of all the steps only four kinds write memberships, sessions or codes.
`IdentityStored` and `GrantedRow` say what the commits of a bootstrap and of a push do to the authority, `KnowledgeLasts` that what a
request knows survives the steps of the others.

`EvidenceProofs` proves `CollectorSparesPublished`, `SupersededIsQueued` and `ReferencedIsKept` for
every set of organizations, documents, contents, uploads and collectors, every mode and any length of the
queue (`EvidenceConstants` types the constants and keeps names apart). All three are about committed
tables and objects; the invariant `EvidenceInv` says what the requests in flight may rely on:

* `TableInv`: the ids of queue rows are unique and grow, and only live evidence is referenced.
* `UploadInv`: from `LockForUpload` on an upload holds its organization; it has cancelled exactly the
  rows of its key; and what it is about to publish is in the store, or was discarded by another upload. This
  is where the cancellation before the look at the store matters.
* `CollectorInv`: the rows a run has locked stay in the queue and are nobody else's. While it has
  uncommitted deletions of a pointer it holds the organization, the document is deleted and not referenced,
  and the object is gone, unless a run misjudged the document.
* `PointerRows`, `QueuedInv` and `ObjectInv`: only a deletion queues the version a pointer names; a
  published version that is no longer the pointer has a row that no run is about to remove; and a pointer
  has its object, or falls under a history variable, or a run is about to delete it.

The lemmas that carry it say what a step must leave alone for the others to keep their part:
`UploadStays` and `CollectorStays` for one upload and one run, `RunMoves`, `QueueMoves` and `PushMoves` for
the three kinds of steps that touch the tables, `PublishOthers` and `PublishKeys` for the commit of an
upload, the only step that moves a pointer, a queue row and a version at once.

`PoolTables` and `PoolProofs` prove the six invariants of the run `pool` for every set of callers and
connections, every limit, any number of server slots and queues and mailboxes of any length. `Exclusive` and
`CheckedOutIsUsed` relate the pool's tables to what callers and messages hold, so `PoolInv` has

* `Round`: the pool is serving only while somebody waits, and connections are set aside (`taken`) only then;
* `TableInv`: idle, checked-out and monitored connections agree (`Tracked`); what a round has closed is in no
  table, so that `:none` may put it back; and the limit holds with these counted in (`Room`). Without
  `Room` a round that puts connections back could exceed the limit;
* `ServedWhenPossible`, which is inductive with `Round`;
* `HoldInv`: a caller has a connection exactly in the states of `run/6` that use one; a connection in a
  caller's hand or in a message it sent is in no queue, checked out to nobody else and returned once; and
  what is checked out and heard of is held, or its owner's end is still to be noticed.

`HoldInv` speaks of all callers and all connections; `HoldFrame` and `HoldOne` reduce a step to the one caller
and the one connection it moves (`Keeps`, `Accounted`). What `Without` leaves of a queue is a recursive
function of its length; `WithoutFacts` proves by the same `SetInduction` that it drops one name and keeps
the others, each once.

Only model-checked: the liveness properties (`PullCatchesUp`, `SupersededIsReclaimed`, `DrainEnds`,
`CheckoutAnswered`), which need fairness, and `NeverStuck`, which needs `ENABLED`. The four properties
that are violated are refuted by their runs.

## Not modelled

* Rate limiting, request size, drain. The limiter is a sliding window of timestamps per client, in one
  process and under one lock; the size of a request is counted as it is read; drain is one flag. None of them
  changes the state of another component, and all of them refuse before any state is touched.
* The assembly contract and topology: validation of one JSON document, without state.
* The BEAM ports of the push and pull services and of the validators. They are a second implementation
  of what `SyncLog`, `Ownership`, `Lifecycle` and `Delivery` translate from Python, and no result here is about
  them. `batch.ex:21` names a difference: `validate_assembly_contract_mutation` is not ported. The BEAM
  connection pool, which has no counterpart in Python, is `Pool`.
* The conversions of the V2 wire format, except for the sizes that differ (`pull_oversize`); which
  publication is current at a given time, and what publications say; rows from before fingerprints.
* Observability, readiness, settings, HTTP routing, migrations and deployment scripts: no state that
  the properties depend on.
