----------------------------- MODULE Authority -----------------------------
(* Who may do what in one organization: memberships with their authority,   *)
(* sessions, pairing codes, the authorization revision, and the baseline    *)
(* publications that are seeded with the identity or by the first read.     *)
(* Each request is a transaction in READ COMMITTED: what it has read may be *)
(* out of date when it writes, and only rows it has locked or written wait  *)
(* for it.  Rows that a transaction inserts and commits at once are one     *)
(* step: a duplicate inserter is held until that commit.  Malformed input,  *)
(* conflicting identities and disconnecting clients end a request with a    *)
(* rollback, which is Abort.                                                *)
EXTENDS Naturals

CONSTANTS
    Handlers,      \* requests served at the same time
    Members,
    Customers,     \* their ids, which have an order
    Wanted,        \* the authorities administrators ask for
    Held,          \* the authorities a member of an older organization may have
    Contents,      \* of the one publication the users publish
    Baselines,     \* BASELINE_PUBLICATIONS, by their places in the tuple
    MaxRequests,   \* bound on the requests
    Loads,         \* bound: the kinds of requests that are made in one behaviour
    Free, NoRow

Ids == 0..MaxRequests    \* sessions and codes are named for the request that makes them

\* The authority of a membership: whether it is active, and the list of its customers, which
\* stands for the lists of projects, roles and capabilities as well.  No customer is in the list
\* twice; all that is ever asked of its order is whether the list is sorted.
Authorities == [active : BOOLEAN, scope : SUBSET Customers, sorted : BOOLEAN]
Sessions == [member : Members, revoked : BOOLEAN, code : Ids \cup {NoRow}]
Codes == [member : Members, consumed : BOOLEAN, expired : BOOLEAN]

ASSUME AuthorityConstants ==
    /\ MaxRequests \in Nat /\ Baselines \subseteq Nat /\ Free \notin Handlers
    /\ Customers \subseteq Nat /\ Held \subseteq Authorities
    /\ Wanted \subseteq {a \in Authorities : a.sorted}
    /\ NoRow \notin Nat \cup Contents \cup Authorities \cup Sessions \cup Codes
    /\ NoRow \notin BOOLEAN \X SUBSET Customers

VARIABLES
    org,        \* authorization_revision of the organization's row, or NoRow
    member,     \* the memberships
    session,    \* auth_sessions
    code,       \* pairing_grants
    baseline,   \* the baseline publications that are stored
    published,  \* the content of the users' publication
    orgLock,    \* the request that has locked or written the organization's row
    memberLock, \* the request that has written each membership
    codeLock,   \* the request that has locked the row of each code
    req,        \* what each handler is doing
    begun,      \* number of requests so far
    load,       \* the kinds of requests that are made
    answered,   \* history: tokens and publications that clients have been given
    failed,     \* history: where requests have ended with an error nobody expects
    changes,    \* history: committed changes of an authority
    overlapped  \* history: a bootstrap has stored a membership after the revision it read had moved

rows == <<org, member, session, code, baseline, published>>
history == <<answered, failed, changes, overlapped>>
input == <<begun, load>>
locks == <<orgLock, memberLock, codeLock>>
vars == <<rows, locks, req, input, history>>

IdleRequest ==
    [pc |-> "idle", op |-> "none", n |-> 0, member |-> NoRow, want |-> NoRow, rev |-> 0, seen |-> NoRow,
     first |-> 0, attempt |-> 1, lost |-> FALSE, stored |-> FALSE, content |-> NoRow,
     code |-> 0, late |-> FALSE, customer |-> NoRow]

-----------------------------------------------------------------------------
Begin(h, r) ==
    /\ req[h] = IdleRequest /\ r.op \in load /\ begun < MaxRequests /\ begun' = begun + 1
    /\ req' = [req EXCEPT ![h] = r] /\ UNCHANGED load

Goto(h, pc) == req' = [req EXCEPT ![h].pc = pc]

\* COMMIT and ROLLBACK: what the request has locked is free.
Release(h) ==
    /\ orgLock' = IF orgLock = h THEN Free ELSE orgLock
    /\ memberLock' = [m \in Members |-> IF memberLock[m] = h THEN Free ELSE memberLock[m]]
    /\ codeLock' = [c \in Ids |-> IF codeLock[c] = h THEN Free ELSE codeLock[c]]

End(h) == Release(h) /\ req' = [req EXCEPT ![h] = IdleRequest]

\* An error that no handler expects: an IntegrityError, or a conflict with a seed.
Fail(h, where) ==
    /\ End(h) /\ failed' = failed \cup {where}
    /\ UNCHANGED <<rows, input, answered, changes, overlapped>>

\* A refusal, a disconnecting client or a crash.
Abort(h) == req[h] # IdleRequest /\ End(h) /\ UNCHANGED <<rows, input, history>>

\* current_principal
Usable(s) ==
    /\ session[s] # NoRow
    /\ ~session[s].revoked /\ member[session[s].member] # NoRow /\ member[session[s].member].active

-----------------------------------------------------------------------------
(* bootstrap_identity                                                       *)

BeginBootstrap(h, m, want) ==
    /\ Begin(h, [IdleRequest EXCEPT !.op = "bootstrap", !.pc = "organization", !.n = begun + 1,
                                    !.member = m, !.want = want])
    /\ UNCHANGED <<rows, locks, history>>

ReadOrganization(h) ==
    /\ req[h].pc = "organization"
    /\ req' = [req EXCEPT ![h].pc = IF org = NoRow THEN "create" ELSE "membership",
                          ![h].rev = IF org = NoRow THEN 0 ELSE org]
    /\ UNCHANGED <<rows, locks, input, history>>

\* The insert of a new organization waits for another one of the same.
CreateOrganization(h) ==
    /\ req[h].pc = "create" /\ orgLock = Free
    /\ IF org # NoRow THEN Fail(h, "bootstrap")
       ELSE /\ orgLock' = h /\ Goto(h, "membership")
            /\ UNCHANGED <<rows, memberLock, codeLock, input, history>>

ReadMembership(h) ==
    /\ req[h].pc = "membership"
    /\ req' = [req EXCEPT ![h].pc = "flush", ![h].seen = member[req[h].member]]
    /\ UNCHANGED <<rows, locks, input, history>>

\* _membership_authority and _requested_authority: lists are compared sorted.
Authority(row) == IF row = NoRow THEN NoRow ELSE <<row.active, row.scope>>

\* Mutant: only what a member may reach is compared.
ScopeChanged(r) == r.seen = NoRow \/ (r.seen # NoRow /\ r.seen.scope # r.want.scope)

\* authority_changed
Changed(r) == Authority(r.seen) # Authority(r.want)

\* The columns are assigned whether the authority has changed or not, the list in sorted order.
Writes(r) == r.seen # r.want

\* The unit of work writes the membership first: an insert, or the columns that differ from what
\* was read.  That waits for whoever has written the row.
Flush(h) ==
    LET r == req[h] IN
    /\ r.pc = "flush"
    /\ IF ~Writes(r) THEN Goto(h, "seed") /\ UNCHANGED <<rows, locks, input, history>>
       ELSE /\ memberLock[r.member] = Free
            /\ IF r.seen = NoRow /\ member[r.member] # NoRow THEN Fail(h, "bootstrap")
               ELSE /\ memberLock' = [memberLock EXCEPT ![r.member] = h]
                    /\ Goto(h, IF Changed(r) THEN "bump" ELSE "seed")
                    /\ UNCHANGED <<rows, orgLock, codeLock, input, history>>

\* Mutant: the revision is written without waiting for the organization's row.
BumpUnlocked(h) ==
    req[h].pc = "bump" /\ Goto(h, "seed") /\ UNCHANGED <<rows, locks, input, history>>

\* Then the revision, which waits for whoever has locked the organization.
Bump(h) ==
    /\ req[h].pc = "bump" /\ orgLock \in {Free, h}
    /\ orgLock' = h /\ Goto(h, "seed") /\ UNCHANGED <<rows, memberLock, codeLock, input, history>>

\* The row once the columns that differ from what was read are written.
Written(r) ==
    LET now == member[r.member]
        relisted == r.seen.scope # r.want.scope \/ ~r.seen.sorted
    IN  IF r.seen = NoRow THEN r.want
        ELSE [active |-> IF r.seen.active # r.want.active THEN r.want.active ELSE now.active,
              scope |-> IF relisted THEN r.want.scope ELSE now.scope,
              sorted |-> relisted \/ now.sorted]

StoreMembership(m, row) ==
    /\ member' = [member EXCEPT ![m] = row]
    /\ changes' = IF Authority(row) # Authority(member[m]) THEN changes + 1 ELSE changes

\* What the commit of a bootstrap stores.
StoreIdentity(r) ==
    /\ StoreMembership(r.member, Written(r)) /\ org' = IF Changed(r) THEN r.rev + 1 ELSE org
    /\ session' = [session EXCEPT ![r.n] = [member |-> r.member, revoked |-> FALSE, code |-> NoRow]]
    /\ overlapped' = (overlapped \/ (Writes(r) /\ org \notin {NoRow, r.rev}))

KeepIdentity == UNCHANGED <<org, member, session, changes, overlapped>>

\* Mutant: after a lost race the identity is answered as if it were stored.
FinishAnyway(h) ==
    LET r == req[h] IN
    /\ r.op = "bootstrap" /\ r.pc = "seeded"
    /\ End(h) /\ answered' = answered \cup {<<"token", r.n>>} /\ failed' = failed
    /\ IF r.stored \/ r.lost THEN KeepIdentity ELSE StoreIdentity(r)
    /\ UNCHANGED <<code, baseline, published, input>>

\* The last commit and the answer.  A rollback of the seed has discarded the identity, and the
\* organization that the answer reads is then expired: that raises.
FinishBootstrap(h) ==
    LET r == req[h] IN
    /\ r.op = "bootstrap" /\ r.pc = "seeded" /\ End(h)
    /\ IF r.stored \/ r.lost THEN KeepIdentity ELSE StoreIdentity(r)
    /\ answered' = IF r.lost THEN answered ELSE answered \cup {<<"token", r.n>>}
    /\ failed' = IF r.lost THEN failed \cup {"bootstrap"} ELSE failed
    /\ UNCHANGED <<code, baseline, published, input>>

-----------------------------------------------------------------------------
(* Reference data.                                                          *)

\* A request of a member that reads the publications, or publishes a content.
BeginReference(h, s, content) ==
    /\ Usable(s)
    /\ Begin(h, [IdleRequest EXCEPT !.op = IF content = NoRow THEN "read" ELSE "publish", !.pc = "seed",
                                    !.content = content])
    /\ UNCHANGED <<rows, locks, history>>

\* _seed_baseline_publications looks for a publication that is missing.
SeedCheck(h) ==
    /\ req[h].pc = "seed"
    /\ IF Baselines \subseteq baseline THEN Goto(h, "seeded")
       ELSE \E p \in Baselines \ baseline :
                /\ \A q \in Baselines \ baseline : p <= q
                /\ req' = [req EXCEPT ![h].pc = "lookup", ![h].first = p]
    /\ UNCHANGED <<rows, locks, input, history>>

\* The seed commits, with all that the request has written before.
CommitSeed(h) ==
    LET r == req[h] IN
    /\ Release(h)
    /\ IF r.op = "bootstrap" /\ ~r.lost
       THEN StoreIdentity(r) /\ req' = [req EXCEPT ![h].pc = "seeded", ![h].stored = TRUE]
       ELSE KeepIdentity /\ Goto(h, "seeded")
    /\ UNCHANGED <<code, published, input, answered, failed>>

\* _insert_publication reads the publication again: one stored since the check is taken for
\* the one to insert.
SeedLookup(h) ==
    /\ req[h].pc = "lookup"
    /\ IF req[h].first \in baseline THEN CommitSeed(h) /\ UNCHANGED baseline
       ELSE Goto(h, "owner") /\ UNCHANGED <<rows, locks, input, history>>

\* Then it looks for the version: one stored since raises PublicationConflict, which the retry of
\* the seed does not catch.  A read and a bootstrap do not handle it, publishing answers 409.
SeedOwner(h) ==
    /\ req[h].pc = "owner"
    /\ IF req[h].first \in baseline THEN Fail(h, "conflict")
       ELSE Goto(h, "insert") /\ UNCHANGED <<rows, locks, input, history>>

\* Mutant: the race is not tried again.
OneAttempt == 1

BASELINE_SEED_ATTEMPTS == 2

\* The seed inserts what is missing and commits; or the first insert meets a row committed since,
\* and all that the request has written is rolled back.
SeedInsert(h) ==
    LET r == req[h] IN
    /\ r.pc = "insert"
    /\ IF r.first \notin baseline
       THEN baseline' = baseline \cup Baselines /\ CommitSeed(h)
       ELSE IF r.attempt = BASELINE_SEED_ATTEMPTS THEN Fail(h, "seed")
       ELSE /\ req' = [req EXCEPT ![h].pc = "seed", ![h].attempt = r.attempt + 1, ![h].lost = TRUE]
            /\ Release(h) /\ UNCHANGED <<rows, input, history>>

FinishRead(h) ==
    /\ req[h].op = "read" /\ req[h].pc = "seeded"
    /\ End(h) /\ UNCHANGED <<rows, input, history>>

\* _insert_publication: the publication is there with this content, or another, or not.
PublishCheck(h) ==
    /\ req[h].op = "publish" /\ req[h].pc = "seeded"
    /\ IF published = NoRow
       THEN Goto(h, "publish") /\ UNCHANGED <<rows, locks, input, history>>
       ELSE /\ End(h) /\ UNCHANGED <<rows, input, failed, changes, overlapped>>
            /\ answered' = IF published = req[h].content
                           THEN answered \cup {<<"publication", published>>} ELSE answered

Publish(h) ==
    /\ req[h].pc = "publish"
    /\ IF published # NoRow THEN Fail(h, "publish")
       ELSE /\ published' = req[h].content /\ End(h)
            /\ answered' = answered \cup {<<"publication", req[h].content>>}
            /\ UNCHANGED <<org, member, session, code, baseline, input, failed, changes, overlapped>>

-----------------------------------------------------------------------------
(* Pairing.                                                                 *)

BeginIssue(h, m) ==
    /\ member[m] # NoRow /\ member[m].active
    /\ Begin(h, [IdleRequest EXCEPT !.op = "issue", !.pc = "issue", !.n = begun + 1, !.member = m])
    /\ UNCHANGED <<rows, locks, history>>

IssueGrant(h) ==
    LET r == req[h] IN
    /\ r.pc = "issue" /\ End(h)
    /\ code' = [code EXCEPT ![r.n] = [member |-> r.member, consumed |-> FALSE, expired |-> FALSE]]
    /\ UNCHANGED <<org, member, session, baseline, published, input, history>>

\* exchange_pairing_code takes the time before it waits for the row.
BeginExchange(h, c) ==
    /\ code[c] # NoRow
    /\ Begin(h, [IdleRequest EXCEPT !.op = "exchange", !.pc = "select", !.n = begun + 1,
                                    !.code = c, !.late = code[c].expired])
    /\ UNCHANGED <<rows, locks, history>>

\* Mutant: the row is read without FOR UPDATE.
SelectUnlocked(h) ==
    LET r == req[h] IN
    /\ r.pc = "select"
    /\ IF code[r.code].consumed \/ r.late \/ ~member[code[r.code].member].active
       THEN End(h) ELSE Goto(h, "mint") /\ UNCHANGED locks
    /\ UNCHANGED <<rows, input, history>>

SelectGrant(h) ==
    LET r == req[h] IN
    /\ r.pc = "select" /\ codeLock[r.code] = Free
    /\ IF code[r.code].consumed \/ r.late \/ ~member[code[r.code].member].active
       THEN End(h)
       ELSE Goto(h, "mint") /\ codeLock' = [codeLock EXCEPT ![r.code] = h] /\ UNCHANGED <<orgLock, memberLock>>
    /\ UNCHANGED <<rows, input, history>>

MintSession(h) ==
    LET r == req[h] IN
    /\ r.pc = "mint" /\ End(h)
    /\ code' = [code EXCEPT ![r.code].consumed = TRUE]
    /\ session' = [session EXCEPT ![r.n] = [member |-> code[r.code].member, revoked |-> FALSE, code |-> r.code]]
    /\ answered' = answered \cup {<<"token", r.n>>}
    /\ UNCHANGED <<org, member, baseline, published, input, failed, changes, overlapped>>

ExpireGrant(c) ==
    /\ "exchange" \in load /\ code[c] # NoRow /\ ~code[c].expired
    /\ code' = [code EXCEPT ![c].expired = TRUE]
    /\ UNCHANGED <<org, member, session, baseline, published, locks, req, input, history>>

-----------------------------------------------------------------------------
(* Sessions, and the scope a push grants to the creator of a customer.      *)

\* revoke_session
Revoke(s) ==
    /\ "revoke" \in load /\ session[s] # NoRow /\ ~session[s].revoked
    /\ session' = [session EXCEPT ![s].revoked = TRUE]
    /\ UNCHANGED <<org, member, code, baseline, published, locks, req, input, history>>

\* auth_logout
Logout(s) == Usable(s) /\ Revoke(s)

BeginPush(h, s, c) ==
    /\ Usable(s)
    /\ Begin(h, [IdleRequest EXCEPT !.op = "push", !.pc = "lock", !.member = session[s].member, !.customer = c])
    /\ UNCHANGED <<rows, locks, history>>

\* The push locks the organization, and has then read its revision.
LockOrganization(h) ==
    /\ req[h].pc = "lock" /\ orgLock = Free
    /\ orgLock' = h /\ req' = [req EXCEPT ![h].pc = "creator", ![h].rev = org]
    /\ UNCHANGED <<rows, memberLock, codeLock, input, history>>

\* _grant_created_scope reads the membership again: it may be inactive by now, or have the
\* customer in its list.
ReadCreator(h) ==
    LET now == member[req[h].member] IN
    /\ req[h].pc = "creator"
    /\ IF ~now.active \/ req[h].customer \in now.scope THEN End(h)
       ELSE req' = [req EXCEPT ![h].pc = "grant", ![h].seen = now] /\ UNCHANGED locks
    /\ UNCHANGED <<rows, input, history>>

GrantScope(h) ==
    LET r == req[h] IN
    /\ r.pc = "grant" /\ memberLock[r.member] = Free
    /\ memberLock' = [memberLock EXCEPT ![r.member] = h] /\ Goto(h, "granted")
    /\ UNCHANGED <<rows, orgLock, codeLock, input, history>>

\* The list that was read, with the customer at its end, is written over the one of the row.
Granted(r) ==
    [active |-> member[r.member].active, scope |-> r.seen.scope \cup {r.customer},
     sorted |-> r.seen.sorted /\ \A x \in r.seen.scope : x < r.customer]

CommitPush(h) ==
    LET r == req[h] IN
    /\ r.pc = "granted" /\ End(h) /\ StoreMembership(r.member, Granted(r)) /\ org' = r.rev + 1
    /\ UNCHANGED <<session, code, baseline, published, input, answered, failed, overlapped>>

-----------------------------------------------------------------------------
\* No organization yet; or one from before the seed was part of the bootstrap, with a member,
\* a session and a pairing code, and with the publications an older release had.
Init ==
    /\ \/ /\ org = NoRow /\ member = [m \in Members |-> NoRow] /\ session = [s \in Ids |-> NoRow]
          /\ baseline = {} /\ code = [c \in Ids |-> NoRow]
       \/ /\ org = 0 /\ \E n \in Baselines \cup {0} : baseline = {p \in Baselines : p <= n}
          /\ \E m \in Members, a \in Held :
                /\ member = [k \in Members |-> IF k = m THEN a ELSE NoRow]
                /\ session = [s \in Ids |-> IF s = 0 THEN [member |-> m, revoked |-> FALSE, code |-> NoRow]
                                            ELSE NoRow]
                /\ code = [c \in Ids |-> IF c = 0 THEN [member |-> m, consumed |-> FALSE, expired |-> FALSE]
                                         ELSE NoRow]
    /\ published = NoRow
    /\ orgLock = Free /\ memberLock = [m \in Members |-> Free] /\ codeLock = [c \in Ids |-> Free]
    /\ req = [h \in Handlers |-> IdleRequest] /\ begun = 0
    /\ load \in Loads /\ answered = {} /\ failed = {} /\ changes = 0 /\ overlapped = FALSE

Arrival(h) ==
    \/ \E m \in Members, want \in Wanted : BeginBootstrap(h, m, want)
    \/ \E s \in Ids, content \in Contents \cup {NoRow} : BeginReference(h, s, content)
    \/ \E m \in Members : BeginIssue(h, m)
    \/ \E c \in Ids : BeginExchange(h, c)
    \/ \E s \in Ids, c \in Customers : BeginPush(h, s, c)

Step(h) ==
    \/ ReadOrganization(h) \/ CreateOrganization(h) \/ ReadMembership(h) \/ Flush(h)
    \/ Bump(h) \/ FinishBootstrap(h)
    \/ SeedCheck(h) \/ SeedLookup(h) \/ SeedOwner(h) \/ SeedInsert(h) \/ FinishRead(h) \/ PublishCheck(h) \/ Publish(h)
    \/ IssueGrant(h) \/ SelectGrant(h) \/ MintSession(h)
    \/ LockOrganization(h) \/ ReadCreator(h) \/ GrantScope(h) \/ CommitPush(h)
    \/ Abort(h)

Next ==
    \/ \E h \in Handlers : Arrival(h) \/ Step(h)
    \/ \E s \in Ids : Revoke(s) \/ Logout(s)
    \/ \E c \in Ids : ExpireGrant(c)

Spec == Init /\ [][Next]_vars

-----------------------------------------------------------------------------
(* Properties.                                                              *)

MintedBy(s, c) == session[s] # NoRow /\ session[s].code = c

\* A pairing code mints one session and is spent in doing so, however many devices exchange it
\* at once and whatever fails in between (exchange_pairing_code).
CodeMintsOnce ==
    \A c \in Ids : code[c] # NoRow =>
        /\ code[c].consumed <=> \E s \in Ids : MintedBy(s, c)
        /\ \A s, t \in Ids : MintedBy(s, c) /\ MintedBy(t, c) => s = t

\* What a client has been given is stored: the session of every token, the publication with the
\* content that was answered; and a request that is past the seed reads all the baselines.
AnswersAreTrue ==
    /\ \A s \in Ids : <<"token", s>> \in answered => session[s] # NoRow
    /\ \A p \in Contents : <<"publication", p>> \in answered => published = p
    /\ \A h \in Handlers : req[h].pc \in {"seeded", "publish"} => Baselines \subseteq baseline

\* The authorization revision counts the changes of authority: it is never ahead, and exact
\* until a bootstrap stores a membership although the revision has moved since it was read.
RevisionCountsChanges ==
    org # NoRow => org <= changes /\ (~overlapped => org = changes)

\* README: any membership authority change increments the organization's authorizationRevision.
EveryChangeIncrements == org # NoRow => org >= changes

\* A push gives nothing to a member who is no longer active when it commits, although its
\* principal was authenticated long before (_grant_created_scope, bootstrap_identity).
InactiveGainsNothing ==
    [][\A h \in Handlers :
        req[h].pc = "granted" /\ req'[h] # req[h] /\ member' # member => member[req[h].member].active]_vars

\* A request gives up on the seed only when another has stored all of it meanwhile, and never
\* for a second race: whoever asks again finds the baselines (_ensure_baseline_publications).
SeedGivesWay ==
    "seed" \notin failed /\ ("conflict" \in failed => Baselines \subseteq baseline)
=============================================================================
