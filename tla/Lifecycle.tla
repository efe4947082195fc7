----------------------------- MODULE Lifecycle -----------------------------
(* The lifecycle of quotations and blockers, as validate_lifecycle_mutation *)
(* and the quotation branch of authorize_record decide it, record by        *)
(* record.  A payload is the whole document; what it says of customer,      *)
(* lines and prices is one value.  The pushes are serialized by the         *)
(* organization lock.  Checks of form, of lines and of ownership may refuse *)
(* any record, which changes nothing and is no step.                        *)
EXTENDS Naturals, Sequences

CONSTANTS
    Quotations, Blockers,
    Project,      \* the canonical project of each quotation
    Users,
    Caps,         \* what each user may do with quotations
    Contents,     \* what a document says beside its lifecycle
    MaxRevision,  \* bound on the revision of a quotation
    QuotationHistories, BlockerHistories,  \* bound: the histories a payload may have
    NoDoc         \* no payload: never pushed, or deleted; no predecessor

Statuses == {"draft", "ready", "sent", "approved", "rejected", "superseded"}
QuotationKinds == {"sent", "approved", "rejected", "superseded"}

\* Mutant: an approved quotation is no longer locked.
LockedUntilApproved == {"sent", "rejected", "superseded"}

ContentLocked == {"sent", "rejected", "approved", "superseded"}
BlockerKinds == {"created", "updated", "resolved", "reopened"}
Capabilities == {"quotation.create", "quotation.send", "quotation.approve"}

QuotationEvents == [kind : QuotationKinds, by : Users]
BlockerEvents == [kind : BlockerKinds, by : Users, snapshot : Contents \cup {NoDoc}]

QuotationDocs ==
    [status : Statuses, content : Contents, revision : 1..MaxRevision,
     supersedes : Quotations \cup {NoDoc}, events : QuotationHistories]
BlockerDocs == [status : {"open", "resolved"}, content : Contents, events : BlockerHistories]

ASSUME LifecycleConstants ==
    /\ Caps \in [Users -> SUBSET Capabilities] /\ MaxRevision \in Nat
    /\ NoDoc \notin Quotations \cup Contents \cup QuotationDocs \cup BlockerDocs
    /\ \A h \in QuotationHistories : h \in Seq(QuotationEvents)
    /\ \A h \in BlockerHistories : h \in Seq(BlockerEvents) /\ h # <<>>

VARIABLES
    quotation,   \* payload_json of each quotation
    blocker,     \* payload_json of each blocker
    sentAs,      \* history: what each quotation said when it was last sent
    erased       \* history: the quotations that have been deleted

vars == <<quotation, blocker, sentAs, erased>>

-----------------------------------------------------------------------------
(* Histories.                                                               *)

\* _require_immutable_prefix: a payload keeps the history of the stored one.
Extends(cur, events) ==
    cur # NoDoc => Len(cur.events) <= Len(events) /\ \A i \in DOMAIN cur.events : events[i] = cur.events[i]

\* What it appends, by the indices of the events.
Appended(cur, events) == IF cur = NoDoc THEN DOMAIN events ELSE DOMAIN events \ DOMAIN cur.events

\* The latest event of a change is by the user who pushes it.
ByCurrentActor(u, events) == events[Len(events)].by = u

\* _quotation_no_event_closure: a draft is made ready, and a ready or rejected one a draft, without an event.
Closure(state) == {state} \cup IF state \in {"draft", "ready", "rejected"} THEN {"draft", "ready"} ELSE {}

\* The states an event may follow.
Before(kind) ==
    CASE kind = "sent" -> {"ready"}
      [] kind \in {"approved", "rejected"} -> {"sent"}
      [] kind = "superseded" -> {"draft", "ready", "sent", "rejected"}

\* The state the first i events lead to: the one the last of them is named for.
StateAfter(events, i) == IF i = 0 THEN "draft" ELSE events[i].kind

\* _apply_quotation_event accepts every event of a history.
ValidOrder(events) ==
    \A i \in DOMAIN events : Closure(StateAfter(events, i - 1)) \cap Before(events[i].kind) # {}

\* Mutant: an update reopens.
BlockerUpdateReopens(s, e) ==
    [state |->
        CASE e.kind \in {"created", "updated"} -> "open"
          [] e.kind = "resolved" /\ s.state = "open" -> "resolved"
          [] e.kind = "reopened" /\ s.state = "resolved" -> "open"
          [] OTHER -> "invalid",
     snapshot |-> e.snapshot]

\* One event of a blocker: the state it leads to, or none, and the snapshot it leaves.
BlockerStep(s, e) ==
    [state |->
        CASE e.kind = "created" /\ s.state = "new" -> "open"
          [] e.kind = "updated" /\ s.state \in {"open", "resolved"} /\ e.snapshot # s.snapshot -> s.state
          [] e.kind = "resolved" /\ s.state = "open" -> "resolved"
          [] e.kind = "reopened" /\ s.state = "resolved" -> "open"
          [] OTHER -> "invalid",
     snapshot |-> e.snapshot]

\* The state a whole history leads to.
BlockerState(events) ==
    LET after[i \in 0..Len(events)] ==
            IF i = 0 THEN [state |-> "new", snapshot |-> NoDoc]
            ELSE BlockerStep(after[i - 1], events[i])
    IN  after[Len(events)].state

-----------------------------------------------------------------------------
(* Quotations.                                                              *)

\* Mutant: who may make a quotation may approve it.
CapabilityToCreate(status) == IF status = "sent" THEN "quotation.send" ELSE "quotation.create"

\* The capability authorize_record asks for.
CapabilityFor(status) ==
    CASE status = "sent" -> "quotation.send"
      [] status = "approved" -> "quotation.approve"
      [] OTHER -> "quotation.create"

\* Revision 1 has no predecessor; a later one replaces an active quotation of the same project
\* with the revision before it.
Replaces(q, new) ==
    IF new.revision = 1
    THEN new.supersedes = NoDoc
    ELSE /\ new.supersedes \notin {NoDoc, q} /\ quotation[new.supersedes] # NoDoc
         /\ Project[new.supersedes] = Project[q]
         /\ quotation[new.supersedes].revision = new.revision - 1

\* Mutant: the locked content is only looked at once approved.
KeepsApproved(cur, new) ==
    /\ new.revision = cur.revision /\ new.supersedes = cur.supersedes
    /\ cur.status = "approved" => new.content = cur.content

\* Mutant: the revision may be changed with the rest of a draft.
KeepsContent(cur, new) ==
    cur.status \in ContentLocked =>
        new.content = cur.content /\ new.revision = cur.revision /\ new.supersedes = cur.supersedes

\* What a change may not touch.
Keeps(cur, new) ==
    /\ new.revision = cur.revision /\ new.supersedes = cur.supersedes
    /\ cur.status \in ContentLocked => new.content = cur.content

\* validate_quotation_lifecycle, and the quotation branch of authorize_record.
QuotationValid(u, q, cur, new) ==
    /\ Extends(cur, new.events) /\ ValidOrder(new.events)
    /\ new.status \in Closure(StateAfter(new.events, Len(new.events)))
    /\ Appended(cur, new.events) # {} => ByCurrentActor(u, new.events)
    /\ IF cur = NoDoc THEN Replaces(q, new) ELSE Keeps(cur, new)
    /\ CapabilityFor(new.status) \in Caps[u]
    /\ new.status \in ContentLocked => new.events # <<>> /\ ByCurrentActor(u, new.events)

PushQuotation(u, q) ==
    \E h \in {g \in QuotationHistories : Extends(quotation[q], g)} :
    \E s \in Closure(StateAfter(h, Len(h))), c \in Contents, r \in 1..MaxRevision, p \in Quotations \cup {NoDoc} :
        LET new == [status |-> s, content |-> c, revision |-> r, supersedes |-> p, events |-> h] IN
        /\ QuotationValid(u, q, quotation[q], new)
        /\ quotation' = [quotation EXCEPT ![q] = new]
        /\ sentAs' = IF \E i \in Appended(quotation[q], h) : h[i].kind = "sent"
                     THEN [sentAs EXCEPT ![q] = c] ELSE sentAs
        /\ UNCHANGED <<blocker, erased>>

\* The tombstone of any quotation, whatever its status: the payload is dropped.
DeleteQuotation(u, q) ==
    /\ "quotation.create" \in Caps[u] /\ quotation[q] # NoDoc
    /\ quotation' = [quotation EXCEPT ![q] = NoDoc] /\ sentAs' = [sentAs EXCEPT ![q] = NoDoc]
    /\ erased' = erased \cup {q} /\ UNCHANGED blocker

-----------------------------------------------------------------------------
(* Blockers.                                                                *)

\* validate_blocker_lifecycle: a snapshot in the latest event is the document's.
BlockerValid(u, cur, new) ==
    /\ Extends(cur, new.events) /\ new.status = BlockerState(new.events)
    /\ new.events[Len(new.events)].snapshot \in {NoDoc, new.content}
    /\ cur # NoDoc /\ Appended(cur, new.events) = {} => new = cur
    /\ ByCurrentActor(u, new.events)

PushBlocker(u, b) ==
    \E h \in BlockerHistories, s \in {"open", "resolved"}, c \in Contents :
        LET new == [status |-> s, content |-> c, events |-> h] IN
        /\ BlockerValid(u, blocker[b], new)
        /\ blocker' = [blocker EXCEPT ![b] = new]
        /\ UNCHANGED <<quotation, sentAs, erased>>

DeleteBlocker(b) ==
    /\ blocker[b] # NoDoc /\ blocker' = [blocker EXCEPT ![b] = NoDoc]
    /\ UNCHANGED <<quotation, sentAs, erased>>

-----------------------------------------------------------------------------
Init ==
    /\ quotation = [q \in Quotations |-> NoDoc] /\ blocker = [b \in Blockers |-> NoDoc]
    /\ sentAs = [q \in Quotations |-> NoDoc] /\ erased = {}

Next ==
    \/ \E u \in Users, q \in Quotations : PushQuotation(u, q) \/ DeleteQuotation(u, q)
    \/ \E u \in Users, b \in Blockers : PushBlocker(u, b)
    \/ \E b \in Blockers : DeleteBlocker(b)

Spec == Init /\ [][Next]_vars

-----------------------------------------------------------------------------
(* Properties.                                                              *)

\* Every stored document is well formed, and its status is one its history leads to.
TypeOK ==
    /\ quotation \in [Quotations -> QuotationDocs \cup {NoDoc}]
    /\ blocker \in [Blockers -> BlockerDocs \cup {NoDoc}]
    /\ sentAs \in [Quotations -> Contents \cup {NoDoc}] /\ erased \subseteq Quotations
    /\ \A q \in Quotations : quotation[q] # NoDoc =>
           LET e == quotation[q].events IN
           ValidOrder(e) /\ quotation[q].status \in Closure(StateAfter(e, Len(e)))
    /\ \A b \in Blockers : blocker[b] # NoDoc => blocker[b].status = BlockerState(blocker[b].events)

\* What a customer approved is what was sent to them: between the push that stores a sent event
\* and the approval of it nothing the quotation says can change.
ApprovedAsSent ==
    \A q \in Quotations : quotation[q] # NoDoc =>
        (quotation[q].status = "approved" => quotation[q].content = sentAs[q])

\* Every approval in a history, however the history was put together and by whom it was pushed
\* since, is by a user who may approve.
ApprovalsAreAuthentic ==
    \A q \in Quotations : quotation[q] # NoDoc =>
        \A i \in DOMAIN quotation[q].events :
            LET e == quotation[q].events[i] IN
            e.kind = "approved" => "quotation.approve" \in Caps[e.by]

\* A replacement has the revision after its predecessor's, whatever has happened to both since,
\* unless the predecessor has been deleted.
RevisionsAreContiguous ==
    \A q \in Quotations : quotation[q] # NoDoc /\ quotation[q].supersedes \notin erased \cup {NoDoc} =>
        LET p == quotation[quotation[q].supersedes] IN p # NoDoc /\ p.revision + 1 = quotation[q].revision

\* A blocker that is open has, after its last resolution, been reopened; and its latest event
\* does not contradict it.
BlockerIsOnRecord ==
    \A b \in Blockers : blocker[b] # NoDoc =>
        LET e == blocker[b].events IN
        /\ blocker[b].status = "resolved" <=>
               \E i \in DOMAIN e : /\ e[i].kind = "resolved"
                                   /\ \A j \in i + 1 .. Len(e) : e[j].kind # "reopened"
        /\ e[Len(e)].snapshot \in {NoDoc, blocker[b].content}

\* What a delivery finds: the content of an approved quotation, until it is deleted.
Standing ==
    [q \in Quotations |->
        IF quotation[q] = NoDoc THEN NoDoc
        ELSE IF quotation[q].status = "approved" THEN quotation[q].content ELSE NoDoc]

Handoff == INSTANCE QuotationHandoff WITH quote <- Standing, Terms <- Contents, NoTerms <- NoDoc

\* Quotations keep the promise deliveries rely on: approved terms stand until the deletion.
ApprovedTermsStand == Handoff!HandoffSpec
=============================================================================
