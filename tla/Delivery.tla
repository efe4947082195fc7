------------------------------ MODULE Delivery ------------------------------
(* Delivery executions: a document that takes an approved quotation through *)
(* engineering, materials, procurement, production and installation, as     *)
(* authorize_delivery_execution and the handoff validators decide each      *)
(* push.  A push proposes a whole document; the pushes are serialized by    *)
(* the organization lock.  Capability, scope, provenance, timestamps and    *)
(* the form of a payload may refuse any push, which changes nothing and is  *)
(* no step.                                                                 *)
EXTENDS QuotationHandoff, FiniteSets, Integers, Sequences

CONSTANTS
    Deliveries,
    Materials,          \* ids of material requirements
    Evidence,           \* evidence documents of the project's items
    MaxRevision,        \* bound on the revision of a plan
    CreationHistories,  \* bound: the histories a new delivery may come with
    NoDelivery, NoPlan

Statuses == {"engineeringReview", "materialsRequired", "procurement", "production",
             "readyForInstallation", "scheduled", "installed", "complete"}

\* DELIVERY_TRANSITIONS
Transitions ==
    {<<"engineeringReview", "materialsRequired">>, <<"materialsRequired", "procurement">>,
     <<"procurement", "production">>, <<"production", "readyForInstallation">>,
     <<"readyForInstallation", "scheduled">>, <<"scheduled", "installed">>,
     <<"installed", "complete">>}

\* The statuses in which a plan is revised by an event that stays there.
Revising == {"materialsRequired", "procurement", "production", "readyForInstallation", "scheduled"}

ProductionFrozen == {"readyForInstallation", "scheduled", "installed", "complete"}
ProcurementFrozen == ProductionFrozen \cup {"production"}
MaterialsFrozen == ProcurementFrozen \cup {"procurement"}

Revisions == 1..MaxRevision

\* The plans.  Each has its own revision and, but for the first, that of the plan it rests on.
MaterialsPlans == [rev : Revisions, needs : SUBSET Materials \ {{}}]
ProcurementPlans ==
    [rev : Revisions, of : Revisions,
     state : UNION {[S -> {"available", "missing"}] : S \in SUBSET Materials \ {{}}}]
ProductionPlans == [rev : Revisions, of : Revisions, done : BOOLEAN]
Schedules == [rev : Revisions, of : Revisions, assigned : BOOLEAN]
Completions == [rev : Revisions, of : Revisions, refs : SUBSET Evidence \ {{}}]
Closeouts == [of : Revisions, refs : SUBSET Evidence]

Opt(S) == S \cup {NoPlan}

Documents ==
    [quotation : Quotations, terms : Terms, events : Seq(Statuses),
     materials : Opt(MaterialsPlans), procurement : Opt(ProcurementPlans),
     production : Opt(ProductionPlans), schedule : Opt(Schedules),
     completion : Opt(Completions), closeout : Opt(Closeouts)]

ASSUME DeliveryConstants ==
    /\ MaxRevision \in Nat /\ NoDelivery \notin Documents
    /\ NoPlan \notin MaterialsPlans \cup ProcurementPlans \cup ProductionPlans
                    \cup Schedules \cup Completions \cup Closeouts
    /\ CreationHistories \subseteq Seq(Statuses) \ {<<>>}

VARIABLES
    delivery,   \* payload_json of each delivery execution
    evidence,   \* the evidence that is canonical and active
    ahead,      \* history: the deliveries created with more than their first event
    withdrawn   \* history: the quotations that have been deleted

vars == <<quote, delivery, evidence, ahead, withdrawn>>

\* The status of a document is where its history ends.
Status(doc) == doc.events[Len(doc.events)]

-----------------------------------------------------------------------------
(* History.                                                                 *)

MayFollow(s, t) == <<s, t>> \in Transitions \/ (s = t /\ s \in Revising)

IsChain(events) ==
    /\ events # <<>> /\ events[1] = "engineeringReview"
    /\ \A i \in 1..Len(events) - 1 : MayFollow(events[i], events[i + 1])

\* A change appends one event at most.
Continues(events, cur) ==
    /\ Len(events) \in {Len(cur.events), Len(cur.events) + 1}
    /\ \A i \in DOMAIN cur.events : events[i] = cur.events[i]

-----------------------------------------------------------------------------
(* The handoff validators.  cur is the stored document or NoDelivery, st    *)
(* the status the pushed document claims.                                   *)

\* The revision of a plan advances by exactly one, from 1.
Revises(new, old) ==
    new # NoPlan /\ new.rev = (IF old = NoPlan THEN 1 ELSE old.rev + 1)

\* Mutant: a plan may be changed in place.
SavedOrChanged(own, next, frozen, cs, st, new, old) ==
    /\ cs \in frozen => new = old
    /\ cs \notin frozen \cup {own} => new = NoPlan
    /\ cs = own /\ st = next => old # NoPlan /\ new = old
    /\ cs = own /\ st = own => new = old \/ new # NoPlan

\* Mutant: a plan may be changed on the way to the next status.
AuthoredLate(own, next, frozen, cs, st, new, old) ==
    /\ cs \in frozen => new = old
    /\ cs \notin frozen \cup {own} => new = NoPlan
    /\ cs = own /\ st = next => old # NoPlan /\ (new = old \/ Revises(new, old))
    /\ cs = own /\ st = own => new = old \/ Revises(new, old)

\* A plan is authored in its own status, saved before the next and frozen from then on.
Authored(own, next, frozen, cs, st, new, old) ==
    /\ cs \in frozen => new = old
    /\ cs \notin frozen \cup {own} => new = NoPlan
    /\ cs = own /\ st = next => old # NoPlan /\ new = old
    /\ cs = own /\ st = own => new = old \/ Revises(new, old)

MaterialsHandoff(cur, st, new) ==
    /\ st = "engineeringReview" => new = NoPlan
    /\ st \in MaterialsFrozen => new # NoPlan
    /\ cur # NoDelivery =>
           Authored("materialsRequired", "procurement", MaterialsFrozen, Status(cur), st, new, cur.materials)

ProcurementHandoff(cur, st, materials, new) ==
    /\ new # NoPlan => /\ materials # NoPlan /\ new.of = materials.rev
                       /\ DOMAIN new.state = materials.needs
    /\ st \in {"engineeringReview", "materialsRequired"} => new = NoPlan
    /\ st \in ProcurementFrozen => new # NoPlan /\ \A m \in DOMAIN new.state : new.state[m] = "available"
    /\ cur # NoDelivery =>
           Authored("procurement", "production", ProcurementFrozen, Status(cur), st, new, cur.procurement)

ProductionHandoff(cur, st, procurement, new) ==
    /\ new # NoPlan => procurement # NoPlan /\ new.of = procurement.rev
    /\ st \in {"engineeringReview", "materialsRequired", "procurement"} => new = NoPlan
    /\ st \in ProductionFrozen => new # NoPlan /\ new.done
    /\ cur # NoDelivery =>
           Authored("production", "readyForInstallation", ProductionFrozen, Status(cur), st, new, cur.production)

\* What the installation records need of each other, and which status needs or forbids them.
InstallationRecords(st, production, schedule, completion, closeout) ==
    /\ schedule # NoPlan => /\ production # NoPlan /\ production.done
                            /\ schedule.of = production.rev
    /\ completion # NoPlan => schedule # NoPlan /\ completion.of = schedule.rev
    /\ closeout # NoPlan => completion # NoPlan /\ closeout.of = completion.rev
    /\ st \notin ProductionFrozen => schedule = NoPlan
    /\ st \in {"scheduled", "installed", "complete"} => schedule # NoPlan
    /\ st \notin {"scheduled", "installed", "complete"} => completion = NoPlan
    /\ st \in {"installed", "complete"} => completion # NoPlan
    /\ closeout # NoPlan <=> st = "complete"

\* A new schedule names its installer.
Reschedules(new, old) == Revises(new, old) /\ new.assigned

\* While Scheduled: a new completion, or, until there is one, a new schedule.
ScheduledRevision(cur, schedule, completion) ==
    \/ schedule = cur.schedule /\ completion = cur.completion
    \/ schedule = cur.schedule /\ Revises(completion, cur.completion)
    \/ completion = NoPlan /\ cur.completion = NoPlan /\ Reschedules(schedule, cur.schedule)

InstallationHandoff(cur, st, production, schedule, completion, closeout) ==
    /\ InstallationRecords(st, production, schedule, completion, closeout)
    /\ cur # NoDelivery =>
        LET cs == Status(cur) IN
        /\ cs = "complete" => schedule = cur.schedule /\ completion = cur.completion /\ closeout = cur.closeout
        /\ cs = "installed" => schedule = cur.schedule /\ completion = cur.completion
        /\ cs = "installed" /\ st = "complete" => cur.closeout = NoPlan
        /\ cs = "installed" /\ st # "complete" => closeout = cur.closeout
        /\ cs \notin ProductionFrozen => schedule = NoPlan /\ completion = NoPlan
        /\ cs = "readyForInstallation" =>
            /\ completion = NoPlan
            /\ st = "scheduled" => cur.schedule # NoPlan /\ schedule = cur.schedule
            /\ st = cs => schedule = cur.schedule \/ Reschedules(schedule, cur.schedule)
        /\ cs = "scheduled" =>
            /\ cur.completion # NoPlan => schedule = cur.schedule
            /\ st = "installed" => /\ cur.schedule # NoPlan /\ schedule = cur.schedule
                                   /\ cur.completion # NoPlan /\ completion = cur.completion
            /\ st = cs => ScheduledRevision(cur, schedule, completion)

\* Mutant: an event that stays in Scheduled revises both records.
BothRevised(cur, new) ==
    /\ Status(new) = "materialsRequired" => new.materials # cur.materials
    /\ Status(new) = "procurement" => new.procurement # cur.procurement
    /\ Status(new) = "production" => new.production # cur.production
    /\ Status(new) = "readyForInstallation" => new.schedule # cur.schedule
    /\ Status(new) = "scheduled" => new.schedule # cur.schedule /\ new.completion # cur.completion

\* An event that stays in its status revises the plan of that status.
SelfRevises(cur, new) ==
    /\ Status(new) = "materialsRequired" => new.materials # cur.materials
    /\ Status(new) = "procurement" => new.procurement # cur.procurement
    /\ Status(new) = "production" => new.production # cur.production
    /\ Status(new) = "readyForInstallation" => new.schedule # cur.schedule
    /\ Status(new) = "scheduled" => new.schedule # cur.schedule \/ new.completion # cur.completion

SamePlans(cur, new) ==
    /\ new.materials = cur.materials /\ new.procurement = cur.procurement
    /\ new.production = cur.production /\ new.schedule = cur.schedule
    /\ new.completion = cur.completion

\* What validate_delivery_execution_payload compares with the stored document.
Updates(cur, new) ==
    /\ new.quotation = cur.quotation /\ new.terms = cur.terms
    /\ Continues(new.events, cur)
    /\ new.events = cur.events => SamePlans(cur, new)
    /\ new.events # cur.events /\ Status(new) = Status(cur) => SelfRevises(cur, new)

\* validate_installation_evidence_authority: references are looked up when they are new.
EvidenceAuthority(cur, new) ==
    /\ new.completion # NoPlan /\ (cur = NoDelivery \/ new.completion # cur.completion) =>
           new.completion.refs \subseteq evidence
    /\ new.closeout # NoPlan /\ (cur = NoDelivery \/ new.closeout # cur.closeout) =>
           new.closeout.refs \subseteq evidence

-----------------------------------------------------------------------------
(* Actions.                                                                 *)

\* The histories a push may come with: the stored one, one more event, or any other.
Proposals(cur) ==
    CreationHistories \cup IF cur = NoDelivery THEN {}
                           ELSE {cur.events} \cup {Append(cur.events, s) : s \in Statuses}

\* authorize_delivery_execution of an upsert, validator by validator.
PushDelivery(d, q, t) ==
    LET cur == delivery[d] IN
    \E h \in Proposals(cur) :
    LET st == h[Len(h)] IN
    /\ IsChain(h)
    /\ quote[q] = t
    /\ \E m \in Opt(MaterialsPlans) : MaterialsHandoff(cur, st, m) /\
       \E p \in Opt(ProcurementPlans) : ProcurementHandoff(cur, st, m, p) /\
       \E r \in Opt(ProductionPlans) : ProductionHandoff(cur, st, p, r) /\
       \E s \in Opt(Schedules), c \in Opt(Completions), x \in Opt(Closeouts) :
        LET new == [quotation |-> q, terms |-> t, events |-> h, materials |-> m, procurement |-> p,
                    production |-> r, schedule |-> s, completion |-> c, closeout |-> x] IN
        /\ InstallationHandoff(cur, st, r, s, c, x)
        /\ cur # NoDelivery => Updates(cur, new)
        /\ EvidenceAuthority(cur, new)
        /\ delivery' = [delivery EXCEPT ![d] = new]
        /\ ahead' = IF cur = NoDelivery /\ Len(h) > 1 THEN ahead \cup {d} ELSE ahead
    /\ UNCHANGED <<quote, evidence, withdrawn>>

\* A quotation is approved or deleted, evidence is stored or deleted.
QuotationStep ==
    /\ NextHandoff /\ UNCHANGED <<delivery, evidence, ahead>>
    /\ withdrawn' = withdrawn \cup {q \in Quotations : quote'[q] = NoTerms /\ quote[q] # NoTerms}

EvidenceStep ==
    /\ \E v \in Evidence : evidence' \in {evidence \cup {v}, evidence \ {v}}
    /\ UNCHANGED <<quote, delivery, ahead, withdrawn>>

Init ==
    /\ InitHandoff /\ delivery = [d \in Deliveries |-> NoDelivery]
    /\ evidence = {} /\ ahead = {} /\ withdrawn = {}

Next ==
    \/ \E d \in Deliveries, q \in Quotations, t \in Terms : PushDelivery(d, q, t)
    \/ QuotationStep \/ EvidenceStep

Spec == Init /\ [][Next]_vars

-----------------------------------------------------------------------------
(* Properties.                                                              *)

\* Every stored document is well formed, its history a chain of transitions from the first status.
TypeOK ==
    /\ quote \in [Quotations -> Terms \cup {NoTerms}]
    /\ delivery \in [Deliveries -> Documents \cup {NoDelivery}]
    /\ \A d \in Deliveries : delivery[d] # NoDelivery => IsChain(delivery[d].events)
    /\ evidence \subseteq Evidence /\ ahead \subseteq Deliveries
    /\ withdrawn \subseteq Quotations

\* The plans a change touches.
Changed(cur, new) ==
    {k \in {"materials", "procurement", "production", "schedule", "completion", "closeout"} :
        new[k] # cur[k]}

\* Where a plan is revised.
RevisedIn(k, st) ==
    \/ k = "materials" /\ st = "materialsRequired"
    \/ k = "procurement" /\ st = "procurement"
    \/ k = "production" /\ st = "production"
    \/ k = "schedule" /\ st \in {"readyForInstallation", "scheduled"}
    \/ k = "completion" /\ st = "scheduled"

\* A push to a stored delivery does one thing: nothing; one step to the next status with every
\* plan as saved, but for the closeout that comes with Complete; or one new revision of the one
\* plan its status is there for.
DoesOneThing(cur, new) ==
    \/ new = cur
    \/ /\ <<Status(cur), Status(new)>> \in Transitions
       /\ Changed(cur, new) = IF Status(new) = "complete" THEN {"closeout"} ELSE {}
    \/ /\ Status(cur) = Status(new)
       /\ \E k \in {"materials", "procurement", "production", "schedule", "completion"} :
            /\ Changed(cur, new) = {k} /\ RevisedIn(k, Status(new)) /\ Revises(new[k], cur[k])

EachPushDoesOneThing ==
    [][\A d \in Deliveries :
        delivery[d] # NoDelivery => DoesOneThing(delivery[d], delivery'[d])]_vars

\* What is delivered is what was approved: until its quotation is deleted, a delivery has the
\* terms the quotation has.
DeliversWhatWasApproved ==
    \A d \in Deliveries : delivery[d] # NoDelivery =>
        delivery[d].quotation \in withdrawn \/ quote[delivery[d].quotation] = delivery[d].terms

Rev(plan) == IF plan = NoPlan THEN 0 ELSE plan.rev

\* The events of a history that stay in a status.
Stays(events, s) == {i \in 2..Len(events) : events[i - 1] = s /\ events[i] = s}

\* The history accounts for the revisions: a delivery that was created with its first event has,
\* for every revision of every plan, the event that recorded it.
HistoryAccountsForPlans ==
    \A d \in Deliveries \ ahead : delivery[d] # NoDelivery =>
        LET doc == delivery[d]
            N(s) == Cardinality(Stays(doc.events, s)) IN
        /\ Rev(doc.materials) = N("materialsRequired")
        /\ Rev(doc.procurement) = N("procurement")
        /\ Rev(doc.production) = N("production")
        /\ Rev(doc.schedule) + Rev(doc.completion) = N("readyForInstallation") + N("scheduled")

\* No delivery gets stuck: while its quotation stands and there is evidence to refer to, a
\* delivery that is not complete can be taken further, unless a plan has reached the bound.
NeverStuck ==
    \A d \in Deliveries : delivery[d] # NoDelivery =>
        LET doc == delivery[d] IN
        /\ quote[doc.quotation] = doc.terms /\ evidence # {} /\ Status(doc) # "complete"
        /\ \A k \in {"materials", "procurement", "production", "schedule", "completion"} :
               Rev(doc[k]) < MaxRevision
        => ENABLED (PushDelivery(d, doc.quotation, doc.terms) /\ delivery' # delivery)
=============================================================================
