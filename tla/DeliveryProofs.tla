--------------------------- MODULE DeliveryProofs ---------------------------
(* Proofs about Delivery, for any deliveries, quotations, materials,        *)
(* evidence, bounds and creation histories.  A stored document satisfies    *)
(* what the handoffs ask of a document by itself (Sound); with that, what   *)
(* they compare with the stored document leaves one thing to do.            *)
EXTENDS Delivery, FiniteSetTheorems, TLAPS

Handoffs(cur, new) ==
    LET st == Status(new) IN
    /\ MaterialsHandoff(cur, st, new.materials)
    /\ ProcurementHandoff(cur, st, new.materials, new.procurement)
    /\ ProductionHandoff(cur, st, new.procurement, new.production)
    /\ InstallationHandoff(cur, st, new.production, new.schedule, new.completion, new.closeout)

\* What the handoffs ask of a document whatever is stored.
Sound(doc) == Handoffs(NoDelivery, doc)

\* The status of a document is one of the statuses.
LEMMA StatusType ==
    ASSUME NEW doc \in Documents, IsChain(doc.events)
    PROVE  /\ doc.events \in Seq(Statuses) /\ Len(doc.events) \in Nat \ {0}
           /\ DOMAIN doc.events = 1..Len(doc.events) /\ Status(doc) \in Statuses
<1>1. doc.events \in Seq(Statuses) /\ doc.events # <<>>
  BY DEF Documents, IsChain
<1>2. Len(doc.events) \in Nat /\ Len(doc.events) # 0 /\ DOMAIN doc.events = 1..Len(doc.events)
  BY <1>1
<1>3. Len(doc.events) \in DOMAIN doc.events
  BY <1>2
<1> QED
  BY <1>1, <1>2, <1>3 DEF Status

\* A document the handoffs accept against any other is accepted by itself.
LEMMA AcceptedIsSound ==
    ASSUME NEW cur, NEW new, Handoffs(cur, new)
    PROVE  Sound(new)
BY DEF Sound, Handoffs, MaterialsHandoff, ProcurementHandoff, ProductionHandoff, InstallationHandoff

\* A push appends nothing, or one event that follows the stored status.
LEMMA OneEvent ==
    ASSUME NEW cur \in Documents, IsChain(cur.events), NEW new \in Documents, IsChain(new.events),
           Continues(new.events, cur)
    PROVE  \/ new.events = cur.events
           \/ /\ Len(new.events) = Len(cur.events) + 1
              /\ \A i \in DOMAIN cur.events : new.events[i] = cur.events[i]
              /\ MayFollow(Status(cur), Status(new))
<1> DEFINE e == cur.events
           f == new.events
<1>1. /\ e \in Seq(Statuses) /\ f \in Seq(Statuses)
      /\ Len(e) \in Nat \ {0} /\ Len(f) \in Nat \ {0} /\ DOMAIN e = 1..Len(e) /\ DOMAIN f = 1..Len(f)
  BY StatusType
<1>2. Len(f) \in {Len(e), Len(e) + 1}
  BY DEF Continues
<1>3. \A i \in 1..Len(e) : f[i] = e[i]
  BY <1>1 DEF Continues
<1>4. CASE Len(f) = Len(e)
  <2> HIDE DEF e, f
  <2>1. f = e
    BY <1>1, <1>3, <1>4
  <2> QED
    BY <2>1 DEF e, f
<1>5. CASE Len(f) = Len(e) + 1
  <2>1. Len(e) \in 1..Len(f) - 1
    BY <1>1, <1>5
  <2>2. MayFollow(f[Len(e)], f[Len(e) + 1])
    BY <2>1, Zenon DEF IsChain
  <2>3. f[Len(e)] = e[Len(e)]
    BY <1>1, <1>3
  <2>4. MayFollow(Status(cur), Status(new))
    BY <1>5, <2>2, <2>3, Zenon DEF Status
  <2> QED
    BY <1>1, <1>3, <1>5, <2>4
<1> QED
  BY <1>2, <1>4, <1>5

-----------------------------------------------------------------------------
(* Plan by plan: what a push that keeps the status or takes the next one    *)
(* may change.                                                              *)

Follows(cs, st) == cs = st \/ <<cs, st>> \in Transitions

\* A plan is as stored, or revised where its status is there for it.
Revised(k, cur, new) == Status(cur) = Status(new) /\ RevisedIn(k, Status(new)) /\ Revises(new[k], cur[k])

\* Materials, procurement and production by the pattern they share.
LEMMA AuthoredPlan ==
    ASSUME NEW own, NEW next, NEW frozen, NEW cs, NEW st, NEW new, NEW old,
           Authored(own, next, frozen, cs, st, new, old),
           cs = own => st \in {own, next},
           cs \notin frozen \cup {own} => old = NoPlan
    PROVE  new = old \/ (cs = own /\ st = own /\ Revises(new, old))
BY DEF Authored

LEMMA PlanSteps ==
    ASSUME NEW cur, cur # NoDelivery, Sound(cur), NEW new, Handoffs(cur, new),
           Status(cur) \in Statuses, Status(new) \in Statuses, Follows(Status(cur), Status(new))
    PROVE  /\ new.materials = cur.materials \/ Revised("materials", cur, new)
           /\ new.procurement = cur.procurement \/ Revised("procurement", cur, new)
           /\ new.production = cur.production \/ Revised("production", cur, new)
<1> DEFINE cs == Status(cur)
           st == Status(new)
<1>1. /\ cs = "materialsRequired" => st \in {"materialsRequired", "procurement"}
      /\ cs = "procurement" => st \in {"procurement", "production"}
      /\ cs = "production" => st \in {"production", "readyForInstallation"}
  BY DEF Follows, Transitions
<1>2. new.materials = cur.materials \/ Revised("materials", cur, new)
  <2>1. Authored("materialsRequired", "procurement", MaterialsFrozen, cs, st, new.materials, cur.materials)
    BY DEF Handoffs, MaterialsHandoff
  <2>2. cs \notin MaterialsFrozen \cup {"materialsRequired"} => cur.materials = NoPlan
    BY DEF Sound, Handoffs, MaterialsHandoff, MaterialsFrozen, ProcurementFrozen, ProductionFrozen, Statuses
  <2> QED
    BY <1>1, <2>1, <2>2, AuthoredPlan DEF Revised, RevisedIn
<1>3. new.procurement = cur.procurement \/ Revised("procurement", cur, new)
  <2>1. Authored("procurement", "production", ProcurementFrozen, cs, st, new.procurement, cur.procurement)
    BY DEF Handoffs, ProcurementHandoff
  <2>2. cs \notin ProcurementFrozen \cup {"procurement"} => cur.procurement = NoPlan
    BY DEF Sound, Handoffs, ProcurementHandoff, ProcurementFrozen, ProductionFrozen, Statuses
  <2> QED
    BY <1>1, <2>1, <2>2, AuthoredPlan DEF Revised, RevisedIn
<1>4. new.production = cur.production \/ Revised("production", cur, new)
  <2>1. Authored("production", "readyForInstallation", ProductionFrozen, cs, st, new.production, cur.production)
    BY DEF Handoffs, ProductionHandoff
  <2>2. cs \notin ProductionFrozen \cup {"production"} => cur.production = NoPlan
    BY DEF Sound, Handoffs, ProductionHandoff, ProductionFrozen, Statuses
  <2> QED
    BY <1>1, <2>1, <2>2, AuthoredPlan DEF Revised, RevisedIn
<1> QED
  BY <1>2, <1>3, <1>4

\* The schedule, the completion and the closeout.
LEMMA InstallationSteps ==
    ASSUME NEW cur, cur # NoDelivery, Sound(cur), NEW new, Handoffs(cur, new),
           Status(cur) \in Statuses, Status(new) \in Statuses, Follows(Status(cur), Status(new))
    PROVE  /\ new.schedule = cur.schedule \/ Revised("schedule", cur, new)
           /\ new.completion = cur.completion \/ Revised("completion", cur, new)
           /\ new.schedule = cur.schedule \/ new.completion = cur.completion
           /\ new.closeout = cur.closeout \/ (Status(cur) = "installed" /\ Status(new) = "complete")
<1> DEFINE cs == Status(cur)
           st == Status(new)
<1>1. /\ InstallationHandoff(cur, st, new.production, new.schedule, new.completion, new.closeout)
      /\ InstallationRecords(st, new.production, new.schedule, new.completion, new.closeout)
  BY DEF Handoffs, InstallationHandoff
<1>2. InstallationRecords(cs, cur.production, cur.schedule, cur.completion, cur.closeout)
  BY DEF Sound, Handoffs, InstallationHandoff
<1>3. /\ cs \notin ProductionFrozen => new.schedule = NoPlan /\ new.completion = NoPlan
                                      /\ cur.schedule = NoPlan /\ cur.completion = NoPlan
      /\ new.closeout # NoPlan <=> st = "complete"
      /\ cur.closeout # NoPlan <=> cs = "complete"
  BY <1>1, <1>2 DEF InstallationHandoff, InstallationRecords, ProductionFrozen
<1>4. new.closeout = cur.closeout \/ (cs = "installed" /\ st = "complete")
  BY <1>1, <1>3 DEF InstallationHandoff, Follows, Transitions
<1>5. CASE cs \notin ProductionFrozen
  BY <1>3, <1>4, <1>5
<1>6. CASE cs \in {"installed", "complete"}
  BY <1>1, <1>4, <1>6 DEF InstallationHandoff
<1>7. CASE cs = "readyForInstallation"
  <2>1. cur.completion = NoPlan /\ new.completion = NoPlan
    BY <1>1, <1>2, <1>7 DEF InstallationHandoff, InstallationRecords
  <2>2. CASE st = "scheduled"
    BY <1>1, <1>4, <1>7, <2>1, <2>2 DEF InstallationHandoff
  <2>3. CASE st = cs
    <3>1. new.schedule = cur.schedule \/ Revises(new.schedule, cur.schedule)
      BY <1>1, <1>7, <2>3 DEF InstallationHandoff, Reschedules
    <3> QED
      BY <1>4, <1>7, <2>1, <2>3, <3>1 DEF Revised, RevisedIn
  <2> QED
    BY <1>7, <2>2, <2>3 DEF Follows, Transitions
<1>8. CASE cs = "scheduled"
  <2>1. CASE st = "installed"
    BY <1>1, <1>4, <1>8, <2>1 DEF InstallationHandoff
  <2>2. CASE st = cs
    <3>1. ScheduledRevision(cur, new.schedule, new.completion)
      BY <1>1, <1>8, <2>2 DEF InstallationHandoff
    <3>2. \/ new.schedule = cur.schedule /\ new.completion = cur.completion
          \/ new.schedule = cur.schedule /\ Revises(new.completion, cur.completion)
          \/ new.completion = cur.completion /\ Revises(new.schedule, cur.schedule)
      BY <3>1 DEF ScheduledRevision, Reschedules
    <3> QED
      BY <1>4, <1>8, <2>2, <3>2 DEF Revised, RevisedIn
  <2> QED
    BY <1>8, <2>1, <2>2 DEF Follows, Transitions
<1> QED
  BY <1>5, <1>6, <1>7, <1>8 DEF ProductionFrozen

-----------------------------------------------------------------------------
(* One push does one thing.                                                 *)

Kinds == {"materials", "procurement", "production", "schedule", "completion", "closeout"}

\* Documents that agree on every field are equal.
LEMMA SameDocument ==
    ASSUME NEW cur \in Documents, NEW new \in Documents,
           new.quotation = cur.quotation, new.terms = cur.terms, new.events = cur.events,
           SamePlans(cur, new), new.closeout = cur.closeout
    PROVE  new = cur
BY DEF Documents, SamePlans

\* A push that stays changes one plan: the one its event is for.
LEMMA StayingStep ==
    ASSUME NEW cur \in Documents, NEW new \in Documents, Sound(cur), Handoffs(cur, new),
           Status(cur) = Status(new), Status(new) \in Revising, SelfRevises(cur, new)
    PROVE  \E k \in Kinds \ {"closeout"} :
             Changed(cur, new) = {k} /\ RevisedIn(k, Status(new)) /\ Revises(new[k], cur[k])
<1> DEFINE st == Status(new)
<1>1. Status(cur) \in Statuses /\ Status(new) \in Statuses /\ Follows(Status(cur), Status(new))
  BY DEF Revising, Statuses, Follows
<1>2. cur # NoDelivery
  BY DeliveryConstants
<1>3. /\ new.materials = cur.materials \/ Revised("materials", cur, new)
      /\ new.procurement = cur.procurement \/ Revised("procurement", cur, new)
      /\ new.production = cur.production \/ Revised("production", cur, new)
  BY <1>1, <1>2, PlanSteps
<1>4. /\ new.schedule = cur.schedule \/ Revised("schedule", cur, new)
      /\ new.completion = cur.completion \/ Revised("completion", cur, new)
      /\ new.schedule = cur.schedule \/ new.completion = cur.completion
      /\ new.closeout = cur.closeout
  BY <1>1, <1>2, InstallationSteps DEF Revising
<1>5. ASSUME NEW k \in Kinds \ {"closeout"}, new[k] # cur[k], \A j \in Kinds \ {k} : new[j] = cur[j],
             Revised(k, cur, new)
      PROVE  Changed(cur, new) = {k} /\ RevisedIn(k, Status(new)) /\ Revises(new[k], cur[k])
  BY <1>5 DEF Changed, Revised, Kinds
<1>6. CASE st = "materialsRequired"
  <2>1. new.materials # cur.materials
    BY <1>6 DEF SelfRevises
  <2>2. \A j \in Kinds \ {"materials"} : new[j] = cur[j]
    BY <1>3, <1>4, <1>6 DEF Revised, RevisedIn, Kinds
  <2> QED
    BY <1>3, <1>5, <2>1, <2>2 DEF Kinds
<1>7. CASE st = "procurement"
  <2>1. new.procurement # cur.procurement
    BY <1>7 DEF SelfRevises
  <2>2. \A j \in Kinds \ {"procurement"} : new[j] = cur[j]
    BY <1>3, <1>4, <1>7 DEF Revised, RevisedIn, Kinds
  <2> QED
    BY <1>3, <1>5, <2>1, <2>2 DEF Kinds
<1>8. CASE st = "production"
  <2>1. new.production # cur.production
    BY <1>8 DEF SelfRevises
  <2>2. \A j \in Kinds \ {"production"} : new[j] = cur[j]
    BY <1>3, <1>4, <1>8 DEF Revised, RevisedIn, Kinds
  <2> QED
    BY <1>3, <1>5, <2>1, <2>2 DEF Kinds
<1>9. CASE st = "readyForInstallation"
  <2>1. new.schedule # cur.schedule
    BY <1>9 DEF SelfRevises
  <2>2. \A j \in Kinds \ {"schedule"} : new[j] = cur[j]
    BY <1>3, <1>4, <1>9 DEF Revised, RevisedIn, Kinds
  <2> QED
    BY <1>4, <1>5, <2>1, <2>2 DEF Kinds
<1>10. CASE st = "scheduled" /\ new.schedule # cur.schedule
  <2>1. \A j \in Kinds \ {"schedule"} : new[j] = cur[j]
    BY <1>3, <1>4, <1>10 DEF Revised, RevisedIn, Kinds
  <2> QED
    BY <1>4, <1>5, <1>10, <2>1 DEF Kinds
<1>11. CASE st = "scheduled" /\ new.schedule = cur.schedule
  <2>1. new.completion # cur.completion
    BY <1>11 DEF SelfRevises
  <2>2. \A j \in Kinds \ {"completion"} : new[j] = cur[j]
    BY <1>3, <1>4, <1>11 DEF Revised, RevisedIn, Kinds
  <2> QED
    BY <1>4, <1>5, <2>1, <2>2 DEF Kinds
<1> QED
  BY <1>6, <1>7, <1>8, <1>9, <1>10, <1>11 DEF Revising

\* An accepted change of a stored document does one thing.
LEMMA AcceptedDoesOneThing ==
    ASSUME NEW cur \in Documents, IsChain(cur.events), Sound(cur),
           NEW new \in Documents, IsChain(new.events), Handoffs(cur, new), Updates(cur, new)
    PROVE  DoesOneThing(cur, new)
<1>1. cur # NoDelivery
  BY DeliveryConstants
<1>2. Status(cur) \in Statuses /\ Status(new) \in Statuses
  BY StatusType
<1>3. \/ new.events = cur.events
      \/ new.events # cur.events /\ MayFollow(Status(cur), Status(new))
  BY OneEvent DEF Updates
<1>4. CASE new.events = cur.events
  <2>1. Status(new) = Status(cur)
    BY <1>4 DEF Status
  <2>2. new.closeout = cur.closeout
    <3>1. Follows(Status(cur), Status(new)) /\ ~(Status(cur) = "installed" /\ Status(new) = "complete")
      BY <2>1 DEF Follows
    <3> QED
      BY <1>1, <1>2, <3>1, InstallationSteps
  <2> QED
    BY <1>4, <2>2, SameDocument DEF Updates, DoesOneThing
<1>5. CASE new.events # cur.events /\ Status(cur) = Status(new) /\ Status(new) \in Revising
  <2>1. SelfRevises(cur, new)
    BY <1>5 DEF Updates
  <2> QED
    BY <1>5, <2>1, StayingStep DEF DoesOneThing, Kinds
<1>6. CASE <<Status(cur), Status(new)>> \in Transitions
  <2>1. Follows(Status(cur), Status(new)) /\ Status(cur) # Status(new)
    BY <1>6 DEF Follows, Transitions
  <2>2. /\ new.materials = cur.materials /\ new.procurement = cur.procurement
        /\ new.production = cur.production
    BY <1>1, <1>2, <2>1, PlanSteps DEF Revised
  <2>3. /\ new.schedule = cur.schedule /\ new.completion = cur.completion
        /\ new.closeout = cur.closeout \/ Status(new) = "complete"
    BY <1>1, <1>2, <2>1, InstallationSteps DEF Revised
  <2>4. Status(new) = "complete" => new.closeout # cur.closeout
    <3> SUFFICES ASSUME Status(new) = "complete" PROVE new.closeout # cur.closeout
      OBVIOUS
    <3>1. new.closeout # NoPlan
      BY DEF Handoffs, InstallationHandoff, InstallationRecords
    <3>2. cur.closeout = NoPlan
      BY <2>1 DEF Sound, Handoffs, InstallationHandoff, InstallationRecords
    <3> QED
      BY <3>1, <3>2
  <2>5. Changed(cur, new) = IF Status(new) = "complete" THEN {"closeout"} ELSE {}
    BY <2>2, <2>3, <2>4 DEF Changed
  <2> QED
    BY <1>6, <2>5 DEF DoesOneThing
<1> QED
  BY <1>3, <1>4, <1>5, <1>6 DEF MayFollow

-----------------------------------------------------------------------------
(* The history counts the revisions.                                        *)

\* The events that stay in a status are finitely many.
LEMMA StaysFinite ==
    ASSUME NEW doc \in Documents, IsChain(doc.events), NEW s
    PROVE  /\ IsFiniteSet(Stays(doc.events, s)) /\ Cardinality(Stays(doc.events, s)) \in Nat
           /\ Len(doc.events) + 1 \notin Stays(doc.events, s)
<1>1. Len(doc.events) \in Nat \ {0}
  BY StatusType
<1>2. IsFiniteSet(2..Len(doc.events))
  BY <1>1, FS_Interval
<1>3. Stays(doc.events, s) \subseteq 2..Len(doc.events)
  BY DEF Stays
<1>4. IsFiniteSet(Stays(doc.events, s))
  BY <1>2, <1>3, FS_Subset
<1>5. Len(doc.events) + 1 \notin Stays(doc.events, s)
  BY <1>1, <1>3
<1> QED
  BY <1>4, <1>5, FS_CardinalityType

\* One more event adds one to the status it stays in, and nothing to the others.
LEMMA StaysGrows ==
    ASSUME NEW cur \in Documents, IsChain(cur.events), NEW new \in Documents, IsChain(new.events),
           Len(new.events) = Len(cur.events) + 1,
           \A i \in DOMAIN cur.events : new.events[i] = cur.events[i], NEW s
    PROVE  Cardinality(Stays(new.events, s)) =
             Cardinality(Stays(cur.events, s)) + IF Status(cur) = s /\ Status(new) = s THEN 1 ELSE 0
<1> DEFINE e == cur.events
           f == new.events
           n == Len(e)
<1>1. n \in Nat \ {0} /\ Len(f) = n + 1 /\ DOMAIN e = 1..n
  BY StatusType
<1>2. \A i \in 1..n : f[i] = e[i]
  BY <1>1
<1>3. Status(cur) = f[n] /\ Status(new) = f[n + 1]
  <2>1. Status(cur) = e[n] /\ Status(new) = f[n + 1]
    BY <1>1, Zenon DEF Status
  <2> QED
    BY <1>1, <1>2, <2>1
<1> HIDE DEF e, f, n
<1>4. \A i \in 2..n : i - 1 \in 1..n /\ i \in 1..n
  BY <1>1
<1>5. \A i \in 2..n : (f[i - 1] = s /\ f[i] = s) <=> (e[i - 1] = s /\ e[i] = s)
  BY <1>2, <1>4
<1>6. 2..Len(f) = (2..n) \cup {n + 1} /\ (n + 1) - 1 = n
  BY <1>1
<1>7. Stays(f, s) = Stays(e, s) \cup IF f[n] = s /\ f[n + 1] = s THEN {n + 1} ELSE {}
  BY <1>5, <1>6 DEF Stays, n
<1>8. /\ IsFiniteSet(Stays(e, s)) /\ Cardinality(Stays(e, s)) \in Nat /\ n + 1 \notin Stays(e, s)
  BY StaysFinite DEF e, n
<1>9. CASE f[n] = s /\ f[n + 1] = s
  <2>1. Stays(f, s) = Stays(e, s) \cup {n + 1}
    BY <1>7, <1>9
  <2>2. Cardinality(Stays(f, s)) = Cardinality(Stays(e, s)) + 1
    BY <1>8, <2>1, FS_AddElement, ZenonT(30)
  <2> QED
    BY <1>3, <1>9, <2>2 DEF e, f
<1>10. CASE ~(f[n] = s /\ f[n + 1] = s)
  <2>1. Stays(f, s) = Stays(e, s)
    BY <1>7, <1>10
  <2> QED
    BY <1>3, <1>8, <1>10, <2>1 DEF e, f
<1> QED
  BY <1>9, <1>10

\* What HistoryAccountsForPlans says of one document.
N(doc, s) == Cardinality(Stays(doc.events, s))
Accounted(doc) ==
    /\ Rev(doc.materials) = N(doc, "materialsRequired")
    /\ Rev(doc.procurement) = N(doc, "procurement")
    /\ Rev(doc.production) = N(doc, "production")
    /\ Rev(doc.schedule) + Rev(doc.completion) = N(doc, "readyForInstallation") + N(doc, "scheduled")

\* The revision of a plan is a natural number, and a new revision is the next.
LEMMA RevTypes ==
    ASSUME NEW doc \in Documents
    PROVE  /\ Rev(doc.materials) \in Nat /\ Rev(doc.procurement) \in Nat /\ Rev(doc.production) \in Nat
           /\ Rev(doc.schedule) \in Nat /\ Rev(doc.completion) \in Nat
<1>1. Revisions \subseteq Nat
  BY DeliveryConstants DEF Revisions
<1>2. /\ doc.materials # NoPlan => doc.materials \in MaterialsPlans
      /\ doc.procurement # NoPlan => doc.procurement \in ProcurementPlans
      /\ doc.production # NoPlan => doc.production \in ProductionPlans
      /\ doc.schedule # NoPlan => doc.schedule \in Schedules
      /\ doc.completion # NoPlan => doc.completion \in Completions
  BY DEF Documents, Opt
<1> QED
  BY <1>1, <1>2, ZenonT(30) DEF Rev, MaterialsPlans, ProcurementPlans, ProductionPlans, Schedules, Completions

LEMMA NextRevision ==
    ASSUME NEW new, NEW old, Rev(old) \in Nat, Revises(new, old)
    PROVE  Rev(new) = Rev(old) + 1
BY DEF Rev, Revises

\* A change keeps the account.
LEMMA AcceptedKeepsAccount ==
    ASSUME NEW cur \in Documents, IsChain(cur.events), Accounted(cur),
           NEW new \in Documents, IsChain(new.events), Continues(new.events, cur), DoesOneThing(cur, new),
           new.events = cur.events => new = cur
    PROVE  Accounted(new)
<1>1. CASE new.events = cur.events
  BY <1>1
<1>2. CASE new.events # cur.events
  <2>1. /\ Len(new.events) = Len(cur.events) + 1
        /\ \A i \in DOMAIN cur.events : new.events[i] = cur.events[i]
        /\ MayFollow(Status(cur), Status(new))
    BY <1>2, OneEvent
  <2>2. \A s : N(new, s) = N(cur, s) + IF Status(cur) = s /\ Status(new) = s THEN 1 ELSE 0
    BY <2>1, StaysGrows, ZenonT(30) DEF N
  <2>3. \A s : N(cur, s) \in Nat
    BY StaysFinite DEF N
  <2>4. /\ Rev(cur.materials) \in Nat /\ Rev(cur.procurement) \in Nat /\ Rev(cur.production) \in Nat
        /\ Rev(cur.schedule) \in Nat /\ Rev(cur.completion) \in Nat
    BY RevTypes
  <2>5. CASE <<Status(cur), Status(new)>> \in Transitions
    <3>1. Status(cur) # Status(new)
      BY <2>5 DEF Transitions
    <3>2. \A s : N(new, s) = N(cur, s)
      BY <2>2, <2>3, <3>1
    <3>3. ~ \E k \in Kinds \ {"closeout"} : k \in Changed(cur, new)
      BY <3>1, <1>2 DEF DoesOneThing, Kinds
    <3>4. /\ new.materials = cur.materials /\ new.procurement = cur.procurement
          /\ new.production = cur.production /\ new.schedule = cur.schedule /\ new.completion = cur.completion
      BY <3>3 DEF Kinds, Changed
    <3> QED
      BY <3>2, <3>4 DEF Accounted
  <2>6. CASE Status(cur) = Status(new)
    <3>1. PICK k \in Kinds \ {"closeout"} :
            Changed(cur, new) = {k} /\ RevisedIn(k, Status(new)) /\ Revises(new[k], cur[k])
      <4>1. <<Status(cur), Status(new)>> \notin Transitions
        BY <2>6 DEF Transitions
      <4> QED
        BY <1>2, <4>1 DEF DoesOneThing, Kinds
    <3>2. \A j \in Kinds \ {k} : new[j] = cur[j]
      BY <3>1 DEF Changed, Kinds
    <3>3. \A s : N(new, s) = N(cur, s) + IF Status(new) = s THEN 1 ELSE 0
      BY <2>2, <2>6
    <3>4. CASE k = "materials"
      <4>1. Status(new) = "materialsRequired" /\ Rev(new.materials) = Rev(cur.materials) + 1
        BY <2>4, <3>1, <3>4, NextRevision DEF RevisedIn
      <4>2. /\ new.procurement = cur.procurement /\ new.production = cur.production
            /\ new.schedule = cur.schedule /\ new.completion = cur.completion
        BY <3>2, <3>4 DEF Kinds
      <4> QED
        BY <2>3, <3>3, <4>1, <4>2 DEF Accounted
    <3>5. CASE k = "procurement"
      <4>1. Status(new) = "procurement" /\ Rev(new.procurement) = Rev(cur.procurement) + 1
        BY <2>4, <3>1, <3>5, NextRevision DEF RevisedIn
      <4>2. /\ new.materials = cur.materials /\ new.production = cur.production
            /\ new.schedule = cur.schedule /\ new.completion = cur.completion
        BY <3>2, <3>5 DEF Kinds
      <4> QED
        BY <2>3, <3>3, <4>1, <4>2 DEF Accounted
    <3>6. CASE k = "production"
      <4>1. Status(new) = "production" /\ Rev(new.production) = Rev(cur.production) + 1
        BY <2>4, <3>1, <3>6, NextRevision DEF RevisedIn
      <4>2. /\ new.materials = cur.materials /\ new.procurement = cur.procurement
            /\ new.schedule = cur.schedule /\ new.completion = cur.completion
        BY <3>2, <3>6 DEF Kinds
      <4> QED
        BY <2>3, <3>3, <4>1, <4>2 DEF Accounted
    <3>7. CASE k = "schedule"
      <4>1. Status(new) \in {"readyForInstallation", "scheduled"} /\ Rev(new.schedule) = Rev(cur.schedule) + 1
        BY <2>4, <3>1, <3>7, NextRevision DEF RevisedIn
      <4>2. /\ new.materials = cur.materials /\ new.procurement = cur.procurement
            /\ new.production = cur.production /\ new.completion = cur.completion
        BY <3>2, <3>7 DEF Kinds
      <4> QED
        BY <2>3, <2>4, <3>3, <4>1, <4>2 DEF Accounted
    <3>8. CASE k = "completion"
      <4>1. Status(new) = "scheduled" /\ Rev(new.completion) = Rev(cur.completion) + 1
        BY <2>4, <3>1, <3>8, NextRevision DEF RevisedIn
      <4>2. /\ new.materials = cur.materials /\ new.procurement = cur.procurement
            /\ new.production = cur.production /\ new.schedule = cur.schedule
        BY <3>2, <3>8 DEF Kinds
      <4> QED
        BY <2>3, <2>4, <3>3, <4>1, <4>2 DEF Accounted
    <3> QED
      BY <3>4, <3>5, <3>6, <3>7, <3>8 DEF Kinds
  <2> QED
    BY <2>1, <2>5, <2>6 DEF MayFollow
<1> QED
  BY <1>1, <1>2

\* A delivery created with its first event has no plan and no revision.
LEMMA CreatedIsAccounted ==
    ASSUME NEW new \in Documents, IsChain(new.events), Sound(new), Len(new.events) = 1
    PROVE  Accounted(new)
<1>1. Status(new) = "engineeringReview"
  BY DEF Status, IsChain
<1>2. /\ new.materials = NoPlan /\ new.procurement = NoPlan /\ new.production = NoPlan
      /\ new.schedule = NoPlan /\ new.completion = NoPlan
  BY <1>1 DEF Sound, Handoffs, MaterialsHandoff, ProcurementHandoff, ProductionHandoff,
              InstallationHandoff, InstallationRecords, ProductionFrozen
<1>3. \A s : Stays(new.events, s) = {}
  BY DEF Stays
<1>4. \A s : N(new, s) = 0
  BY <1>3, FS_EmptySet DEF N
<1> QED
  BY <1>2, <1>4 DEF Accounted, Rev

-----------------------------------------------------------------------------
(* The invariant.                                                           *)

Inv ==
    /\ TypeOK /\ DeliversWhatWasApproved
    /\ \A d \in Deliveries : delivery[d] # NoDelivery => Sound(delivery[d])
    /\ \A d \in Deliveries \ ahead : delivery[d] # NoDelivery => Accounted(delivery[d])

\* The histories a push may come with are histories of statuses.
LEMMA ProposedHistories ==
    ASSUME NEW cur \in Documents \cup {NoDelivery}, NEW h \in Proposals(cur)
    PROVE  h \in Seq(Statuses)
<1>1. CASE h \in CreationHistories
  BY <1>1, DeliveryConstants
<1>2. CASE cur # NoDelivery /\ (h = cur.events \/ \E s \in Statuses : h = Append(cur.events, s))
  <2>1. cur.events \in Seq(Statuses)
    BY <1>2 DEF Documents
  <2>2. CASE h = cur.events
    BY <2>1, <2>2
  <2>3. ASSUME NEW s \in Statuses, h = Append(cur.events, s) PROVE h \in Seq(Statuses)
    BY <2>1, <2>3
  <2> QED
    BY <1>2, <2>2, <2>3
<1> QED
  BY <1>1, <1>2 DEF Proposals

\* What an accepted push does, in one place for the steps below.
LEMMA PushFacts ==
    ASSUME TypeOK, NEW d \in Deliveries, NEW q \in Quotations, NEW t \in Terms, PushDelivery(d, q, t)
    PROVE  \E new \in Documents :
             /\ IsChain(new.events) /\ quote[q] = t /\ new.quotation = q /\ new.terms = t
             /\ Handoffs(delivery[d], new)
             /\ delivery[d] # NoDelivery => Updates(delivery[d], new)
             /\ delivery' = [delivery EXCEPT ![d] = new]
             /\ ahead' = IF delivery[d] = NoDelivery /\ Len(new.events) > 1 THEN ahead \cup {d} ELSE ahead
             /\ UNCHANGED <<quote, evidence, withdrawn>>
<1> DEFINE cur == delivery[d]
           Doc(h, m, p, r, s, c, x) ==
             [quotation |-> q, terms |-> t, events |-> h, materials |-> m, procurement |-> p,
              production |-> r, schedule |-> s, completion |-> c, closeout |-> x]
           Accepted(h, m, p, r, s, c, x) ==
             /\ InstallationHandoff(cur, h[Len(h)], r, s, c, x)
             /\ cur # NoDelivery => Updates(cur, Doc(h, m, p, r, s, c, x))
             /\ EvidenceAuthority(cur, Doc(h, m, p, r, s, c, x))
             /\ delivery' = [delivery EXCEPT ![d] = Doc(h, m, p, r, s, c, x)]
             /\ ahead' = IF cur = NoDelivery /\ Len(h) > 1 THEN ahead \cup {d} ELSE ahead
<1>1. PICK h \in Proposals(cur) :
        /\ IsChain(h) /\ quote[q] = t
        /\ \E m \in Opt(MaterialsPlans) : MaterialsHandoff(cur, h[Len(h)], m) /\
           \E p \in Opt(ProcurementPlans) : ProcurementHandoff(cur, h[Len(h)], m, p) /\
           \E r \in Opt(ProductionPlans) : ProductionHandoff(cur, h[Len(h)], p, r) /\
           \E s \in Opt(Schedules), c \in Opt(Completions), x \in Opt(Closeouts) : Accepted(h, m, p, r, s, c, x)
        /\ UNCHANGED <<quote, evidence, withdrawn>>
  BY Zenon DEF PushDelivery
<1> HIDE DEF Accepted
<1>2. PICK m \in Opt(MaterialsPlans) : MaterialsHandoff(cur, h[Len(h)], m) /\
           \E p \in Opt(ProcurementPlans) : ProcurementHandoff(cur, h[Len(h)], m, p) /\
           \E r \in Opt(ProductionPlans) : ProductionHandoff(cur, h[Len(h)], p, r) /\
           \E s \in Opt(Schedules), c \in Opt(Completions), x \in Opt(Closeouts) : Accepted(h, m, p, r, s, c, x)
  BY <1>1, Zenon
<1>3. PICK p \in Opt(ProcurementPlans) : ProcurementHandoff(cur, h[Len(h)], m, p) /\
           \E r \in Opt(ProductionPlans) : ProductionHandoff(cur, h[Len(h)], p, r) /\
           \E s \in Opt(Schedules), c \in Opt(Completions), x \in Opt(Closeouts) : Accepted(h, m, p, r, s, c, x)
  BY <1>2, Zenon
<1>4. PICK r \in Opt(ProductionPlans) : ProductionHandoff(cur, h[Len(h)], p, r) /\
           \E s \in Opt(Schedules), c \in Opt(Completions), x \in Opt(Closeouts) : Accepted(h, m, p, r, s, c, x)
  BY <1>3, Zenon
<1>5. PICK s \in Opt(Schedules), c \in Opt(Completions), x \in Opt(Closeouts) : Accepted(h, m, p, r, s, c, x)
  BY <1>4, Zenon
<1> DEFINE new == Doc(h, m, p, r, s, c, x)
<1>6. cur \in Documents \cup {NoDelivery}
  BY DEF TypeOK
<1>7. h \in Seq(Statuses)
  BY <1>6, ProposedHistories
<1>8. new \in Documents
  BY <1>7 DEF Documents
<1>9. /\ new.quotation = q /\ new.terms = t /\ new.events = h /\ new.materials = m /\ new.procurement = p
      /\ new.production = r /\ new.schedule = s /\ new.completion = c /\ new.closeout = x
  OBVIOUS
<1>10. /\ cur # NoDelivery => Updates(cur, new)
      /\ delivery' = [delivery EXCEPT ![d] = new]
      /\ InstallationHandoff(cur, h[Len(h)], r, s, c, x)
      /\ ahead' = IF cur = NoDelivery /\ Len(h) > 1 THEN ahead \cup {d} ELSE ahead
  BY <1>5, Zenon DEF Accepted
<1> HIDE DEF new, Doc
<1>11. Status(new) = h[Len(h)]
  BY <1>9, Zenon DEF Status
<1>12. Handoffs(cur, new)
  BY <1>2, <1>3, <1>4, <1>9, <1>10, <1>11, Zenon DEF Handoffs
<1>13. ahead' = IF cur = NoDelivery /\ Len(new.events) > 1 THEN ahead \cup {d} ELSE ahead
  BY <1>9, <1>10, Zenon
<1> QED
  BY <1>1, <1>8, <1>9, <1>10, <1>12, <1>13, Zenon

LEMMA PushPreserves ==
    ASSUME Inv, NEW d \in Deliveries, NEW q \in Quotations, NEW t \in Terms, PushDelivery(d, q, t)
    PROVE  /\ Inv'
           /\ \A x \in Deliveries : delivery[x] # NoDelivery => DoesOneThing(delivery[x], delivery'[x])
<1> DEFINE cur == delivery[d]
<1>1. PICK new \in Documents :
        /\ IsChain(new.events) /\ quote[q] = t /\ new.quotation = q /\ new.terms = t
        /\ Handoffs(delivery[d], new)
        /\ delivery[d] # NoDelivery => Updates(delivery[d], new)
        /\ delivery' = [delivery EXCEPT ![d] = new]
        /\ ahead' = IF delivery[d] = NoDelivery /\ Len(new.events) > 1 THEN ahead \cup {d} ELSE ahead
        /\ UNCHANGED <<quote, evidence, withdrawn>>
  BY PushFacts DEF Inv
<1>2. delivery \in [Deliveries -> Documents \cup {NoDelivery}]
  BY DEF Inv, TypeOK
<1>3. /\ delivery' \in [Deliveries -> Documents \cup {NoDelivery}]
      /\ \A x \in Deliveries : delivery'[x] = IF x = d THEN new ELSE delivery[x]
  BY <1>1, <1>2
<1>4. Sound(new)
  BY <1>1, AcceptedIsSound
<1>5. cur # NoDelivery => cur \in Documents /\ IsChain(cur.events) /\ Sound(cur)
  BY <1>2 DEF Inv, TypeOK
<1>6. cur # NoDelivery => DoesOneThing(cur, new)
  BY <1>1, <1>5, AcceptedDoesOneThing
<1>7. cur # NoDelivery /\ new.events = cur.events => new = cur
  <2> SUFFICES ASSUME cur # NoDelivery, new.events = cur.events PROVE new = cur
    OBVIOUS
  <2>1. SamePlans(cur, new) /\ new.quotation = cur.quotation /\ new.terms = cur.terms
    BY <1>1 DEF Updates
  <2>2. Status(new) = Status(cur)
    BY DEF Status
  <2>3. new.closeout = cur.closeout
    <3>1. /\ Follows(Status(cur), Status(new)) /\ Status(cur) \in Statuses /\ Status(new) \in Statuses
          /\ ~(Status(cur) = "installed" /\ Status(new) = "complete")
      BY <1>1, <1>5, <2>2, StatusType DEF Follows
    <3> QED
      BY <1>1, <1>5, <3>1, InstallationSteps
  <2> QED
    BY <1>5, <2>1, <2>3, SameDocument
<1>8. TypeOK'
  <2>1. \A x \in Deliveries : delivery'[x] # NoDelivery => IsChain(delivery'[x].events)
    BY <1>1, <1>3 DEF Inv, TypeOK
  <2>2. ahead' \subseteq Deliveries
    BY <1>1 DEF Inv, TypeOK
  <2> QED
    BY <1>1, <1>3, <2>1, <2>2 DEF Inv, TypeOK
<1>9. DeliversWhatWasApproved'
  <2> SUFFICES ASSUME NEW x \in Deliveries, delivery'[x] # NoDelivery
               PROVE  delivery'[x].quotation \in withdrawn \/ quote[delivery'[x].quotation] = delivery'[x].terms
    BY <1>1, Zenon DEF DeliversWhatWasApproved
  <2>1. CASE x = d
    BY <1>1, <1>3, <2>1, Zenon
  <2>2. CASE x # d
    BY <1>3, <2>2 DEF Inv, DeliversWhatWasApproved
  <2> QED
    BY <2>1, <2>2
<1>10. \A x \in Deliveries : delivery'[x] # NoDelivery => Sound(delivery'[x])
  BY <1>3, <1>4 DEF Inv
<1>11. ASSUME NEW x \in Deliveries \ ahead', delivery'[x] # NoDelivery
       PROVE  Accounted(delivery'[x])
  <2>1. x \notin ahead
    BY <1>1, <1>11
  <2>2. CASE x # d
    BY <1>3, <1>11, <2>1, <2>2 DEF Inv
  <2>3. CASE x = d /\ cur # NoDelivery
    <3>1. Accounted(cur)
      BY <2>1, <2>3 DEF Inv
    <3>2. Continues(new.events, cur)
      BY <1>1, <2>3 DEF Updates
    <3>3. Accounted(new)
      BY <1>1, <1>5, <1>6, <1>7, <2>3, <3>1, <3>2, AcceptedKeepsAccount
    <3> QED
      BY <1>3, <2>3, <3>3
  <2>4. CASE x = d /\ cur = NoDelivery
    <3>1. ~(Len(new.events) > 1)
      <4>1. ahead' = IF Len(new.events) > 1 THEN ahead \cup {d} ELSE ahead
        BY <1>1, <2>4, Zenon
      <4>2. d \notin ahead'
        BY <1>11, <2>4, Zenon
      <4> QED
        BY <4>1, <4>2, Zenon
    <3>2. Len(new.events) \in Nat \ {0}
      BY <1>1, StatusType
    <3>3. Len(new.events) = 1
      <4>1. \A n \in Nat \ {0} : ~(n > 1) => n = 1
        BY SMT
      <4> QED
        BY <3>1, <3>2, <4>1, Zenon
    <3>4. Accounted(new)
      BY <1>1, <1>4, <3>3, CreatedIsAccounted
    <3> QED
      BY <1>3, <2>4, <3>4
  <2> QED
    BY <2>2, <2>3, <2>4
<1>12. ASSUME NEW x \in Deliveries, delivery[x] # NoDelivery
       PROVE  DoesOneThing(delivery[x], delivery'[x])
  <2>1. CASE x = d
    BY <1>3, <1>6, <1>12, <2>1
  <2>2. CASE x # d
    BY <1>3, <2>2 DEF DoesOneThing
  <2> QED
    BY <2>1, <2>2
<1> QED
  BY <1>8, <1>9, <1>10, <1>11, <1>12, Zenon DEF Inv

\* The steps of quotations and of evidence: a delivery whose quotation was not deleted keeps the
\* terms, as an approval only follows a deletion.
LEMMA OthersPreserve ==
    ASSUME Inv, QuotationStep \/ EvidenceStep
    PROVE  Inv' /\ delivery' = delivery
<1>1. delivery' = delivery /\ ahead' = ahead
  BY DEF QuotationStep, EvidenceStep
<1>2. /\ quote' \in [Quotations -> Terms \cup {NoTerms}]
      /\ withdrawn \subseteq withdrawn' /\ withdrawn' \subseteq Quotations
      /\ \A q \in Quotations : quote[q] \in Terms => q \in withdrawn' \/ quote'[q] = quote[q]
  <2>1. CASE EvidenceStep
    BY <2>1 DEF EvidenceStep, Inv, TypeOK
  <2>2. CASE QuotationStep
    <3>1. quote \in [Quotations -> Terms \cup {NoTerms}] /\ withdrawn \subseteq Quotations
      BY DEF Inv, TypeOK
    <3>2. PICK q \in Quotations : Withdraw(q) \/ \E t \in Terms : Approve(q, t)
      BY <2>2 DEF QuotationStep, NextHandoff
    <3>3. CASE Withdraw(q)
      BY <2>2, <3>1, <3>3 DEF Withdraw, QuotationStep
    <3>4. ASSUME NEW t \in Terms, Approve(q, t)
          PROVE  /\ quote' \in [Quotations -> Terms \cup {NoTerms}]
                 /\ withdrawn \subseteq withdrawn' /\ withdrawn' \subseteq Quotations
                 /\ \A r \in Quotations : quote[r] \in Terms => quote'[r] = quote[r]
      BY <2>2, <3>1, <3>4, HandoffConstants DEF Approve, QuotationStep
    <3> QED
      BY <3>2, <3>3, <3>4
  <2> QED
    BY <2>1, <2>2
<1>3. evidence' \subseteq Evidence
  BY DEF QuotationStep, EvidenceStep, Inv, TypeOK
<1>4. TypeOK'
  BY <1>1, <1>2, <1>3, Zenon DEF Inv, TypeOK
<1>5. DeliversWhatWasApproved'
  <2> SUFFICES ASSUME NEW d \in Deliveries, delivery[d] # NoDelivery, delivery[d].quotation \notin withdrawn'
               PROVE  quote'[delivery[d].quotation] = delivery[d].terms
    BY <1>1, Zenon DEF DeliversWhatWasApproved
  <2>1. delivery[d] \in Documents
    BY DEF Inv, TypeOK
  <2>2. delivery[d].quotation \in Quotations /\ delivery[d].terms \in Terms
    BY <2>1 DEF Documents
  <2>3. quote[delivery[d].quotation] = delivery[d].terms
    BY <1>2 DEF Inv, DeliversWhatWasApproved
  <2> QED
    BY <1>2, <2>2, <2>3
<1> QED
  BY <1>1, <1>4, <1>5, Zenon DEF Inv

LEMMA InitInv == Init => Inv
BY DEF Init, InitHandoff, Inv, TypeOK, DeliversWhatWasApproved

LEMMA NextInv ==
    Inv /\ [Next]_vars =>
        Inv' /\ \A d \in Deliveries : delivery[d] # NoDelivery => DoesOneThing(delivery[d], delivery'[d])
<1> SUFFICES ASSUME Inv, [Next]_vars
             PROVE  Inv' /\ \A d \in Deliveries :
                              delivery[d] # NoDelivery => DoesOneThing(delivery[d], delivery'[d])
  OBVIOUS
<1>1. delivery' = delivery => \A d \in Deliveries : DoesOneThing(delivery[d], delivery'[d])
  BY DEF DoesOneThing
<1>2. CASE UNCHANGED vars
  <2>1. Inv'
    BY <1>2 DEF vars, Inv, TypeOK, DeliversWhatWasApproved
  <2> QED
    BY <1>1, <1>2, <2>1 DEF vars
<1>3. CASE \E d \in Deliveries, q \in Quotations, t \in Terms : PushDelivery(d, q, t)
  BY <1>3, PushPreserves, Zenon
<1>4. CASE QuotationStep \/ EvidenceStep
  BY <1>1, <1>4, OthersPreserve, Zenon
<1> QED
  BY <1>2, <1>3, <1>4 DEF Next

LEMMA Invariance == Spec => []Inv
BY InitInv, NextInv, PTL DEF Spec

-----------------------------------------------------------------------------
(* Theorems.                                                                *)

\* Every stored delivery is well formed and its history is a chain of transitions, whatever is
\* pushed.
THEOREM DeliveryTypeCorrect == Spec => []TypeOK
BY Invariance, PTL DEF Inv

\* A delivery has the terms of its quotation until the quotation is deleted: the comparison
\* authorize_delivery_execution makes at each push holds between the pushes as well.
THEOREM DeliveredAsApproved == Spec => []DeliversWhatWasApproved
BY Invariance, PTL DEF Inv

\* For a delivery created with its first event, the number of events that stay in a status is
\* the number of revisions saved there: no plan changes off the record.
THEOREM HistoryIsComplete == Spec => []HistoryAccountsForPlans
<1>1. Inv => HistoryAccountsForPlans
  BY Zenon DEF Inv, HistoryAccountsForPlans, Accounted, N
<1> QED
  BY <1>1, Invariance, PTL

\* The six validators together leave a push of a stored delivery one thing to do: nothing, the
\* next status with every plan as saved, or one revision of the one plan of its status.
THEOREM OneThingPerPush == Spec => EachPushDoesOneThing
<1>1. Inv /\ [Next]_vars =>
        [\A d \in Deliveries : delivery[d] # NoDelivery => DoesOneThing(delivery[d], delivery'[d])]_vars
  BY NextInv
<1> QED
  BY <1>1, Invariance, PTL DEF Spec, EachPushDoesOneThing
=============================================================================
