----------------------------- MODULE Ownership -----------------------------
(* Canonical ownership in one organization: what a push may create, change, *)
(* delete and restore (authorize_record, apply_ownership_plan), the scope a *)
(* creator is granted, and what a pull shows (record_is_visible and the     *)
(* prefetching resolve_visible).                                            *)
(*                                                                          *)
(* Pushes of an organization are serialized by its row lock, so there is    *)
(* one push at a time; its scope was read when its principal authenticated, *)
(* and the administrator may change the membership at any moment.  A check  *)
(* that depends on nothing but the payload and the capabilities may refuse  *)
(* any record, which changes nothing and is no step.                        *)
EXTENDS FiniteSets, Naturals

CONSTANTS
    Entities,     \* names of records
    Kind,         \* the type of each
    Authorities,  \* what an administrator may set a membership to
    Pages,        \* sets of records a pull may scan together
    NoRow         \* no row, no parent, no push

ChildKinds ==
    {"measurement", "evidence", "customer_requirement", "configuration",
     "configuration_version", "blocker", "item_audit_event"}
AppendOnly == {"item_audit_event", "configuration_version"}
ProjectChildKinds == {"quotation", "delivery_execution"}
Kinds == {"customer", "project", "project_sector", "item"} \cup ChildKinds \cup ProjectChildKinds

Scopes == [allC : BOOLEAN, allP : BOOLEAN, cs : SUBSET Entities, ps : SUBSET Entities]
Memberships ==
    [active : BOOLEAN, allC : BOOLEAN, allP : BOOLEAN, cs : SUBSET Entities, ps : SUBSET Entities]

Owners == Entities \cup {NoRow}
Rows == [up : Owners, proj : Owners, live : BOOLEAN]
Records == [live : BOOLEAN, refs : SUBSET Entities]

ASSUME OwnershipConstants ==
    /\ Kind \in [Entities -> Kinds] /\ NoRow \notin Entities
    /\ Authorities \subseteq Memberships /\ Authorities # {}
    /\ Pages \subseteq SUBSET Entities /\ NoRow \notin Rows \cup Records \cup Scopes

Of(k) == {e \in Entities : Kind[e] = k}
Children == {e \in Entities : Kind[e] \in ChildKinds}
ProjectChildren == {e \in Entities : Kind[e] \in ProjectChildKinds}

VARIABLES
    canon,    \* canonical rows: the owner, the project, and whether it is active
    entity,   \* sync_entities: whether active, and the evidence the payload lists
    member,   \* the membership of the principal that pushes and pulls
    scope     \* EffectiveScope of the push in progress, or NoRow

vars == <<canon, entity, member, scope>>

TypeOK ==
    /\ canon \in [Entities -> Rows \cup {NoRow}]
    /\ entity \in [Entities -> Records \cup {NoRow}]
    /\ member \in Memberships /\ scope \in Scopes \cup {NoRow}

-----------------------------------------------------------------------------
(* Scope.                                                                   *)

CanAccessCustomer(s, c) == s.allC \/ c \in s.cs
CanAccessProject(s, p, c) == CanAccessCustomer(s, c) /\ (s.allP \/ p \in s.ps)

ScopeOf(m) == [allC |-> m.allC, allP |-> m.allP, cs |-> m.cs, ps |-> m.ps]

Known(e) == canon[e] # NoRow
Live(e) == Known(e) /\ canon[e].live

\* _project_for_scope
ProjectForScope(p) == Live(p) /\ CanAccessProject(scope, p, canon[p].up)

\* Mutant: a sector of another project will do.
ActiveSector(s, p) == Live(s)

\* The sector of an item is active and belongs to the item's project.
SectorOf(s, p) == Live(s) /\ canon[s].up = p

\* _item_for_scope
ItemForScope(i) ==
    Live(i) /\ ProjectForScope(canon[i].proj) /\ SectorOf(canon[i].up, canon[i].proj)

-----------------------------------------------------------------------------
(* Deletion rules.                                                          *)

CustomerDeleteSafe(c) == \A p \in Of("project") : Live(p) => canon[p].up # c

\* Mutant: quotations and deliveries are forgotten.
SectorsAndItemsGone(p) ==
    /\ \A s \in Of("project_sector") : Live(s) => canon[s].up # p
    /\ \A i \in Of("item") : Live(i) => canon[i].proj # p

ProjectDeleteSafe(p) ==
    /\ \A s \in Of("project_sector") : Live(s) => canon[s].up # p
    /\ \A i \in Of("item") : Live(i) => canon[i].proj # p
    /\ \A x \in ProjectChildren : Live(x) => canon[x].up # p

SectorDeleteSafe(s) == \A i \in Of("item") : Live(i) => canon[i].up # s

\* _ensure_item_delete_safe passes over audit events, which the push itself looks for.
ItemDeleteSafe(i) ==
    \A x \in Children \ Of("item_audit_event") : Live(x) => canon[x].up # i

\* _item_has_immutable_audit_history
HasAuditHistory(i) == \E x \in Of("item_audit_event") : Live(x) /\ canon[x].up = i

\* Mutant: only measurements are searched.
NotMeasured(x) ==
    \A e \in Of("measurement") : entity[e] # NoRow => ~(entity[e].live /\ x \in entity[e].refs)

\* No record with an evidence-reference array lists the evidence.
EvidenceDeleteSafe(x) ==
    \A e \in Of("measurement") \cup Of("customer_requirement") :
        entity[e] # NoRow => ~(entity[e].live /\ x \in entity[e].refs)

-----------------------------------------------------------------------------
(* Records of a push.                                                       *)

\* A record that creates: neither table knows the name, and it is no tombstone.
Creates(e, del) == scope # NoRow /\ ~Known(e) /\ entity[e] = NoRow /\ ~del
Changes(e) == scope # NoRow /\ Known(e)

\* A parent in the payload of a change is the canonical one, or left out.
Keeps(supplied, owned) == supplied \in {NoRow, owned}

\* apply_ownership_plan and the entity row, in one transaction.
Store(e, row, refs) ==
    /\ canon' = [canon EXCEPT ![e] = row]
    /\ entity' = [entity EXCEPT ![e] =
                    [live |-> row.live, refs |-> IF row.live THEN refs ELSE {}]]

\* Mutant: the tombstone does not reach the canonical row.
UpdateRecordOnly(e, del, refs) ==
    /\ UNCHANGED canon
    /\ entity' = [entity EXCEPT ![e] = [live |-> ~del, refs |-> IF del THEN {} ELSE refs]]

\* A change keeps the owner.
Update(e, del, refs) == Store(e, [canon[e] EXCEPT !.live = ~del], refs)

\* Mutant: the push in progress does not learn of the customer or project it created.
GrantMemberOnly(e, row, cs, ps) ==
    /\ canon' = [canon EXCEPT ![e] = row] /\ UNCHANGED scope
    /\ \/ /\ member.active
          /\ entity' = [entity EXCEPT ![e] = [live |-> TRUE, refs |-> {}]]
          /\ member' = [member EXCEPT !.cs = IF member.allC THEN @ ELSE @ \cup cs,
                                      !.ps = IF member.allP THEN @ ELSE @ \cup ps]
       \/ ~member.active /\ UNCHANGED <<entity, member>>

\* The canonical row and the push's own scope, then _grant_created_scope.  When that finds the
\* membership inactive the record is rejected, and the row stays in the transaction.
StoreAndGrant(e, row, cs, ps) ==
    /\ canon' = [canon EXCEPT ![e] = row]
    /\ scope' = [scope EXCEPT !.cs = @ \cup cs, !.ps = @ \cup ps]
    /\ \/ /\ member.active
          /\ entity' = [entity EXCEPT ![e] = [live |-> TRUE, refs |-> {}]]
          /\ member' = [member EXCEPT !.cs = IF member.allC THEN @ ELSE @ \cup cs,
                                      !.ps = IF member.allP THEN @ ELSE @ \cup ps]
       \/ ~member.active /\ UNCHANGED <<entity, member>>

PushCustomer(c, del) ==
    \/ /\ Creates(c, del)
       /\ StoreAndGrant(c, [up |-> NoRow, proj |-> NoRow, live |-> TRUE], {c}, {})
    \/ /\ Changes(c) /\ CanAccessCustomer(scope, c)
       /\ del => CustomerDeleteSafe(c)
       /\ Update(c, del, {}) /\ UNCHANGED <<member, scope>>

PushProject(p, c, del) ==
    \/ /\ Creates(p, del) /\ c \in Of("customer")
       /\ Live(c) /\ CanAccessCustomer(scope, c)
       /\ StoreAndGrant(p, [up |-> c, proj |-> p, live |-> TRUE], {}, {p})
    \/ /\ Changes(p) /\ CanAccessProject(scope, p, canon[p].up) /\ Keeps(c, canon[p].up)
       /\ del => ProjectDeleteSafe(p)
       /\ Update(p, del, {}) /\ UNCHANGED <<member, scope>>

PushSector(s, p, del) ==
    /\ \/ /\ Creates(s, del) /\ p \in Of("project") /\ ProjectForScope(p)
          /\ Store(s, [up |-> p, proj |-> p, live |-> TRUE], {})
       \/ /\ Changes(s) /\ ProjectForScope(canon[s].up) /\ Keeps(p, canon[s].up)
          /\ del => SectorDeleteSafe(s)
          /\ Update(s, del, {})
    /\ UNCHANGED <<member, scope>>

PushItem(i, p, s, del) ==
    /\ \/ /\ Creates(i, del) /\ p \in Of("project") /\ s \in Of("project_sector")
          /\ ProjectForScope(p) /\ SectorOf(s, p)
          /\ Store(i, [up |-> s, proj |-> p, live |-> TRUE], {})
       \/ /\ Changes(i) /\ ProjectForScope(canon[i].proj) /\ SectorOf(canon[i].up, canon[i].proj)
          /\ Keeps(p, canon[i].proj) /\ Keeps(s, canon[i].up)
          /\ del => ItemDeleteSafe(i) /\ ~HasAuditHistory(i)
          /\ Update(i, del, {})
    /\ UNCHANGED <<member, scope>>

\* What the payload of an item's child refers to by name.
RefKinds(k) ==
    CASE k \in {"measurement", "customer_requirement"} -> {"evidence"}
      [] k = "configuration" -> {"customer_requirement", "blocker"}
      [] k = "configuration_version" -> {"configuration", "customer_requirement", "blocker"}
      [] OTHER -> {}

\* _require_item_references: active children of the same item.
ItemReferences(i, refs) == \A r \in refs : Live(r) /\ canon[r].up = i

ChildRefs(x) == {r \in Entities : Kind[r] \in RefKinds(Kind[x])}

PushChild(x, i, refs, del) ==
    /\ del => refs = {} /\ Kind[x] \notin AppendOnly
    /\ Kind[x] = "configuration_version" => \E r \in refs : Kind[r] = "configuration"
    /\ \/ /\ Creates(x, del) /\ i \in Of("item") /\ ItemForScope(i)
          /\ ItemReferences(i, refs)
          /\ Store(x, [up |-> i, proj |-> NoRow, live |-> TRUE], refs \cap Of("evidence"))
       \/ /\ Changes(x) /\ Kind[x] \notin AppendOnly
          /\ Keeps(i, canon[x].up) /\ ItemForScope(canon[x].up)
          /\ ItemReferences(canon[x].up, refs)
          /\ del /\ Kind[x] = "evidence" => EvidenceDeleteSafe(x)
          /\ Update(x, del, refs \cap Of("evidence"))
    /\ UNCHANGED <<member, scope>>

\* The lines of a quotation name items of its project.
Lines(p, refs) == refs # {} /\ \A i \in refs : ItemForScope(i) /\ canon[i].proj = p

PushQuotation(q, p, refs, del) ==
    /\ \/ /\ Creates(q, del) /\ p \in Of("project") /\ ProjectForScope(p) /\ Lines(p, refs)
          /\ Store(q, [up |-> p, proj |-> p, live |-> TRUE], {})
       \/ /\ Changes(q) /\ Keeps(p, canon[q].up) /\ ProjectForScope(canon[q].up)
          /\ IF del THEN refs = {} ELSE Lines(canon[q].up, refs)
          /\ Update(q, del, {})
    /\ UNCHANGED <<member, scope>>

\* authorize_delivery_execution and apply_delivery_execution_ownership: never a tombstone, and
\* always against an active quotation of the project.
PushDelivery(d, p, q) ==
    /\ scope # NoRow /\ ProjectForScope(p)
    /\ entity[q] # NoRow /\ entity[q].live /\ canon[q].up = p
    /\ \/ /\ entity[d] = NoRow /\ ~Known(d)
          /\ Store(d, [up |-> p, proj |-> p, live |-> TRUE], {})
       \/ /\ entity[d] # NoRow /\ entity[d].live /\ Live(d) /\ canon[d].up = p
          /\ Store(d, canon[d], {})
    /\ UNCHANGED <<member, scope>>

-----------------------------------------------------------------------------
(* Visibility.                                                              *)

ProjectIsVisible(s, p) == Known(p) /\ CanAccessProject(s, p, canon[p].up)

\* record_is_visible: whether active or deleted.
RecordIsVisible(s, e) ==
    /\ Known(e)
    /\ \/ Kind[e] = "customer" /\ CanAccessCustomer(s, e)
       \/ Kind[e] = "project" /\ ProjectIsVisible(s, e)
       \/ Kind[e] = "item" /\ ProjectIsVisible(s, canon[e].proj)
       \/ Kind[e] \in {"project_sector"} \cup ProjectChildKinds /\ ProjectIsVisible(s, canon[e].up)
       \/ /\ Kind[e] \in ChildKinds /\ Known(canon[e].up)
          /\ ProjectIsVisible(s, canon[canon[e].up].proj)

\* delivery_execution_is_visible: active at every hop.
DeliveryIsVisible(s, d) ==
    /\ entity[d] # NoRow /\ entity[d].live /\ Live(d)
    /\ Live(canon[d].up) /\ CanAccessProject(s, canon[d].up, canon[canon[d].up].up)

IsVisible(s, e) ==
    IF Kind[e] = "delivery_execution" THEN DeliveryIsVisible(s, e) ELSE RecordIsVisible(s, e)

\* Mutant: the projects of the items behind a page's children are not collected.
DirectProjectsOnly(page) ==
    LET found == {e \in page : Known(e)}
        items == {i \in Entities : Known(i) /\ (i \in found \/ \E x \in found \cap Children : canon[x].up = i)}
    IN  [rows |-> (found \ Of("project")) \cup items,
         projects |-> {p \in Entities : Known(p) /\
             \/ p \in found
             \/ \E x \in found \cap (Of("project_sector") \cup ProjectChildren) : canon[x].up = p
             \/ \E i \in found \cap Of("item") : canon[i].proj = p}]

\* load_page_context: the rows of the page, the items of its children, and the projects of its
\* sectors, project children and of all those items.
PageContext(page) ==
    LET found == {e \in page : Known(e)}
        items == {i \in Of("item") : Known(i) /\ (i \in found \/ \E x \in found \cap Children : canon[x].up = i)}
    IN  [rows |-> (found \ Of("project")) \cup items,
         projects |-> {p \in Of("project") : Known(p) /\
             \/ p \in found
             \/ \E x \in found \cap (Of("project_sector") \cup ProjectChildren) : canon[x].up = p
             \/ \E i \in items : canon[i].proj = p}]

\* resolve_visible and resolve_delivery_visible: the same questions asked of the context.
ResolveVisible(ctx, s, e) ==
    LET Project(p) == p \in ctx.projects /\ CanAccessProject(s, p, canon[p].up)
    IN  \/ Kind[e] = "project" /\ Project(e)
        \/ /\ e \in ctx.rows
           /\ \/ Kind[e] = "customer" /\ CanAccessCustomer(s, e)
              \/ Kind[e] = "item" /\ Project(canon[e].proj)
              \/ Kind[e] \in {"project_sector", "quotation"} /\ Project(canon[e].up)
              \/ /\ Kind[e] = "delivery_execution" /\ entity[e] # NoRow /\ entity[e].live
                 /\ canon[e].live /\ Project(canon[e].up) /\ canon[canon[e].up].live
              \/ /\ Kind[e] \in ChildKinds /\ canon[e].up \in ctx.rows
                 /\ Project(canon[canon[e].up].proj)

-----------------------------------------------------------------------------
(* The push around its records, and the administrator.                      *)

BeginPush ==
    /\ scope = NoRow /\ member.active
    /\ scope' = ScopeOf(member)
    /\ UNCHANGED <<canon, entity, member>>

CommitPush == scope # NoRow /\ scope' = NoRow /\ UNCHANGED <<canon, entity, member>>

SetAuthority(a) == member' = a /\ UNCHANGED <<canon, entity, scope>>

Init ==
    /\ canon = [e \in Entities |-> NoRow] /\ entity = [e \in Entities |-> NoRow]
    /\ member \in Authorities /\ scope = NoRow

PushRecord(del) ==
    \/ \E c \in Of("customer") : PushCustomer(c, del)
    \/ \E p \in Of("project"), c \in Of("customer") \cup {NoRow} : PushProject(p, c, del)
    \/ \E s \in Of("project_sector"), p \in Of("project") \cup {NoRow} : PushSector(s, p, del)
    \/ \E i \in Of("item"), p \in Of("project") \cup {NoRow},
          s \in Of("project_sector") \cup {NoRow} : PushItem(i, p, s, del)
    \/ \E x \in Children, i \in Of("item") \cup {NoRow} :
          \E refs \in SUBSET ChildRefs(x) : PushChild(x, i, refs, del)
    \/ \E q \in Of("quotation"), p \in Of("project") \cup {NoRow}, refs \in SUBSET Of("item") :
          PushQuotation(q, p, refs, del)

Next ==
    \/ BeginPush \/ CommitPush \/ \E a \in Authorities : SetAuthority(a)
    \/ \E del \in BOOLEAN : PushRecord(del)
    \/ \E d \in Of("delivery_execution"), p \in Of("project"), q \in Of("quotation") :
          PushDelivery(d, p, q)

Spec == Init /\ [][Next]_vars

-----------------------------------------------------------------------------
(* Properties.                                                              *)

\* Every stored record has its canonical row, active exactly when the record is: a rejected
\* grant may leave a row without a record, never a record without a row.
RecordsAreOwned ==
    \A e \in Entities : entity[e] # NoRow => Known(e) /\ canon[e].live = entity[e].live

\* A row names an owner of the right type, and an item the project of its sector.
OwnerOf(e, row) ==
    /\ Kind[e] = "project" => row.up \in Of("customer") /\ Known(row.up)
    /\ Kind[e] \in {"project_sector"} \cup ProjectChildKinds =>
           row.up \in Of("project") /\ Known(row.up)
    /\ Kind[e] = "item" => /\ row.up \in Of("project_sector") /\ Known(row.up)
                           /\ row.proj = canon[row.up].up
    /\ Kind[e] \in ChildKinds => row.up \in Of("item") /\ Known(row.up)

\* The canonical rows form a tree, whatever is moved, deleted, restored or half rejected.
OwnersExist == \A e \in Entities : Known(e) => OwnerOf(e, canon[e])

\* Nothing below a project is active under an owner that is deleted, in whatever order things
\* are deleted and restored.  (A project may be: it is restored without a look at its customer.)
ActiveUnderActive ==
    \A e \in Entities : Live(e) /\ Kind[e] \notin {"customer", "project"} => Live(canon[e].up)

\* What an active measurement or requirement lists as evidence is active and of the same item.
ReferencesHold ==
    \A e \in Of("measurement") \cup Of("customer_requirement") :
        entity[e] # NoRow /\ entity[e].live =>
            \A r \in entity[e].refs : r \in Of("evidence") /\ Live(r) /\ canon[r].up = canon[e].up

\* Whoever writes a record can read it: the write path (authorize_record) never lets through
\* what the read path (record_is_visible) would hide from the same scope.
WritesAreVisible ==
    [][\A e \in Entities : entity'[e] # entity[e] => IsVisible(scope, e)']_vars

\* The prefetched answer of a pull is the answer record by record, for every page.
PrefetchAgrees ==
    \A page \in Pages :
        LET ctx == PageContext(page) IN
        \A e \in page : ResolveVisible(ctx, ScopeOf(member), e) = IsVisible(ScopeOf(member), e)
=============================================================================
