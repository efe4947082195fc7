-------------------------- MODULE OwnershipProofs --------------------------
(***************************************************************************)
(* Ownership for every set of records, authorities and pages: the tree of  *)
(* owners, the references to evidence, and the two visibility checks.      *)
(***************************************************************************)
EXTENDS Ownership, TLAPS

OwnInv == TypeOK /\ RecordsAreOwned /\ OwnersExist /\ ActiveUnderActive /\ ReferencesHold

Tops == {"customer", "project"}
Referrers == Of("measurement") \cup Of("customer_requirement")

\* What every accepted record does to the tables, and what a rejected grant leaves.
Writes(e, row, refs) ==
    /\ canon' = [canon EXCEPT ![e] = row]
    /\ \/ entity' = [entity EXCEPT ![e] = [live |-> row.live, refs |-> refs]]
       \/ entity' = entity /\ entity[e] = NoRow

\* Nothing active depends on e.
Unused(e) ==
    /\ \A x \in Entities : Live(x) /\ Kind[x] \notin Tops => canon[x].up # e
    /\ \A x \in Referrers : entity[x] # NoRow /\ entity[x].live => e \notin entity[x].refs

\* What the checks of authorize_record establish, in terms of the tables alone.
Allowed(e, row, refs) ==
    /\ e \in Entities /\ row \in Rows /\ refs \in SUBSET Entities
    /\ Known(e) => row.up = canon[e].up /\ row.proj = canon[e].proj
    /\ ~Known(e) => row.live /\ OwnerOf(e, row)
    /\ row.live /\ Kind[e] \notin Tops => Live(row.up)
    /\ ~row.live => Unused(e)
    /\ e \in Referrers => \A r \in refs : r \in Of("evidence") /\ Live(r) /\ canon[r].up = row.up

LawfulWrite(e) == \E row, refs : Allowed(e, row, refs) /\ Writes(e, row, refs)

\* The fields of a row.
LEMMA RowFields ==
    ASSUME TypeOK, NEW e \in Entities, Known(e)
    PROVE  canon[e] \in Rows /\ canon[e].live \in BOOLEAN /\ canon[e].up \in Owners
           /\ canon[e].proj \in Owners
BY DEF TypeOK, Known, Rows

\* An owner of a record that is owned has a type of its own.
LEMMA OwnerKinds ==
    ASSUME OwnersExist, OwnershipConstants, NEW x \in Entities, Known(x), Kind[x] \notin Tops
    PROVE  /\ canon[x].up \in Entities /\ Known(canon[x].up)
           /\ Kind[canon[x].up] \in {"project", "project_sector", "item"}
           /\ Kind[canon[x].up] = "project" =>
                  x \in Of("project_sector") \cup ProjectChildren
           /\ Kind[canon[x].up] = "project_sector" => x \in Of("item")
           /\ Kind[canon[x].up] = "item" => x \in Children
<1>1. OwnerOf(x, canon[x])
  BY DEF OwnersExist
<1>2. Kind[x] \in Kinds
  BY DEF OwnershipConstants
<1> QED BY <1>1, <1>2 DEF OwnerOf, Tops, Of, Kinds, Children, ProjectChildren, ChildKinds, ProjectChildKinds

\* A write that is allowed keeps the tree and the references.
LEMMA WriteKeepsTree ==
    ASSUME OwnInv, OwnershipConstants, NEW e, NEW row, NEW refs,
           Allowed(e, row, refs), Writes(e, row, refs)
    PROVE  /\ canon' \in [Entities -> Rows \cup {NoRow}]
           /\ entity' \in [Entities -> Records \cup {NoRow}]
           /\ RecordsAreOwned' /\ OwnersExist' /\ ActiveUnderActive' /\ ReferencesHold'
<1> USE DEF Known, Live
<1>1. /\ e \in Entities /\ row \in Rows /\ refs \in SUBSET Entities
      /\ row.live \in BOOLEAN /\ row # NoRow
  BY SMT DEF Allowed, Rows, OwnershipConstants
<1>2. /\ canon \in [Entities -> Rows \cup {NoRow}] /\ entity \in [Entities -> Records \cup {NoRow}]
  BY Zenon DEF OwnInv, TypeOK
<1>3. canon' \in [Entities -> Rows \cup {NoRow}]
  BY <1>1, <1>2, SMT DEF Writes
<1>4. entity' \in [Entities -> Records \cup {NoRow}]
  BY <1>1, <1>2, SMT DEF Writes, Records
<1>5. canon'[e] = row /\ \A x \in Entities : x # e => canon'[x] = canon[x]
  BY <1>1, <1>2, SMT DEF Writes
<1>6. RecordsAreOwned'
  BY <1>1, <1>2, <1>5, SMT DEF Writes, OwnInv, RecordsAreOwned
<1>7. ASSUME NEW x \in Entities, canon[x] # NoRow
      PROVE  canon'[x] # NoRow /\ canon'[x].up = canon[x].up /\ canon'[x].proj = canon[x].proj
  BY <1>1, <1>5, <1>7, SMT DEF Allowed
<1>8. OwnersExist'
  <2> SUFFICES ASSUME NEW x \in Entities, canon'[x] # NoRow
               PROVE  OwnerOf(x, canon[x])'
    BY Zenon DEF OwnersExist
  <2>1. OwnerOf(x, canon'[x])
    <3>1. CASE canon[x] = NoRow
      BY <1>1, <1>5, <3>1, SMT DEF Allowed
    <3>2. CASE canon[x] # NoRow
      <4>1. OwnerOf(x, canon[x])
        BY <3>2, Zenon DEF OwnInv, OwnersExist
      <4> QED BY <4>1, <3>2, <1>7, SMT DEF OwnerOf
    <3> QED BY <3>1, <3>2, Zenon
  <2>2. canon'[x].up \in Entities /\ canon[canon'[x].up] # NoRow =>
           /\ canon'[canon'[x].up] # NoRow
           /\ canon'[canon'[x].up].up = canon[canon'[x].up].up
    BY <1>7, Zenon
  <2> QED BY <2>1, <2>2, SMT DEF OwnerOf, Of
<1>9. ActiveUnderActive'
  <2> SUFFICES ASSUME NEW x \in Entities, Live(x)', Kind[x] \notin Tops
               PROVE  Live(canon[x].up)'
    BY Zenon DEF ActiveUnderActive, Tops
  <2>1. CASE x = e
    <3>1. Live(row.up)
      BY <2>1, <1>1, <1>5, SMT DEF Allowed
    <3>2. row.up \in Entities
      <4>1. CASE Known(e)
        BY <4>1, <2>1, OwnerKinds, SMT DEF Allowed, OwnInv
      <4>2. CASE ~Known(e)
        BY <4>2, <2>1, SMT DEF Allowed, OwnerOf, Of, Tops, OwnershipConstants, Kinds
      <4> QED BY <4>1, <4>2, Zenon
    <3> QED BY <2>1, <3>1, <3>2, <1>1, <1>5, SMT
  <2>2. CASE x # e
    <3>1. Live(x) /\ canon'[x] = canon[x]
      BY <2>2, <1>5, SMT
    <3>2. Live(canon[x].up) /\ canon[x].up \in Entities
      BY <3>1, OwnerKinds, SMT DEF OwnInv, ActiveUnderActive, Tops
    <3>3. canon[x].up = e => row.live
      BY <3>1, <1>1, SMT DEF Allowed, Unused
    <3> QED BY <3>1, <3>2, <3>3, <1>1, <1>5, SMT
  <2> QED BY <2>1, <2>2, Zenon
<1>10. ReferencesHold'
  <2> SUFFICES ASSUME NEW x \in Referrers, entity'[x] # NoRow, entity'[x].live,
                      NEW r \in entity'[x].refs
               PROVE  r \in Of("evidence") /\ Live(r)' /\ canon'[r].up = canon'[x].up
    BY Zenon DEF ReferencesHold, Referrers
  <2>0. x \in Entities
    BY DEF Referrers, Of
  <2>1. CASE x = e /\ entity' # entity
    <3>1. r \in refs
      BY <2>1, <1>1, <1>2, SMT DEF Writes
    <3>2. r \in Of("evidence") /\ Live(r) /\ canon[r].up = row.up
      BY <2>1, <3>1, SMT DEF Allowed
    <3>3. r # e /\ r \in Entities
      BY <2>1, <3>2, SMT DEF Of, Referrers
    <3> QED BY <2>1, <3>2, <3>3, <1>1, <1>5, SMT
  <2>2. CASE ~(x = e /\ entity' # entity)
    <3>1. entity'[x] = entity[x]
      BY <2>2, <2>0, <1>1, <1>2, SMT DEF Writes
    <3>2. r \in Of("evidence") /\ Live(r) /\ canon[r].up = canon[x].up /\ Known(x)
      BY <3>1, <2>0, SMT DEF OwnInv, ReferencesHold, RecordsAreOwned, Referrers
    <3>3. r = e => row.live
      BY <3>1, <1>1, SMT DEF Allowed, Unused
    <3> QED BY <2>0, <3>2, <3>3, <1>1, <1>5, <1>7, SMT DEF Of
  <2> QED BY <2>1, <2>2, Zenon
<1> QED BY <1>3, <1>4, <1>6, <1>8, <1>9, <1>10, Zenon

(***************************************************************************)
(* What the deletion rules and the two ways to write establish.            *)
(***************************************************************************)

\* A record that its deletion rule lets go is unused.
LEMMA SafeIsUnused ==
    ASSUME OwnInv, OwnershipConstants, NEW e \in Entities,
           Kind[e] = "project" => ProjectDeleteSafe(e),
           Kind[e] = "project_sector" => SectorDeleteSafe(e),
           Kind[e] = "item" => ItemDeleteSafe(e) /\ ~HasAuditHistory(e),
           Kind[e] = "evidence" => EvidenceDeleteSafe(e)
    PROVE  Unused(e)
<1>1. ASSUME NEW x \in Entities, Live(x), Kind[x] \notin Tops, canon[x].up = e
      PROVE  FALSE
  <2>1. /\ Kind[e] \in {"project", "project_sector", "item"}
        /\ Kind[e] = "project" => x \in Of("project_sector") \cup ProjectChildren
        /\ Kind[e] = "project_sector" => x \in Of("item")
        /\ Kind[e] = "item" => x \in Children
    BY <1>1, OwnerKinds, Zenon DEF OwnInv, Live
  <2> QED BY <1>1, <2>1, SMT DEF ProjectDeleteSafe, SectorDeleteSafe, ItemDeleteSafe, HasAuditHistory, Of,
                              Children, ProjectChildren
<1>2. ASSUME NEW x \in Referrers, entity[x] # NoRow, entity[x].live, e \in entity[x].refs
      PROVE  FALSE
  <2>1. e \in Of("evidence")
    BY <1>2, Zenon DEF OwnInv, ReferencesHold, Referrers
  <2> QED BY <1>2, <2>1, SMT DEF EvidenceDeleteSafe, Of, Referrers
<1> QED BY <1>1, <1>2, Zenon DEF Unused

\* A change, a deletion or a restoration.
LEMMA UpdateAllowed ==
    ASSUME OwnInv, OwnershipConstants, NEW e \in Entities, NEW del \in BOOLEAN,
           NEW refs \in SUBSET Entities, Known(e), Update(e, del, refs),
           ~del /\ Kind[e] \notin Tops => Live(canon[e].up),
           del => Unused(e),
           ~del /\ e \in Referrers =>
               \A r \in refs : r \in Of("evidence") /\ Live(r) /\ canon[r].up = canon[e].up
    PROVE  LawfulWrite(e)
<1> DEFINE row == [canon[e] EXCEPT !.live = ~del]
           rs == IF row.live THEN refs ELSE {}
<1>1. canon[e] \in Rows
  BY RowFields, Zenon DEF OwnInv
<1>2. row \in Rows /\ row.up = canon[e].up /\ row.proj = canon[e].proj
  BY <1>1, ZenonT(30) DEF Rows
<1>3. row.live = ~del
  BY <1>1 DEF Rows
<1>4. Writes(e, row, rs)
  BY Zenon DEF Update, Store, Writes
<1> HIDE DEF row
<1>5. CASE del
  <2>1. ~row.live
    BY <1>3, <1>5, Zenon
  <2>2. rs = {}
    BY <2>1, Zenon
  <2>3. Allowed(e, row, rs)
    BY <1>2, <2>1, <2>2, <1>5, Zenon DEF Allowed
  <2> QED BY <1>4, <2>3, Zenon DEF LawfulWrite
<1>6. CASE ~del
  <2>1. row.live
    BY <1>3, <1>6, Zenon
  <2>2. rs = refs
    BY <2>1, Zenon
  <2>3. Allowed(e, row, rs)
    BY <1>2, <2>1, <2>2, <1>6, Zenon DEF Allowed
  <2> QED BY <1>4, <2>3, Zenon DEF LawfulWrite
<1> QED BY <1>5, <1>6, Zenon

\* A creation.
LEMMA CreateAllowed ==
    ASSUME OwnInv, OwnershipConstants, NEW e \in Entities, NEW row \in Rows,
           NEW refs \in SUBSET Entities, ~Known(e), Writes(e, row, refs), row.live,
           OwnerOf(e, row), Kind[e] \notin Tops => Live(row.up),
           e \in Referrers => \A r \in refs : r \in Of("evidence") /\ Live(r) /\ canon[r].up = row.up
    PROVE  LawfulWrite(e)
BY SMT DEF Allowed, LawfulWrite

\* An ordinary creation, and one that grants scope, accepted or rejected.
LEMMA NewRow ==
    ASSUME NEW e \in Entities, NEW u \in Owners, NEW p \in Owners, NEW refs \in SUBSET Entities
    PROVE  /\ [up |-> u, proj |-> p, live |-> TRUE] \in Rows
           /\ Store(e, [up |-> u, proj |-> p, live |-> TRUE], refs) =>
                Writes(e, [up |-> u, proj |-> p, live |-> TRUE], refs)
           /\ \A cs, ps : entity[e] = NoRow /\
                StoreAndGrant(e, [up |-> u, proj |-> p, live |-> TRUE], cs, ps) =>
                  Writes(e, [up |-> u, proj |-> p, live |-> TRUE], {})
<1>1. [up |-> u, proj |-> p, live |-> TRUE] \in Rows
  BY DEF Rows
<1>2. [up |-> u, proj |-> p, live |-> TRUE].live = TRUE
  OBVIOUS
<1> DEFINE row == [up |-> u, proj |-> p, live |-> TRUE]
<1> HIDE DEF row
<1>3. Store(e, row, refs) /\ row.live = TRUE => Writes(e, row, refs)
  BY Zenon DEF Store, Writes
<1>4. \A cs, ps : entity[e] = NoRow /\ StoreAndGrant(e, row, cs, ps) /\ row.live = TRUE => Writes(e, row, {})
  BY Zenon DEF StoreAndGrant, Writes
<1> QED BY <1>1, <1>2, <1>3, <1>4, Zenon DEF row

(***************************************************************************)
(* Each record of a push is a lawful write.                                *)
(***************************************************************************)

LEMMA CustomerLawful ==
    ASSUME OwnInv, OwnershipConstants, NEW c \in Of("customer"), NEW del \in BOOLEAN,
           PushCustomer(c, del)
    PROVE  LawfulWrite(c)
<1> DEFINE row == [up |-> NoRow, proj |-> NoRow, live |-> TRUE]
<1>0. c \in Entities /\ Kind[c] = "customer" /\ NoRow \in Owners /\ c \notin Referrers
  BY DEF Of, Owners, Referrers
<1>1. CASE Creates(c, del) /\ StoreAndGrant(c, row, {c}, {})
  <2>1. row \in Rows /\ Writes(c, row, {}) /\ row.live
    BY <1>0, <1>1, NewRow, Zenon DEF Creates
  <2>2. OwnerOf(c, row)
    BY <1>0, SMT DEF OwnerOf, ChildKinds, ProjectChildKinds
  <2> HIDE DEF row
  <2> QED BY <1>0, <1>1, <2>1, <2>2, CreateAllowed, Zenon DEF Creates, Tops
<1>2. CASE Changes(c) /\ Update(c, del, {})
  <2>1. Unused(c)
    BY <1>0, SafeIsUnused, SMT
  <2> QED BY <1>0, <1>2, <2>1, UpdateAllowed, Zenon DEF Changes, Tops
<1> QED BY <1>1, <1>2, Zenon DEF PushCustomer

LEMMA ProjectLawful ==
    ASSUME OwnInv, OwnershipConstants, NEW p \in Of("project"), NEW c, NEW del \in BOOLEAN,
           PushProject(p, c, del)
    PROVE  LawfulWrite(p)
<1> DEFINE row == [up |-> c, proj |-> p, live |-> TRUE]
<1>0. p \in Entities /\ p \in Owners /\ Kind[p] = "project" /\ p \notin Referrers
  BY DEF Of, Owners, Referrers
<1>1. CASE Creates(p, del) /\ c \in Of("customer") /\ Live(c) /\ StoreAndGrant(p, row, {}, {p})
  <2>0. c \in Owners
    BY <1>1, Zenon DEF Of, Owners
  <2>1. row \in Rows /\ Writes(p, row, {}) /\ row.live
    BY <1>0, <1>1, <2>0, NewRow, Zenon DEF Creates
  <2>2. OwnerOf(p, row)
    BY <1>0, <1>1, SMT DEF OwnerOf, ChildKinds, ProjectChildKinds, Live
  <2> HIDE DEF row
  <2> QED BY <1>0, <1>1, <2>1, <2>2, CreateAllowed, Zenon DEF Creates, Tops
<1>2. CASE Changes(p) /\ (del => ProjectDeleteSafe(p)) /\ Update(p, del, {})
  <2>1. del => Unused(p)
    BY <1>0, <1>2, SafeIsUnused, SMT
  <2> QED BY <1>0, <1>2, <2>1, UpdateAllowed, Zenon DEF Changes, Tops
<1> QED BY <1>1, <1>2, Zenon DEF PushProject

LEMMA SectorLawful ==
    ASSUME OwnInv, OwnershipConstants, NEW s \in Of("project_sector"), NEW p, NEW del \in BOOLEAN,
           PushSector(s, p, del)
    PROVE  LawfulWrite(s)
<1> DEFINE row == [up |-> p, proj |-> p, live |-> TRUE]
<1>0. s \in Entities /\ Kind[s] = "project_sector" /\ s \notin Referrers
  BY DEF Of, Referrers
<1>1. CASE Creates(s, del) /\ p \in Of("project") /\ ProjectForScope(p) /\ Store(s, row, {})
  <2>0. p \in Owners /\ Live(p)
    BY <1>1, Zenon DEF Of, Owners, ProjectForScope
  <2>1. row \in Rows /\ Writes(s, row, {}) /\ row.live /\ row.up = p
    BY <1>0, <1>1, <2>0, NewRow, Zenon
  <2>2. OwnerOf(s, row)
    BY <1>0, <1>1, <2>0, SMT DEF OwnerOf, ChildKinds, ProjectChildKinds, Live
  <2> HIDE DEF row
  <2> QED BY <1>0, <1>1, <2>0, <2>1, <2>2, CreateAllowed, Zenon DEF Creates
<1>2. CASE /\ Changes(s) /\ ProjectForScope(canon[s].up)
           /\ (del => SectorDeleteSafe(s)) /\ Update(s, del, {})
  <2>1. del => Unused(s)
    BY <1>0, <1>2, SafeIsUnused, SMT
  <2> QED BY <1>0, <1>2, <2>1, UpdateAllowed, Zenon DEF Changes, ProjectForScope
<1> QED BY <1>1, <1>2, Zenon DEF PushSector

LEMMA ItemLawful ==
    ASSUME OwnInv, OwnershipConstants, NEW i \in Of("item"), NEW p, NEW s, NEW del \in BOOLEAN,
           PushItem(i, p, s, del)
    PROVE  LawfulWrite(i)
<1> DEFINE row == [up |-> s, proj |-> p, live |-> TRUE]
<1>0. i \in Entities /\ Kind[i] = "item" /\ i \notin Referrers
  BY DEF Of, Referrers
<1>1. CASE /\ Creates(i, del) /\ p \in Of("project") /\ s \in Of("project_sector")
           /\ SectorOf(s, p) /\ Store(i, row, {})
  <2>0. p \in Owners /\ s \in Owners /\ Live(s)
    BY <1>1, Zenon DEF Of, Owners, SectorOf
  <2>1. row \in Rows /\ Writes(i, row, {}) /\ row.live /\ row.up = s
    BY <1>0, <1>1, <2>0, NewRow, Zenon
  <2>2. OwnerOf(i, row)
    BY <1>0, <1>1, <2>0, SMT DEF OwnerOf, ChildKinds, ProjectChildKinds, Live, SectorOf
  <2> HIDE DEF row
  <2> QED BY <1>0, <1>1, <2>0, <2>1, <2>2, CreateAllowed, Zenon DEF Creates
<1>2. CASE /\ Changes(i) /\ SectorOf(canon[i].up, canon[i].proj)
           /\ (del => ItemDeleteSafe(i) /\ ~HasAuditHistory(i)) /\ Update(i, del, {})
  <2>1. del => Unused(i)
    BY <1>0, <1>2, SafeIsUnused, SMT
  <2> QED BY <1>0, <1>2, <2>1, UpdateAllowed, Zenon DEF Changes, SectorOf
<1> QED BY <1>1, <1>2, Zenon DEF PushItem

LEMMA ChildLawful ==
    ASSUME OwnInv, OwnershipConstants, NEW x \in Children, NEW i, NEW refs \in SUBSET Entities,
           NEW del \in BOOLEAN, PushChild(x, i, refs, del)
    PROVE  LawfulWrite(x)
<1> DEFINE row == [up |-> i, proj |-> NoRow, live |-> TRUE]
           ev == refs \cap Of("evidence")
<1>0. /\ x \in Entities /\ Kind[x] \in ChildKinds /\ Kind[x] \notin Tops
      /\ NoRow \in Owners /\ ev \in SUBSET Entities
  BY SMT DEF Children, Owners, Of, ChildKinds, Tops
<1>1. CASE Creates(x, del) /\ i \in Of("item") /\ ItemForScope(i) /\ ItemReferences(i, refs) /\ Store(x, row, ev)
  <2>0. i \in Owners /\ Live(i)
    BY <1>1, Zenon DEF Of, Owners, ItemForScope
  <2>1. row \in Rows /\ Writes(x, row, ev) /\ row.live /\ row.up = i
    BY <1>0, <1>1, <2>0, NewRow, Zenon
  <2>2. OwnerOf(x, row)
    BY <1>0, <1>1, <2>0, SMT DEF OwnerOf, ChildKinds, ProjectChildKinds, Live
  <2>3. \A r \in ev : r \in Of("evidence") /\ Live(r) /\ canon[r].up = row.up
    BY <1>1, <2>1, Zenon DEF ItemReferences
  <2> HIDE DEF row, ev
  <2> QED BY <1>0, <1>1, <2>0, <2>1, <2>2, <2>3, CreateAllowed, Zenon DEF Creates
<1>2. CASE /\ Changes(x) /\ ItemForScope(canon[x].up) /\ ItemReferences(canon[x].up, refs)
           /\ (del /\ Kind[x] = "evidence" => EvidenceDeleteSafe(x)) /\ Update(x, del, ev)
  <2>1. del => Unused(x)
    BY <1>0, <1>2, SafeIsUnused, SMT DEF ChildKinds
  <2>2. Known(x) /\ Live(canon[x].up)
    BY <1>2, Zenon DEF Changes, ItemForScope
  <2>3. \A r \in ev : r \in Of("evidence") /\ Live(r) /\ canon[r].up = canon[x].up
    BY <1>2, Zenon DEF ItemReferences
  <2>4. Update(x, del, ev)
    BY <1>2
  <2> HIDE DEF ev
  <2> QED BY <1>0, <2>1, <2>2, <2>3, <2>4, UpdateAllowed, Zenon
<1> QED BY <1>1, <1>2, Zenon DEF PushChild

LEMMA QuotationLawful ==
    ASSUME OwnInv, OwnershipConstants, NEW q \in Of("quotation"), NEW p, NEW refs,
           NEW del \in BOOLEAN, PushQuotation(q, p, refs, del)
    PROVE  LawfulWrite(q)
<1> DEFINE row == [up |-> p, proj |-> p, live |-> TRUE]
<1>0. q \in Entities /\ Kind[q] = "quotation" /\ q \notin Referrers
  BY DEF Of, Referrers
<1>1. CASE Creates(q, del) /\ p \in Of("project") /\ ProjectForScope(p) /\ Store(q, row, {})
  <2>0. p \in Owners /\ Live(p)
    BY <1>1, Zenon DEF Of, Owners, ProjectForScope
  <2>1. row \in Rows /\ Writes(q, row, {}) /\ row.live /\ row.up = p
    BY <1>0, <1>1, <2>0, NewRow, Zenon
  <2>2. OwnerOf(q, row)
    BY <1>0, <1>1, <2>0, SMT DEF OwnerOf, ChildKinds, ProjectChildKinds, Live
  <2> HIDE DEF row
  <2> QED BY <1>0, <1>1, <2>0, <2>1, <2>2, CreateAllowed, Zenon DEF Creates
<1>2. CASE Changes(q) /\ ProjectForScope(canon[q].up) /\ Update(q, del, {})
  <2>1. Unused(q)
    BY <1>0, SafeIsUnused, SMT
  <2> QED BY <1>0, <1>2, <2>1, UpdateAllowed, Zenon DEF Changes, ProjectForScope
<1> QED BY <1>1, <1>2, Zenon DEF PushQuotation

LEMMA DeliveryLawful ==
    ASSUME OwnInv, OwnershipConstants, NEW d \in Of("delivery_execution"), NEW p \in Of("project"),
           NEW q, PushDelivery(d, p, q)
    PROVE  LawfulWrite(d)
<1> DEFINE row == [up |-> p, proj |-> p, live |-> TRUE]
<1>0. d \in Entities /\ Kind[d] = "delivery_execution" /\ d \notin Referrers /\ p \in Owners
  BY DEF Of, Referrers, Owners
<1>1. ProjectForScope(p) /\ Live(p)
  BY Zenon DEF PushDelivery, ProjectForScope
<1>2. CASE ~Known(d) /\ Store(d, row, {})
  <2>1. row \in Rows /\ Writes(d, row, {}) /\ row.live /\ row.up = p
    BY <1>0, <1>2, NewRow, Zenon
  <2>2. OwnerOf(d, row)
    BY <1>0, <1>1, SMT DEF OwnerOf, ChildKinds, ProjectChildKinds, Live
  <2> HIDE DEF row
  <2> QED BY <1>0, <1>1, <1>2, <2>1, <2>2, CreateAllowed, Zenon
<1>3. CASE Live(d) /\ canon[d].up = p /\ Store(d, canon[d], {})
  <2>1. Known(d) /\ canon[d] \in Rows /\ canon[d].live
    BY <1>0, <1>3, RowFields, Zenon DEF Live, OwnInv
  <2>2. Writes(d, canon[d], {})
    BY <1>3, <2>1, SMT DEF Writes, Store
  <2>3. Allowed(d, canon[d], {})
    BY <1>0, <1>1, <1>3, <2>1, SMT DEF Allowed
  <2> QED BY <2>2, <2>3, Zenon DEF LawfulWrite
<1> QED BY <1>2, <1>3, Zenon DEF PushDelivery

-----------------------------------------------------------------------------
(* Members and scopes keep their type.                                     *)

LEMMA GrantTypes ==
    ASSUME member \in Memberships, scope \in Scopes, NEW e, NEW row,
           NEW cs \in SUBSET Entities, NEW ps \in SUBSET Entities, StoreAndGrant(e, row, cs, ps)
    PROVE  member' \in Memberships /\ scope' \in Scopes
<1>0. \A a, b \in SUBSET Entities : [scope EXCEPT !.cs = a, !.ps = b] \in Scopes
  BY Zenon DEF Scopes
<1>1. scope' \in Scopes
  <2>1. scope.cs \cup cs \in SUBSET Entities /\ scope.ps \cup ps \in SUBSET Entities
    BY SMT DEF Scopes
  <2>2. scope' = [scope EXCEPT !.cs = scope.cs \cup cs, !.ps = scope.ps \cup ps]
    BY Zenon DEF StoreAndGrant
  <2> QED BY <1>0, <2>1, <2>2, Zenon
<1> DEFINE mcs == IF member.allC THEN member.cs ELSE member.cs \cup cs
           mps == IF member.allP THEN member.ps ELSE member.ps \cup ps
<1>2. mcs \in SUBSET Entities /\ mps \in SUBSET Entities
  BY SMT DEF Memberships
<1>3. \A a, b \in SUBSET Entities : [member EXCEPT !.cs = a, !.ps = b] \in Memberships
  BY Zenon DEF Memberships
<1>4. member' = member \/ member' = [member EXCEPT !.cs = mcs, !.ps = mps]
  BY Zenon DEF StoreAndGrant
<1> HIDE DEF mcs, mps
<1>5. member' \in Memberships
  BY <1>2, <1>3, <1>4, Zenon
<1> QED BY <1>1, <1>5

LEMMA ScopeOfType ==
    ASSUME NEW m \in Memberships
    PROVE  ScopeOf(m) \in Scopes
BY SMT DEF ScopeOf, Memberships, Scopes

\* Whatever a record of a push does, it leaves a membership and a scope.
LEMMA RecordTypes ==
    ASSUME TypeOK, NEW del \in BOOLEAN, PushRecord(del)
    PROVE  member' \in Memberships /\ scope' \in Scopes \cup {NoRow}
<1>0. member \in Memberships /\ scope \in Scopes \cup {NoRow}
  BY DEF TypeOK
<1>1. ASSUME NEW e \in Entities, NEW row, Creates(e, del), NEW cs \in SUBSET Entities,
             NEW ps \in SUBSET Entities, StoreAndGrant(e, row, cs, ps)
      PROVE  member' \in Memberships /\ scope' \in Scopes \cup {NoRow}
  BY <1>0, <1>1, GrantTypes, Zenon DEF Creates
<1>2. ASSUME NEW c \in Of("customer"), PushCustomer(c, del)
      PROVE  member' \in Memberships /\ scope' \in Scopes \cup {NoRow}
  <2>1. c \in Entities /\ {c} \in SUBSET Entities /\ {} \in SUBSET Entities
    BY DEF Of
  <2> QED BY <1>0, <1>1, <1>2, <2>1, Zenon DEF PushCustomer
<1>3. ASSUME NEW p \in Of("project"), NEW c, PushProject(p, c, del)
      PROVE  member' \in Memberships /\ scope' \in Scopes \cup {NoRow}
  <2>1. p \in Entities /\ {p} \in SUBSET Entities /\ {} \in SUBSET Entities
    BY DEF Of
  <2> QED BY <1>0, <1>1, <1>3, <2>1, Zenon DEF PushProject
<1> QED BY <1>0, <1>2, <1>3, Zenon DEF PushRecord, PushSector, PushItem, PushChild, PushQuotation

(***************************************************************************)
(* The inductive invariant.                                                *)
(***************************************************************************)

LEMMA InitInv ==
    ASSUME OwnershipConstants, Init
    PROVE  OwnInv
<1>1. TypeOK
  BY SMT DEF Init, TypeOK, OwnershipConstants
<1>2. \A e \in Entities : ~Known(e) /\ entity[e] = NoRow
  BY SMT DEF Init, Known
<1>3. RecordsAreOwned /\ OwnersExist /\ ActiveUnderActive
  BY <1>2, Zenon DEF RecordsAreOwned, OwnersExist, ActiveUnderActive, Live
<1>4. ReferencesHold
  BY <1>2, Zenon DEF ReferencesHold, Of
<1> QED BY <1>1, <1>3, <1>4, Zenon DEF OwnInv

\* A record of a push is a lawful write.
LEMMA RecordLawful ==
    ASSUME OwnInv, OwnershipConstants, NEW del \in BOOLEAN, PushRecord(del)
    PROVE  \E e \in Entities : LawfulWrite(e)
<1>0. (\A k : Of(k) \subseteq Entities) /\ Children \subseteq Entities
  BY DEF Of, Children
<1>1. \A x \in Children : ChildRefs(x) \subseteq Entities
  BY DEF ChildRefs
<1>2. CASE \E c \in Of("customer") : PushCustomer(c, del)
  BY <1>0, <1>2, CustomerLawful, SMT
<1>3. CASE \E p \in Of("project"), c \in Of("customer") \cup {NoRow} : PushProject(p, c, del)
  BY <1>0, <1>3, ProjectLawful, SMT
<1>4. CASE \E s \in Of("project_sector"), p \in Of("project") \cup {NoRow} : PushSector(s, p, del)
  BY <1>0, <1>4, SectorLawful, SMT
<1>5. CASE \E i \in Of("item"), p \in Of("project") \cup {NoRow},
              s \in Of("project_sector") \cup {NoRow} : PushItem(i, p, s, del)
  BY <1>0, <1>5, ItemLawful, SMT
<1>6. ASSUME NEW x \in Children, NEW i, NEW refs \in SUBSET ChildRefs(x), PushChild(x, i, refs, del)
      PROVE  LawfulWrite(x)
  <2>1. refs \in SUBSET Entities
    BY <1>1
  <2> QED BY <1>6, <2>1, ChildLawful, SMT
<1>7. CASE \E q \in Of("quotation"), p \in Of("project") \cup {NoRow}, refs \in SUBSET Of("item") :
              PushQuotation(q, p, refs, del)
  BY <1>0, <1>7, QuotationLawful, SMT
<1> QED BY <1>0, <1>2, <1>3, <1>4, <1>5, <1>6, <1>7, Zenon DEF PushRecord

LEMMA LawfulKeepsInv ==
    ASSUME OwnInv, OwnershipConstants, NEW e, LawfulWrite(e),
           member' \in Memberships, scope' \in Scopes \cup {NoRow}
    PROVE  OwnInv'
<1>1. PICK row, refs : Allowed(e, row, refs) /\ Writes(e, row, refs)
  BY Zenon DEF LawfulWrite
<1> QED BY <1>1, WriteKeepsTree, Zenon DEF OwnInv, TypeOK

LEMMA StepInv ==
    ASSUME OwnInv, OwnershipConstants, [Next]_vars
    PROVE  OwnInv'
<1>0. member \in Memberships /\ scope \in Scopes \cup {NoRow}
  BY DEF OwnInv, TypeOK
<1>1. ASSUME UNCHANGED <<canon, entity>>, member' \in Memberships, scope' \in Scopes \cup {NoRow}
      PROVE  OwnInv'
  BY <1>1, SMT DEF OwnInv, TypeOK, RecordsAreOwned, OwnersExist, OwnerOf, ActiveUnderActive, ReferencesHold,
                   Known, Live
<1>2. CASE BeginPush
  BY <1>0, <1>1, <1>2, ScopeOfType, Zenon DEF BeginPush
<1>3. CASE CommitPush
  BY <1>0, <1>1, <1>3, SMT DEF CommitPush
<1>4. CASE \E a \in Authorities : SetAuthority(a)
  BY <1>0, <1>1, <1>4, Zenon DEF SetAuthority, OwnershipConstants
<1>5. ASSUME NEW del \in BOOLEAN, PushRecord(del)
      PROVE  OwnInv'
  <2>1. member' \in Memberships /\ scope' \in Scopes \cup {NoRow}
    BY <1>5, RecordTypes, Zenon DEF OwnInv
  <2> QED BY <1>5, <2>1, RecordLawful, LawfulKeepsInv, Zenon
<1>6. ASSUME NEW d \in Of("delivery_execution"), NEW p \in Of("project"), NEW q \in Of("quotation"),
             PushDelivery(d, p, q)
      PROVE  OwnInv'
  <2>1. member' \in Memberships /\ scope' \in Scopes \cup {NoRow}
    BY <1>0, <1>6, Zenon DEF PushDelivery
  <2> QED BY <1>6, <2>1, DeliveryLawful, LawfulKeepsInv, Zenon
<1>7. CASE UNCHANGED vars
  BY <1>0, <1>1, <1>7, Zenon DEF vars
<1> QED BY <1>2, <1>3, <1>4, <1>5, <1>6, <1>7, Zenon DEF Next

\* The tables of a push form a tree of owners with the references intact: all of the above
\* together, in every reachable state.
THEOREM OwnSafe == Spec => []OwnInv
<1>1. Init => OwnInv
  BY InitInv, OwnershipConstants
<1>2. OwnInv /\ [Next]_vars => OwnInv'
  BY StepInv, OwnershipConstants
<1> QED BY <1>1, <1>2, PTL DEF Spec

\* Every variable keeps its type, whatever is pushed and granted.
THEOREM OwnershipTypes == Spec => []TypeOK
<1>1. OwnInv => TypeOK
  BY DEF OwnInv
<1> QED BY <1>1, OwnSafe, PTL

\* No stored record lacks its canonical row or disagrees with it about being deleted, although
\* apply_ownership_plan writes the row first and may then reject the record.
THEOREM RecordsHaveRows == Spec => []RecordsAreOwned
<1>1. OwnInv => RecordsAreOwned
  BY DEF OwnInv
<1> QED BY <1>1, OwnSafe, PTL

\* The canonical rows written by apply_ownership_plan form a tree of owners of the right type.
THEOREM RowsFormATree == Spec => []OwnersExist
<1>1. OwnInv => OwnersExist
  BY DEF OwnInv
<1> QED BY <1>1, OwnSafe, PTL

\* The deletion rules of authorize_record leave nothing active under a deleted owner.
THEOREM NothingIsOrphaned == Spec => []ActiveUnderActive
<1>1. OwnInv => ActiveUnderActive
  BY DEF OwnInv
<1> QED BY <1>1, OwnSafe, PTL

\* Evidence listed by an active measurement or requirement stays active and of the same item.
THEOREM EvidenceIsKept == Spec => []ReferencesHold
<1>1. OwnInv => ReferencesHold
  BY DEF OwnInv
<1> QED BY <1>1, OwnSafe, PTL

(***************************************************************************)
(* The read path follows the write path.                                   *)
(***************************************************************************)

LEMMA ProjectOfItem ==
    ASSUME OwnersExist, NEW i \in Of("item"), Known(i)
    PROVE  canon[i].proj \in Of("project") /\ Known(canon[i].proj)
<1>1. i \in Entities /\ Kind[i] = "item" /\ OwnerOf(i, canon[i])
  BY DEF Of, OwnersExist
<1>2. canon[i].up \in Of("project_sector") /\ Known(canon[i].up) /\ canon[i].proj = canon[canon[i].up].up
  BY <1>1, Zenon DEF OwnerOf
<1>3. OwnerOf(canon[i].up, canon[canon[i].up]) /\ Kind[canon[i].up] = "project_sector"
  BY <1>2, Zenon DEF Of, OwnersExist
<1> QED BY <1>2, <1>3, Zenon DEF OwnerOf

\* A pull of the page finds the rows that record_is_visible would look up one by one.
LEMMA ContextFindsRows ==
    ASSUME TypeOK, OwnersExist, OwnershipConstants, NEW page \in SUBSET Entities, NEW e \in page,
           Known(e)
    PROVE  /\ Kind[e] # "project" => e \in PageContext(page).rows
           /\ Kind[e] = "project" => e \in PageContext(page).projects
           /\ Kind[e] \in {"project_sector"} \cup ProjectChildKinds =>
                  canon[e].up \in PageContext(page).projects
           /\ Kind[e] = "item" => canon[e].proj \in PageContext(page).projects
           /\ Kind[e] \in ChildKinds =>
                  /\ canon[e].up \in PageContext(page).rows
                  /\ canon[canon[e].up].proj \in PageContext(page).projects
<1> DEFINE found == {x \in page : Known(x)}
           items == {i \in Of("item") : Known(i) /\ (i \in found \/ \E x \in found \cap Children : canon[x].up = i)}
<1>0. /\ e \in Entities /\ e \in found /\ OwnerOf(e, canon[e]) /\ Kind[e] \in Kinds
      /\ PageContext(page).rows = (found \ Of("project")) \cup items
      /\ PageContext(page).projects = {p \in Of("project") : Known(p) /\
             \/ p \in found
             \/ \E x \in found \cap (Of("project_sector") \cup ProjectChildren) : canon[x].up = p
             \/ \E i \in items : canon[i].proj = p}
  BY SMT DEF PageContext, OwnersExist, OwnershipConstants
<1>1. \A i \in Of("item") : Known(i) => canon[i].proj \in Of("project") /\ Known(canon[i].proj)
  BY ProjectOfItem, Zenon
<1>2. \A i \in items : canon[i].proj \in PageContext(page).projects
  BY <1>0, <1>1, Zenon
<1>3. Kind[e] = "item" => e \in items
  BY <1>0, Zenon DEF Of
<1>4. Kind[e] \in ChildKinds => canon[e].up \in items
  BY <1>0, Zenon DEF OwnerOf, Children
<1>5. Kind[e] \in {"project_sector"} \cup ProjectChildKinds => canon[e].up \in PageContext(page).projects
  BY <1>0, Zenon DEF OwnerOf, Of, ProjectChildren
<1>6. /\ Kind[e] # "project" => e \in PageContext(page).rows
      /\ Kind[e] = "project" => e \in PageContext(page).projects
  BY <1>0, Zenon DEF Of
<1>7. items \subseteq PageContext(page).rows
  BY <1>0, Zenon
<1> QED BY <1>2, <1>3, <1>4, <1>5, <1>6, <1>7, Zenon

\* It finds nothing else.
LEMMA ContextIsKnown ==
    ASSUME NEW page \in SUBSET Entities
    PROVE  \A r \in PageContext(page).rows \cup PageContext(page).projects : Known(r)
BY Zenon DEF PageContext

LEMMA SameAnswer ==
    ASSUME TypeOK, OwnersExist, OwnershipConstants, NEW page \in SUBSET Entities, NEW e \in page,
           NEW s
    PROVE  ResolveVisible(PageContext(page), s, e) <=> IsVisible(s, e)
<1> DEFINE ctx == PageContext(page)
           Project(p) == p \in ctx.projects /\ CanAccessProject(s, p, canon[p].up)
<1>0. e \in Entities /\ Kind[e] \in Kinds
  BY DEF OwnershipConstants
<1>1. /\ Kind[e] = "project" => e \notin ctx.rows
      /\ \A r \in ctx.rows : Known(r)
      /\ \A p \in ctx.projects : Known(p)
  <2>1. Kind[e] = "project" => e \notin ctx.rows
    BY SMT DEF PageContext, Of
  <2> QED BY <2>1, ContextIsKnown, Zenon
<1>2. CASE ~Known(e)
  <2>1. e \notin ctx.rows /\ e \notin ctx.projects
    BY <1>1, <1>2
  <2> QED BY <1>2, <2>1, Zenon DEF ResolveVisible, IsVisible, RecordIsVisible, DeliveryIsVisible, Live
<1>3. CASE Known(e)
  <2>1. /\ Kind[e] # "project" => e \in ctx.rows
        /\ Kind[e] = "project" => e \in ctx.projects
        /\ Kind[e] \in {"project_sector"} \cup ProjectChildKinds => canon[e].up \in ctx.projects
        /\ Kind[e] = "item" => canon[e].proj \in ctx.projects
        /\ Kind[e] \in ChildKinds => canon[e].up \in ctx.rows /\ canon[canon[e].up].proj \in ctx.projects
    BY <1>3, ContextFindsRows, SMT
  <2>2. \A p \in ctx.projects : ProjectIsVisible(s, p) <=> Project(p)
    BY <1>1, Zenon DEF ProjectIsVisible
  <2> HIDE DEF ctx
  <2>3. CASE Kind[e] = "customer"
    BY <1>3, <2>1, <2>3, SMT DEF ResolveVisible, IsVisible, RecordIsVisible, ChildKinds, ProjectChildKinds, ctx
  <2>4. CASE Kind[e] = "project"
    BY <1>3, <2>1, <2>2, <2>4, SMT DEF ResolveVisible, IsVisible, RecordIsVisible, ChildKinds, ProjectChildKinds, ctx
  <2>5. CASE Kind[e] = "item"
    BY <1>3, <2>1, <2>2, <2>5, SMT DEF ResolveVisible, IsVisible, RecordIsVisible, ChildKinds, ProjectChildKinds, ctx
  <2>6. CASE Kind[e] \in {"project_sector", "quotation"}
    BY <1>3, <2>1, <2>2, <2>6, SMT DEF ResolveVisible, IsVisible, RecordIsVisible, ChildKinds, ProjectChildKinds, ctx
  <2>7. CASE Kind[e] \in ChildKinds
    BY <1>1, <1>3, <2>1, <2>2, <2>7, SMT DEF ResolveVisible, IsVisible, RecordIsVisible, ChildKinds, ProjectChildKinds, ctx
  <2>8. CASE Kind[e] = "delivery_execution"
    BY <1>1, <1>3, <2>1, <2>2, <2>8, SMT DEF ResolveVisible, IsVisible, DeliveryIsVisible, Live, ChildKinds,
                                              ProjectChildKinds, ctx
  <2> QED BY <1>0, <2>3, <2>4, <2>5, <2>6, <2>7, <2>8, Zenon DEF Kinds, ProjectChildKinds
<1> QED BY <1>2, <1>3

\* The prefetched answer of a pull (pull_prefetch.resolve_visible) is that of record_is_visible,
\* for every page of every tree a push can build.
THEOREM PrefetchIsExact == Spec => []PrefetchAgrees
<1>1. ASSUME OwnInv PROVE PrefetchAgrees
  <2> SUFFICES ASSUME NEW page \in Pages, NEW e \in page
               PROVE  ResolveVisible(PageContext(page), ScopeOf(member), e) = IsVisible(ScopeOf(member), e)
    BY DEF PrefetchAgrees
  <2>1. page \in SUBSET Entities
    BY OwnershipConstants
  <2>2. ResolveVisible(PageContext(page), ScopeOf(member), e) <=> IsVisible(ScopeOf(member), e)
    BY <1>1, <2>1, OwnershipConstants, SameAnswer, SMT DEF OwnInv
  <2>3. /\ ResolveVisible(PageContext(page), ScopeOf(member), e) \in BOOLEAN
        /\ IsVisible(ScopeOf(member), e) \in BOOLEAN
    BY Zenon DEF ResolveVisible, IsVisible, RecordIsVisible, DeliveryIsVisible
  <2>4. \A a, b \in BOOLEAN : (a <=> b) => a = b
    BY SMT
  <2> QED BY <2>2, <2>3, <2>4, Zenon
<1> QED BY <1>1, OwnSafe, PTL

\* A lawful write touches one record, and not its owner.
LEMMA LawfulFrame ==
    ASSUME OwnInv, OwnershipConstants, NEW e, LawfulWrite(e)
    PROVE  /\ e \in Entities /\ canon'[e] # NoRow
           /\ \A x \in Entities : x # e => canon'[x] = canon[x] /\ entity'[x] = entity[x]
           /\ Known(e) => canon'[e].up = canon[e].up /\ canon'[e].proj = canon[e].proj
<1>1. PICK row, refs : Allowed(e, row, refs) /\ Writes(e, row, refs)
  BY Zenon DEF LawfulWrite
<1>2. canon \in [Entities -> Rows \cup {NoRow}] /\ entity \in [Entities -> Records \cup {NoRow}]
  BY Zenon DEF OwnInv, TypeOK
<1>3. e \in Entities /\ row \in Rows /\ row # NoRow
  BY <1>1, SMT DEF Allowed, OwnershipConstants
<1>4. canon'[e] = row /\ \A x \in Entities : x # e => canon'[x] = canon[x] /\ entity'[x] = entity[x]
  BY <1>1, <1>2, <1>3, SMT DEF Writes
<1> QED BY <1>1, <1>3, <1>4, Zenon DEF Allowed

LEMMA CustomerVisible ==
    ASSUME OwnInv, OwnershipConstants, NEW c \in Of("customer"), NEW del \in BOOLEAN,
           PushCustomer(c, del)
    PROVE  IsVisible(scope, c)'
<1>0. c \in Entities /\ Kind[c] = "customer" /\ Known(c)'
  BY CustomerLawful, LawfulFrame, SMT DEF Of, Known
<1>1. CASE Creates(c, del)
           /\ StoreAndGrant(c, [up |-> NoRow, proj |-> NoRow, live |-> TRUE], {c}, {})
  <2>1. scope \in Scopes /\ scope' = [scope EXCEPT !.cs = scope.cs \cup {c}, !.ps = scope.ps \cup {}]
    BY <1>1, Zenon DEF Creates, StoreAndGrant, OwnInv, TypeOK
  <2>2. c \in scope'.cs
    BY <2>1, SMT DEF Scopes
  <2> QED BY <1>0, <2>2, SMT DEF IsVisible, RecordIsVisible, CanAccessCustomer
<1>2. CASE CanAccessCustomer(scope, c) /\ scope' = scope
  BY <1>0, <1>2, SMT DEF IsVisible, RecordIsVisible, CanAccessCustomer
<1> QED BY <1>1, <1>2, Zenon DEF PushCustomer

LEMMA ProjectVisible ==
    ASSUME OwnInv, OwnershipConstants, NEW p \in Of("project"), NEW c, NEW del \in BOOLEAN,
           PushProject(p, c, del)
    PROVE  IsVisible(scope, p)'
<1>0. /\ p \in Entities /\ Kind[p] = "project" /\ Known(p)'
      /\ Known(p) => canon'[p].up = canon[p].up
  BY ProjectLawful, LawfulFrame, SMT DEF Of, Known
<1>1. CASE /\ Creates(p, del) /\ CanAccessCustomer(scope, c)
           /\ StoreAndGrant(p, [up |-> c, proj |-> p, live |-> TRUE], {}, {p})
  <2>1. /\ scope \in Scopes /\ scope' = [scope EXCEPT !.cs = scope.cs \cup {}, !.ps = scope.ps \cup {p}]
        /\ canon \in [Entities -> Rows \cup {NoRow}]
        /\ canon' = [canon EXCEPT ![p] = [up |-> c, proj |-> p, live |-> TRUE]]
    BY <1>1, Zenon DEF Creates, StoreAndGrant, OwnInv, TypeOK
  <2>2. p \in scope'.ps /\ scope'.cs = scope.cs /\ scope'.allC = scope.allC
    BY <2>1, SMT DEF Scopes
  <2>3. canon'[p].up = c
    BY <1>0, <2>1, SMT
  <2> QED BY <1>0, <1>1, <2>2, <2>3, SMT DEF IsVisible, RecordIsVisible, ProjectIsVisible, CanAccessProject,
                                             CanAccessCustomer
<1>2. CASE Changes(p) /\ CanAccessProject(scope, p, canon[p].up) /\ scope' = scope
  BY <1>0, <1>2, SMT DEF IsVisible, RecordIsVisible, ProjectIsVisible, CanAccessProject, CanAccessCustomer,
                         Changes
<1> QED BY <1>1, <1>2, Zenon DEF PushProject

LEMMA SectorVisible ==
    ASSUME OwnInv, OwnershipConstants, NEW s \in Of("project_sector"), NEW p, NEW del \in BOOLEAN,
           PushSector(s, p, del)
    PROVE  IsVisible(scope, s)'
<1>0. /\ s \in Entities /\ Kind[s] = "project_sector" /\ Known(s)' /\ scope' = scope
      /\ Known(s) => canon'[s].up = canon[s].up
      /\ \A x \in Of("project") : canon'[x] = canon[x]
  BY SectorLawful, LawfulFrame, SMT DEF Of, Known, PushSector
<1>1. canon'[s].up \in Of("project") /\ ProjectForScope(canon'[s].up)
  <2>1. CASE /\ p \in Of("project") /\ ProjectForScope(p)
             /\ Store(s, [up |-> p, proj |-> p, live |-> TRUE], {})
    <3>1. canon'[s].up = p
      BY <1>0, <2>1, SMT DEF Store, OwnInv, TypeOK
    <3> QED BY <2>1, <3>1
  <2>2. CASE Changes(s) /\ ProjectForScope(canon[s].up)
    <3>1. canon[s].up \in Of("project")
      BY <1>0, <2>2, Zenon DEF OwnInv, OwnersExist, OwnerOf, Changes
    <3> QED BY <1>0, <2>2, <3>1 DEF Changes
  <2> QED BY <2>1, <2>2, Zenon DEF PushSector
<1>2. ProjectIsVisible(scope, canon[s].up)'
  BY <1>0, <1>1, SMT DEF ProjectForScope, ProjectIsVisible, Live, Known, CanAccessProject, CanAccessCustomer
<1> QED BY <1>0, <1>2, SMT DEF IsVisible, RecordIsVisible

LEMMA ItemVisible ==
    ASSUME OwnInv, OwnershipConstants, NEW i \in Of("item"), NEW p, NEW s, NEW del \in BOOLEAN,
           PushItem(i, p, s, del)
    PROVE  IsVisible(scope, i)'
<1>0. /\ i \in Entities /\ Kind[i] = "item" /\ Known(i)' /\ scope' = scope
      /\ Known(i) => canon'[i].proj = canon[i].proj
      /\ \A x \in Of("project") : canon'[x] = canon[x]
  BY ItemLawful, LawfulFrame, SMT DEF Of, Known, PushItem
<1>1. canon'[i].proj \in Of("project") /\ ProjectForScope(canon'[i].proj)
  <2>1. CASE /\ p \in Of("project") /\ ProjectForScope(p)
             /\ Store(i, [up |-> s, proj |-> p, live |-> TRUE], {})
    <3>1. canon'[i].proj = p
      BY <1>0, <2>1, SMT DEF Store, OwnInv, TypeOK
    <3> QED BY <2>1, <3>1
  <2>2. CASE Changes(i) /\ ProjectForScope(canon[i].proj)
    <3>1. canon[i].proj \in Of("project")
      BY <1>0, <2>2, ProjectOfItem, Zenon DEF OwnInv, Changes
    <3> QED BY <1>0, <2>2, <3>1 DEF Changes
  <2> QED BY <2>1, <2>2, Zenon DEF PushItem
<1>2. ProjectIsVisible(scope, canon[i].proj)'
  BY <1>0, <1>1, SMT DEF ProjectForScope, ProjectIsVisible, Live, Known, CanAccessProject, CanAccessCustomer
<1> QED BY <1>0, <1>2, SMT DEF IsVisible, RecordIsVisible

LEMMA ChildVisible ==
    ASSUME OwnInv, OwnershipConstants, NEW x \in Children, NEW i, NEW refs \in SUBSET Entities,
           NEW del \in BOOLEAN, PushChild(x, i, refs, del)
    PROVE  IsVisible(scope, x)'
<1>0. /\ x \in Entities /\ Kind[x] \in ChildKinds /\ Known(x)' /\ scope' = scope
      /\ Known(x) => canon'[x].up = canon[x].up
      /\ \A y \in Of("project") \cup Of("item") : canon'[y] = canon[y]
  <2>1. scope' = scope /\ x \in Entities /\ Kind[x] \in ChildKinds
    BY Zenon DEF PushChild, Children
  <2>2. x \notin Of("project") \cup Of("item") /\ Of("project") \cup Of("item") \subseteq Entities
    BY <2>1, SMT DEF ChildKinds, Of
  <2>3. LawfulWrite(x)
    BY ChildLawful, SMT
  <2> QED BY <2>1, <2>2, <2>3, LawfulFrame, SMT DEF Known
<1>1. canon'[x].up \in Of("item") /\ ItemForScope(canon'[x].up)
  <2>1. CASE /\ i \in Of("item") /\ ItemForScope(i)
             /\ Store(x, [up |-> i, proj |-> NoRow, live |-> TRUE], refs \cap Of("evidence"))
    <3>1. canon'[x].up = i
      BY <1>0, <2>1, SMT DEF Store, OwnInv, TypeOK
    <3> QED BY <2>1, <3>1
  <2>2. CASE Changes(x) /\ ItemForScope(canon[x].up)
    <3>1. canon[x].up \in Of("item")
      BY <1>0, <2>2, Zenon DEF OwnInv, OwnersExist, OwnerOf, Changes
    <3> QED BY <1>0, <2>2, <3>1 DEF Changes
  <2> QED BY <2>1, <2>2, Zenon DEF PushChild
<1> DEFINE y == canon'[x].up
<1>3. /\ y \in Of("item") /\ Known(y) /\ canon'[y] = canon[y]
      /\ canon[y].proj \in Of("project") /\ ProjectForScope(canon[y].proj)
      /\ canon'[canon[y].proj] = canon[canon[y].proj]
  BY <1>0, <1>1, ProjectOfItem, Zenon DEF ItemForScope, Live, OwnInv
<1>4. ProjectIsVisible(scope, canon[canon[x].up].proj)'
  BY <1>0, <1>3, SMT DEF ProjectForScope, ProjectIsVisible, Live, Known, CanAccessProject, CanAccessCustomer
<1>5. Known(canon[x].up)'
  BY <1>3, SMT DEF Known
<1> QED BY <1>0, <1>4, <1>5, SMT DEF IsVisible, RecordIsVisible, ChildKinds

LEMMA QuotationVisible ==
    ASSUME OwnInv, OwnershipConstants, NEW q \in Of("quotation"), NEW p, NEW refs,
           NEW del \in BOOLEAN, PushQuotation(q, p, refs, del)
    PROVE  IsVisible(scope, q)'
<1>0. /\ q \in Entities /\ Kind[q] = "quotation" /\ Known(q)' /\ scope' = scope
      /\ Known(q) => canon'[q].up = canon[q].up
      /\ \A x \in Of("project") : canon'[x] = canon[x]
  <2>1. q \in Entities /\ Kind[q] = "quotation"
    BY Zenon DEF Of
  <2>2. LawfulWrite(q)
    BY QuotationLawful, SMT
  <2>3. /\ canon'[q] # NoRow /\ (Known(q) => canon'[q].up = canon[q].up)
        /\ \A x \in Entities : x # q => canon'[x] = canon[x]
    BY <2>2, LawfulFrame, Zenon
  <2>4. \A x \in Of("project") : x \in Entities /\ x # q
    BY <2>1, Zenon DEF Of
  <2>5. scope' = scope
    BY Zenon DEF PushQuotation
  <2> QED
    BY <2>1, <2>3, <2>4, <2>5, Zenon DEF Known
<1>1. canon'[q].up \in Of("project") /\ ProjectForScope(canon'[q].up)
  <2>1. CASE /\ p \in Of("project") /\ ProjectForScope(p)
             /\ Store(q, [up |-> p, proj |-> p, live |-> TRUE], {})
    <3>1. canon'[q].up = p
      BY <1>0, <2>1, SMT DEF Store, OwnInv, TypeOK
    <3> QED BY <2>1, <3>1
  <2>2. CASE Changes(q) /\ ProjectForScope(canon[q].up)
    <3>1. canon[q].up \in Of("project")
      BY <1>0, <2>2, SMT DEF OwnInv, OwnersExist, OwnerOf, Changes, ProjectChildKinds
    <3> QED BY <1>0, <2>2, <3>1 DEF Changes
  <2> QED BY <2>1, <2>2, Zenon DEF PushQuotation
<1>2. ProjectIsVisible(scope, canon[q].up)'
  BY <1>0, <1>1, SMT DEF ProjectForScope, ProjectIsVisible, Live, Known, CanAccessProject, CanAccessCustomer
<1> QED BY <1>0, <1>2, SMT DEF IsVisible, RecordIsVisible, ProjectChildKinds

LEMMA DeliveryVisible ==
    ASSUME OwnInv, OwnershipConstants, NEW d \in Of("delivery_execution"), NEW p \in Of("project"),
           NEW q, PushDelivery(d, p, q)
    PROVE  IsVisible(scope, d)'
<1>0. /\ d \in Entities /\ Kind[d] = "delivery_execution" /\ Known(d)' /\ scope' = scope
      /\ canon'[p] = canon[p] /\ ProjectForScope(p)
  BY DeliveryLawful, LawfulFrame, SMT DEF Of, Known, PushDelivery
<1>1. canon'[d].up = p /\ canon'[d].live /\ entity'[d] = [live |-> TRUE, refs |-> {}]
  <2>1. /\ canon \in [Entities -> Rows \cup {NoRow}] /\ entity \in [Entities -> Records \cup {NoRow}]
    BY DEF OwnInv, TypeOK
  <2>2. CASE Store(d, [up |-> p, proj |-> p, live |-> TRUE], {})
    BY <1>0, <2>1, <2>2, SMT DEF Store
  <2>3. CASE Live(d) /\ canon[d].up = p /\ Store(d, canon[d], {})
    <3>1. canon[d].live = TRUE
      BY <1>0, <2>3, RowFields, SMT DEF Live, OwnInv
    <3>2. canon'[d] = canon[d]
      BY <1>0, <2>1, <2>3, SMT DEF Store
    <3>3. entity'[d] = [live |-> canon[d].live, refs |-> IF canon[d].live THEN {} ELSE {}]
      BY <1>0, <2>1, <2>3, SMT DEF Store
    <3> QED BY <2>3, <3>1, <3>2, <3>3, ZenonT(30)
  <2> QED BY <2>2, <2>3, Zenon DEF PushDelivery
<1>2. entity'[d] # NoRow
  <2>1. [live |-> TRUE, refs |-> {}] \in Records
    BY Zenon DEF Records
  <2> QED BY <1>1, <2>1, OwnershipConstants, ZenonT(30)
<1> QED BY <1>0, <1>1, <1>2, SMT DEF IsVisible, DeliveryIsVisible, Live, Known, ProjectForScope, CanAccessProject,
                                     CanAccessCustomer

\* A step that writes a record leaves it visible to the scope it was written with.
LEMMA WriteIsVisible ==
    ASSUME OwnInv, OwnershipConstants, Next, NEW e \in Entities, entity'[e] # entity[e]
    PROVE  IsVisible(scope, e)'
<1>0. (\A k : Of(k) \subseteq Entities) /\ (\A x \in Children : ChildRefs(x) \subseteq Entities)
  BY DEF Of, ChildRefs
<1>1. \A x : LawfulWrite(x) => x = e
  BY LawfulFrame, SMT
<1>2. ASSUME NEW del \in BOOLEAN, PushRecord(del)
      PROVE  IsVisible(scope, e)'
  <2>1. ASSUME NEW c \in Of("customer"), PushCustomer(c, del)
        PROVE  IsVisible(scope, e)'
    BY <1>1, <2>1, CustomerLawful, CustomerVisible, SMT
  <2>2. ASSUME NEW p \in Of("project"), NEW c, PushProject(p, c, del)
        PROVE  IsVisible(scope, e)'
    BY <1>1, <2>2, ProjectLawful, ProjectVisible, SMT
  <2>3. ASSUME NEW s \in Of("project_sector"), NEW p, PushSector(s, p, del)
        PROVE  IsVisible(scope, e)'
    BY <1>1, <2>3, SectorLawful, SectorVisible, SMT
  <2>4. ASSUME NEW i \in Of("item"), NEW p, NEW s, PushItem(i, p, s, del)
        PROVE  IsVisible(scope, e)'
    BY <1>1, <2>4, ItemLawful, ItemVisible, SMT
  <2>5. ASSUME NEW x \in Children, NEW i, NEW refs \in SUBSET ChildRefs(x), PushChild(x, i, refs, del)
        PROVE  IsVisible(scope, e)'
    <3>1. refs \in SUBSET Entities
      BY <1>0
    <3> QED BY <1>1, <2>5, <3>1, ChildLawful, ChildVisible, SMT
  <2>6. ASSUME NEW q \in Of("quotation"), NEW p, NEW refs, PushQuotation(q, p, refs, del)
        PROVE  IsVisible(scope, e)'
    BY <1>1, <2>6, QuotationLawful, QuotationVisible, SMT
  <2> QED BY <1>2, <2>1, <2>2, <2>3, <2>4, <2>5, <2>6, Zenon DEF PushRecord
<1>3. ASSUME NEW d \in Of("delivery_execution"), NEW p \in Of("project"), NEW q \in Of("quotation"),
             PushDelivery(d, p, q)
      PROVE  IsVisible(scope, e)'
  BY <1>1, <1>3, DeliveryLawful, DeliveryVisible, SMT
<1>4. ~(entity' = entity)
  OBVIOUS
<1> QED BY <1>2, <1>3, <1>4, Zenon DEF Next, BeginPush, CommitPush, SetAuthority

\* Whoever writes a record can read it: no step of a push stores a record that
\* record_is_visible, or its delivery variant, would hide from the scope of that push.
THEOREM WritersCanRead == Spec => WritesAreVisible
<1>1. OwnInv /\ [Next]_vars =>
          [\A e \in Entities : entity'[e] # entity[e] => IsVisible(scope, e)']_vars
  BY WriteIsVisible, OwnershipConstants, Zenon
<1> QED BY <1>1, OwnSafe, PTL DEF Spec, WritesAreVisible
=============================================================================
