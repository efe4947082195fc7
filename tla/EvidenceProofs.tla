--------------------------- MODULE EvidenceProofs ---------------------------
(***************************************************************************)
(* The inductive invariant of Evidence and the safety properties that      *)
(* follow from it: for any number of organizations, documents, uploads and *)
(* collectors, and whatever fails.                                         *)
(***************************************************************************)
EXTENDS Evidence, WellFoundedInduction, TLAPS

-----------------------------------------------------------------------------
(* The inductive invariant.                                                *)

UpStates ==
    [pc : {"idle", "put", "lock", "cancel", "verify", "commit", "discard"},
     doc : Docs \cup {NoRow}, item : Items \cup {NoRow}, sha : Digests \cup {NoRow},
     cancel : SUBSET Nat]
ColStates ==
    [pc : {"idle", "run"}, rows : SUBSET Nat, todo : SUBSET Nat, gone : SUBSET Nat,
     later : SUBSET Nat, drop : SUBSET Docs,
     cur : (Docs \cup {NoRow}) \X (Blobs \cup {NoRow}),
     canon : (Docs \cup {NoRow}) \X {"none", "live", "deleted"}]
QueueRows == [id : Nat, doc : Docs, sha : Digests, due : BOOLEAN]

TypeOK ==
    /\ blob \in [Docs -> Blobs \cup {NoRow}]
    /\ meta \in [Docs -> {"none", "live", "deleted"}]
    /\ refs \subseteq Docs /\ misjudged \subseteq Docs
    /\ queue \subseteq QueueRows /\ nextId \in Nat
    /\ objects \subseteq Keys /\ published \subseteq Keys
    /\ lock \in [Orgs -> Procs \cup {Free}]
    /\ up \in [Uploaders -> UpStates]
    /\ \A u \in Uploaders : up[u].pc # "idle" =>
           up[u].doc \in Docs /\ up[u].item \in Items /\ up[u].sha \in Digests
    /\ col \in [Collectors -> ColStates]

RowKey(r) == <<r.doc, r.sha>>

\* The ids of queue rows are unique and grow, and only live evidence is referenced.
TableInv ==
    /\ \A r \in queue : r.id < nextId /\ \A q \in queue : r.id = q.id => r = q
    /\ \A d \in refs : meta[d] = "live"

\* From LockForUpload to its end an upload holds the organization; once it has cancelled the
\* collections of its key it has cancelled these and no others; and what it is about to publish
\* is in the store, unless another upload discarded it.
UploadInv(u) ==
    /\ up[u].pc \in {"cancel", "verify", "commit"} => lock[OrgOf[up[u].doc]] = u
    /\ up[u].pc \notin {"verify", "commit"} => up[u].cancel = {}
    /\ \A n \in up[u].cancel : n < nextId /\ \A g \in Collectors : n \notin col[g].rows
    /\ \A r \in queue : r.id \in up[u].cancel => RowKey(r) = KeyOf(u)
    /\ \A r \in queue : up[u].pc \in {"verify", "commit"} /\ RowKey(r) = KeyOf(u) => r.id \in up[u].cancel
    /\ up[u].pc = "commit" => KeyOf(u) \in objects \cup discarded

\* The rows a run has locked stay in the queue and are its own.  It holds the organization of a
\* blob it has deleted: the document is deleted and nobody refers to it, and the object is gone.
CollectorInv(g) ==
    /\ col[g].gone \subseteq col[g].rows /\ col[g].todo \subseteq col[g].rows
    /\ col[g].pc = "idle" => col[g].rows = {} /\ col[g].drop = {}
    /\ \A n \in col[g].rows : \E r \in queue : r.id = n
    /\ \A h \in Collectors : h # g => col[g].rows \cap col[h].rows = {}
    /\ \A d \in col[g].drop :
        /\ lock[OrgOf[d]] = g /\ d \notin refs
        /\ d \notin misjudged =>
               meta[d] = "deleted" /\ (blob[d] # NoRow => <<d, blob[d].sha>> \notin published)

\* Only a deletion queues the version that is the pointer.
PointerRows == \A r \in queue : IsPointer(RowKey(r)) => meta[r.doc] # "none"

\* SupersededIsQueued, by a row that no run is about to remove.
QueuedInv ==
    \A k \in published : k[1] \notin misjudged /\ ~IsPointer(k) =>
        \E r \in queue : RowKey(r) = k /\ \A g \in Collectors : r.id \notin col[g].gone

\* CollectorSparesPublished, for deleted documents also.
ObjectInv ==
    \A k \in Keys : IsPointer(k) =>
        \/ k \in objects \cup discarded \cup torn \/ k[1] \in misjudged
        \/ \E g \in Collectors : k[1] \in col[g].drop

Uploads == \A u \in Uploaders : UploadInv(u)
Collections == \A g \in Collectors : CollectorInv(g)
KeyInv == PointerRows /\ QueuedInv /\ ObjectInv

EvidenceInv == TypeOK /\ TableInv /\ Uploads /\ Collections /\ KeyInv

-----------------------------------------------------------------------------
(* What a step leaves alone.                                               *)

\* A set of numbers has a least one.
LEMMA LeastIn ==
    ASSUME NEW S \in SUBSET Nat, S # {}
    PROVE  Min(S) \in S
<1>1. PICK m \in S : \A k \in S : <<k, m>> \notin OpToRel(<, Nat)
  BY WFMin, NatLessThanWellFounded, Zenon
<1>2. \A k \in S : k \in Nat /\ m \in Nat /\ ~(k < m)
  BY <1>1, Zenon DEF OpToRel
<1>3. \A k \in S : m <= k
  BY <1>2
<1>4. \E x \in S : \A y \in S : x <= y
  BY <1>3, Zenon
<1> QED
  BY <1>4, Zenon DEF Min

\* The row a run turns to is in the queue, and is one it has locked.
LEMMA NextRowIn ==
    ASSUME TypeOK, NEW g \in Collectors, CollectorInv(g), col[g].todo # {}
    PROVE  /\ NextRow(g) \in queue /\ NextRow(g).id \in col[g].rows
           /\ NextRow(g).doc \in Docs /\ RowKey(NextRow(g)) \in Keys /\ OrgOf[NextRow(g).doc] \in Orgs
<1>1. col[g] \in ColStates
  BY Zenon DEF TypeOK
<1>2. col[g].todo \in SUBSET Nat
  BY <1>1 DEF ColStates
<1>3. PICK n : n = Min(col[g].todo)
  BY Zenon
<1>4. n \in col[g].rows
  BY <1>2, <1>3, LeastIn, Zenon DEF CollectorInv
<1>5. \E r \in queue : r.id = n
  BY <1>4, Zenon DEF CollectorInv
<1>6. NextRow(g) \in queue /\ NextRow(g).id = n
  BY <1>3, <1>5, Zenon DEF NextRow
<1>7. NextRow(g) \in QueueRows
  BY <1>6, Zenon DEF TypeOK
<1>8. NextRow(g).doc \in Docs /\ NextRow(g).sha \in Digests
  BY <1>7 DEF QueueRows
<1>9. OrgOf[NextRow(g).doc] \in Orgs
  BY <1>8, EvidenceConstants, Zenon
<1> QED
  BY <1>4, <1>6, <1>8, <1>9, Zenon DEF RowKey, Keys

\* What a rollback or a commit does to the locks.
LEMMA ReleaseFacts ==
    ASSUME TypeOK, NEW p
    PROVE  /\ Release(p) \in [Orgs -> Procs \cup {Free}]
           /\ \A o \in Orgs : lock[o] # p => Release(p)[o] = lock[o]
BY Zenon DEF Release, TypeOK

\* The invariant of an upload that does not move: its lock is its own, no row of its key is
\* added or locked, and what it verified is not collected.
LEMMA UploadStays ==
    ASSUME NEW u \in Uploaders, UploadInv(u), up'[u] = up[u], nextId \in Nat, nextId' \in Nat,
           nextId <= nextId',
           \A n \in up[u].cancel : n \in Nat,
           up[u].pc \in {"cancel", "verify", "commit"} =>
               (lock[OrgOf[up[u].doc]] = u => lock'[OrgOf[up[u].doc]] = u),
           \A r \in queue' :
               \/ \E q \in queue : q.id = r.id /\ RowKey(q) = RowKey(r)
               \/ /\ r.id = nextId
                  /\ up[u].pc \in {"verify", "commit"} => RowKey(r) # KeyOf(u),
           \A g \in Collectors : \A n \in col'[g].rows : n \in col[g].rows \/ n \notin up[u].cancel,
           up[u].pc = "commit" /\ KeyOf(u) \in objects \cup discarded =>
               KeyOf(u) \in objects' \cup discarded'
    PROVE  UploadInv(u)'
<1>1. KeyOf(u)' = KeyOf(u)
  BY Zenon DEF KeyOf
<1>2. up[u].pc \in {"cancel", "verify", "commit"} => lock'[OrgOf[up'[u].doc]] = u
  BY Zenon DEF UploadInv
<1>3. \A n \in up[u].cancel : n < nextId
  BY Zenon DEF UploadInv
<1>4. \A n \in up[u].cancel : n < nextId' /\ n # nextId
  BY <1>3
<1>5. \A n \in up[u].cancel : \A g \in Collectors : n \notin col'[g].rows
  BY Zenon DEF UploadInv
<1>6. ASSUME NEW r \in queue', r.id \in up[u].cancel PROVE RowKey(r) = KeyOf(u)
  BY <1>4, <1>6, Zenon DEF UploadInv
<1>7. ASSUME NEW r \in queue', up[u].pc \in {"verify", "commit"}, RowKey(r) = KeyOf(u)
      PROVE  r.id \in up[u].cancel
  BY <1>7, Zenon DEF UploadInv
<1>8. up[u].pc \notin {"verify", "commit"} => up[u].cancel = {}
  BY Zenon DEF UploadInv
<1>9. up[u].pc = "commit" => KeyOf(u) \in objects' \cup discarded'
  BY Zenon DEF UploadInv
<1> QED
  BY <1>1, <1>2, <1>4, <1>5, <1>6, <1>7, <1>8, <1>9, Zenon DEF UploadInv

\* The invariant of a run that does not move: its locks and rows are its own, and so are the
\* documents whose organization it holds.
LEMMA CollectorStays ==
    ASSUME NEW g \in Collectors, CollectorInv(g), col'[g] = col[g], misjudged \subseteq misjudged',
           \A n \in col[g].rows : (\E r \in queue : r.id = n) => \E r \in queue' : r.id = n,
           \A h \in Collectors : h # g => col'[h].rows \cap col[g].rows = {},
           \A d \in col[g].drop : lock[OrgOf[d]] = g =>
               /\ lock'[OrgOf[d]] = g /\ (d \in refs' => d \in refs)
               /\ meta'[d] = meta[d] /\ blob'[d] = blob[d]
               /\ \A x : <<d, x>> \in published' => <<d, x>> \in published
    PROVE  CollectorInv(g)'
<1>1. \A n \in col[g].rows : \E r \in queue' : r.id = n
  BY Zenon DEF CollectorInv
<1>2. ASSUME NEW d \in col[g].drop
      PROVE  /\ lock'[OrgOf[d]] = g /\ d \notin refs'
             /\ d \notin misjudged' =>
                  meta'[d] = "deleted" /\ (blob'[d] # NoRow => <<d, blob'[d].sha>> \notin published')
  <2>1. /\ lock[OrgOf[d]] = g /\ d \notin refs
        /\ d \notin misjudged =>
             meta[d] = "deleted" /\ (blob[d] # NoRow => <<d, blob[d].sha>> \notin published)
    BY Zenon DEF CollectorInv
  <2>2. /\ lock'[OrgOf[d]] = g /\ (d \in refs' => d \in refs)
        /\ meta'[d] = meta[d] /\ blob'[d] = blob[d]
        /\ \A x : <<d, x>> \in published' => <<d, x>> \in published
    BY <2>1, Zenon
  <2>3. <<d, blob[d].sha>> \in published' => <<d, blob[d].sha>> \in published
    BY <2>2, Zenon
  <2> QED
    BY <2>1, <2>2, <2>3, Zenon
<1>3. /\ col[g].gone \subseteq col[g].rows /\ col[g].todo \subseteq col[g].rows
      /\ col[g].pc = "idle" => col[g].rows = {} /\ col[g].drop = {}
  BY Zenon DEF CollectorInv
<1>4. \A h \in Collectors : h # g => col'[g].rows \cap col'[h].rows = {}
  BY Zenon
<1> QED
  BY <1>1, <1>2, <1>3, <1>4, Zenon DEF CollectorInv

-----------------------------------------------------------------------------
(* Uploads, while they change no table.                                    *)

\* A state an upload may be in.
UpState(x) ==
    x \in UpStates /\ (x.pc # "idle" => x.doc \in Docs /\ x.item \in Items /\ x.sha \in Digests)

\* An upload's own step: it changes no table and no object and takes only a lock that is free.
LEMMA UploadOnly ==
    ASSUME EvidenceInv, NEW u \in Uploaders, NEW x, UpState(x), up' = [up EXCEPT ![u] = x],
           UNCHANGED <<dbVars, objects, col, history>>,
           lock' \in [Orgs -> Procs \cup {Free}],
           \A o \in Orgs : lock[o] \notin {u, Free} => lock'[o] = lock[o],
           UploadInv(u)'
    PROVE  EvidenceInv'
<1>1. /\ blob' = blob /\ meta' = meta /\ refs' = refs /\ queue' = queue /\ nextId' = nextId
      /\ published' = published /\ objects' = objects /\ col' = col
      /\ discarded' = discarded /\ torn' = torn /\ misjudged' = misjudged
  BY DEF dbVars, tables, history
<1>2. up \in [Uploaders -> UpStates]
  BY Zenon DEF EvidenceInv, TypeOK
<1>3. /\ up' \in [Uploaders -> UpStates] /\ up'[u] = x
      /\ \A v \in Uploaders : v # u => up'[v] = up[v]
  BY <1>2, Zenon DEF UpState
<1>4. TypeOK'
  <2>1. \A v \in Uploaders : up'[v].pc # "idle" =>
           up'[v].doc \in Docs /\ up'[v].item \in Items /\ up'[v].sha \in Digests
    BY <1>3, Zenon DEF EvidenceInv, TypeOK, UpState
  <2> QED
    BY <1>1, <1>3, <2>1, Zenon DEF EvidenceInv, TypeOK
<1>5. TableInv'
  BY <1>1, Zenon DEF EvidenceInv, TableInv
<1>6. ASSUME NEW v \in Uploaders, v # u PROVE UploadInv(v)'
  <2>1. UploadInv(v) /\ up'[v] = up[v] /\ nextId \in Nat
    BY <1>3, <1>6, Zenon DEF EvidenceInv, Uploads, TypeOK
  <2>2. nextId' \in Nat /\ nextId <= nextId'
    BY <1>1, <2>1
  <2>3. up[v] \in UpStates
    BY Zenon DEF EvidenceInv, TypeOK
  <2>4. \A n \in up[v].cancel : n \in Nat
    BY <2>3 DEF UpStates
  <2>5. up[v].pc \in {"cancel", "verify", "commit"} =>
               (lock[OrgOf[up[v].doc]] = v => lock'[OrgOf[up[v].doc]] = v)
    <3>1. up[v].pc \in {"cancel", "verify", "commit"} => OrgOf[up[v].doc] \in Orgs
      BY EvidenceConstants, Zenon DEF EvidenceInv, TypeOK
    <3>2. v # Free
      BY EvidenceConstants, Zenon DEF Procs
    <3> QED
      BY <1>6, <3>1, <3>2, Zenon
  <2> QED
    BY <1>1, <2>1, <2>2, <2>4, <2>5, UploadStays, Zenon
<1>7. ASSUME NEW g \in Collectors PROVE CollectorInv(g)'
  <2>1. CollectorInv(g)
    BY Zenon DEF EvidenceInv, Collections
  <2>2. g # u /\ g # Free
    BY EvidenceConstants, Zenon DEF Procs
  <2>3. \A d \in col[g].drop : OrgOf[d] \in Orgs
    <3>1. col[g] \in ColStates
      BY Zenon DEF EvidenceInv, TypeOK
    <3>2. col[g].drop \subseteq Docs
      BY <3>1 DEF ColStates
    <3> QED
      BY <3>2, EvidenceConstants, Zenon
  <2>4. \A h \in Collectors : h # g => col'[h].rows \cap col[g].rows = {}
    BY <1>1, <2>1, Zenon DEF CollectorInv
  <2>5. \A d \in col[g].drop : lock[OrgOf[d]] = g => lock'[OrgOf[d]] = g
    BY <2>2, <2>3, Zenon
  <2> QED
    BY <1>1, <2>1, <2>4, <2>5, CollectorStays, Zenon
<1>8. PointerRows'
  BY <1>1, Zenon DEF EvidenceInv, KeyInv, PointerRows, IsPointer
<1>9. QueuedInv'
  BY <1>1, Zenon DEF EvidenceInv, KeyInv, QueuedInv, IsPointer
<1>10. ObjectInv'
  BY <1>1, Zenon DEF EvidenceInv, KeyInv, ObjectInv, IsPointer
<1> QED
  BY <1>4, <1>5, <1>6, <1>7, <1>8, <1>9, <1>10, Zenon DEF EvidenceInv, Uploads, Collections, KeyInv

\* An upload that holds nothing needs nothing.
LEMMA UploadIdles ==
    ASSUME NEW u \in Uploaders, up'[u].pc \in {"idle", "put", "lock", "discard"}, up'[u].cancel = {}
    PROVE  UploadInv(u)'
<1>1. up'[u].pc \notin {"cancel", "verify", "commit"}
  OBVIOUS
<1> QED
  BY <1>1, Zenon DEF UploadInv

LEMMA IdleUpState == UpState(IdleUp) /\ IdleUp.pc = "idle" /\ IdleUp.cancel = {}
BY DEF UpState, UpStates, IdleUp

\* What giving up does to the upload and its lock.
LEMMA GiveUpFacts ==
    ASSUME TypeOK, NEW u \in Uploaders, up[u].pc # "idle", NEW preserve, GiveUp(u, preserve)
    PROVE  \E x : /\ UpState(x) /\ up' = [up EXCEPT ![u] = x]
                  /\ x.pc \in {"idle", "discard"} /\ x.cancel = {}
                  /\ x.pc = "discard" => x.doc = up[u].doc /\ x.sha = up[u].sha
<1> DEFINE y == [up[u] EXCEPT !.pc = "discard", !.cancel = {}]
<1>1. up[u] \in UpStates /\ up[u].doc \in Docs /\ up[u].item \in Items /\ up[u].sha \in Digests
  BY Zenon DEF TypeOK
<1>2. UpState(y) /\ y.pc = "discard" /\ y.cancel = {} /\ y.doc = up[u].doc /\ y.sha = up[u].sha
  BY <1>1, ZenonT(30) DEF UpState, UpStates
<1>3. up' = [up EXCEPT ![u] = IdleUp] \/ up' = [up EXCEPT ![u] = y]
  BY Zenon DEF GiveUp
<1> HIDE DEF y
<1> QED
  BY <1>2, <1>3, IdleUpState, Zenon

\* The same, as a step that changes no table.
LEMMA GiveUpStep ==
    ASSUME EvidenceInv, NEW u \in Uploaders, up[u].pc # "idle", NEW preserve, GiveUp(u, preserve),
           UNCHANGED <<dbVars, objects, col, history>>
    PROVE  EvidenceInv'
<1>1. TypeOK
  BY Zenon DEF EvidenceInv
<1>2. PICK x : /\ UpState(x) /\ up' = [up EXCEPT ![u] = x]
               /\ x.pc \in {"idle", "discard"} /\ x.cancel = {}
  BY <1>1, GiveUpFacts, Zenon
<1>3. up'[u] = x
  BY <1>1, <1>2, Zenon DEF TypeOK
<1>4. UploadInv(u)'
  BY <1>2, <1>3, UploadIdles, Zenon
<1>5. lock' = Release(u)
  BY Zenon DEF GiveUp
<1> QED
  BY <1>1, <1>2, <1>4, <1>5, ReleaseFacts, UploadOnly, Zenon

LEMMA BeginUploadInv ==
    ASSUME EvidenceInv, NEW u \in Uploaders, NEW d \in Docs, NEW i \in Items, NEW c \in Digests,
           BeginUpload(u, d, i, c)
    PROVE  EvidenceInv'
<1> DEFINE x == [IdleUp EXCEPT !.pc = "put", !.doc = d, !.item = i, !.sha = c]
<1>1. /\ up' = [up EXCEPT ![u] = x] /\ lock' = lock
      /\ UNCHANGED <<dbVars, objects, col, history>>
  BY Zenon DEF BeginUpload
<1>2. UpState(x) /\ x.pc = "put" /\ x.cancel = {}
  BY ZenonT(30) DEF UpState, UpStates, IdleUp
<1> HIDE DEF x
<1>3. up'[u] = x /\ lock' \in [Orgs -> Procs \cup {Free}]
  BY <1>1, Zenon DEF EvidenceInv, TypeOK
<1>4. UploadInv(u)'
  BY <1>2, <1>3, UploadIdles, Zenon
<1> QED
  BY <1>1, <1>2, <1>3, <1>4, UploadOnly, Zenon

LEMMA UploadEndsInv ==
    ASSUME EvidenceInv, NEW u \in Uploaders, PutFails(u) \/ AbortUpload(u)
    PROVE  EvidenceInv'
<1>1. /\ up' = [up EXCEPT ![u] = IdleUp] /\ (lock' = lock \/ lock' = Release(u))
      /\ UNCHANGED <<dbVars, objects, col, history>>
  BY Zenon DEF PutFails, AbortUpload
<1>2. TypeOK
  BY Zenon DEF EvidenceInv
<1>3. up'[u] = IdleUp
  BY <1>1, <1>2, Zenon DEF TypeOK
<1>4. UploadInv(u)'
  BY <1>3, IdleUpState, UploadIdles, Zenon
<1>5. lock' \in [Orgs -> Procs \cup {Free}] /\ \A o \in Orgs : lock[o] # u => lock'[o] = lock[o]
  <2>1. CASE lock' = lock
    BY <1>2, <2>1, Zenon DEF TypeOK
  <2>2. CASE lock' = Release(u)
    BY <1>2, <2>2, ReleaseFacts, Zenon
  <2> QED
    BY <1>1, <2>1, <2>2, Zenon
<1> QED
  BY <1>1, <1>4, <1>5, IdleUpState, UploadOnly, Zenon

LEMMA LockForUploadInv ==
    ASSUME EvidenceInv, NEW u \in Uploaders, LockForUpload(u)
    PROVE  EvidenceInv'
<1>1. /\ up[u].pc = "lock" /\ lock[OrgOf[up[u].doc]] = Free
      /\ UNCHANGED <<dbVars, objects, col, history>>
  BY Zenon DEF LockForUpload
<1>2. TypeOK /\ UploadInv(u) /\ up[u].pc # "idle"
  BY <1>1, Zenon DEF EvidenceInv, Uploads
<1>3. CASE GiveUp(u, IsCanonical(u))
  BY <1>1, <1>2, <1>3, GiveUpStep, Zenon
<1>4. CASE /\ lock' = [lock EXCEPT ![OrgOf[up[u].doc]] = u]
           /\ up' = [up EXCEPT ![u].pc = "cancel"]
  <2> DEFINE x == [up[u] EXCEPT !.pc = "cancel"]
  <2>1. up[u] \in UpStates /\ up[u].doc \in Docs /\ up[u].item \in Items /\ up[u].sha \in Digests
    BY <1>2, Zenon DEF TypeOK
  <2>2. /\ UpState(x) /\ x.pc = "cancel" /\ x.cancel = up[u].cancel /\ x.doc = up[u].doc
    BY <2>1 DEF UpState, UpStates
  <2>3. up' = [up EXCEPT ![u] = x]
    BY <1>4, Zenon
  <2> HIDE DEF x
  <2>4. up'[u] = x /\ OrgOf[up[u].doc] \in Orgs /\ u \in Procs
    BY <1>2, <2>1, <2>3, EvidenceConstants, Zenon DEF TypeOK, Procs
  <2>5. /\ lock' \in [Orgs -> Procs \cup {Free}] /\ lock'[OrgOf[up[u].doc]] = u
        /\ \A o \in Orgs : o # OrgOf[up[u].doc] => lock'[o] = lock[o]
    BY <1>2, <1>4, <2>4, Zenon DEF TypeOK
  <2>6. up[u].cancel = {}
    BY <1>1, <1>2, Zenon DEF UploadInv
  <2>7. UploadInv(u)'
    <3>1. up'[u].pc = "cancel" /\ up'[u].cancel = {} /\ up'[u].doc = up[u].doc
      BY <2>2, <2>4, <2>6, Zenon
    <3>2. up'[u].pc \notin {"verify", "commit"}
      BY <3>1
    <3> QED
      BY <2>5, <3>1, <3>2, Zenon DEF UploadInv
  <2>8. \A o \in Orgs : lock[o] \notin {u, Free} => lock'[o] = lock[o]
    BY <1>1, <2>5, Zenon
  <2> QED
    BY <1>1, <2>2, <2>3, <2>5, <2>7, <2>8, UploadOnly, Zenon
<1> QED
  BY <1>3, <1>4, Zenon DEF LockForUpload

\* An upload that goes on with its lock.
LEMMA UploadGoesOn ==
    ASSUME EvidenceInv, NEW u \in Uploaders, up[u].pc # "idle",
           NEW pc \in {"verify", "commit"}, NEW ids \in SUBSET Nat,
           up' = [up EXCEPT ![u] = [up[u] EXCEPT !.pc = pc, !.cancel = ids]], lock' = lock,
           UNCHANGED <<dbVars, objects, col, history>>,
           lock[OrgOf[up[u].doc]] = u,
           \A n \in ids : n < nextId /\ \A g \in Collectors : n \notin col[g].rows,
           \A r \in queue : r.id \in ids <=> RowKey(r) = KeyOf(u),
           pc = "commit" => KeyOf(u) \in objects
    PROVE  EvidenceInv'
<1> DEFINE x == [up[u] EXCEPT !.pc = pc, !.cancel = ids]
<1>1. TypeOK
  BY Zenon DEF EvidenceInv
<1>2. up[u] \in UpStates /\ up[u].doc \in Docs /\ up[u].item \in Items /\ up[u].sha \in Digests
  BY <1>1, Zenon DEF TypeOK
<1>3. UpState(x) /\ x.pc = pc /\ x.cancel = ids /\ x.doc = up[u].doc /\ x.sha = up[u].sha
  BY <1>2, ZenonT(30) DEF UpState, UpStates
<1>4. up' = [up EXCEPT ![u] = x]
  BY Zenon
<1> HIDE DEF x
<1>5. up'[u] = x /\ lock' \in [Orgs -> Procs \cup {Free}]
  BY <1>1, <1>4, Zenon DEF TypeOK
<1>6. KeyOf(u)' = KeyOf(u)
  BY <1>3, <1>5, Zenon DEF KeyOf
<1>7. queue' = queue /\ nextId' = nextId /\ objects' = objects /\ col' = col
  BY DEF dbVars, tables
<1>8. UploadInv(u)'
  <2>1. up'[u].pc = pc /\ up'[u].cancel = ids /\ up'[u].doc = up[u].doc
    BY <1>3, <1>5, Zenon
  <2>2. \A n \in ids : n < nextId' /\ \A g \in Collectors : n \notin col'[g].rows
    BY <1>7, Zenon
  <2> QED
    BY <1>6, <1>7, <2>1, <2>2, Zenon DEF UploadInv
<1> QED
  BY <1>3, <1>4, <1>5, <1>8, UploadOnly, Zenon

LEMMA CancelGcInv ==
    ASSUME EvidenceInv, NEW u \in Uploaders, CancelGc(u)
    PROVE  EvidenceInv'
<1> DEFINE ids == RowIds(KeyOf(u))
<1>1. /\ up[u].pc = "cancel" /\ RowHolders(ids) \subseteq {u} /\ lock' = lock
      /\ up' = [up EXCEPT ![u].pc = "verify", ![u].cancel = ids]
      /\ UNCHANGED <<dbVars, objects, col, history>>
  BY Zenon DEF CancelGc
<1>2. TypeOK /\ TableInv /\ UploadInv(u)
  BY Zenon DEF EvidenceInv, Uploads
<1>3. \A n : n \in ids <=> \E r \in queue : r.id = n /\ RowKey(r) = KeyOf(u)
  BY Zenon DEF RowIds, RowKey
<1> HIDE DEF ids
<1>4. lock[OrgOf[up[u].doc]] = u
  BY <1>1, <1>2, Zenon DEF UploadInv
<1>5. ASSUME NEW n \in ids PROVE n \in Nat /\ n < nextId
  <2>1. PICK r \in queue : r.id = n
    BY <1>3, Zenon
  <2>2. r.id \in Nat
    BY <1>2 DEF TypeOK, QueueRows
  <2>3. r.id < nextId
    BY <1>2, Zenon DEF TableInv
  <2> QED
    BY <2>1, <2>2, <2>3
<1>6. ASSUME NEW n \in ids, NEW g \in Collectors PROVE n \notin col[g].rows
  <2>1. g # u
    BY EvidenceConstants, Zenon
  <2>2. g \notin RowHolders(ids)
    BY <1>1, <2>1, Zenon
  <2> QED
    BY <2>2, Zenon DEF RowHolders
<1>7. \A r \in queue : r.id \in ids <=> RowKey(r) = KeyOf(u)
  BY <1>2, <1>3, Zenon DEF TableInv
<1>8. up' = [up EXCEPT ![u] = [up[u] EXCEPT !.pc = "verify", !.cancel = ids]]
  BY <1>1, <1>2, ZenonT(30) DEF TypeOK, UpStates
<1>9. ids \in SUBSET Nat /\ up[u].pc # "idle"
  BY <1>1, <1>5, Zenon
<1>10. PICK pc : pc = "verify"
  BY Zenon
<1>11. pc \in {"verify", "commit"} /\ (pc = "commit" => KeyOf(u) \in objects)
  BY <1>10
<1> QED
  BY <1>1, <1>4, <1>5, <1>6, <1>7, <1>8, <1>9, <1>10, <1>11, UploadGoesOn, Zenon

LEMMA VerifyObjectInv ==
    ASSUME EvidenceInv, NEW u \in Uploaders, VerifyObject(u)
    PROVE  EvidenceInv'
<1>1. up[u].pc = "verify" /\ UNCHANGED <<dbVars, objects, col, history>>
  BY Zenon DEF VerifyObject
<1>2. TypeOK /\ UploadInv(u) /\ up[u].pc # "idle"
  BY <1>1, Zenon DEF EvidenceInv, Uploads
<1>3. CASE GiveUp(u, IsCanonical(u))
  BY <1>1, <1>2, <1>3, GiveUpStep, Zenon
<1>4. CASE KeyOf(u) \in objects /\ up' = [up EXCEPT ![u].pc = "commit"] /\ UNCHANGED lock
  <2>1. up[u] \in UpStates
    BY <1>2, Zenon DEF TypeOK
  <2>2. up[u].cancel \in SUBSET Nat
    BY <2>1 DEF UpStates
  <2>3. [up[u] EXCEPT !.pc = "commit"] = [up[u] EXCEPT !.pc = "commit", !.cancel = up[u].cancel]
    BY <2>1, ZenonT(30) DEF UpStates
  <2>4. up' = [up EXCEPT ![u] = [up[u] EXCEPT !.pc = "commit", !.cancel = up[u].cancel]]
    BY <1>4, <2>3, Zenon
  <2>5. /\ lock[OrgOf[up[u].doc]] = u
        /\ \A n \in up[u].cancel : n < nextId /\ \A g \in Collectors : n \notin col[g].rows
        /\ \A r \in queue : r.id \in up[u].cancel <=> RowKey(r) = KeyOf(u)
    BY <1>1, <1>2, Zenon DEF UploadInv
  <2>6. PICK pc : pc = "commit"
    BY Zenon
  <2> QED
    BY <1>1, <1>2, <1>4, <2>2, <2>4, <2>5, <2>6, UploadGoesOn, Zenon
<1> QED
  BY <1>3, <1>4, Zenon DEF VerifyObject

-----------------------------------------------------------------------------
(* Uploads and the store.                                                  *)

\* Objects come, or go by the hand of an upload; the tables stay.
LEMMA StoreMoves ==
    ASSUME EvidenceInv, NEW u \in Uploaders, NEW x, UpState(x), up' = [up EXCEPT ![u] = x],
           x.pc \in {"idle", "lock"}, x.cancel = {},
           UNCHANGED <<tables, lock, col, misjudged>>,
           published' \subseteq published, objects' \subseteq Keys,
           objects \cup discarded \subseteq objects' \cup discarded',
           torn \subseteq objects' \cup discarded' \cup torn'
    PROVE  EvidenceInv'
<1>1. /\ blob' = blob /\ meta' = meta /\ refs' = refs /\ queue' = queue /\ nextId' = nextId
      /\ lock' = lock /\ col' = col /\ misjudged' = misjudged
  BY DEF tables
<1>2. TypeOK
  BY Zenon DEF EvidenceInv
<1>3. /\ up' \in [Uploaders -> UpStates] /\ up'[u] = x
      /\ \A v \in Uploaders : v # u => up'[v] = up[v]
  BY <1>2, Zenon DEF TypeOK, UpState
<1>4. TypeOK'
  <2>1. \A v \in Uploaders : up'[v].pc # "idle" =>
           up'[v].doc \in Docs /\ up'[v].item \in Items /\ up'[v].sha \in Digests
    BY <1>2, <1>3, Zenon DEF TypeOK, UpState
  <2> QED
    BY <1>1, <1>2, <1>3, <2>1, Zenon DEF TypeOK
<1>5. TableInv'
  BY <1>1, Zenon DEF EvidenceInv, TableInv
<1>6. ASSUME NEW v \in Uploaders PROVE UploadInv(v)'
  <2>1. CASE v = u
    <3>1. up'[u].pc \in {"idle", "put", "lock", "discard"} /\ up'[u].cancel = {}
      BY <1>3, Zenon
    <3> QED
      BY <2>1, <3>1, UploadIdles, Zenon
  <2>2. CASE v # u
    <3>1. UploadInv(v) /\ up'[v] = up[v] /\ nextId \in Nat /\ up[v] \in UpStates
      BY <1>2, <1>3, <2>2, Zenon DEF EvidenceInv, Uploads, TypeOK
    <3>2. nextId' \in Nat /\ nextId <= nextId' /\ \A n \in up[v].cancel : n \in Nat
      BY <1>1, <3>1 DEF UpStates
    <3> QED
      BY <1>1, <3>1, <3>2, UploadStays, Zenon
  <2> QED
    BY <2>1, <2>2, Zenon
<1>7. ASSUME NEW g \in Collectors PROVE CollectorInv(g)'
  <2>1. CollectorInv(g)
    BY Zenon DEF EvidenceInv, Collections
  <2>2. \A h \in Collectors : h # g => col'[h].rows \cap col[g].rows = {}
    BY <1>1, <2>1, Zenon DEF CollectorInv
  <2> QED
    BY <1>1, <2>1, <2>2, CollectorStays, Zenon
<1>8. PointerRows'
  BY <1>1, Zenon DEF EvidenceInv, KeyInv, PointerRows, IsPointer
<1>9. QueuedInv'
  BY <1>1, Zenon DEF EvidenceInv, KeyInv, QueuedInv, IsPointer
<1>10. ObjectInv'
  <2> SUFFICES ASSUME NEW k \in Keys, IsPointer(k)'
               PROVE  \/ k \in objects' \cup discarded' \cup torn' \/ k[1] \in misjudged'
                      \/ \E g \in Collectors : k[1] \in col'[g].drop
    BY Zenon DEF ObjectInv
  <2>1. IsPointer(k)
    BY <1>1, Zenon DEF IsPointer
  <2> QED
    BY <1>1, <2>1, Zenon DEF EvidenceInv, KeyInv, ObjectInv
<1> QED
  BY <1>4, <1>5, <1>6, <1>7, <1>8, <1>9, <1>10, Zenon DEF EvidenceInv, Uploads, Collections, KeyInv

LEMMA PutObjectInv ==
    ASSUME EvidenceInv, NEW u \in Uploaders, PutObject(u)
    PROVE  EvidenceInv'
<1> DEFINE x == [up[u] EXCEPT !.pc = "lock"]
<1>1. /\ up[u].pc = "put" /\ objects' = objects \cup {KeyOf(u)}
      /\ discarded' = discarded \ {KeyOf(u)} /\ torn' = torn \ {KeyOf(u)}
      /\ up' = [up EXCEPT ![u].pc = "lock"]
      /\ UNCHANGED <<dbVars, lock, col, misjudged>>
  BY Zenon DEF PutObject
<1>2. TypeOK /\ UploadInv(u)
  BY Zenon DEF EvidenceInv, Uploads
<1>3. up[u] \in UpStates /\ up[u].doc \in Docs /\ up[u].item \in Items /\ up[u].sha \in Digests
  BY <1>1, <1>2, Zenon DEF TypeOK
<1>4. up[u].cancel = {}
  BY <1>1, <1>2, Zenon DEF UploadInv
<1>5. UpState(x) /\ x.pc = "lock" /\ x.cancel = {}
  BY <1>3, <1>4 DEF UpState, UpStates
<1>6. up' = [up EXCEPT ![u] = x]
  BY <1>1, Zenon
<1> HIDE DEF x
<1>7. KeyOf(u) \in Keys
  BY <1>3, Zenon DEF KeyOf, Keys
<1>8. objects' \subseteq Keys /\ objects \cup discarded \subseteq objects' \cup discarded'
      /\ torn \subseteq objects' \cup discarded' \cup torn'
  BY <1>1, <1>2, <1>7, Zenon DEF TypeOK
<1>9. UNCHANGED <<tables, lock, col, misjudged>> /\ published' \subseteq published
  BY <1>1 DEF dbVars
<1> QED
  BY <1>5, <1>6, <1>8, <1>9, StoreMoves, Zenon

LEMMA DiscardCandidateInv ==
    ASSUME EvidenceInv, NEW u \in Uploaders, DiscardCandidate(u)
    PROVE  EvidenceInv'
<1>1. /\ up' = [up EXCEPT ![u] = IdleUp] /\ torn' = torn
      /\ UNCHANGED <<tables, lock, col, misjudged>>
  BY Zenon DEF DiscardCandidate
<1>2. \/ /\ objects' = objects \ {KeyOf(u)} /\ published' = published \ {KeyOf(u)}
         /\ discarded' = discarded \cup {KeyOf(u)}
      \/ objects' = objects /\ published' = published /\ discarded' = discarded
  BY Zenon DEF DiscardCandidate
<1>3. objects \subseteq Keys
  BY Zenon DEF EvidenceInv, TypeOK
<1>4. /\ published' \subseteq published /\ objects' \subseteq Keys
      /\ objects \cup discarded \subseteq objects' \cup discarded'
  BY <1>2, <1>3, Zenon
<1> QED
  BY <1>1, <1>4, IdleUpState, StoreMoves, Zenon

-----------------------------------------------------------------------------
(* The commit of an upload.                                                *)

\* The row for the version that is replaced, if there is one.
LEMMA ReplacedFacts ==
    ASSUME TypeOK, NEW u \in Uploaders, up[u].doc \in Docs
    PROVE  /\ \A r \in Replaced(u) :
                /\ r \in QueueRows /\ r.id = nextId /\ r.doc = up[u].doc
                /\ IsPointer(RowKey(r)) /\ RowKey(r) # KeyOf(u)
                /\ \A q \in Replaced(u) : q = r
           /\ \A k \in Keys : IsPointer(k) /\ k[1] = up[u].doc /\ k # KeyOf(u) =>
                \E r \in Replaced(u) : RowKey(r) = k
<1> DEFINE d == up[u].doc
           row == [id |-> nextId, doc |-> d, sha |-> blob[d].sha, due |-> FALSE]
<1>1. Replaced(u) = IF blob[d] # NoRow /\ ~(blob[d].sha = up[u].sha) THEN {row} ELSE {}
  BY Zenon DEF Replaced, IsCanonical, Queued
<1>2. blob[d] \in Blobs \cup {NoRow} /\ nextId \in Nat
  BY Zenon DEF TypeOK
<1>3. blob[d] # NoRow => blob[d].sha \in Digests
  BY <1>2 DEF Blobs
<1>4. row.id = nextId /\ row.doc = d /\ row.sha = blob[d].sha
  OBVIOUS
<1>5. blob[d] # NoRow => row \in QueueRows
  BY <1>2, <1>3 DEF QueueRows
<1> HIDE DEF row
<1>6. ASSUME NEW r \in Replaced(u)
      PROVE  /\ r \in QueueRows /\ r.id = nextId /\ r.doc = d
             /\ IsPointer(RowKey(r)) /\ RowKey(r) # KeyOf(u)
             /\ \A q \in Replaced(u) : q = r
  <2>1. r = row /\ blob[d] # NoRow /\ blob[d].sha # up[u].sha /\ \A q \in Replaced(u) : q = r
    BY <1>1, <1>6
  <2>2. RowKey(r) = <<d, blob[d].sha>> /\ KeyOf(u) = <<d, up[u].sha>>
    BY <1>4, <2>1, Zenon DEF RowKey, KeyOf
  <2>3. RowKey(r)[1] = d /\ RowKey(r)[2] = blob[d].sha /\ KeyOf(u)[2] = up[u].sha
    BY <2>2
  <2>4. RowKey(r) # KeyOf(u)
    BY <2>1, <2>3, Zenon
  <2> QED
    BY <1>4, <1>5, <2>1, <2>3, <2>4, Zenon DEF IsPointer
<1>7. ASSUME NEW k \in Keys, IsPointer(k), k[1] = d, k # KeyOf(u)
      PROVE  \E r \in Replaced(u) : RowKey(r) = k
  <2>1. k = <<k[1], k[2]>>
    BY DEF Keys
  <2>2. blob[d] # NoRow /\ k[2] = blob[d].sha /\ k = <<d, blob[d].sha>>
    BY <1>7, <2>1, Zenon DEF IsPointer
  <2>3. blob[d].sha # up[u].sha
    BY <1>7, <2>2, Zenon DEF KeyOf
  <2>4. row \in Replaced(u) /\ RowKey(row) = k
    BY <1>1, <1>4, <2>2, <2>3, Zenon DEF RowKey
  <2> QED
    BY <2>4, Zenon
<1> QED
  BY <1>6, <1>7, Zenon

\* The pointer after the commit, and the rows.
LEMMA PublishFacts ==
    ASSUME EvidenceInv, NEW u \in Uploaders, up[u].pc = "commit", Publish(u)
    PROVE  /\ up[u].doc \in Docs /\ KeyOf(u) \in Keys /\ OrgOf[up[u].doc] \in Orgs
           /\ lock[OrgOf[up[u].doc]] = u
           /\ blob' \in [Docs -> Blobs \cup {NoRow}] /\ nextId' \in Nat /\ nextId <= nextId'
           /\ meta' = meta /\ refs' = refs /\ published' = published \cup {KeyOf(u)}
           /\ \A d \in Docs : d # up[u].doc => blob'[d] = blob[d]
           /\ \A k \in Keys : k[1] = up[u].doc => (IsPointer(k)' <=> k = KeyOf(u))
           /\ \A r \in queue' :
                \/ r \in queue /\ r.id \notin up[u].cancel
                \/ r \in Replaced(u) /\ nextId' = nextId + 1
           /\ \A r \in queue : r.id \notin up[u].cancel => r \in queue'
           /\ Replaced(u) \subseteq queue'
<1>1. TypeOK /\ UploadInv(u)
  BY Zenon DEF EvidenceInv, Uploads
<1>2. up[u].doc \in Docs /\ up[u].item \in Items /\ up[u].sha \in Digests
  BY <1>1, Zenon DEF TypeOK
<1>3. KeyOf(u) \in Keys /\ OrgOf[up[u].doc] \in Orgs /\ KeyOf(u) = <<up[u].doc, up[u].sha>>
  BY <1>2, EvidenceConstants, Zenon DEF KeyOf, Keys
<1>4. lock[OrgOf[up[u].doc]] = u
  BY <1>1, Zenon DEF UploadInv
<1>5. PICK b : b = [item |-> up[u].item, sha |-> up[u].sha]
  BY Zenon
<1>6. b \in Blobs /\ b.sha = up[u].sha
  BY <1>2, <1>5 DEF Blobs
<1>7. b # NoRow
  BY <1>6, EvidenceConstants, Zenon
<1>8. /\ blob' = [blob EXCEPT ![up[u].doc] = b]
      /\ queue' = {r \in queue : r.id \notin up[u].cancel} \cup Replaced(u)
      /\ nextId' = IF Replaced(u) = {} THEN nextId ELSE nextId + 1
      /\ published' = published \cup {KeyOf(u)} /\ meta' = meta /\ refs' = refs
  BY <1>5, Zenon DEF Publish
<1>9. /\ blob' \in [Docs -> Blobs \cup {NoRow}] /\ blob'[up[u].doc] = b
      /\ \A d \in Docs : d # up[u].doc => blob'[d] = blob[d]
  BY <1>1, <1>2, <1>6, <1>8, Zenon DEF TypeOK
<1>10. nextId \in Nat
  BY <1>1, Zenon DEF TypeOK
<1>11. nextId' \in Nat /\ nextId <= nextId' /\ (Replaced(u) # {} => nextId' = nextId + 1)
  BY <1>8, <1>10
<1>12. ASSUME NEW k \in Keys, k[1] = up[u].doc PROVE IsPointer(k)' <=> k = KeyOf(u)
  <2>1. k = <<k[1], k[2]>>
    BY DEF Keys
  <2>2. IsPointer(k)' <=> up[u].sha = k[2]
    BY <1>6, <1>7, <1>9, <1>12, Zenon DEF IsPointer
  <2>3. k = KeyOf(u) => k[2] = up[u].sha
    BY <1>3
  <2> QED
    BY <1>3, <1>12, <2>1, <2>2, <2>3, Zenon
<1>13. \A r \in queue' :
          \/ r \in queue /\ r.id \notin up[u].cancel
          \/ r \in Replaced(u) /\ nextId' = nextId + 1
  BY <1>8, <1>11, Zenon
<1>14. (\A r \in queue : r.id \notin up[u].cancel => r \in queue') /\ Replaced(u) \subseteq queue'
  BY <1>8, Zenon
<1> QED
  BY <1>2, <1>3, <1>4, <1>8, <1>9, <1>11, <1>12, <1>13, <1>14, Zenon

\* The commit: the other uploads and the runs.
LEMMA PublishOthers ==
    ASSUME EvidenceInv, NEW u \in Uploaders, up[u].pc = "commit", Publish(u),
           NEW x, UpState(x), up' = [up EXCEPT ![u] = x], x.pc \in {"idle", "discard"}, x.cancel = {},
           lock' = Release(u), UNCHANGED <<objects, col, history>>
    PROVE  TypeOK' /\ TableInv' /\ Uploads' /\ Collections'
<1>1. /\ TypeOK /\ TableInv /\ UploadInv(u)
      /\ objects' = objects /\ col' = col /\ discarded' = discarded /\ misjudged' = misjudged
  BY DEF EvidenceInv, Uploads, history
<1>2. /\ up' \in [Uploaders -> UpStates] /\ up'[u] = x
      /\ \A v \in Uploaders : v # u => up'[v] = up[v]
  BY <1>1, Zenon DEF TypeOK, UpState
<1>3. lock' \in [Orgs -> Procs \cup {Free}] /\ \A o \in Orgs : lock[o] # u => lock'[o] = lock[o]
  BY <1>1, ReleaseFacts, Zenon
<1>4. \A r \in queue' : \/ r \in queue /\ r.id \notin up[u].cancel
                        \/ r \in Replaced(u) /\ nextId' = nextId + 1
  BY PublishFacts, Zenon
<1>5. /\ up[u].doc \in Docs /\ KeyOf(u) \in Keys /\ lock[OrgOf[up[u].doc]] = u
      /\ blob' \in [Docs -> Blobs \cup {NoRow}] /\ nextId' \in Nat /\ nextId <= nextId' /\ nextId \in Nat
      /\ meta' = meta /\ refs' = refs /\ published' = published \cup {KeyOf(u)}
      /\ \A d \in Docs : d # up[u].doc => blob'[d] = blob[d]
  BY <1>1, PublishFacts, Zenon DEF TypeOK
<1>6. \A r \in Replaced(u) : /\ r \in QueueRows /\ r.id = nextId /\ r.doc = up[u].doc
                             /\ \A q \in Replaced(u) : q = r
  BY <1>1, <1>5, ReplacedFacts, Zenon
<1>7. TypeOK'
  <2>1. \A v \in Uploaders : up'[v].pc # "idle" =>
           up'[v].doc \in Docs /\ up'[v].item \in Items /\ up'[v].sha \in Digests
    BY <1>1, <1>2, Zenon DEF TypeOK, UpState
  <2>2. queue' \subseteq QueueRows
    BY <1>1, <1>4, <1>6, Zenon DEF TypeOK
  <2> QED
    BY <1>1, <1>2, <1>3, <1>5, <2>1, <2>2, Zenon DEF TypeOK
<1>8. TableInv'
  <2>1. \A r \in queue : r.id \in Nat /\ r.id < nextId
    BY <1>1 DEF TypeOK, QueueRows, TableInv
  <2>2. ASSUME NEW r \in queue' PROVE r.id < nextId'
    <3>1. CASE r \in queue
      BY <1>5, <2>1, <3>1
    <3>2. CASE r \in Replaced(u) /\ nextId' = nextId + 1
      BY <1>5, <1>6, <3>2
    <3> QED
      BY <1>4, <3>1, <3>2, Zenon
  <2>3. ASSUME NEW r \in queue', NEW q \in queue', r.id = q.id PROVE r = q
    <3>1. \A a \in queue : a.id # nextId
      BY <1>5, <2>1
    <3> QED
      BY <1>1, <1>4, <1>6, <2>3, <3>1, Zenon DEF TableInv
  <2> QED
    BY <1>1, <1>5, <2>2, <2>3, Zenon DEF TableInv
<1>9. ASSUME NEW v \in Uploaders PROVE UploadInv(v)'
  <2>1. CASE v = u
    <3>1. up'[u].pc \in {"idle", "put", "lock", "discard"} /\ up'[u].cancel = {}
      BY <1>2, Zenon
    <3> QED
      BY <2>1, <3>1, UploadIdles, Zenon
  <2>2. CASE v # u
    <3>1. UploadInv(v) /\ up'[v] = up[v] /\ up[v] \in UpStates
      BY <1>1, <1>2, <2>2, Zenon DEF EvidenceInv, Uploads, TypeOK
    <3>2. \A n \in up[v].cancel : n \in Nat
      BY <3>1 DEF UpStates
    <3>3. up[v].pc \in {"cancel", "verify", "commit"} =>
            OrgOf[up[v].doc] \in Orgs /\ lock[OrgOf[up[v].doc]] = v
      BY <1>1, <3>1, EvidenceConstants, Zenon DEF TypeOK, UploadInv
    <3>4. up[v].pc \in {"verify", "commit"} => up[v].doc # up[u].doc
      BY <1>5, <2>2, <3>3, Zenon
    <3>5. ASSUME NEW r \in Replaced(u), up[v].pc \in {"verify", "commit"} PROVE RowKey(r) # KeyOf(v)
      <4>1. RowKey(r)[1] = up[u].doc /\ KeyOf(v)[1] = up[v].doc
        BY <1>6 DEF RowKey, KeyOf
      <4> QED
        BY <3>4, <3>5, <4>1, Zenon
    <3>6. up[v].pc \in {"cancel", "verify", "commit"} =>
            (lock[OrgOf[up[v].doc]] = v => lock'[OrgOf[up[v].doc]] = v)
      BY <1>3, <2>2, <3>3, Zenon
    <3>7. \A r \in queue' :
            \/ \E q \in queue : q.id = r.id /\ RowKey(q) = RowKey(r)
            \/ r.id = nextId /\ (up[v].pc \in {"verify", "commit"} => RowKey(r) # KeyOf(v))
      BY <1>4, <1>6, <3>5, Zenon
    <3> QED
      BY <1>1, <1>5, <3>1, <3>2, <3>6, <3>7, UploadStays, Zenon
  <2> QED
    BY <2>1, <2>2, Zenon
<1>10. ASSUME NEW g \in Collectors PROVE CollectorInv(g)'
  <2>1. CollectorInv(g) /\ g # u /\ col[g] \in ColStates
    BY <1>1, EvidenceConstants, Zenon DEF EvidenceInv, Collections, TypeOK
  <2>2. \A d \in col[g].drop : d \in Docs /\ OrgOf[d] \in Orgs
    <3>1. col[g].drop \subseteq Docs
      BY <2>1 DEF ColStates
    <3> QED
      BY <3>1, EvidenceConstants, Zenon
  <2>3. \A n \in col[g].rows : (\E r \in queue : r.id = n) => \E r \in queue' : r.id = n
    <3>1. \A n \in col[g].rows : n \notin up[u].cancel
      BY <1>1, Zenon DEF UploadInv
    <3>2. \A r \in queue : r.id \notin up[u].cancel => r \in queue'
      BY PublishFacts, Zenon
    <3> QED
      BY <3>1, <3>2, Zenon
  <2>4. \A h \in Collectors : h # g => col'[h].rows \cap col[g].rows = {}
    BY <1>1, <2>1, Zenon DEF CollectorInv
  <2>5. ASSUME NEW d \in col[g].drop, lock[OrgOf[d]] = g
        PROVE  /\ lock'[OrgOf[d]] = g /\ meta'[d] = meta[d] /\ blob'[d] = blob[d]
               /\ \A y : <<d, y>> \in published' => <<d, y>> \in published
    <3>1. d # up[u].doc
      BY <1>5, <2>1, <2>5, Zenon
    <3>2. \A y : <<d, y>> # KeyOf(u)
      BY <3>1 DEF KeyOf
    <3> QED
      BY <1>3, <1>5, <2>1, <2>2, <2>5, <3>1, <3>2, Zenon
  <2> QED
    BY <1>1, <1>5, <2>1, <2>3, <2>4, <2>5, CollectorStays, Zenon
<1> QED
  BY <1>7, <1>8, <1>9, <1>10, Zenon DEF Uploads, Collections

\* The commit: the version it replaces is queued, and nothing that is queued is its own.
LEMMA PublishKeys ==
    ASSUME EvidenceInv, NEW u \in Uploaders, up[u].pc = "commit", Publish(u),
           UNCHANGED <<objects, col, history>>
    PROVE  KeyInv'
<1>1. /\ TypeOK /\ UploadInv(u) /\ PointerRows /\ QueuedInv /\ ObjectInv
      /\ objects' = objects /\ col' = col /\ discarded' = discarded /\ torn' = torn
      /\ misjudged' = misjudged
  BY DEF EvidenceInv, Uploads, KeyInv, history
<1>2. \A r \in queue' : \/ r \in queue /\ r.id \notin up[u].cancel
                        \/ r \in Replaced(u)
  BY PublishFacts, Zenon
<1>3. /\ up[u].doc \in Docs /\ KeyOf(u) \in Keys /\ meta' = meta
      /\ published' = published \cup {KeyOf(u)} /\ published \subseteq Keys
      /\ \A d \in Docs : d # up[u].doc => blob'[d] = blob[d]
      /\ \A k \in Keys : k[1] = up[u].doc => (IsPointer(k)' <=> k = KeyOf(u))
      /\ (\A r \in queue : r.id \notin up[u].cancel => r \in queue') /\ Replaced(u) \subseteq queue'
  BY <1>1, PublishFacts, Zenon DEF TypeOK
<1>4. \A k \in Keys : k[1] \in Docs
  BY DEF Keys
<1>5. \A k \in Keys : k[1] # up[u].doc => (IsPointer(k)' <=> IsPointer(k))
  BY <1>3, <1>4, Zenon DEF IsPointer
<1>6. \A r \in queue : RowKey(r) \in Keys
  BY <1>1 DEF TypeOK, QueueRows, RowKey, Keys
<1>7. PointerRows'
  <2> SUFFICES ASSUME NEW r \in queue', IsPointer(RowKey(r))' PROVE meta[r.doc] # "none"
    BY <1>3, Zenon DEF PointerRows
  <2>1. CASE r \in queue /\ r.id \notin up[u].cancel
    <3>1. RowKey(r) # KeyOf(u)
      BY <1>1, <2>1, Zenon DEF UploadInv
    <3>2. IsPointer(RowKey(r))
      BY <1>3, <1>5, <1>6, <2>1, <3>1, Zenon
    <3> QED
      BY <1>1, <2>1, <3>2, Zenon DEF PointerRows
  <2>2. CASE r \in Replaced(u)
    <3>1. RowKey(r) # KeyOf(u) /\ r.doc = up[u].doc /\ r \in QueueRows
      BY <1>1, <1>3, <2>2, ReplacedFacts, Zenon
    <3>2. RowKey(r) \in Keys /\ RowKey(r)[1] = up[u].doc
      BY <3>1 DEF RowKey, Keys, QueueRows
    <3> QED
      BY <1>3, <3>1, <3>2, Zenon
  <2> QED
    BY <1>2, <2>1, <2>2, Zenon
<1>8. QueuedInv'
  <2> SUFFICES ASSUME NEW k \in published', k[1] \notin misjudged, ~IsPointer(k)'
               PROVE  \E r \in queue' : RowKey(r) = k /\ \A g \in Collectors : r.id \notin col[g].gone
    BY <1>1, Zenon DEF QueuedInv
  <2>1. k # KeyOf(u) /\ k \in published /\ k \in Keys
    <3>1. KeyOf(u)[1] = up[u].doc
      BY DEF KeyOf
    <3> QED
      BY <1>3, <3>1, Zenon
  <2>2. CASE IsPointer(k)
    <3>1. k[1] = up[u].doc
      BY <1>5, <2>1, <2>2, Zenon
    <3>2. PICK r \in Replaced(u) : RowKey(r) = k
      BY <1>1, <1>3, <2>1, <2>2, <3>1, ReplacedFacts, Zenon
    <3>4. r.id = nextId
      BY <1>1, <1>3, ReplacedFacts, Zenon
    <3>3. ASSUME NEW g \in Collectors PROVE nextId \notin col[g].gone
      <4>1. CollectorInv(g) /\ TableInv
        BY Zenon DEF EvidenceInv, Collections
      <4>2. \A q \in queue : q.id # nextId
        BY <1>1, <4>1 DEF TypeOK, QueueRows, TableInv
      <4> QED
        BY <4>1, <4>2, Zenon DEF CollectorInv
    <3> QED
      BY <1>3, <3>2, <3>3, <3>4, Zenon
  <2>3. CASE ~IsPointer(k)
    <3>1. PICK r \in queue : RowKey(r) = k /\ \A g \in Collectors : r.id \notin col[g].gone
      BY <1>1, <2>1, <2>3, Zenon DEF QueuedInv
    <3>2. r.id \notin up[u].cancel
      BY <1>1, <2>1, <3>1, Zenon DEF UploadInv
    <3> QED
      BY <1>3, <3>1, <3>2, Zenon
  <2> QED
    BY <2>2, <2>3, Zenon
<1>9. ObjectInv'
  <2> SUFFICES ASSUME NEW k \in Keys, IsPointer(k)'
               PROVE  \/ k \in objects \cup discarded \cup torn \/ k[1] \in misjudged
                      \/ \E g \in Collectors : k[1] \in col[g].drop
    BY <1>1, Zenon DEF ObjectInv
  <2>1. CASE k[1] = up[u].doc
    <3>1. k = KeyOf(u)
      BY <1>3, <2>1, Zenon
    <3> QED
      BY <1>1, <3>1, Zenon DEF UploadInv
  <2>2. CASE k[1] # up[u].doc
    BY <1>1, <1>5, <2>2, Zenon DEF ObjectInv
  <2> QED
    BY <2>1, <2>2, Zenon
<1> QED
  BY <1>7, <1>8, <1>9, Zenon DEF KeyInv

LEMMA CommitUploadInv ==
    ASSUME EvidenceInv, NEW u \in Uploaders, CommitUpload(u)
    PROVE  EvidenceInv'
<1>1. /\ up[u].pc = "commit" /\ Publish(u) /\ lock' = Release(u) /\ up' = [up EXCEPT ![u] = IdleUp]
      /\ UNCHANGED <<objects, col, history>>
  BY Zenon DEF CommitUpload
<1>2. TypeOK' /\ TableInv' /\ Uploads' /\ Collections'
  BY <1>1, IdleUpState, PublishOthers, Zenon
<1>3. KeyInv'
  BY <1>1, PublishKeys, Zenon
<1> QED
  BY <1>2, <1>3, Zenon DEF EvidenceInv

LEMMA CommitRaisesInv ==
    ASSUME EvidenceInv, NEW u \in Uploaders, CommitRaises(u)
    PROVE  EvidenceInv'
<1>1. /\ up[u].pc = "commit" /\ GiveUp(u, IsCanonical(u)) /\ UNCHANGED <<objects, col, history>>
      /\ Publish(u) \/ UNCHANGED dbVars
  BY Zenon DEF CommitRaises
<1>2. up[u].pc # "idle" /\ TypeOK
  BY <1>1, Zenon DEF EvidenceInv
<1>3. CASE UNCHANGED dbVars
  <2>1. UNCHANGED <<dbVars, objects, col, history>>
    BY <1>1, <1>3
  <2> QED
    BY <1>1, <1>2, <2>1, GiveUpStep, Zenon
<1>4. CASE Publish(u)
  <2>1. PICK x : /\ UpState(x) /\ up' = [up EXCEPT ![u] = x]
                 /\ x.pc \in {"idle", "discard"} /\ x.cancel = {}
    BY <1>1, <1>2, GiveUpFacts, Zenon
  <2>2. lock' = Release(u)
    BY <1>1, Zenon DEF GiveUp
  <2>3. TypeOK' /\ TableInv' /\ Uploads' /\ Collections'
    BY <1>1, <1>4, <2>1, <2>2, PublishOthers, Zenon
  <2>4. KeyInv'
    BY <1>1, <1>4, PublishKeys, Zenon
  <2> QED
    BY <2>3, <2>4, Zenon DEF EvidenceInv
<1> QED
  BY <1>1, <1>3, <1>4, Zenon

-----------------------------------------------------------------------------
(* The collector, before its commit.                                       *)

\* A run's own step: the tables stay, it takes only a lock that is free and rows nobody has
\* locked, and deletes no object that an upload has verified.
LEMMA RunMoves ==
    ASSUME EvidenceInv, NEW g \in Collectors, NEW y \in ColStates, col' = [col EXCEPT ![g] = y],
           UNCHANGED <<tables, up, discarded>>,
           misjudged \subseteq misjudged', misjudged' \subseteq Docs,
           objects' \subseteq objects, published' \subseteq published,
           lock' \in [Orgs -> Procs \cup {Free}],
           \A o \in Orgs : lock[o] \notin {g, Free} => lock'[o] = lock[o],
           \A n \in y.rows : \/ n \in col[g].rows
                             \/ /\ \A u \in Uploaders : n \notin up[u].cancel
                                /\ \A h \in Collectors : n \notin col[h].rows,
           \A u \in Uploaders : up[u].pc = "commit" /\ KeyOf(u) \in objects => KeyOf(u) \in objects',
           CollectorInv(g)'
    PROVE  TypeOK' /\ TableInv' /\ Uploads' /\ Collections' /\ PointerRows'
<1>1. /\ blob' = blob /\ meta' = meta /\ refs' = refs /\ queue' = queue /\ nextId' = nextId
      /\ up' = up /\ discarded' = discarded
  BY DEF tables
<1>2. TypeOK
  BY Zenon DEF EvidenceInv
<1>3. /\ col' \in [Collectors -> ColStates] /\ col'[g] = y
      /\ \A h \in Collectors : h # g => col'[h] = col[h]
  BY <1>2, Zenon DEF TypeOK
<1>4. TypeOK'
  BY <1>1, <1>2, <1>3, Zenon DEF TypeOK
<1>5. TableInv'
  BY <1>1, Zenon DEF EvidenceInv, TableInv
<1>6. ASSUME NEW u \in Uploaders PROVE UploadInv(u)'
  <2>1. UploadInv(u) /\ up'[u] = up[u] /\ nextId \in Nat /\ up[u] \in UpStates
    BY <1>1, <1>2, Zenon DEF EvidenceInv, Uploads, TypeOK
  <2>2. nextId' \in Nat /\ nextId <= nextId' /\ \A n \in up[u].cancel : n \in Nat
    BY <1>1, <2>1 DEF UpStates
  <2>3. up[u].pc \in {"cancel", "verify", "commit"} =>
               (lock[OrgOf[up[u].doc]] = u => lock'[OrgOf[up[u].doc]] = u)
    <3>1. up[u].pc \in {"cancel", "verify", "commit"} => OrgOf[up[u].doc] \in Orgs
      BY <1>2, EvidenceConstants, Zenon DEF TypeOK
    <3>2. u # Free /\ u # g
      BY EvidenceConstants, Zenon DEF Procs
    <3> QED
      BY <3>1, <3>2, Zenon
  <2>4. \A h \in Collectors : \A n \in col'[h].rows : n \in col[h].rows \/ n \notin up[u].cancel
    BY <1>3, Zenon
  <2>5. up[u].pc = "commit" /\ KeyOf(u) \in objects \cup discarded =>
               KeyOf(u) \in objects' \cup discarded'
    BY <1>1, Zenon
  <2> QED
    BY <1>1, <2>1, <2>2, <2>3, <2>4, <2>5, UploadStays, Zenon
<1>7. ASSUME NEW h \in Collectors, h # g PROVE CollectorInv(h)'
  <2>1. CollectorInv(h) /\ CollectorInv(g) /\ col'[h] = col[h]
    BY <1>3, <1>7, Zenon DEF EvidenceInv, Collections
  <2>2. h # Free
    BY EvidenceConstants, Zenon DEF Procs
  <2>3. \A d \in col[h].drop : OrgOf[d] \in Orgs
    <3>1. col[h] \in ColStates
      BY <1>2, Zenon DEF TypeOK
    <3>2. col[h].drop \subseteq Docs
      BY <3>1 DEF ColStates
    <3> QED
      BY <3>2, EvidenceConstants, Zenon
  <2>4. ASSUME NEW i \in Collectors, i # h PROVE col'[i].rows \cap col[h].rows = {}
    <3>1. CASE i = g
      <4>1. \A n \in y.rows : n \notin col[h].rows
        BY <1>7, <2>1, Zenon DEF CollectorInv
      <4> QED
        BY <1>3, <3>1, <4>1, Zenon
    <3>2. CASE i # g
      BY <1>3, <2>1, <2>4, <3>2, Zenon DEF CollectorInv
    <3> QED
      BY <3>1, <3>2, Zenon
  <2>5. \A d \in col[h].drop : lock[OrgOf[d]] = h => lock'[OrgOf[d]] = h
    BY <1>7, <2>2, <2>3, Zenon
  <2> QED
    BY <1>1, <2>1, <2>4, <2>5, CollectorStays, Zenon
<1>8. PointerRows'
  BY <1>1, Zenon DEF EvidenceInv, KeyInv, PointerRows, IsPointer
<1> QED
  BY <1>4, <1>5, <1>6, <1>7, <1>8, Zenon DEF Uploads, Collections

LEMMA IdleColState ==
    /\ IdleCol \in ColStates /\ IdleCol.rows = {} /\ IdleCol.todo = {} /\ IdleCol.gone = {}
    /\ IdleCol.drop = {}
BY DEF ColStates, IdleCol

\* A run that has done nothing yet, or has ended.
LEMMA FreshRun ==
    ASSUME TypeOK, NEW g \in Collectors, NEW y, col' = [col EXCEPT ![g] = y],
           y.gone = {}, y.drop = {}, y.todo \subseteq y.rows, y.pc = "idle" => y.rows = {},
           \A n \in y.rows : \E r \in queue' : r.id = n,
           \A n \in y.rows : \A h \in Collectors : n \notin col[h].rows
    PROVE  CollectorInv(g)'
<1>1. col'[g] = y /\ \A h \in Collectors : h # g => col'[h] = col[h]
  BY Zenon DEF TypeOK
<1>2. \A h \in Collectors : h # g => col'[g].rows \cap col'[h].rows = {}
  BY <1>1, Zenon
<1> QED
  BY <1>1, <1>2, Zenon DEF CollectorInv

LEMMA CollectInv ==
    ASSUME EvidenceInv, NEW g \in Collectors, Collect(g)
    PROVE  EvidenceInv'
<1> DEFINE due == {r.id : r \in {q \in queue : q.due /\ RowHolders({q.id}) = {}}}
           mine == {n \in due : Cardinality({m \in due : m < n}) < Limit}
           y == [IdleCol EXCEPT !.pc = "run", !.rows = mine, !.todo = mine]
<1>1. /\ col[g].pc = "idle" /\ col' = [col EXCEPT ![g] = y]
      /\ UNCHANGED <<dbVars, objects, lock, up, history>>
  BY Zenon DEF Collect
<1>2. TypeOK /\ CollectorInv(g)
  BY Zenon DEF EvidenceInv, Collections
<1>3. /\ blob' = blob /\ meta' = meta /\ refs' = refs /\ queue' = queue /\ nextId' = nextId
      /\ published' = published /\ objects' = objects /\ lock' = lock /\ up' = up
      /\ discarded' = discarded /\ torn' = torn /\ misjudged' = misjudged
  BY <1>1 DEF dbVars, tables, history
<1>4. \A n \in mine : \E r \in queue : r.id = n /\ RowHolders({n}) = {}
  BY Zenon
<1>5. mine \subseteq Nat
  BY <1>2, <1>4, ZenonT(30) DEF TypeOK, QueueRows
<1> HIDE DEF mine
<1>6. /\ y \in ColStates /\ y.rows = mine /\ y.todo = mine /\ y.gone = {} /\ y.drop = {}
      /\ (y.pc = "idle" => y.rows = {})
  BY <1>5, ZenonT(30) DEF ColStates, IdleCol
<1> HIDE DEF y
<1>7. ASSUME NEW n \in mine
      PROVE  /\ \A u \in Uploaders : n \notin up[u].cancel
             /\ \A h \in Collectors : n \notin col[h].rows
  BY <1>4, Zenon DEF RowHolders
<1>8. CollectorInv(g)'
  <2>1. y.todo \subseteq y.rows /\ \A n \in y.rows : \E r \in queue' : r.id = n
    BY <1>3, <1>4, <1>6, Zenon
  <2>2. \A n \in y.rows : \A h \in Collectors : n \notin col[h].rows
    BY <1>6, <1>7, Zenon
  <2> QED
    BY <1>1, <1>2, <1>6, <2>1, <2>2, FreshRun, Zenon
<1>9. TypeOK' /\ TableInv' /\ Uploads' /\ Collections' /\ PointerRows'
  <2>1. UNCHANGED <<tables, up, discarded>>
    BY <1>3 DEF tables
  <2>2. misjudged' \subseteq Docs /\ lock' \in [Orgs -> Procs \cup {Free}]
    BY <1>2, <1>3, Zenon DEF TypeOK
  <2> QED
    BY <1>1, <1>3, <1>6, <1>7, <1>8, <2>1, <2>2, RunMoves, Zenon
<1>10. col'[g] = y /\ \A h \in Collectors : h # g => col'[h] = col[h]
  BY <1>1, <1>2, Zenon DEF TypeOK
<1>11. QueuedInv'
  <2>1. \A n : (\A h \in Collectors : n \notin col[h].gone) => \A h \in Collectors : n \notin col'[h].gone
    BY <1>6, <1>10, Zenon
  <2> QED
    BY <1>3, <2>1, Zenon DEF EvidenceInv, KeyInv, QueuedInv, IsPointer
<1>12. ObjectInv'
  <2>1. \A h \in Collectors : col[h].drop = col'[h].drop
    BY <1>1, <1>2, <1>6, <1>10, Zenon DEF CollectorInv
  <2> QED
    BY <1>3, <2>1, Zenon DEF EvidenceInv, KeyInv, ObjectInv, IsPointer
<1> QED
  BY <1>9, <1>11, <1>12, Zenon DEF EvidenceInv, KeyInv

LEMMA AbortCollectInv ==
    ASSUME EvidenceInv, NEW g \in Collectors, AbortCollect(g)
    PROVE  EvidenceInv'
<1>1. /\ col' = [col EXCEPT ![g] = IdleCol] /\ lock' = Release(g)
      /\ torn' = torn \cup {k \in Keys : IsPointer(k) /\ k[1] \in col[g].drop}
      /\ UNCHANGED <<dbVars, objects, up, discarded, misjudged>>
  BY Zenon DEF AbortCollect
<1>2. TypeOK
  BY Zenon DEF EvidenceInv
<1>3. /\ blob' = blob /\ meta' = meta /\ refs' = refs /\ queue' = queue /\ nextId' = nextId
      /\ published' = published /\ objects' = objects /\ up' = up
      /\ discarded' = discarded /\ misjudged' = misjudged
  BY <1>1 DEF dbVars, tables
<1>4. CollectorInv(g)'
  BY <1>1, <1>2, IdleColState, FreshRun, Zenon
<1>5. TypeOK' /\ TableInv' /\ Uploads' /\ Collections' /\ PointerRows'
  <2>1. UNCHANGED <<tables, up, discarded>>
    BY <1>3 DEF tables
  <2>2. misjudged' \subseteq Docs
    BY <1>2, <1>3, Zenon DEF TypeOK
  <2>3. /\ lock' \in [Orgs -> Procs \cup {Free}]
        /\ \A o \in Orgs : lock[o] \notin {g, Free} => lock'[o] = lock[o]
    BY <1>1, <1>2, ReleaseFacts, Zenon
  <2> QED
    BY <1>1, <1>3, <1>4, <2>1, <2>2, <2>3, IdleColState, RunMoves, Zenon
<1>6. col'[g] = IdleCol /\ \A h \in Collectors : h # g => col'[h] = col[h]
  BY <1>1, <1>2, Zenon DEF TypeOK
<1>7. QueuedInv'
  <2>1. \A n : (\A h \in Collectors : n \notin col[h].gone) => \A h \in Collectors : n \notin col'[h].gone
    BY <1>6, IdleColState, Zenon
  <2> QED
    BY <1>3, <2>1, Zenon DEF EvidenceInv, KeyInv, QueuedInv, IsPointer
<1>8. ObjectInv'
  <2> SUFFICES ASSUME NEW k \in Keys, IsPointer(k)'
               PROVE  \/ k \in objects \cup discarded \cup torn' \/ k[1] \in misjudged
                      \/ \E h \in Collectors : k[1] \in col'[h].drop
    BY <1>3, Zenon DEF ObjectInv
  <2>1. IsPointer(k)
    BY <1>3, Zenon DEF IsPointer
  <2>2. CASE k[1] \in col[g].drop
    BY <1>1, <2>1, <2>2, Zenon
  <2>3. CASE k[1] \notin col[g].drop
    BY <1>1, <1>6, <2>1, <2>3, Zenon DEF EvidenceInv, KeyInv, ObjectInv
  <2> QED
    BY <2>2, <2>3, Zenon
<1> QED
  BY <1>5, <1>7, <1>8, Zenon DEF EvidenceInv, KeyInv

\* What a run has loaded is of the right type, and looking at a row keeps what the run has done.
LEMMA SeenFacts ==
    ASSUME TypeOK, NEW g \in Collectors, CollectorInv(g), NEW r \in queue, r.id \in col[g].rows
    PROVE  /\ Seen(g, r) \in ColStates /\ Seen(g, r).rows = col[g].rows
           /\ Seen(g, r).gone = col[g].gone /\ Seen(g, r).drop = col[g].drop
           /\ Seen(g, r).pc = col[g].pc /\ Seen(g, r).todo \subseteq col[g].rows
<1>1. col[g] \in ColStates /\ r \in QueueRows
  BY Zenon DEF TypeOK
<1>2. r.doc \in Docs /\ r.id \in Nat
  BY <1>1 DEF QueueRows
<1>3. /\ col[g].cur[2] \in Blobs \cup {NoRow} /\ col[g].canon[2] \in {"none", "live", "deleted"}
      /\ col[g].canon \in (Docs \cup {NoRow}) \X {"none", "live", "deleted"}
  BY <1>1 DEF ColStates
<1>4. PICK b : b = CachedBlob(g, r.doc) /\ b \in Blobs \cup {NoRow}
  BY <1>2, <1>3, Zenon DEF CachedBlob, TypeOK
<1>5. PICK c : /\ c = IF PointsTo(g, r) THEN <<r.doc, CachedMeta(g, r.doc)>> ELSE col[g].canon
               /\ c \in (Docs \cup {NoRow}) \X {"none", "live", "deleted"}
  <2>1. PICK m : m = CachedMeta(g, r.doc) /\ m \in {"none", "live", "deleted"}
    BY <1>2, <1>3, Zenon DEF CachedMeta, TypeOK
  <2>2. <<r.doc, m>> \in (Docs \cup {NoRow}) \X {"none", "live", "deleted"}
    BY <1>2, <2>1
  <2> QED
    BY <1>3, <2>1, <2>2, Zenon
<1>6. PICK a : a = <<r.doc, b>> /\ a \in (Docs \cup {NoRow}) \X (Blobs \cup {NoRow})
  <2>1. <<r.doc, b>> \in (Docs \cup {NoRow}) \X (Blobs \cup {NoRow})
    BY <1>2, <1>4
  <2> QED
    BY <2>1, Zenon
<1>8. Seen(g, r) = [col[g] EXCEPT !.todo = @ \ {r.id}, !.cur = a, !.canon = c]
  BY <1>4, <1>5, <1>6, Zenon DEF Seen
<1>7. col[g].todo \subseteq col[g].rows
  BY Zenon DEF CollectorInv
<1>9. PICK t : t = col[g].todo \ {r.id} /\ t \in SUBSET Nat /\ t \subseteq col[g].rows
  <2>1. col[g].todo \subseteq Nat
    BY <1>1 DEF ColStates
  <2> QED
    BY <1>7, <2>1, Zenon
<1>10. PICK CU, CA : /\ CU = (Docs \cup {NoRow}) \X (Blobs \cup {NoRow})
                     /\ CA = (Docs \cup {NoRow}) \X {"none", "live", "deleted"}
  BY Zenon
<1>11. Seen(g, r) = [col[g] EXCEPT !.todo = t, !.cur = a, !.canon = c]
  BY <1>8, <1>9, Zenon
<1>12. col[g] \in [pc : {"idle", "run"}, rows : SUBSET Nat, todo : SUBSET Nat, gone : SUBSET Nat,
                   later : SUBSET Nat, drop : SUBSET Docs, cur : CU, canon : CA]
  BY <1>1, <1>10, Zenon DEF ColStates
<1>13. a \in CU /\ c \in CA
  BY <1>5, <1>6, <1>10, Zenon
<1>14. /\ Seen(g, r) \in [pc : {"idle", "run"}, rows : SUBSET Nat, todo : SUBSET Nat,
                          gone : SUBSET Nat, later : SUBSET Nat, drop : SUBSET Docs, cur : CU, canon : CA]
       /\ Seen(g, r).rows = col[g].rows /\ Seen(g, r).gone = col[g].gone
       /\ Seen(g, r).drop = col[g].drop /\ Seen(g, r).pc = col[g].pc /\ Seen(g, r).todo = t
  BY <1>9, <1>11, <1>12, <1>13, ZenonT(30)
<1> QED
  BY <1>9, <1>10, <1>14, Zenon DEF ColStates

LEMMA StoreRefusesInv ==
    ASSUME EvidenceInv, NEW g \in Collectors, StoreRefuses(g)
    PROVE  EvidenceInv'
<1>1. TypeOK /\ CollectorInv(g) /\ col[g].todo # {}
  BY Zenon DEF EvidenceInv, Collections, StoreRefuses
<1>2. PICK r \in queue : r = NextRow(g) /\ r.id \in col[g].rows
  BY <1>1, NextRowIn, Zenon
<1> DEFINE y == [Seen(g, r) EXCEPT !.later = @ \cup {r.id}]
<1>3. /\ col' = [col EXCEPT ![g] = y]
      /\ UNCHANGED <<dbVars, objects, lock, up, history>>
  BY <1>2, Zenon DEF StoreRefuses
<1>4. r.id \in Nat
  BY <1>1 DEF TypeOK, QueueRows
<1>5. /\ Seen(g, r) \in ColStates /\ Seen(g, r).rows = col[g].rows
      /\ Seen(g, r).gone = col[g].gone /\ Seen(g, r).drop = col[g].drop
      /\ Seen(g, r).pc = col[g].pc /\ Seen(g, r).todo \subseteq col[g].rows
  BY <1>1, <1>2, SeenFacts, Zenon
<1>6. /\ y \in ColStates /\ y.rows = col[g].rows /\ y.gone = col[g].gone /\ y.drop = col[g].drop
      /\ y.pc = col[g].pc /\ y.todo \subseteq col[g].rows
  BY <1>4, <1>5 DEF ColStates
<1> HIDE DEF y
<1>7. /\ blob' = blob /\ meta' = meta /\ refs' = refs /\ queue' = queue /\ nextId' = nextId
      /\ published' = published /\ objects' = objects /\ lock' = lock /\ up' = up
      /\ discarded' = discarded /\ torn' = torn /\ misjudged' = misjudged
  BY <1>3 DEF dbVars, tables, history
<1>8. col'[g] = y /\ \A h \in Collectors : h # g => col'[h] = col[h]
  BY <1>1, <1>3, Zenon DEF TypeOK
<1>9. CollectorInv(g)'
  BY <1>1, <1>6, <1>7, <1>8, Zenon DEF CollectorInv
<1>10. TypeOK' /\ TableInv' /\ Uploads' /\ Collections' /\ PointerRows'
  <2>1. UNCHANGED <<tables, up, discarded>>
    BY <1>7 DEF tables
  <2>2. misjudged' \subseteq Docs /\ lock' \in [Orgs -> Procs \cup {Free}]
    BY <1>1, <1>7, Zenon DEF TypeOK
  <2> QED
    BY <1>3, <1>6, <1>7, <1>9, <2>1, <2>2, RunMoves, Zenon
<1>11. \A h \in Collectors : col[h].gone = col'[h].gone /\ col[h].drop = col'[h].drop
  BY <1>6, <1>8, Zenon
<1>12. QueuedInv'
  BY <1>7, <1>11, Zenon DEF EvidenceInv, KeyInv, QueuedInv, IsPointer
<1>13. ObjectInv'
  BY <1>7, <1>11, Zenon DEF EvidenceInv, KeyInv, ObjectInv, IsPointer
<1> QED
  BY <1>10, <1>12, <1>13, Zenon DEF EvidenceInv, KeyInv

\* What a run that is not misled knows of the row it judges.
LEMMA JudgeFacts ==
    ASSUME TypeOK, NEW g \in Collectors, NEW r \in queue, ~IsStale(g, r), r.doc \notin col[g].drop
    PROVE  /\ PointsTo(g, r) <=> IsPointer(RowKey(r))
           /\ PointsTo(g, r) => CachedMeta(g, r.doc) = meta[r.doc]
<1>1. RowKey(r)[1] = r.doc /\ RowKey(r)[2] = r.sha
  BY DEF RowKey
<1>2. CachedBlob(g, r.doc) = blob[r.doc] /\ (PointsTo(g, r) => CachedMeta(g, r.doc) = meta[r.doc])
  BY Zenon DEF IsStale
<1> QED
  BY <1>1, <1>2, Zenon DEF PointsTo, IsPointer

LEMMA VerdictFacts ==
    ASSUME NEW g, NEW r
    PROVE  /\ Verdict(g, r) = "delete" /\ PointsTo(g, r) =>
                CachedMeta(g, r.doc) # "live" /\ r.doc \notin refs
           /\ Verdict(g, r) \notin {"later", "delete"} => PointsTo(g, r)
BY DEF Verdict

LEMMA ProcessRowInv ==
    ASSUME EvidenceInv, NEW g \in Collectors, ProcessRow(g)
    PROVE  EvidenceInv'
<1>1. /\ TypeOK /\ TableInv /\ CollectorInv(g) /\ PointerRows /\ QueuedInv /\ ObjectInv
      /\ col[g].todo # {}
  BY Zenon DEF EvidenceInv, Collections, KeyInv, ProcessRow
<1>2. PICK r \in queue : /\ r = NextRow(g) /\ r.id \in col[g].rows /\ r.doc \in Docs
                         /\ RowKey(r) \in Keys /\ OrgOf[r.doc] \in Orgs
  BY <1>1, NextRowIn, Zenon
<1> DEFINE v == Verdict(g, r)
           w == Seen(g, r)
           x == IF v = "later" THEN [w EXCEPT !.later = @ \cup {r.id}]
                ELSE [w EXCEPT !.gone = @ \cup {r.id},
                               !.drop = IF v = "delete" /\ PointsTo(g, r) THEN @ \cup {r.doc} ELSE @]
<1>3. /\ lock[OrgOf[r.doc]] \in {Free, g} /\ lock' = [lock EXCEPT ![OrgOf[r.doc]] = g]
      /\ col' = [col EXCEPT ![g] = x]
      /\ objects' = (IF v = "delete" THEN objects \ {<<r.doc, r.sha>>} ELSE objects)
      /\ published' = published \cap objects'
      /\ misjudged' = (IF IsStale(g, r) THEN misjudged \cup {r.doc} ELSE misjudged)
      /\ UNCHANGED <<tables, up, discarded, torn>>
  BY <1>2, Zenon DEF ProcessRow
<1>4. r.id \in Nat
  BY <1>1 DEF TypeOK, QueueRows
<1>5. /\ w \in ColStates /\ w.rows = col[g].rows /\ w.gone = col[g].gone /\ w.drop = col[g].drop
      /\ w.pc = col[g].pc /\ w.todo \subseteq col[g].rows
  BY <1>1, <1>2, SeenFacts, Zenon
<1> HIDE DEF v, w
<1>6. /\ x \in ColStates /\ x.rows = col[g].rows /\ x.pc = col[g].pc /\ x.todo \subseteq col[g].rows
      /\ x.gone = (IF v = "later" THEN col[g].gone ELSE col[g].gone \cup {r.id})
      /\ x.drop = (IF v = "delete" /\ PointsTo(g, r) THEN col[g].drop \cup {r.doc} ELSE col[g].drop)
  <2>1. CASE v = "later"
    BY <1>4, <1>5, <2>1 DEF ColStates
  <2>2. CASE v # "later" /\ v = "delete" /\ PointsTo(g, r)
    BY <1>2, <1>4, <1>5, <2>2, ZenonT(30) DEF ColStates
  <2>3. CASE v # "later" /\ ~(v = "delete" /\ PointsTo(g, r))
    BY <1>4, <1>5, <2>3, ZenonT(30) DEF ColStates
  <2> QED
    BY <2>1, <2>2, <2>3, Zenon
<1> HIDE DEF x
<1>7. /\ blob' = blob /\ meta' = meta /\ refs' = refs /\ queue' = queue /\ nextId' = nextId
      /\ up' = up /\ discarded' = discarded /\ torn' = torn
  BY <1>3 DEF tables
<1>8. col'[g] = x /\ \A h \in Collectors : h # g => col'[h] = col[h]
  BY <1>1, <1>3, Zenon DEF TypeOK
<1>9. /\ lock' \in [Orgs -> Procs \cup {Free}] /\ lock'[OrgOf[r.doc]] = g
      /\ \A o \in Orgs : lock[o] = g => lock'[o] = g
      /\ \A o \in Orgs : lock[o] \notin {g, Free} => lock'[o] = lock[o]
  BY <1>1, <1>2, <1>3, Zenon DEF TypeOK, Procs
<1>10. /\ misjudged \subseteq misjudged' /\ misjudged' \subseteq Docs
       /\ IsStale(g, r) => r.doc \in misjudged'
  BY <1>1, <1>2, <1>3, Zenon DEF TypeOK
<1>11. /\ objects' \subseteq objects /\ published' \subseteq published
       /\ v = "delete" => RowKey(r) \notin objects' /\ RowKey(r) \notin published'
       /\ \A k \in objects : k \in objects' \/ (k = RowKey(r) /\ v = "delete")
  BY <1>3, Zenon DEF RowKey
<1>12. /\ v = "delete" /\ PointsTo(g, r) => CachedMeta(g, r.doc) # "live" /\ r.doc \notin refs
       /\ v \notin {"later", "delete"} => PointsTo(g, r)
  BY VerdictFacts, Zenon DEF v
<1>13. r.doc \notin misjudged' /\ r.doc \notin col[g].drop =>
         /\ PointsTo(g, r) <=> IsPointer(RowKey(r))
         /\ PointsTo(g, r) => CachedMeta(g, r.doc) = meta[r.doc]
  BY <1>1, <1>10, JudgeFacts, Zenon
<1>14. CollectorInv(g)'
  <2>1. ASSUME NEW d \in x.drop
        PROVE  /\ lock'[OrgOf[d]] = g /\ d \notin refs
               /\ d \notin misjudged' =>
                    meta[d] = "deleted" /\ (blob[d] # NoRow => <<d, blob[d].sha>> \notin published')
    <3>1. CASE d \in col[g].drop
      <4>1. d \in Docs /\ OrgOf[d] \in Orgs
        <5>1. col[g].drop \subseteq Docs
          BY <1>1 DEF TypeOK, ColStates
        <5> QED
          BY <3>1, <5>1, EvidenceConstants, Zenon
      <4> QED
        BY <1>1, <1>9, <1>10, <1>11, <3>1, <4>1, Zenon DEF CollectorInv
    <3>2. CASE d \notin col[g].drop
      <4>1. v = "delete" /\ PointsTo(g, r) /\ d = r.doc
        BY <1>6, <2>1, <3>2, Zenon
      <4>2. lock'[OrgOf[d]] = g /\ d \notin refs
        BY <1>9, <1>12, <4>1, Zenon
      <4>3. ASSUME d \notin misjudged'
            PROVE  meta[d] = "deleted" /\ (blob[d] # NoRow => <<d, blob[d].sha>> \notin published')
        <5>1. IsPointer(RowKey(r)) /\ meta[d] # "live"
          BY <1>12, <1>13, <3>2, <4>1, <4>3, Zenon
        <5>2. meta[d] # "none" /\ meta[d] \in {"none", "live", "deleted"}
          BY <1>1, <1>2, <4>1, <5>1, Zenon DEF PointerRows, TypeOK
        <5>3. <<d, blob[d].sha>> = RowKey(r)
          <6>1. RowKey(r) = <<r.doc, r.sha>> /\ RowKey(r)[1] = r.doc /\ RowKey(r)[2] = r.sha
            BY DEF RowKey
          <6> QED
            BY <4>1, <5>1, <6>1, Zenon DEF IsPointer
        <5> QED
          BY <1>11, <4>1, <5>1, <5>2, <5>3, Zenon
      <4> QED
        BY <4>2, <4>3, Zenon
    <3> QED
      BY <3>1, <3>2, Zenon
  <2>2. x.gone \subseteq x.rows
    <3>1. col[g].gone \subseteq col[g].rows
      BY <1>1, Zenon DEF CollectorInv
    <3> QED
      BY <1>2, <1>6, <3>1
  <2>3. x.pc = "idle" => x.rows = {} /\ x.drop = {}
    BY <1>1, <1>2, <1>6, Zenon DEF CollectorInv
  <2>4. /\ \A n \in x.rows : \E q \in queue : q.id = n
        /\ \A h \in Collectors : h # g => x.rows \cap col[h].rows = {}
    BY <1>1, <1>6, Zenon DEF CollectorInv
  <2> QED
    BY <1>6, <1>7, <1>8, <2>1, <2>2, <2>3, <2>4, Zenon DEF CollectorInv
<1>15. ASSUME NEW u \in Uploaders, up[u].pc = "commit", KeyOf(u) \in objects
       PROVE  KeyOf(u) \in objects'
  <2>1. UploadInv(u) /\ u # Free /\ u # g
    BY EvidenceConstants, Zenon DEF EvidenceInv, Uploads, Procs
  <2>2. lock[OrgOf[up[u].doc]] = u
    BY <1>15, <2>1, Zenon DEF UploadInv
  <2>3. up[u].doc # r.doc
    BY <1>3, <2>1, <2>2, Zenon
  <2>4. RowKey(r)[1] = r.doc /\ KeyOf(u)[1] = up[u].doc
    BY DEF RowKey, KeyOf
  <2>5. KeyOf(u) # RowKey(r)
    BY <2>3, <2>4, Zenon
  <2> QED
    BY <1>11, <1>15, <2>5, Zenon
<1>16. TypeOK' /\ TableInv' /\ Uploads' /\ Collections' /\ PointerRows'
  <2>1. UNCHANGED <<tables, up, discarded>>
    BY <1>7 DEF tables
  <2>2. \A n \in x.rows : n \in col[g].rows
    BY <1>6, Zenon
  <2> QED
    BY <1>3, <1>6, <1>9, <1>10, <1>11, <1>14, <1>15, <2>1, <2>2, RunMoves, Zenon
<1>17. QueuedInv'
  <2> SUFFICES ASSUME NEW k \in published', k[1] \notin misjudged', ~IsPointer(k)'
               PROVE  \E q \in queue : RowKey(q) = k /\ \A h \in Collectors : q.id \notin col'[h].gone
    BY <1>7, Zenon DEF QueuedInv
  <2>1. k \in published /\ k[1] \notin misjudged /\ ~IsPointer(k)
    BY <1>7, <1>10, <1>11, Zenon DEF IsPointer
  <2>2. PICK q \in queue : RowKey(q) = k /\ \A h \in Collectors : q.id \notin col[h].gone
    BY <1>1, <2>1, Zenon DEF QueuedInv
  <2>3. q.id \notin col'[g].gone
    <3>1. CASE q.id = r.id /\ v # "later"
      <4>1. q = r
        BY <1>1, <3>1, Zenon DEF TableInv
      <4>2. v # "delete"
        BY <1>11, <2>2, <4>1, Zenon
      <4>3. PointsTo(g, r)
        BY <1>12, <3>1, <4>2, Zenon
      <4>4. r.doc \notin col[g].drop
        BY <4>3, Zenon DEF PointsTo, CachedBlob
      <4>5. k[1] = r.doc
        BY <2>2, <4>1 DEF RowKey
      <4> QED
        BY <1>13, <2>1, <2>2, <4>1, <4>3, <4>4, <4>5, Zenon
    <3>2. CASE ~(q.id = r.id /\ v # "later")
      BY <1>6, <1>8, <2>2, <3>2, Zenon
    <3> QED
      BY <3>1, <3>2, Zenon
  <2> QED
    BY <1>8, <2>2, <2>3, Zenon
<1>18. ObjectInv'
  <2> SUFFICES ASSUME NEW k \in Keys, IsPointer(k)'
               PROVE  \/ k \in objects' \cup discarded \cup torn \/ k[1] \in misjudged'
                      \/ \E h \in Collectors : k[1] \in col'[h].drop
    BY <1>7, Zenon DEF ObjectInv
  <2>1. IsPointer(k)
    BY <1>7, Zenon DEF IsPointer
  <2>2. \A h \in Collectors : col[h].drop \subseteq col'[h].drop
    BY <1>6, <1>8, Zenon
  <2>3. CASE k \in objects /\ k \notin objects'
    <3>1. k = RowKey(r) /\ v = "delete"
      BY <1>11, <2>3, Zenon
    <3>2. k[1] = r.doc
      BY <3>1 DEF RowKey
    <3>3. CASE r.doc \in misjudged' \/ r.doc \in col[g].drop
      BY <2>2, <3>2, <3>3, Zenon
    <3>4. CASE r.doc \notin misjudged' /\ r.doc \notin col[g].drop
      <4>1. PointsTo(g, r)
        BY <1>13, <2>1, <3>1, <3>4, Zenon
      <4> QED
        BY <1>6, <1>8, <3>1, <3>2, <4>1, Zenon
    <3> QED
      BY <3>3, <3>4, Zenon
  <2>4. CASE ~(k \in objects /\ k \notin objects')
    BY <1>1, <1>10, <2>1, <2>2, <2>4, Zenon DEF ObjectInv
  <2> QED
    BY <2>3, <2>4, Zenon
<1> QED
  BY <1>16, <1>17, <1>18, Zenon DEF EvidenceInv, KeyInv

-----------------------------------------------------------------------------
(* Steps that rewrite the queue but not its keys.                          *)

\* Rows are removed or change only whether they are due; blobs are removed.
LEMMA RowsStay ==
    ASSUME EvidenceInv, NEW S \in SUBSET Nat,
           NEW f, queue' = {f[r] : r \in {q \in queue : q.id \notin S}},
           \A r \in queue : f[r] \in QueueRows /\ f[r].id = r.id /\ f[r].doc = r.doc /\ f[r].sha = r.sha
    PROVE  /\ queue' \subseteq QueueRows
           /\ \A r \in queue' : \E q \in queue : q.id = r.id /\ RowKey(q) = RowKey(r) /\ q.doc = r.doc
           /\ \A q \in queue : q.id \notin S => \E r \in queue' : q.id = r.id /\ RowKey(q) = RowKey(r)
           /\ \A r, q \in queue' : r.id = q.id => r = q
<1>1. \A r \in queue : RowKey(f[r]) = RowKey(r)
  BY Zenon DEF RowKey
<1>2. \A r, q \in queue : r.id = q.id => r = q
  BY Zenon DEF EvidenceInv, TableInv
<1>3. \A r \in queue' : \E q \in queue : r = f[q]
  BY Zenon
<1>4. ASSUME NEW r \in queue', NEW q \in queue', r.id = q.id PROVE r = q
  <2>1. PICK a \in queue, b \in queue : r = f[a] /\ q = f[b]
    BY <1>3, Zenon
  <2>2. a.id = b.id
    BY <1>4, <2>1, Zenon
  <2> QED
    BY <1>2, <2>1, <2>2, Zenon
<1>5. \A r \in queue' : \E q \in queue : q.id = r.id /\ RowKey(q) = RowKey(r) /\ q.doc = r.doc
  <2> TAKE r \in queue'
  <2>1. PICK q \in queue : r = f[q]
    BY <1>3, Zenon
  <2>2. q.id = r.id /\ RowKey(q) = RowKey(r) /\ q.doc = r.doc
    BY <1>1, <2>1, Zenon
  <2> QED
    BY <2>2, Zenon
<1>6. ASSUME NEW q \in queue, q.id \notin S
      PROVE  \E r \in queue' : q.id = r.id /\ RowKey(q) = RowKey(r)
  <2>1. f[q] \in queue' /\ f[q].id = q.id /\ RowKey(f[q]) = RowKey(q)
    BY <1>1, <1>6, Zenon
  <2> QED
    BY <2>1, Zenon
<1>7. queue' \subseteq QueueRows
  BY <1>3, Zenon
<1> QED
  BY <1>4, <1>5, <1>6, <1>7, Zenon

\* The commit of run g, or (g is no run) time that passes: the rows S and the blobs D go.
QueueStep(g, S, D) ==
    /\ g \in Collectors => S = col[g].gone /\ D = col[g].drop
    /\ g \notin Collectors => S = {} /\ D = {}
    /\ queue' \subseteq QueueRows
    /\ \A r \in queue' : \E q \in queue : q.id = r.id /\ RowKey(q) = RowKey(r) /\ q.doc = r.doc
    /\ \A q \in queue : q.id \notin S => \E r \in queue' : q.id = r.id /\ RowKey(q) = RowKey(r)
    /\ \A r, q \in queue' : r.id = q.id => r = q
    /\ blob' = [d \in Docs |-> IF d \in D THEN NoRow ELSE blob[d]]
    /\ lock' \in [Orgs -> Procs \cup {Free}]
    /\ \A o \in Orgs : lock[o] # g => lock'[o] = lock[o]
    /\ g \notin Uploaders /\ col' \in [Collectors -> ColStates]
    /\ \A h \in Collectors : h # g => col'[h] = col[h]
    /\ g \in Collectors => col'[g] = IdleCol
    /\ UNCHANGED <<meta, refs, nextId, objects, up, published, history>>

LEMMA QueueMoves ==
    ASSUME EvidenceInv, NEW g, NEW S, NEW D, QueueStep(g, S, D)
    PROVE  EvidenceInv'
<1> /\ g \in Collectors => S = col[g].gone /\ D = col[g].drop
    /\ g \notin Collectors => S = {} /\ D = {}
    /\ queue' \subseteq QueueRows
    /\ \A r \in queue' : \E q \in queue : q.id = r.id /\ RowKey(q) = RowKey(r) /\ q.doc = r.doc
    /\ \A q \in queue : q.id \notin S => \E r \in queue' : q.id = r.id /\ RowKey(q) = RowKey(r)
    /\ \A r, q \in queue' : r.id = q.id => r = q
    /\ blob' = [d \in Docs |-> IF d \in D THEN NoRow ELSE blob[d]]
    /\ lock' \in [Orgs -> Procs \cup {Free}]
    /\ \A o \in Orgs : lock[o] # g => lock'[o] = lock[o]
    /\ g \notin Uploaders /\ col' \in [Collectors -> ColStates]
    /\ \A h \in Collectors : h # g => col'[h] = col[h]
    /\ g \in Collectors => col'[g] = IdleCol
    /\ UNCHANGED <<meta, refs, nextId, objects, up, published, history>>
  BY Zenon DEF QueueStep
<1>1. /\ meta' = meta /\ refs' = refs /\ nextId' = nextId /\ published' = published
      /\ objects' = objects /\ up' = up
      /\ discarded' = discarded /\ torn' = torn /\ misjudged' = misjudged
  BY DEF history
<1>2. TypeOK /\ TableInv /\ PointerRows /\ QueuedInv /\ ObjectInv
  BY Zenon DEF EvidenceInv, KeyInv
<1>3. blob' \in [Docs -> Blobs \cup {NoRow}] /\ \A d \in Docs : d \notin D => blob'[d] = blob[d]
  BY <1>2, Zenon DEF TypeOK
<1>4. \A d \in Docs : d \in D => blob'[d] = NoRow
  BY Zenon
<1>5. TypeOK'
  BY <1>1, <1>2, <1>3, Zenon DEF TypeOK
<1>6. TableInv'
  BY <1>1, <1>2, Zenon DEF TableInv
<1>7. \A h \in Collectors : \A n \in col'[h].rows : n \in col[h].rows
  BY IdleColState, Zenon
<1>8. ASSUME NEW u \in Uploaders PROVE UploadInv(u)'
  <2>1. UploadInv(u) /\ up'[u] = up[u] /\ nextId \in Nat /\ up[u] \in UpStates
    BY <1>1, <1>2, Zenon DEF EvidenceInv, Uploads, TypeOK
  <2>2. nextId' \in Nat /\ nextId <= nextId' /\ \A n \in up[u].cancel : n \in Nat
    BY <1>1, <2>1 DEF UpStates
  <2>3. up[u].pc \in {"cancel", "verify", "commit"} =>
               (lock[OrgOf[up[u].doc]] = u => lock'[OrgOf[up[u].doc]] = u)
    <3>1. up[u].pc \in {"cancel", "verify", "commit"} => OrgOf[up[u].doc] \in Orgs
      BY <1>2, EvidenceConstants, Zenon DEF TypeOK
    <3> QED
      BY <3>1, ZenonT(30)
  <2>4. \A r \in queue' : \E q \in queue : q.id = r.id /\ RowKey(q) = RowKey(r)
    BY Zenon
  <2> QED
    BY <1>1, <1>7, <2>1, <2>2, <2>3, <2>4, UploadStays, Zenon
<1>9. ASSUME NEW h \in Collectors PROVE CollectorInv(h)'
  <2>1. CASE h = g
    <3>1. col'[h] = IdleCol
      BY <2>1, Zenon
    <3> QED
      BY <3>1, IdleColState, Zenon DEF CollectorInv
  <2>2. CASE h # g
    <3>1. CollectorInv(h) /\ col'[h] = col[h] /\ col[h] \in ColStates
      BY <1>2, <2>2, Zenon DEF EvidenceInv, Collections, TypeOK
    <3>2. \A i \in Collectors : i # h => col'[i].rows \cap col[h].rows = {}
      BY <1>7, <3>1, Zenon DEF CollectorInv
    <3>3. ASSUME NEW n \in col[h].rows, \E r \in queue : r.id = n
          PROVE  \E r \in queue' : r.id = n
      <4>1. n \notin S
        <5>1. CASE g \in Collectors
          <6>1. CollectorInv(g) /\ S = col[g].gone
            BY <5>1, Zenon DEF EvidenceInv, Collections
          <6> QED
            BY <2>2, <3>1, <3>3, <5>1, <6>1, Zenon DEF CollectorInv
        <5>2. CASE g \notin Collectors
          BY <5>2, Zenon
        <5> QED
          BY <5>1, <5>2, Zenon
      <4>2. PICK q \in queue : q.id = n
        BY <3>3, Zenon
      <4>3. PICK r \in queue' : q.id = r.id
        BY <4>1, <4>2, Zenon
      <4> QED
        BY <4>2, <4>3, Zenon
    <3>4. ASSUME NEW d \in col[h].drop, lock[OrgOf[d]] = h
          PROVE  lock'[OrgOf[d]] = h /\ blob'[d] = blob[d]
      <4>1. d \in Docs /\ OrgOf[d] \in Orgs
        <5>1. col[h].drop \subseteq Docs
          BY <3>1 DEF ColStates
        <5> QED
          BY <5>1, EvidenceConstants, Zenon
      <4>2. d \notin D
        <5>1. CASE g \in Collectors
          <6>1. CollectorInv(g) /\ D = col[g].drop
            BY <5>1, Zenon DEF EvidenceInv, Collections
          <6> QED
            BY <2>2, <3>4, <6>1, Zenon DEF CollectorInv
        <5>2. CASE g \notin Collectors
          BY <5>2, Zenon
        <5> QED
          BY <5>1, <5>2, Zenon
      <4> QED
        BY <1>3, <2>2, <3>4, <4>1, <4>2, Zenon
    <3> QED
      BY <1>1, <3>1, <3>2, <3>3, <3>4, CollectorStays, Zenon
  <2> QED
    BY <2>1, <2>2, Zenon
<1>10. \A k \in Keys : k[1] \in Docs /\ k = <<k[1], k[2]>>
  BY DEF Keys
<1>11. \A k \in Keys : IsPointer(k)' <=> IsPointer(k) /\ k[1] \notin D
  BY <1>3, <1>4, <1>10, Zenon DEF IsPointer
<1>12. PointerRows'
  <2> SUFFICES ASSUME NEW r \in queue', IsPointer(RowKey(r))' PROVE meta[r.doc] # "none"
    BY <1>1, Zenon DEF PointerRows
  <2>1. PICK q \in queue : q.id = r.id /\ RowKey(q) = RowKey(r) /\ q.doc = r.doc
    BY Zenon
  <2>2. RowKey(q) \in Keys
    BY <1>2 DEF TypeOK, QueueRows, RowKey, Keys
  <2> QED
    BY <1>2, <1>11, <2>1, <2>2, Zenon DEF PointerRows
<1>13. QueuedInv'
  <2> SUFFICES ASSUME NEW k \in published, k[1] \notin misjudged, ~IsPointer(k)'
               PROVE  \E r \in queue' : RowKey(r) = k /\ \A h \in Collectors : r.id \notin col'[h].gone
    BY <1>1, Zenon DEF QueuedInv
  <2>1. k \in Keys
    BY <1>2, Zenon DEF TypeOK
  <2>2. ~IsPointer(k)
    <3> SUFFICES ASSUME IsPointer(k) PROVE FALSE
      BY Zenon
    <3>1. k[1] \in D
      BY <1>11, <2>1, Zenon
    <3>2. g \in Collectors /\ k[1] \in col[g].drop
      BY <3>1, Zenon
    <3>3. CollectorInv(g)
      BY <3>2, Zenon DEF EvidenceInv, Collections
    <3>4. blob[k[1]] # NoRow => <<k[1], blob[k[1]].sha>> \notin published
      BY <3>2, <3>3, Zenon DEF CollectorInv
    <3> QED
      BY <1>10, <2>1, <3>4, Zenon DEF IsPointer
  <2>3. PICK q \in queue : RowKey(q) = k /\ \A h \in Collectors : q.id \notin col[h].gone
    BY <1>2, <2>2, Zenon DEF QueuedInv
  <2>4. PICK r \in queue' : q.id = r.id /\ RowKey(q) = RowKey(r)
    BY <2>3, Zenon
  <2>5. \A h \in Collectors : r.id \notin col'[h].gone
    BY <2>3, <2>4, IdleColState, Zenon
  <2> QED
    BY <2>3, <2>4, <2>5, Zenon
<1>14. ObjectInv'
  <2> SUFFICES ASSUME NEW k \in Keys, IsPointer(k)'
               PROVE  \/ k \in objects \cup discarded \cup torn \/ k[1] \in misjudged
                      \/ \E h \in Collectors : k[1] \in col'[h].drop
    BY <1>1, Zenon DEF ObjectInv
  <2>1. IsPointer(k) /\ k[1] \notin D
    BY <1>11, Zenon
  <2>2. \A h \in Collectors : k[1] \in col[h].drop => k[1] \in col'[h].drop
    BY <2>1, ZenonT(30)
  <2> QED
    BY <1>2, <2>1, <2>2, Zenon DEF ObjectInv
<1> QED
  BY <1>5, <1>6, <1>8, <1>9, <1>12, <1>13, <1>14, Zenon DEF EvidenceInv, Uploads, Collections, KeyInv

LEMMA CommitCollectInv ==
    ASSUME EvidenceInv, NEW g \in Collectors, CommitCollect(g)
    PROVE  EvidenceInv'
<1> DEFINE f == [r \in queue |-> [r EXCEPT !.due = @ /\ r.id \notin col[g].later]]
<1>1. /\ queue' = {[r EXCEPT !.due = @ /\ r.id \notin col[g].later] :
                    r \in {q \in queue : q.id \notin col[g].gone}}
      /\ blob' = [d \in Docs |-> IF d \in col[g].drop THEN NoRow ELSE blob[d]]
      /\ lock' = Release(g) /\ col' = [col EXCEPT ![g] = IdleCol]
      /\ UNCHANGED <<meta, refs, nextId, objects, up, published, history>>
  BY Zenon DEF CommitCollect
<1>2. TypeOK /\ g \notin Uploaders
  BY EvidenceConstants, Zenon DEF EvidenceInv
<1>3. queue' = {f[r] : r \in {q \in queue : q.id \notin col[g].gone}}
  BY <1>1
<1>4. \A r \in queue : f[r] \in QueueRows /\ f[r].id = r.id /\ f[r].doc = r.doc /\ f[r].sha = r.sha
  BY <1>2, ZenonT(30) DEF TypeOK, QueueRows
<1> HIDE DEF f
<1>5. col[g].gone \in SUBSET Nat
  BY <1>2 DEF TypeOK, ColStates
<1>6. /\ queue' \subseteq QueueRows
      /\ \A r \in queue' : \E q \in queue : q.id = r.id /\ RowKey(q) = RowKey(r) /\ q.doc = r.doc
      /\ \A q \in queue : q.id \notin col[g].gone =>
            \E r \in queue' : q.id = r.id /\ RowKey(q) = RowKey(r)
      /\ \A r, q \in queue' : r.id = q.id => r = q
  BY <1>3, <1>4, <1>5, RowsStay, Zenon
<1>7. /\ lock' \in [Orgs -> Procs \cup {Free}]
      /\ \A o \in Orgs : lock[o] # g => lock'[o] = lock[o]
  BY <1>1, <1>2, ReleaseFacts, Zenon
<1>8. /\ col' \in [Collectors -> ColStates] /\ col'[g] = IdleCol
      /\ \A h \in Collectors : h # g => col'[h] = col[h]
  BY <1>1, <1>2, IdleColState, Zenon DEF TypeOK
<1>9. PICK S, D : S = col[g].gone /\ D = col[g].drop
  BY Zenon
<1>10. /\ \A q \in queue : q.id \notin S => \E r \in queue' : q.id = r.id /\ RowKey(q) = RowKey(r)
       /\ blob' = [d \in Docs |-> IF d \in D THEN NoRow ELSE blob[d]]
  BY <1>1, <1>6, <1>9, Zenon
<1>11. g \notin Collectors => S = {} /\ D = {}
  OBVIOUS
<1>12. QueueStep(g, S, D)
  BY <1>1, <1>2, <1>6, <1>7, <1>8, <1>9, <1>10, <1>11, Zenon DEF QueueStep
<1> QED
  BY <1>12, QueueMoves, Zenon

LEMMA BecomesDueInv ==
    ASSUME EvidenceInv, NEW r \in queue, BecomesDue(r)
    PROVE  EvidenceInv'
<1> DEFINE f == [q \in queue |-> IF q = r THEN [q EXCEPT !.due = TRUE] ELSE q]
<1>1. /\ queue' = (queue \ {r}) \cup {[r EXCEPT !.due = TRUE]}
      /\ UNCHANGED <<blob, meta, refs, nextId, objects, lock, up, col, published, history>>
  BY Zenon DEF BecomesDue
<1>2. TypeOK
  BY Zenon DEF EvidenceInv
<1>3. PICK S : S = {} /\ S \in SUBSET Nat
  <2>1. {} \in SUBSET Nat
    OBVIOUS
  <2> QED
    BY <2>1, Zenon
<1>5. queue' = {f[q] : q \in {s \in queue : s.id \notin S}}
  BY <1>1, <1>3, Zenon
<1>4. \A q \in queue : f[q] \in QueueRows /\ f[q].id = q.id /\ f[q].doc = q.doc /\ f[q].sha = q.sha
  BY <1>2, ZenonT(30) DEF TypeOK, QueueRows
<1> HIDE DEF f
<1>6. /\ queue' \subseteq QueueRows
      /\ \A s \in queue' : \E q \in queue : q.id = s.id /\ RowKey(q) = RowKey(s) /\ q.doc = s.doc
      /\ \A q \in queue : q.id \notin S => \E s \in queue' : q.id = s.id /\ RowKey(q) = RowKey(s)
      /\ \A s, q \in queue' : s.id = q.id => s = q
  BY <1>3, <1>4, <1>5, RowsStay, Zenon
<1>7. /\ Free \notin Collectors /\ Free \notin Uploaders
      /\ lock' = lock /\ col' = col /\ blob' = blob
      /\ UNCHANGED <<meta, refs, nextId, objects, up, published, history>>
  BY <1>1, EvidenceConstants DEF Procs
<1>8. blob' = [d \in Docs |-> IF d \in S THEN NoRow ELSE blob[d]]
  BY <1>2, <1>3, <1>7, Zenon DEF TypeOK
<1>9. lock' \in [Orgs -> Procs \cup {Free}] /\ col' \in [Collectors -> ColStates]
  BY <1>2, <1>7, Zenon DEF TypeOK
<1>10. QueueStep(Free, S, S)
  BY <1>3, <1>6, <1>7, <1>8, <1>9, Zenon DEF QueueStep
<1> QED
  BY <1>10, QueueMoves, Zenon

-----------------------------------------------------------------------------
(* Sync pushes.                                                            *)

\* A push holds the organization of document d by itself: no upload of d is past its lock and
\* no run has deleted its blob.
LEMMA PushMoves ==
    ASSUME EvidenceInv, NEW d \in Docs, lock[OrgOf[d]] = Free,
           UNCHANGED <<blob, objects, lock, up, col, published, history>>,
           meta' \in [Docs -> {"none", "live", "deleted"}], refs' \subseteq Docs,
           \A e \in Docs : e # d => meta'[e] = meta[e] /\ (e \in refs' => e \in refs),
           queue' \subseteq QueueRows, queue \subseteq queue', nextId' \in Nat, nextId <= nextId',
           \A r \in queue' : r \in queue \/ (r.id = nextId /\ r.doc = d),
           TableInv', PointerRows'
    PROVE  EvidenceInv'
<1>1. /\ blob' = blob /\ published' = published /\ objects' = objects /\ up' = up
      /\ lock' = lock /\ col' = col
      /\ discarded' = discarded /\ torn' = torn /\ misjudged' = misjudged
  BY DEF history
<1>2. TypeOK
  BY Zenon DEF EvidenceInv
<1>3. TypeOK'
  BY <1>1, <1>2, Zenon DEF TypeOK
<1>4. ASSUME NEW u \in Uploaders PROVE UploadInv(u)'
  <2>1. UploadInv(u) /\ up'[u] = up[u] /\ nextId \in Nat /\ up[u] \in UpStates /\ u # Free
    BY <1>1, <1>2, EvidenceConstants, Zenon DEF EvidenceInv, Uploads, TypeOK, Procs
  <2>2. \A n \in up[u].cancel : n \in Nat
    BY <2>1 DEF UpStates
  <2>3. up[u].pc \in {"verify", "commit"} => up[u].doc # d
    BY <2>1, Zenon DEF UploadInv
  <2>4. ASSUME NEW r \in queue', r \notin queue, up[u].pc \in {"verify", "commit"}
        PROVE  RowKey(r) # KeyOf(u)
    <3>1. RowKey(r)[1] = r.doc /\ KeyOf(u)[1] = up[u].doc
      BY DEF RowKey, KeyOf
    <3> QED
      BY <2>3, <2>4, <3>1, Zenon
  <2>5. \A r \in queue' : \/ \E q \in queue : q.id = r.id /\ RowKey(q) = RowKey(r)
                          \/ r.id = nextId /\ (up[u].pc \in {"verify", "commit"} => RowKey(r) # KeyOf(u))
    BY <2>4, Zenon
  <2> QED
    BY <1>1, <2>1, <2>2, <2>5, UploadStays, Zenon
<1>5. ASSUME NEW g \in Collectors PROVE CollectorInv(g)'
  <2>1. CollectorInv(g) /\ g # Free /\ col[g] \in ColStates
    BY <1>2, EvidenceConstants, Zenon DEF EvidenceInv, Collections, TypeOK, Procs
  <2>2. \A h \in Collectors : h # g => col'[h].rows \cap col[g].rows = {}
    BY <1>1, <2>1, Zenon DEF CollectorInv
  <2>3. col[g].drop \subseteq Docs
    BY <2>1 DEF ColStates
  <2>4. \A e \in col[g].drop : e \in Docs /\ e # d
    BY <2>1, <2>3, Zenon DEF CollectorInv
  <2> QED
    BY <1>1, <2>1, <2>2, <2>4, CollectorStays, Zenon
<1>6. QueuedInv'
  <2> SUFFICES ASSUME NEW k \in published, k[1] \notin misjudged, ~IsPointer(k)'
               PROVE  \E r \in queue' : RowKey(r) = k /\ \A g \in Collectors : r.id \notin col[g].gone
    BY <1>1, Zenon DEF QueuedInv
  <2>1. ~IsPointer(k)
    BY <1>1, Zenon DEF IsPointer
  <2>2. PICK r \in queue : RowKey(r) = k /\ \A g \in Collectors : r.id \notin col[g].gone
    BY <2>1, Zenon DEF EvidenceInv, KeyInv, QueuedInv
  <2> QED
    BY <2>2, Zenon
<1>7. ObjectInv'
  BY <1>1, Zenon DEF EvidenceInv, KeyInv, ObjectInv, IsPointer
<1> QED
  BY <1>3, <1>4, <1>5, <1>6, <1>7, Zenon DEF EvidenceInv, Uploads, Collections, KeyInv

LEMMA PushMetadataInv ==
    ASSUME EvidenceInv, NEW d \in Docs, PushMetadata(d)
    PROVE  EvidenceInv'
<1>1. /\ lock[OrgOf[d]] = Free /\ meta' = [meta EXCEPT ![d] = "live"]
      /\ UNCHANGED <<blob, refs, queue, nextId, objects, lock, up, col, published, history>>
  BY Zenon DEF PushMetadata
<1>2. TypeOK /\ TableInv /\ PointerRows
  BY Zenon DEF EvidenceInv, KeyInv
<1>3. /\ refs' = refs /\ queue' = queue /\ nextId' = nextId /\ nextId \in Nat /\ blob' = blob
      /\ UNCHANGED <<blob, objects, lock, up, col, published, history>>
  BY <1>1, <1>2 DEF TypeOK
<1>4. nextId <= nextId' /\ nextId' \in Nat
  BY <1>3
<1>5. /\ meta' \in [Docs -> {"none", "live", "deleted"}] /\ meta'[d] = "live"
      /\ \A e \in Docs : e # d => meta'[e] = meta[e]
  BY <1>1, <1>2, Zenon DEF TypeOK
<1>6. refs' \subseteq Docs /\ queue' \subseteq QueueRows /\ \A r \in queue : r.doc \in Docs
  BY <1>2, <1>3 DEF TypeOK, QueueRows
<1>7. TableInv'
  BY <1>2, <1>3, <1>5, <1>6, Zenon DEF TableInv
<1>8. PointerRows'
  <2> SUFFICES ASSUME NEW r \in queue, IsPointer(RowKey(r))' PROVE meta'[r.doc] # "none"
    BY <1>3, Zenon DEF PointerRows
  <2>1. meta[r.doc] # "none"
    BY <1>2, <1>3, Zenon DEF PointerRows, IsPointer
  <2>2. CASE r.doc = d
    BY <1>5, <2>2
  <2>3. CASE r.doc # d
    BY <1>5, <1>6, <2>1, <2>3, Zenon
  <2> QED
    BY <2>2, <2>3, Zenon
<1> QED
  BY <1>1, <1>3, <1>4, <1>5, <1>6, <1>7, <1>8, PushMoves, Zenon

LEMMA PushReferenceInv ==
    ASSUME EvidenceInv, NEW d \in Docs, PushReference(d)
    PROVE  EvidenceInv'
<1>1. /\ lock[OrgOf[d]] = Free
      /\ refs' = (IF d \in refs THEN refs \ {d} ELSE refs \cup {d}) /\ (d \notin refs => meta[d] = "live")
      /\ UNCHANGED <<blob, meta, queue, nextId, objects, lock, up, col, published, history>>
  BY Zenon DEF PushReference
<1>2. TypeOK /\ TableInv /\ PointerRows
  BY Zenon DEF EvidenceInv, KeyInv
<1>3. /\ meta' = meta /\ queue' = queue /\ nextId' = nextId /\ nextId \in Nat /\ blob' = blob
      /\ UNCHANGED <<blob, objects, lock, up, col, published, history>>
  BY <1>1, <1>2 DEF TypeOK
<1>4. nextId <= nextId' /\ nextId' \in Nat
  BY <1>3
<1>5. /\ refs' \subseteq Docs /\ queue' \subseteq QueueRows
      /\ meta' \in [Docs -> {"none", "live", "deleted"}]
      /\ \A e \in Docs : e # d => (e \in refs' => e \in refs)
  BY <1>1, <1>2, <1>3, Zenon DEF TypeOK
<1>6. TableInv'
  <2>1. \A e \in refs' : meta[e] = "live"
    BY <1>1, <1>2, Zenon DEF TableInv
  <2> QED
    BY <1>2, <1>3, <2>1, Zenon DEF TableInv
<1>7. PointerRows'
  BY <1>2, <1>3, Zenon DEF PointerRows, IsPointer
<1> QED
  BY <1>1, <1>3, <1>4, <1>5, <1>6, <1>7, PushMoves, Zenon

LEMMA PushTombstoneInv ==
    ASSUME EvidenceInv, NEW d \in Docs, PushTombstone(d)
    PROVE  EvidenceInv'
<1>1. /\ lock[OrgOf[d]] = Free /\ d \notin refs /\ meta' = [meta EXCEPT ![d] = "deleted"]
      /\ queue' = (IF blob[d] # NoRow THEN queue \cup Queued(d) ELSE queue)
      /\ nextId' = (IF blob[d] # NoRow THEN nextId + 1 ELSE nextId)
      /\ UNCHANGED <<blob, refs, objects, lock, up, col, published, history>>
  BY Zenon DEF PushTombstone
<1>2. TypeOK /\ TableInv /\ PointerRows
  BY Zenon DEF EvidenceInv, KeyInv
<1>3. /\ refs' = refs /\ nextId \in Nat /\ blob' = blob
      /\ UNCHANGED <<blob, objects, lock, up, col, published, history>>
  BY <1>1, <1>2 DEF TypeOK
<1>4. /\ nextId' \in Nat /\ nextId <= nextId' /\ (blob[d] # NoRow => nextId < nextId')
  BY <1>1, <1>3
<1>5. blob[d] # NoRow => \A r \in Queued(d) : r \in QueueRows /\ r.id = nextId /\ r.doc = d
  <2> SUFFICES ASSUME blob[d] # NoRow
               PROVE  \A r \in Queued(d) : r \in QueueRows /\ r.id = nextId /\ r.doc = d
    BY Zenon
  <2>1. blob[d].sha \in Digests
    BY <1>2 DEF TypeOK, Blobs
  <2>2. PICK row : row = [id |-> nextId, doc |-> d, sha |-> blob[d].sha, due |-> FALSE]
    BY Zenon
  <2>3. row \in QueueRows /\ row.id = nextId /\ row.doc = d
    BY <1>3, <2>1, <2>2 DEF QueueRows
  <2>4. Queued(d) = {row}
    BY <2>2, Zenon DEF Queued
  <2> QED
    BY <2>3, <2>4, Zenon
<1>6. /\ queue \subseteq queue' /\ queue' \subseteq QueueRows
      /\ \A r \in queue' : r \in queue \/ (r.id = nextId /\ r.doc = d)
      /\ \A r \in queue' : r \in queue \/ (r \in Queued(d) /\ blob[d] # NoRow)
  BY <1>1, <1>2, <1>5, Zenon DEF TypeOK
<1>7. /\ meta' \in [Docs -> {"none", "live", "deleted"}] /\ meta'[d] = "deleted"
      /\ \A e \in Docs : e # d => meta'[e] = meta[e]
  BY <1>1, <1>2, Zenon DEF TypeOK
<1>8. refs' \subseteq Docs /\ \A r \in queue : r.doc \in Docs /\ r.id \in Nat
  BY <1>2, <1>3 DEF TypeOK, QueueRows
<1>9. TableInv'
  <2>1. \A r \in queue : r.id < nextId
    BY <1>2, Zenon DEF TableInv
  <2>2. \A r \in queue : r.id < nextId' /\ r.id # nextId
    BY <1>3, <1>4, <1>8, <2>1
  <2>3. \A r \in queue' : r.id < nextId'
    <3> TAKE r \in queue'
    <3>1. CASE r \in queue
      BY <2>2, <3>1, Zenon
    <3>2. CASE r \in Queued(d) /\ blob[d] # NoRow
      BY <1>4, <1>5, <3>2, Zenon
    <3> QED
      BY <1>6, <3>1, <3>2, Zenon
  <2>4. \A r, q \in Queued(d) : r = q
    BY ZenonT(30) DEF Queued
  <2>5. ASSUME NEW r \in queue', NEW q \in queue', r.id = q.id PROVE r = q
    BY <1>2, <1>5, <1>6, <2>2, <2>4, <2>5, Zenon DEF TableInv
  <2>6. \A e \in refs' : meta'[e] = "live"
    BY <1>1, <1>2, <1>3, <1>7, <1>8, Zenon DEF TableInv
  <2> QED
    BY <2>3, <2>5, <2>6, Zenon DEF TableInv
<1>10. PointerRows'
  <2> SUFFICES ASSUME NEW r \in queue', IsPointer(RowKey(r))' PROVE meta'[r.doc] # "none"
    BY Zenon DEF PointerRows
  <2>1. CASE r.doc = d
    BY <1>7, <2>1
  <2>2. CASE r.doc # d
    <3>1. r \in queue
      BY <1>6, <2>2, Zenon
    <3>2. meta[r.doc] # "none"
      BY <1>2, <1>3, <3>1, Zenon DEF PointerRows, IsPointer
    <3> QED
      BY <1>7, <1>8, <2>2, <3>1, <3>2, Zenon
  <2> QED
    BY <2>1, <2>2, Zenon
<1> QED
  BY <1>1, <1>3, <1>4, <1>6, <1>7, <1>8, <1>9, <1>10, PushMoves, Zenon

-----------------------------------------------------------------------------
(* The theorems.                                                           *)

LEMMA InitInv == Init => EvidenceInv
<1> SUFFICES ASSUME Init PROVE EvidenceInv
  OBVIOUS
<1>1. /\ blob = [d \in Docs |-> NoRow] /\ meta = [d \in Docs |-> "none"]
      /\ refs = {} /\ queue = {} /\ nextId = 1
      /\ objects = {} /\ published = {} /\ misjudged = {}
      /\ lock = [o \in Orgs |-> Free]
      /\ up = [u \in Uploaders |-> IdleUp] /\ col = [g \in Collectors |-> IdleCol]
  BY Zenon DEF Init
<1>2. nextId \in Nat
  BY <1>1
<1>3. TypeOK
  <2>1. \A u \in Uploaders : up[u].pc # "idle" =>
           up[u].doc \in Docs /\ up[u].item \in Items /\ up[u].sha \in Digests
    BY <1>1, IdleUpState, Zenon
  <2>2. up \in [Uploaders -> UpStates] /\ col \in [Collectors -> ColStates]
    BY <1>1, IdleUpState, IdleColState, Zenon DEF UpState
  <2>3. meta \in [Docs -> {"none", "live", "deleted"}]
    BY <1>1, Zenon
  <2> QED
    BY <1>1, <1>2, <2>1, <2>2, <2>3, Zenon DEF TypeOK
<1>4. TableInv /\ PointerRows /\ QueuedInv
  BY <1>1, Zenon DEF TableInv, PointerRows, QueuedInv
<1>5. Uploads
  <2>1. \A u \in Uploaders : up[u].pc \notin {"cancel", "verify", "commit"} /\ up[u].cancel = {}
    BY <1>1 DEF IdleUp
  <2> QED
    BY <1>1, <2>1, Zenon DEF Uploads, UploadInv
<1>6. Collections
  BY <1>1, IdleColState, Zenon DEF Collections, CollectorInv
<1>7. ObjectInv
  <2>1. \A k \in Keys : k[1] \in Docs
    BY DEF Keys
  <2> QED
    BY <1>1, <2>1, Zenon DEF ObjectInv, IsPointer
<1> QED
  BY <1>3, <1>4, <1>5, <1>6, <1>7, Zenon DEF EvidenceInv, KeyInv

\* Nothing moves.
LEMMA StutterInv ==
    ASSUME EvidenceInv, UNCHANGED vars
    PROVE  EvidenceInv'
<1>1. /\ blob' = blob /\ meta' = meta /\ refs' = refs /\ queue' = queue /\ nextId' = nextId
      /\ published' = published /\ objects' = objects /\ up' = up /\ lock' = lock /\ col' = col
      /\ discarded' = discarded /\ torn' = torn /\ misjudged' = misjudged
  BY DEF vars, history
<1>2. TypeOK' /\ TableInv'
  BY <1>1, Zenon DEF EvidenceInv, TypeOK, TableInv
<1>3. Uploads'
  BY <1>1, Zenon DEF EvidenceInv, Uploads, UploadInv, KeyOf
<1>4. Collections'
  BY <1>1, ZenonT(30) DEF EvidenceInv, Collections, CollectorInv
<1>5. KeyInv'
  BY <1>1, Zenon DEF EvidenceInv, KeyInv, PointerRows, QueuedInv, ObjectInv, IsPointer
<1> QED
  BY <1>2, <1>3, <1>4, <1>5, Zenon DEF EvidenceInv

LEMMA StepInv ==
    ASSUME EvidenceInv, [Next]_vars
    PROVE  EvidenceInv'
<1>1. ASSUME NEW u \in Uploaders, UploadStep(u) PROVE EvidenceInv'
  <2>1. ASSUME NEW d \in Docs, NEW i \in Items, NEW c \in Digests, BeginUpload(u, d, i, c)
        PROVE  EvidenceInv'
    BY <2>1, BeginUploadInv, Zenon
  <2>2. CASE PutObject(u)
    BY <2>2, PutObjectInv, Zenon
  <2>3. CASE PutFails(u) \/ AbortUpload(u)
    BY <2>3, UploadEndsInv, Zenon
  <2>4. CASE LockForUpload(u)
    BY <2>4, LockForUploadInv, Zenon
  <2>5. CASE CancelGc(u)
    BY <2>5, CancelGcInv, Zenon
  <2>6. CASE VerifyObject(u)
    BY <2>6, VerifyObjectInv, Zenon
  <2>7. CASE CommitUpload(u)
    BY <2>7, CommitUploadInv, Zenon
  <2>8. CASE CommitRaises(u)
    BY <2>8, CommitRaisesInv, Zenon
  <2>9. CASE DiscardCandidate(u)
    BY <2>9, DiscardCandidateInv, Zenon
  <2> QED
    BY <1>1, <2>1, <2>2, <2>3, <2>4, <2>5, <2>6, <2>7, <2>8, <2>9, Zenon DEF UploadStep
<1>2. ASSUME NEW g \in Collectors, CollectStep(g) PROVE EvidenceInv'
  BY <1>2, CollectInv, ProcessRowInv, StoreRefusesInv, CommitCollectInv, AbortCollectInv, Zenon
     DEF CollectStep
<1>3. ASSUME NEW d \in Docs, PushStep(d) PROVE EvidenceInv'
  BY <1>3, PushMetadataInv, PushTombstoneInv, PushReferenceInv, Zenon DEF PushStep
<1>4. ASSUME NEW r \in queue, BecomesDue(r) PROVE EvidenceInv'
  BY <1>4, BecomesDueInv, Zenon
<1>5. CASE UNCHANGED vars
  BY <1>5, StutterInv, Zenon
<1> QED
  BY <1>1, <1>2, <1>3, <1>4, <1>5, Zenon DEF Next

\* The inductive invariant holds in every reachable state.
THEOREM EvidenceSafe == Spec => []EvidenceInv
<1>1. EvidenceInv /\ [Next]_vars => EvidenceInv'
  BY StepInv, Zenon
<1> QED
  BY <1>1, InitInv, PTL DEF Spec

\* The collector never takes the object of evidence that can be read
\* (collect_due_evidence_gc against put_blob): one that is missing was discarded by a failed
\* upload, was deleted by a run that died, or its document was judged by what a session had
\* loaded before.
THEOREM CollectorSpares == Spec => []CollectorSparesPublished
<1>1. EvidenceInv => CollectorSparesPublished
  <2> SUFFICES ASSUME EvidenceInv, NEW k \in Keys, IsPointer(k), meta[k[1]] # "deleted"
               PROVE  k \in objects \cup discarded \cup torn \/ k[1] \in misjudged
    BY Zenon DEF CollectorSparesPublished
  <2>1. \A g \in Collectors : k[1] \in col[g].drop => k[1] \in misjudged
    BY Zenon DEF EvidenceInv, Collections, CollectorInv
  <2> QED
    BY <2>1, Zenon DEF EvidenceInv, KeyInv, ObjectInv
<1> QED
  BY <1>1, EvidenceSafe, PTL

\* A version an upload has replaced, or whose document was collected, is never leaked
\* (queue_blob_gc in the transaction that switches the pointer).
THEOREM SupersededQueued == Spec => []SupersededIsQueued
<1>1. EvidenceInv => SupersededIsQueued
  <2> SUFFICES ASSUME EvidenceInv, NEW k \in published, ~IsPointer(k), k[1] \notin misjudged
               PROVE  Pending(k)
    BY Zenon DEF SupersededIsQueued
  <2>1. PICK r \in queue : RowKey(r) = k
    BY Zenon DEF EvidenceInv, KeyInv, QueuedInv
  <2>2. r.id \in RowIds(k)
    BY <2>1, Zenon DEF RowIds, RowKey
  <2> QED
    BY <2>2, Zenon DEF Pending
<1> QED
  BY <1>1, EvidenceSafe, PTL

\* Evidence that a live measurement or requirement lists is live, and no run of the collector
\* has deleted its pointer (the reference check of a deletion and of the collector).
THEOREM ReferencedKept == Spec => []ReferencedIsKept
<1>1. EvidenceInv => ReferencedIsKept
  BY Zenon DEF EvidenceInv, TableInv, Collections, CollectorInv, ReferencedIsKept
<1> QED
  BY <1>1, EvidenceSafe, PTL

=============================================================================
