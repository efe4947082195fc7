---------------------------- MODULE SyncLogProofs ----------------------------
(***************************************************************************)
(* The inductive invariant of SyncLog and the safety properties that       *)
(* follow from it, for all values of its constants: first what the push    *)
(* handlers do to the tables of an organization (types, the organization   *)
(* lock, the history of changes), then cursors, outcomes and pages.        *)
(***************************************************************************)
EXTENDS SyncLog, TLAPS

(***************************************************************************)
(* Sequences and numbers.                                                  *)
(***************************************************************************)

\* The rows of a sequence of log rows.
LEMMA Rows ==
    ASSUME NEW a \in Seq(LogRows)
    PROVE  /\ DOMAIN a = 1..Len(a) /\ Len(a) \in Nat /\ DOMAIN a \subseteq Nat
           /\ \A n \in DOMAIN a : a[n] \in LogRows
OBVIOUS

\* The rows of a concatenation.
LEMMA Concatenation ==
    ASSUME NEW a \in Seq(LogRows), NEW b \in Seq(LogRows)
    PROVE  /\ a \o b \in Seq(LogRows) /\ Len(a \o b) = Len(a) + Len(b)
           /\ DOMAIN a = 1..Len(a) /\ DOMAIN b = 1..Len(b)
           /\ DOMAIN (a \o b) = 1..(Len(a) + Len(b)) /\ Len(a) \in Nat /\ Len(b) \in Nat
           /\ \A n \in DOMAIN a : (a \o b)[n] = a[n]
           /\ \A n \in DOMAIN b : (a \o b)[Len(a) + n] = b[n]
OBVIOUS

\* A row of a concatenation is one of the first or of the second sequence.
LEMMA EitherPart ==
    ASSUME NEW a \in Seq(LogRows), NEW b \in Seq(LogRows), NEW n \in DOMAIN (a \o b)
    PROVE  \/ n \in DOMAIN a /\ (a \o b)[n] = a[n]
           \/ n > Len(a) /\ \E k \in DOMAIN b : (a \o b)[n] = b[k]
<1>1. n \in 1..(Len(a) + Len(b)) /\ Len(a) \in Nat /\ Len(b) \in Nat
  BY Concatenation, Zenon
<1>2. CASE n <= Len(a)
  <2>1. n \in DOMAIN a
    BY <1>1, <1>2, Concatenation
  <2> QED BY <2>1, Concatenation, Zenon
<1>3. CASE n > Len(a)
  <2>1. n - Len(a) \in DOMAIN b /\ n = Len(a) + (n - Len(a))
    BY <1>1, <1>3, Concatenation
  <2>2. PICK k \in DOMAIN b : n = Len(a) + k
    BY <2>1, Zenon
  <2>3. (a \o b)[Len(a) + k] = b[k]
    BY Concatenation, Zenon
  <2> QED BY <1>3, <2>2, <2>3, Zenon
<1> QED BY <1>1, <1>2, <1>3

\* The first part of a concatenation comes before the second.
LEMMA FirstPart ==
    ASSUME NEW a \in Seq(LogRows), NEW b \in Seq(LogRows)
    PROVE  /\ DOMAIN a \subseteq DOMAIN (a \o b)
           /\ \A k \in DOMAIN a, n \in DOMAIN b : Len(a) + n \in DOMAIN (a \o b) /\ k < Len(a) + n
BY Concatenation

\* A row with the next sequence number goes to the end of the log.
OrderedBelow(h, m) ==
    /\ \A i, j \in DOMAIN h : i < j => h[i].seq < h[j].seq
    /\ \A n \in DOMAIN h : h[n].seq < m
LEMMA AppendOrdered ==
    ASSUME NEW h \in Seq(LogRows), NEW row \in LogRows, OrderedBelow(h, row.seq)
    PROVE  OrderedBelow(Append(h, row), row.seq + 1)
<1> SUFFICES ASSUME NEW h2, h2 = Append(h, row)
             PROVE  OrderedBelow(h2, row.seq + 1)
  BY Zenon
<1>1. /\ DOMAIN h2 = 1..(Len(h) + 1) /\ DOMAIN h = 1..Len(h) /\ Len(h) \in Nat
      /\ h2[Len(h) + 1] = row /\ \A n \in 1..Len(h) : h2[n] = h[n] /\ h[n] \in LogRows
  OBVIOUS
<1>2. row.seq \in Int /\ \A n \in 1..Len(h) : h[n].seq \in Int /\ h[n].seq < row.seq
  <2>1. \A x \in LogRows : x.seq \in Int
    BY DEF LogRows
  <2> QED BY <1>1, <2>1, Zenon DEF OrderedBelow
<1>3. \A a, b \in DOMAIN h2 : a < b => h2[a].seq < h2[b].seq
  BY <1>1, <1>2 DEF OrderedBelow
<1>4. \A n \in DOMAIN h2 : h2[n].seq < row.seq + 1
  BY <1>1, <1>2
<1> QED BY <1>3, <1>4, Zenon DEF OrderedBelow

\* What is used of the order of numbers.
LEMMA Order ==
    /\ \A x, y \in Int : x <= y \/ y < x
    /\ \A x, y, z \in Int : x <= y /\ y <= z => x <= z
    /\ \A x, y, z \in Int : x < y /\ y <= z => x < z
    /\ \A x, y, z \in Int : x <= y /\ y < z => x < z
    /\ \A x, y \in Int : ~(x < y /\ y <= x)
    /\ \A x, y \in Int : (x > y <=> y < x) /\ (x >= y <=> y <= x)
OBVIOUS

(***************************************************************************)
(* Facts about histories.                                                  *)
(***************************************************************************)

EntityRows == [Entities -> EntityStates]
MutationTable == [MutationIds -> MutationRows \cup {NoRow}]

\* The row an outcome is recorded in.
LEMMA OutcomeRow ==
    ASSUME NEW r \in Records, NEW n \in Int, NEW v \in {"accepted", "rejected"}
    PROVE  [fp |-> request_fingerprint(r), status |-> v, rev |-> n] \in MutationRows
BY DEF MutationRows, Fingerprints, request_fingerprint, Records

\* The highest revision in a consistent organization is the length of its history.
LEMMA HighestRevision ==
    ASSUME NEW h \in Seq(LogRows), NEW en \in EntityRows, NEW mu \in MutationTable,
           Consistent(h, en, mu)
    PROVE  Max({0} \cup {en[e].rev : e \in Entities}) = Len(h)
<1> DEFINE S == {0} \cup {en[e].rev : e \in Entities}
<1>1. \A e \in Entities : EntityOK(h, en, mu, e)
  BY Zenon DEF Consistent
<1>2. \A e \in Entities : en[e].rev \in Int /\ en[e].rev <= Len(h)
  <2> TAKE e \in Entities
  <2>1. PICK k \in 0..Len(h) :
            en[e] = IF k = 0 THEN Absent ELSE [rev |-> k, val |-> mu[h[k].mid].fp.val]
    BY <1>1, Zenon DEF EntityOK
  <2> QED BY <2>1 DEF Absent, None
<1>3. Len(h) \in S
  <2>1. CASE Len(h) = 0
    BY <2>1, Zenon
  <2>2. CASE Len(h) > 0
    <3> DEFINE e == h[Len(h)].ent
    <3>1. h[Len(h)] \in LogRows
      BY <2>2
    <3>2. e \in Entities
      BY <3>1, Zenon DEF LogRows
    <3>3. PICK k \in 0..Len(h) :
              /\ IsLast(h, e, Len(h) + 1, k)
              /\ en[e] = IF k = 0 THEN Absent ELSE [rev |-> k, val |-> mu[h[k].mid].fp.val]
      BY <1>1, <3>2, Zenon DEF EntityOK
    <3>4. k = Len(h)
      BY <2>2, <3>3 DEF IsLast
    <3>5. en[e].rev = Len(h)
      BY <3>3, <3>4, <2>2
    <3> QED BY <3>2, <3>5, Zenon
  <2> QED BY <2>1, <2>2
<1>4. \A x \in S : x \in Int /\ x <= Len(h)
  BY <1>2
<1>5. \A x \in S : (\A y \in S : x >= y) => x = Len(h)
  BY <1>3, <1>4
<1>6. \E x \in S : \A y \in S : x >= y
  BY <1>3, <1>4, Zenon
<1> HIDE DEF S
<1>7. Max(S) = Len(h)
  BY <1>5, <1>6, Zenon DEF Max
<1> QED BY <1>7, Zenon DEF S

\* An accepted record extends a consistent history by one change.
LEMMA AppendChange ==
    ASSUME NEW h \in Seq(LogRows), NEW en \in EntityRows, NEW mu \in MutationTable,
           Consistent(h, en, mu),
           NEW r \in Records, r.mid \in MutationIds, mu[r.mid] = NoRow,
           r.base = en[r.ent].rev, NEW q \in 1..MaxSeq, NEW h2, NEW en2, NEW mu2,
           h2 = Append(h, [seq |-> q, ent |-> r.ent, rev |-> Len(h) + 1, mid |-> r.mid]),
           en2 = [en EXCEPT ![r.ent] = [rev |-> Len(h) + 1, val |-> r.val]],
           mu2 = [mu EXCEPT ![r.mid] = [fp |-> request_fingerprint(r), status |-> "accepted",
                                        rev |-> Len(h) + 1]]
    PROVE  /\ h2 \in Seq(LogRows) /\ en2 \in EntityRows /\ mu2 \in MutationTable
           /\ Consistent(h2, en2, mu2)
<1> DEFINE L == Len(h) + 1
           row == [seq |-> q, ent |-> r.ent, rev |-> L, mid |-> r.mid]
<1>1. /\ r.ent \in Entities /\ r.val \in Values /\ r.base \in Bases
      /\ request_fingerprint(r) \in Fingerprints
  BY Zenon DEF Records, Fingerprints, request_fingerprint
<1>2. row \in LogRows /\ L \in Nat /\ L > 0
  BY <1>1 DEF LogRows
<1>3. /\ h2 \in Seq(LogRows) /\ Len(h2) = L /\ h2[L] = row /\ DOMAIN h2 = 1..L
      /\ \A n \in 1..Len(h) : h2[n] = h[n]
  BY <1>2
<1>4. en2 \in EntityRows
  BY <1>1, <1>2 DEF EntityRows, EntityStates
<1>5. mu2 \in MutationTable
  BY <1>1, <1>2 DEF MutationTable, MutationRows
<1>6. \A n \in 1..Len(h) : ChangeOK(h, mu, n)
  BY DEF Consistent
<1>7. \A n \in 1..Len(h) : h[n].mid \in MutationIds /\ h[n].mid # r.mid
  <2>1. \A n \in 1..Len(h) : h[n] \in LogRows
    OBVIOUS
  <2> QED BY <2>1, <1>6, Zenon DEF LogRows, ChangeOK
<1>8. mu2[r.mid] = [fp |-> request_fingerprint(r), status |-> "accepted", rev |-> L]
  BY Zenon DEF MutationTable
<1>9. \A m \in MutationIds : m # r.mid => mu2[m] = mu[m]
  BY Zenon DEF MutationTable
<1>10. mu2[r.mid] # NoRow
  <2>1. mu2[r.mid] \in MutationRows
    BY <1>1, <1>2, <1>8 DEF MutationRows
  <2> QED BY <2>1, SyncConstants, Zenon
<1>11. /\ h2[L].rev = L /\ h2[L].mid = r.mid /\ h2[L].ent = r.ent
       /\ mu2[r.mid].status = "accepted" /\ mu2[r.mid].rev = L
       /\ mu2[r.mid].fp.base = r.base /\ mu2[r.mid].fp.val = r.val
  BY <1>3, <1>8 DEF request_fingerprint
<1>12. \A n \in 1..Len(h) : ChangeOK(h2, mu2, n)
  <2> TAKE n \in 1..Len(h)
  <2>1. h2[n] = h[n] /\ mu2[h2[n].mid] = mu[h[n].mid]
    BY <1>3, <1>7, <1>9, Zenon
  <2>2. PICK k \in 0..(n - 1) :
            /\ IsLast(h, h[n].ent, n, k)
            /\ mu[h[n].mid].fp.base = IF k = 0 THEN None ELSE k
    BY <1>6, Zenon DEF ChangeOK
  <2>3. IsLast(h2, h2[n].ent, n, k)
    BY <1>3, <2>1, <2>2 DEF IsLast
  <2> QED BY <1>6, <2>1, <2>2, <2>3, SMTT(30) DEF ChangeOK
<1>13. ChangeOK(h2, mu2, L)
  <2>1. PICK k \in 0..Len(h) :
          /\ IsLast(h, r.ent, L, k)
          /\ en[r.ent] = IF k = 0 THEN Absent ELSE [rev |-> k, val |-> mu[h[k].mid].fp.val]
    BY <1>1, Zenon DEF Consistent, EntityOK
  <2>2. /\ k \in 0..(L - 1)
        /\ IsLast(h2, r.ent, L, k)
        /\ r.base = IF k = 0 THEN None ELSE k
    BY <1>3, <2>1 DEF IsLast, Absent
  <2> HIDE DEF L
  <2> QED BY <2>2, <1>10, <1>11, Zenon DEF ChangeOK
<1>14. \A m \in MutationIds : MutationOK(h2, mu2, m)
  <2> TAKE m \in MutationIds
  <2>1. CASE m = r.mid
    BY <2>1, <1>3, <1>2, <1>11 DEF MutationOK
  <2>2. CASE m # r.mid
    BY <2>2, <1>3, <1>9 DEF Consistent, MutationOK
  <2> QED BY <2>1, <2>2, Zenon
<1>15. \A e \in Entities : EntityOK(h2, en2, mu2, e)
  <2> TAKE e \in Entities
  <2>1. CASE e = r.ent
    <3>1. IsLast(h2, e, L + 1, L)
      BY <2>1, <1>2, <1>11 DEF IsLast
    <3>2. en2[e] = [rev |-> L, val |-> mu2[h2[L].mid].fp.val]
      BY <2>1, <1>1, <1>11, Zenon DEF EntityRows
    <3>3. /\ L \in 0..Len(h2) /\ IsLast(h2, e, Len(h2) + 1, L)
          /\ en2[e] = IF L = 0 THEN Absent ELSE [rev |-> L, val |-> mu2[h2[L].mid].fp.val]
      BY <3>1, <3>2, <1>2, <1>3
    <3> HIDE DEF L
    <3> QED BY <3>3, Zenon DEF EntityOK
  <2>2. CASE e # r.ent
    <3>1. PICK j \in 0..Len(h) :
            /\ IsLast(h, e, L, j)
            /\ en[e] = IF j = 0 THEN Absent ELSE [rev |-> j, val |-> mu[h[j].mid].fp.val]
      BY Zenon DEF Consistent, EntityOK
    <3>2. IsLast(h2, e, L + 1, j)
      BY <2>2, <3>1, <1>3, <1>2, <1>11 DEF IsLast
    <3>3. j # 0 => h2[j] = h[j] /\ mu2[h2[j].mid] = mu[h[j].mid]
      BY <1>3, <1>7, <1>9
    <3>4. en2[e] = en[e]
      BY <2>2, Zenon DEF EntityRows
    <3> QED BY <3>1, <3>2, <3>3, <3>4, <1>2, <1>3, SMTT(30) DEF EntityOK
  <2> QED BY <2>1, <2>2, Zenon
<1>16. \A n \in 1..L : n = L \/ n \in 1..Len(h)
  OBVIOUS
<1>17. \A n \in DOMAIN h2 : ChangeOK(h2, mu2, n)
  BY <1>3, <1>12, <1>13, <1>16, Zenon
<1>18. Consistent(h2, en2, mu2)
  BY <1>14, <1>15, <1>17, Zenon DEF Consistent
<1> QED BY <1>3, <1>4, <1>5, <1>18, Zenon

\* A rejected record spends its id and leaves the history as it is.
LEMMA SpendId ==
    ASSUME NEW h \in Seq(LogRows), NEW en \in EntityRows, NEW mu \in MutationTable,
           Consistent(h, en, mu), NEW m \in MutationIds, mu[m] = NoRow,
           NEW row \in MutationRows, row.status = "rejected"
    PROVE  Consistent(h, en, [mu EXCEPT ![m] = row])
<1> DEFINE mu2 == [mu EXCEPT ![m] = row]
<1>1. \A n \in DOMAIN h : h[n].mid \in MutationIds /\ h[n].mid # m
  <2>1. \A n \in DOMAIN h : h[n] \in LogRows
    OBVIOUS
  <2> QED BY <2>1, Zenon DEF LogRows, Consistent, ChangeOK
<1>2. \A x \in MutationIds : mu2[x] = IF x = m THEN row ELSE mu[x]
  BY Zenon DEF MutationTable
<1> HIDE DEF mu2
<1>3. \A n \in DOMAIN h : mu2[h[n].mid] = mu[h[n].mid]
  BY <1>1, <1>2, Zenon
<1>4. \A n \in DOMAIN h : ChangeOK(h, mu2, n)
  <2> TAKE n \in DOMAIN h
  <2>1. ChangeOK(h, mu, n) /\ mu2[h[n].mid] = mu[h[n].mid]
    BY <1>3, Zenon DEF Consistent
  <2> QED BY <2>1, Zenon DEF ChangeOK
<1>5. \A x \in MutationIds : MutationOK(h, mu2, x)
  BY <1>2, Zenon DEF Consistent, MutationOK
<1>6. \A e \in Entities : EntityOK(h, en, mu2, e)
  <2> TAKE e \in Entities
  <2>1. PICK k \in 0..Len(h) :
            /\ IsLast(h, e, Len(h) + 1, k)
            /\ en[e] = IF k = 0 THEN Absent ELSE [rev |-> k, val |-> mu[h[k].mid].fp.val]
    BY Zenon DEF Consistent, EntityOK
  <2>2. k # 0 => mu2[h[k].mid] = mu[h[k].mid]
    BY <1>3
  <2> QED BY <2>1, <2>2, Zenon DEF EntityOK
<1>7. Consistent(h, en, mu2)
  BY <1>4, <1>5, <1>6, Zenon DEF Consistent
<1> QED BY <1>7, Zenon DEF mu2

(***************************************************************************)
(* Types.                                                                  *)
(***************************************************************************)

\* The idle states of a push and of a pull, and their empty write sets, have their types.
LEMMA IdleTypes ==
    /\ IdlePush \in PushStates /\ IdlePull \in PullStates
    /\ NoWrites \in EntityRows /\ NoMutations \in MutationTable
<1>1. NoWrites \in EntityRows /\ NoMutations \in MutationTable
  BY DEF NoWrites, NoMutations, EntityRows, MutationTable, EntityStates, Absent, Values, None
<1>2. << >> \in Seq(Records) /\ << >> \in Seq(LogRows)
  OBVIOUS
<1>3. IdlePush \in PushStates
  BY <1>1, <1>2, SyncConstants DEF IdlePush, PushStates, EntityRows, MutationTable
<1> QED BY <1>1, <1>3, Zenon DEF IdlePull, PullStates

\* What a push transaction sees has the types of the tables, and the revision it assigns next
\* is the position of the change in the history it sees.
LEMMA WorkTypes ==
    ASSUME TypeOK, HolderInv, NEW s \in Sessions, push[s].pc # "idle"
    PROVE  /\ push[s] \in PushStates /\ push[s].org \in Orgs
           /\ WorkLog(s) \in Seq(LogRows)
           /\ WorkEnt(s) \in EntityRows
           /\ WorkMut(s) \in MutationTable
<1>1. push[s] \in PushStates
  BY Zenon DEF TypeOK
<1>2. push[s].org \in Orgs
  BY Zenon DEF HolderInv
<1>3. /\ push[s].ent \in EntityRows /\ push[s].mut \in MutationTable /\ push[s].rows \in Seq(LogRows)
  BY <1>1, Zenon DEF PushStates, EntityRows, MutationTable
<1>4. /\ log[push[s].org] \in Seq(LogRows) /\ entity[push[s].org] \in EntityRows
      /\ mutation[push[s].org] \in MutationTable
  BY <1>2, Zenon DEF TypeOK, EntityRows, MutationTable
<1>5. WorkLog(s) \in Seq(LogRows)
  BY <1>3, <1>4 DEF WorkLog
<1>6. WorkEnt(s) \in EntityRows
  BY <1>3, <1>4, Zenon DEF WorkEnt, EntityAt, EntityRows
<1>7. WorkMut(s) \in MutationTable
  BY <1>3, <1>4, Zenon DEF WorkMut, MutationAt, MutationTable
<1> QED BY <1>1, <1>2, <1>5, <1>6, <1>7, Zenon

\* _next_revision counts one past the changes the transaction sees: MAX(revision) over the
\* entities and the length of the history agree.
LEMMA NextRevisionIsPosition ==
    ASSUME TypeOK, HolderInv, HistoryInv, NEW s \in Sessions, push[s].pc = "apply"
    PROVE  NextRevision(s) = Len(WorkLog(s)) + 1
<1>1. Consistent(WorkLog(s), WorkEnt(s), WorkMut(s))
  BY Zenon DEF HistoryInv
<1>2. Max({0} \cup {WorkEnt(s)[e].rev : e \in Entities}) = Len(WorkLog(s))
  BY <1>1, WorkTypes, HighestRevision, Zenon
<1>3. {WorkEnt(s)[e].rev : e \in Entities} = {EntityAt(s, e).rev : e \in Entities}
  BY Zenon DEF WorkEnt
<1> QED BY <1>2, <1>3, Zenon DEF NextRevision

\* The record at hand, its id and its entity.
LEMMA TurnTypes ==
    ASSUME TypeOK, HolderInv, NEW s \in Sessions, NEW i \in push[s].pending, push[s].pc # "idle"
    PROVE  /\ push[s].batch[i] \in Records
           /\ push[s].batch[i].ent \in Entities /\ push[s].batch[i].val \in Values
           /\ request_fingerprint(push[s].batch[i]) \in Fingerprints
           /\ push[s].batch[i].mid # NoId => push[s].batch[i].mid \in MutationIds
           /\ \A a \in BOOLEAN :
                /\ Settle(s, i, a) \in PushStates
                /\ Settle(s, i, a).ent = push[s].ent /\ Settle(s, i, a).mut = push[s].mut
                /\ Settle(s, i, a).rows = push[s].rows /\ Settle(s, i, a).pc = push[s].pc
                /\ Settle(s, i, a).org = push[s].org /\ Settle(s, i, a).batch = push[s].batch
                /\ Settle(s, i, a).pending = push[s].pending \ {i}
                /\ Settle(s, i, a).done = push[s].done \cup {<<push[s].batch[i], a>>}
<1>1. push[s] \in PushStates
  BY Zenon DEF TypeOK
<1>2. push[s].batch[i] \in Records
  BY <1>1 DEF PushStates, HolderInv
<1>3. /\ push[s].batch[i].ent \in Entities /\ push[s].batch[i].val \in Values
      /\ push[s].batch[i].mid # NoId => push[s].batch[i].mid \in MutationIds
      /\ request_fingerprint(push[s].batch[i]) \in Fingerprints
  BY <1>2, Zenon DEF Records, Fingerprints, request_fingerprint
<1>4. ASSUME NEW a \in BOOLEAN
      PROVE  /\ Settle(s, i, a) \in PushStates
             /\ Settle(s, i, a).ent = push[s].ent /\ Settle(s, i, a).mut = push[s].mut
             /\ Settle(s, i, a).rows = push[s].rows /\ Settle(s, i, a).pc = push[s].pc
             /\ Settle(s, i, a).org = push[s].org /\ Settle(s, i, a).batch = push[s].batch
             /\ Settle(s, i, a).pending = push[s].pending \ {i}
             /\ Settle(s, i, a).done = push[s].done \cup {<<push[s].batch[i], a>>}
  <2> DEFINE x == <<push[s].batch[i], a>>
  <2>1. x \in Outcomes
    BY <1>2, Zenon DEF Outcomes
  <2>2. Settle(s, i, a) = [push[s] EXCEPT !.pending = push[s].pending \ {i},
                                          !.done = push[s].done \cup {x}]
    BY Zenon DEF Settle
  <2> HIDE DEF x
  <2>3. Settle(s, i, a) \in PushStates
    <3>1. push[s].pending \ {i} \in SUBSET Nat /\ push[s].done \cup {x} \in SUBSET Outcomes
      BY <1>1, <2>1, Zenon DEF PushStates
    <3> QED BY <1>1, <2>2, <3>1, Zenon DEF PushStates
  <2>4. /\ Settle(s, i, a).ent = push[s].ent /\ Settle(s, i, a).mut = push[s].mut
        /\ Settle(s, i, a).rows = push[s].rows /\ Settle(s, i, a).pc = push[s].pc
        /\ Settle(s, i, a).org = push[s].org /\ Settle(s, i, a).batch = push[s].batch
        /\ Settle(s, i, a).pending = push[s].pending \ {i}
        /\ Settle(s, i, a).done = push[s].done \cup {x}
    BY <1>1, <2>2, Zenon DEF PushStates
  <2> QED BY <2>3, <2>4, Zenon DEF x
<1> QED BY <1>2, <1>3, <1>4, Zenon

\* _record_mutation writes one well-typed outcome row and touches nothing else of the transaction.
LEMMA RecordTypes ==
    ASSUME NEW w \in PushStates, NEW r \in Records, r.mid \in MutationIds,
           NEW st \in {"accepted", "rejected"}, NEW rev \in Int
    PROVE  /\ RecordMutation(w, r, st, rev) \in PushStates
           /\ RecordMutation(w, r, st, rev) = [w EXCEPT !.mut = [w.mut EXCEPT ![r.mid] =
                 [fp |-> request_fingerprint(r), status |-> st, rev |-> rev]]]
           /\ [fp |-> request_fingerprint(r), status |-> st, rev |-> rev] \in MutationRows
<1>1. [fp |-> request_fingerprint(r), status |-> st, rev |-> rev] \in MutationRows
  BY Zenon DEF MutationRows, Fingerprints, request_fingerprint, Records
<1>2. RecordMutation(w, r, st, rev) = [w EXCEPT !.mut = [w.mut EXCEPT ![r.mid] =
                 [fp |-> request_fingerprint(r), status |-> st, rev |-> rev]]]
  BY Zenon DEF RecordMutation
<1>3. [w.mut EXCEPT ![r.mid] = [fp |-> request_fingerprint(r), status |-> st, rev |-> rev]]
         \in [MutationIds -> MutationRows \cup {NoRow}]
  BY <1>1, Zenon DEF PushStates
<1>4. RecordMutation(w, r, st, rev) \in PushStates
  BY <1>2, <1>3, Zenon DEF PushStates
<1> QED BY <1>1, <1>2, <1>4, Zenon

\* What a rejected and an accepted record do to the handler's state.
LEMMA RejectEffect ==
    ASSUME TypeOK, HolderInv, NEW s \in Sessions, NEW i \in push[s].pending, RejectRecord(s, i),
           NEW r, r = push[s].batch[i]
    PROVE  /\ push' \in [Sessions -> PushStates]
           /\ \A t \in Sessions : t # s => push'[t] = push[t]
           /\ r \in Records /\ r.mid \in MutationIds /\ r.mid # NoId
           /\ [fp |-> request_fingerprint(r), status |-> "rejected",
               rev |-> EntityAt(s, r.ent).rev] \in MutationRows
           /\ push'[s].mut = [push[s].mut EXCEPT ![r.mid] =
                 [fp |-> request_fingerprint(r), status |-> "rejected",
                  rev |-> EntityAt(s, r.ent).rev]]
           /\ push'[s].ent = push[s].ent /\ push'[s].rows = push[s].rows
           /\ push'[s].pc = "apply" /\ push'[s].org = push[s].org
           /\ push'[s].batch = push[s].batch /\ push'[s].pending = push[s].pending \ {i}
           /\ push'[s].done = push[s].done \cup {<<r, FALSE>>}
<1> DEFINE w == Settle(s, i, FALSE)
           rev == EntityAt(s, r.ent).rev
<1>1. push[s].pc = "apply" /\ r.mid # NoId
  BY Zenon DEF RejectRecord, Fresh, Turn
<1>2. r \in Records /\ r.mid \in MutationIds /\ r.ent \in Entities
  BY <1>1, TurnTypes, Zenon
<1>3. rev \in Int
  <2>1. WorkEnt(s) \in EntityRows
    BY <1>1, WorkTypes, Zenon
  <2> QED BY <2>1, <1>2, Zenon DEF WorkEnt, EntityRows, EntityStates
<1>4. /\ w \in PushStates /\ w.ent = push[s].ent /\ w.mut = push[s].mut
      /\ w.rows = push[s].rows /\ w.pc = push[s].pc /\ w.org = push[s].org
      /\ w.batch = push[s].batch /\ w.pending = push[s].pending \ {i}
      /\ w.done = push[s].done \cup {<<r, FALSE>>}
  BY <1>1, TurnTypes, ZenonT(30)
<1>5. push' = [push EXCEPT ![s] = RecordMutation(w, r, "rejected", rev)]
  BY Zenon DEF RejectRecord
<1> HIDE DEF w, rev
<1> DEFINE x == RecordMutation(w, r, "rejected", rev)
<1>6. /\ x \in PushStates
      /\ x = [w EXCEPT !.mut = [w.mut EXCEPT ![r.mid] =
                 [fp |-> request_fingerprint(r), status |-> "rejected", rev |-> rev]]]
      /\ [fp |-> request_fingerprint(r), status |-> "rejected", rev |-> rev] \in MutationRows
  BY <1>2, <1>3, <1>4, RecordTypes
<1> HIDE DEF x
<1>7. push' \in [Sessions -> PushStates] /\ push'[s] = x
      /\ \A t \in Sessions : t # s => push'[t] = push[t]
  BY <1>5, <1>6, Zenon DEF TypeOK, x
<1>8. /\ x.mut = [w.mut EXCEPT ![r.mid] =
                 [fp |-> request_fingerprint(r), status |-> "rejected", rev |-> rev]]
      /\ x.ent = w.ent /\ x.rows = w.rows /\ x.pc = w.pc /\ x.org = w.org
      /\ x.batch = w.batch /\ x.pending = w.pending /\ x.done = w.done
  BY <1>4, <1>6, Zenon DEF PushStates
<1> QED BY <1>1, <1>2, <1>4, <1>6, <1>7, <1>8, Zenon DEF rev

\* What an acceptance writes: the outcome row, the entity row and the change row carry the same
\* revision, which is the position of the change in the transaction's history.
LEMMA AcceptEffect ==
    ASSUME TypeOK, HolderInv, HistoryInv, NEW s \in Sessions, NEW i \in push[s].pending,
           AcceptRecord(s, i), NEW r, r = push[s].batch[i],
           NEW rev, rev = Len(WorkLog(s)) + 1
    PROVE  /\ push' \in [Sessions -> PushStates]
           /\ \A t \in Sessions : t # s => push'[t] = push[t]
           /\ r \in Records /\ r.mid \in MutationIds /\ r.mid # NoId /\ rev \in Nat /\ rev > 0
           /\ push'[s].mut = [push[s].mut EXCEPT ![r.mid] =
                 [fp |-> request_fingerprint(r), status |-> "accepted", rev |-> rev]]
           /\ push'[s].ent = [push[s].ent EXCEPT ![r.ent] = [rev |-> rev, val |-> r.val]]
           /\ push'[s].rows = Append(push[s].rows,
                 [seq |-> nextSeq, ent |-> r.ent, rev |-> rev, mid |-> r.mid])
           /\ [seq |-> nextSeq, ent |-> r.ent, rev |-> rev, mid |-> r.mid] \in LogRows
           /\ push'[s].pc = "apply" /\ push'[s].org = push[s].org
           /\ push'[s].batch = push[s].batch /\ push'[s].pending = push[s].pending \ {i}
           /\ push'[s].done = Settle(s, i, TRUE).done
<1> DEFINE w == Settle(s, i, TRUE)
           row == [seq |-> nextSeq, ent |-> r.ent, rev |-> rev, mid |-> r.mid]
           st == [rev |-> rev, val |-> r.val]
<1>1. push[s].pc = "apply" /\ r.mid # NoId /\ nextSeq \in 1..MaxSeq
  BY DEF AcceptRecord, Fresh, Turn, TypeOK
<1>2. r \in Records /\ r.mid \in MutationIds /\ r.ent \in Entities /\ r.val \in Values
  BY <1>1, TurnTypes, Zenon
<1>3. rev \in Nat /\ rev > 0 /\ NextRevision(s) = rev
  <2>1. WorkLog(s) \in Seq(LogRows)
    BY <1>1, WorkTypes, Zenon
  <2> QED BY <2>1, <1>1, NextRevisionIsPosition
<1>4. /\ w \in PushStates /\ w.ent = push[s].ent /\ w.mut = push[s].mut
      /\ w.rows = push[s].rows /\ w.pc = push[s].pc /\ w.org = push[s].org
      /\ w.batch = push[s].batch /\ w.pending = push[s].pending \ {i}
  BY <1>1, TurnTypes, Zenon
<1>5. push' = [push EXCEPT ![s] = [RecordMutation(w, r, "accepted", rev) EXCEPT
                  !.ent[r.ent] = st, !.rows = Append(@, row)]]
  BY <1>3, Zenon DEF AcceptRecord
<1>6. row \in LogRows /\ st \in EntityStates
  BY <1>1, <1>2, <1>3 DEF LogRows, EntityStates
<1> HIDE DEF w, row, st
<1> DEFINE x == RecordMutation(w, r, "accepted", rev)
           y == [x EXCEPT !.ent[r.ent] = st, !.rows = Append(@, row)]
<1>7. /\ x \in PushStates
      /\ x = [w EXCEPT !.mut = [w.mut EXCEPT ![r.mid] =
                 [fp |-> request_fingerprint(r), status |-> "accepted", rev |-> rev]]]
  BY <1>2, <1>3, <1>4, RecordTypes, SMTT(30)
<1>8. push' = [push EXCEPT ![s] = y]
  BY <1>5, Zenon
<1> HIDE DEF x
<1>9. /\ x.mut = [w.mut EXCEPT ![r.mid] =
                 [fp |-> request_fingerprint(r), status |-> "accepted", rev |-> rev]]
      /\ x.ent = w.ent /\ x.rows = w.rows /\ x.pc = w.pc /\ x.org = w.org
      /\ x.batch = w.batch /\ x.pending = w.pending /\ x.done = w.done
  BY <1>4, <1>7, Zenon DEF PushStates
<1>10. /\ y.ent = [x.ent EXCEPT ![r.ent] = st] /\ y.rows = Append(x.rows, row)
       /\ y.mut = x.mut /\ y.pc = x.pc /\ y.org = x.org
       /\ y.batch = x.batch /\ y.pending = x.pending /\ y.done = x.done
  BY <1>7, Zenon DEF PushStates
<1>11. y \in PushStates
  <2>1. /\ [x.ent EXCEPT ![r.ent] = st] \in [Entities -> EntityStates]
        /\ Append(x.rows, row) \in Seq(LogRows)
    <3>1. x.ent \in [Entities -> EntityStates] /\ x.rows \in Seq(LogRows)
      BY <1>7, Zenon DEF PushStates
    <3> QED BY <3>1, <1>2, <1>6
  <2> QED BY <2>1, <1>7, ZenonT(30) DEF PushStates
<1> HIDE DEF y
<1>12. push' \in [Sessions -> PushStates] /\ push'[s] = y
       /\ \A t \in Sessions : t # s => push'[t] = push[t]
  BY <1>8, <1>11, Zenon DEF TypeOK
<1>13. push'[s].mut = [push[s].mut EXCEPT ![r.mid] =
          [fp |-> request_fingerprint(r), status |-> "accepted", rev |-> rev]]
  BY <1>4, <1>9, <1>10, <1>12, Zenon
<1>14. push'[s].ent = [push[s].ent EXCEPT ![r.ent] = [rev |-> rev, val |-> r.val]]
  BY <1>4, <1>9, <1>10, <1>12, SMTT(30) DEF st
<1>15. push'[s].rows = Append(push[s].rows, row)
  BY <1>4, <1>9, <1>10, <1>12, Zenon
<1>16. /\ push'[s].pc = "apply" /\ push'[s].org = push[s].org
       /\ push'[s].batch = push[s].batch /\ push'[s].pending = push[s].pending \ {i}
  BY <1>1, <1>4, <1>9, <1>10, <1>12, ZenonT(30)
<1>17. push'[s].done = Settle(s, i, TRUE).done
  BY <1>4, <1>9, <1>10, <1>12, Zenon DEF w
<1> QED BY <1>1, <1>2, <1>3, <1>6, <1>12, <1>13, <1>14, <1>15, <1>16, <1>17, Zenon DEF row

\* An acceptance adds exactly its own outcome to the answers the transaction has collected.
LEMMA AcceptDone ==
    ASSUME TypeOK, HolderInv, HistoryInv, NEW s \in Sessions, NEW i \in push[s].pending,
           AcceptRecord(s, i)
    PROVE  push'[s].done = push[s].done \cup {<<push[s].batch[i], TRUE>>}
<1>1. push[s].pc = "apply"
  BY Zenon DEF AcceptRecord, Fresh, Turn
<1>2. push'[s].done = Settle(s, i, TRUE).done
  BY AcceptEffect, Zenon
<1> QED BY <1>1, <1>2, TurnTypes, Zenon

\* The larger of two numbers is one of them and bounds both.
LEMMA MaxOfTwo ==
    ASSUME NEW a \in Int, NEW b \in Int
    PROVE  /\ Max({a, b}) \in {a, b} /\ Max({a, b}) >= a /\ Max({a, b}) >= b
<1>1. \E x \in {a, b} : \A y \in {a, b} : x >= y
  OBVIOUS
<1> QED BY <1>1, Zenon DEF Max

\* Handing out a cursor moves the organization's highest handed-out cursor to the larger one.
LEMMA LaterBound ==
    ASSUME TypeOK, NEW o \in Orgs, NEW c \in 0..MaxSeq
    PROVE  /\ Later(o, c) \in 0..MaxSeq /\ Later(o, c) \in {handed[o], c}
           /\ Later(o, c) >= handed[o] /\ Later(o, c) >= c
<1>1. handed[o] \in 0..MaxSeq
  BY Zenon DEF TypeOK
<1>2. handed[o] \in Int /\ c \in Int
  BY <1>1, SyncConstants
<1>3. /\ Max({handed[o], c}) \in {handed[o], c}
      /\ Max({handed[o], c}) >= handed[o] /\ Max({handed[o], c}) >= c
  BY <1>2, MaxOfTwo, Zenon
<1> QED BY <1>1, <1>3, Zenon DEF Later

\* The last change of an organization has its highest sequence number.
LEMMA LastSeqBound ==
    ASSUME TypeOK, HistoryInv, NEW o \in Orgs
    PROVE  /\ LastSeq(o) \in 0..MaxSeq
           /\ LastSeq(o) = 0 \/ \E n \in DOMAIN log[o] : LastSeq(o) = log[o][n].seq
           /\ \A n \in DOMAIN log[o] : log[o][n].seq <= LastSeq(o)
<1> DEFINE h == log[o]
           S == {0} \cup {h[n].seq : n \in DOMAIN h}
<1>1. h \in Seq(LogRows) /\ Ordered(h)
  BY Zenon DEF TypeOK, HistoryInv
<1>2. \A n \in DOMAIN h : h[n] \in LogRows
  BY <1>1
<1>3. \A n \in DOMAIN h : h[n].seq \in 1..MaxSeq
  BY <1>2, Zenon DEF LogRows
<1>4. \E x \in S : \A y \in S : x >= y
  <2>1. CASE Len(h) = 0
    <3>1. DOMAIN h = {}
      BY <1>1, <2>1
    <3> QED BY <3>1
  <2>2. CASE Len(h) # 0
    <3>1. Len(h) \in DOMAIN h /\ \A n \in DOMAIN h : n \in Nat /\ (n = Len(h) \/ n < Len(h))
      BY <1>1, <2>2
    <3>2. \A n \in DOMAIN h : h[n].seq <= h[Len(h)].seq
      BY <1>1, <1>3, <3>1 DEF Ordered
    <3>3. h[Len(h)].seq \in S /\ \A y \in S : y \in Int /\ h[Len(h)].seq >= y
      BY <1>3, <3>1, <3>2
    <3> HIDE DEF S
    <3> QED BY <3>3, Zenon
  <2> QED BY <2>1, <2>2, Zenon
<1>5. Max(S) \in S /\ \A y \in S : Max(S) >= y
  BY <1>4, Zenon DEF Max
<1>6. LastSeq(o) = Max(S)
  BY Zenon DEF LastSeq
<1>7. S \subseteq 0..MaxSeq
  BY <1>3, SyncConstants
<1> QED BY <1>5, <1>6, <1>7, Zenon

\* Pulling touches no table and no push handler.
LEMMA PullFrame ==
    ASSUME NEW d \in Devices, PullStep(d)
    PROVE  UNCHANGED <<entity, mutation, log, nextSeq, lock, push, answers>>
BY Zenon DEF PullStep, PullScan, PullPage, PullLost, GrantScope, dbVars

\* Pushing touches no device.
LEMMA PushFrame ==
    ASSUME NEW s \in Sessions, PushStep(s)
    PROVE  UNCHANGED <<pull, scope, cursor, got>>
BY Zenon DEF PushStep, BeginPush, LockOrg, MissingId, PriorMutation, RejectRecord,
       AcceptRecord, CommitPush, RespondPush, RetryPush, FailPush, clientVars

\* Every step of a pull keeps the type invariant.
LEMMA PullTypes ==
    ASSUME TypeOK, HistoryInv, PullInv, NEW d \in Devices, PullStep(d)
    PROVE  TypeOK'
<1>1. UNCHANGED <<entity, mutation, log, nextSeq, lock, push, answers>>
  BY PullFrame, Zenon
<1>2. CASE PullScan(d)
  <2> DEFINE rows == {c \in Range(log[OrgOf[d]]) : c.seq > cursor[d]}
             ch == {c \in rows : Cardinality({x \in rows : x.seq < c.seq}) < ScanLimit}
  <2>1. pull' = [pull EXCEPT ![d] = [pc |-> "page", scope |-> scope[d], changes |-> ch]]
        /\ UNCHANGED <<scope, cursor, got, handed>>
    BY <1>2, Zenon DEF PullScan
  <2>2. log[OrgOf[d]] \in Seq(LogRows) /\ scope[d] \in SUBSET Entities
    BY SyncConstants, Zenon DEF TypeOK
  <2>3. ch \in SUBSET LogRows
    BY <2>2 DEF Range
  <2> HIDE DEF ch
  <2>4. pull' \in [Devices -> PullStates]
    BY <2>1, <2>2, <2>3, Zenon DEF TypeOK, PullStates
  <2> QED BY <1>1, <2>1, <2>4, Zenon DEF TypeOK
<1>3. CASE PullPage(d)
  <2> DEFINE o == OrgOf[d]
             sent == {c.ent : c \in {x \in Consumed(d) : x.ent \in pull[d].scope}}
  <2>1. PICK next \in {cursor[d]} \cup {c.seq : c \in Consumed(d)} :
            /\ cursor' = [cursor EXCEPT ![d] = next]
            /\ handed' = [handed EXCEPT ![o] = Later(o, next)]
    BY <1>3, Zenon DEF PullPage
  <2>2. o \in Orgs /\ pull[d] \in PullStates
    BY SyncConstants, Zenon DEF TypeOK
  <2>3. next \in 0..MaxSeq
    <3>1. Consumed(d) \subseteq LogRows
      BY <2>2, Zenon DEF Consumed, PullStates
    <3>2. \A c \in LogRows : c.seq \in 1..MaxSeq
      BY Zenon DEF LogRows
    <3>3. cursor[d] \in 0..MaxSeq
      BY Zenon DEF TypeOK
    <3> QED BY <2>1, <3>1, <3>2, <3>3
  <2>5. Later(o, next) \in 0..MaxSeq
    BY <2>2, <2>3, LaterBound, Zenon
  <2>6. cursor' \in [Devices -> 0..MaxSeq] /\ handed' \in [Orgs -> 0..MaxSeq]
    BY <2>1, <2>2, <2>3, <2>5, Zenon DEF TypeOK
  <2>7. got' \in [Devices -> [Entities -> Int]]
    <3>1. entity[o] \in [Entities -> EntityStates] /\ got[d] \in [Entities -> Int]
      BY <2>2, Zenon DEF TypeOK
    <3>2. [e \in Entities |-> IF e \in sent THEN entity[o][e].rev ELSE got[d][e]]
              \in [Entities -> Int]
      BY <3>1, Zenon DEF EntityStates
    <3>3. got' = [got EXCEPT ![d] =
                    [e \in Entities |-> IF e \in sent THEN entity[o][e].rev ELSE got[d][e]]]
      BY <1>3, Zenon DEF PullPage
    <3> HIDE DEF sent
    <3> QED BY <3>2, <3>3, Zenon DEF TypeOK
  <2>8. pull' \in [Devices -> PullStates] /\ scope' = scope
    BY <1>3, IdleTypes, Zenon DEF PullPage, TypeOK
  <2> QED BY <1>1, <2>6, <2>7, <2>8, Zenon DEF TypeOK
<1>4. CASE PullLost(d)
  BY <1>1, <1>4, IdleTypes, Zenon DEF PullLost, TypeOK
<1>5. CASE \E e \in Entities : GrantScope(d, e)
  BY <1>1, <1>5 DEF GrantScope, TypeOK
<1> QED BY <1>2, <1>3, <1>4, <1>5, Zenon DEF PullStep

\* What a commit publishes: the working tables become the organization's tables and the
\* session keeps only the answers it is about to send.
LEMMA CommitEffect ==
    ASSUME TypeOK, HolderInv, NEW s \in Sessions, CommitPush(s), NEW o, o = push[s].org
    PROVE  /\ push' \in [Sessions -> PushStates]
           /\ \A t \in Sessions : t # s => push'[t] = push[t]
           /\ push'[s] = [IdlePush EXCEPT !.pc = "read", !.org = o, !.batch = push[s].batch,
                            !.attempt = push[s].attempt, !.done = push[s].done]
           /\ push[s].pc = "apply" /\ o \in Orgs
           /\ log' \in [Orgs -> Seq(LogRows)]
           /\ entity' \in [Orgs -> [Entities -> EntityStates]]
           /\ mutation' \in [Orgs -> [MutationIds -> MutationRows \cup {NoRow}]]
           /\ log'[o] = WorkLog(s) /\ entity'[o] = WorkEnt(s) /\ mutation'[o] = WorkMut(s)
           /\ \A x \in Orgs : x # o => /\ log'[x] = log[x] /\ entity'[x] = entity[x]
                                      /\ mutation'[x] = mutation[x]
           /\ lock' = [lock EXCEPT ![o] = Free]
<1>1. push[s].pc = "apply"
  BY Zenon DEF CommitPush
<1>2. /\ push[s] \in PushStates /\ o \in Orgs /\ WorkLog(s) \in Seq(LogRows)
      /\ WorkEnt(s) \in [Entities -> EntityStates]
      /\ WorkMut(s) \in [MutationIds -> MutationRows \cup {NoRow}]
  BY <1>1, WorkTypes, Zenon DEF EntityRows, MutationTable
<1>3. /\ log' = [log EXCEPT ![o] = WorkLog(s)]
      /\ entity' = [entity EXCEPT ![o] = WorkEnt(s)]
      /\ mutation' = [mutation EXCEPT ![o] = WorkMut(s)]
      /\ lock' = [lock EXCEPT ![o] = Free]
  BY Zenon DEF CommitPush, WorkLog, WorkEnt, WorkMut
<1> DEFINE w == [IdlePush EXCEPT !.pc = "read", !.org = o, !.batch = push[s].batch,
                            !.attempt = push[s].attempt, !.done = push[s].done]
<1>4. w \in PushStates
  BY <1>2, IdleTypes, Zenon DEF PushStates
<1>5. push' = [push EXCEPT ![s] = w]
  BY Zenon DEF CommitPush
<1> HIDE DEF w
<1>6. /\ push' \in [Sessions -> PushStates] /\ push'[s] = w
      /\ \A t \in Sessions : t # s => push'[t] = push[t]
  BY <1>4, <1>5, Zenon DEF TypeOK
<1>7. /\ log' \in [Orgs -> Seq(LogRows)]
      /\ entity' \in [Orgs -> [Entities -> EntityStates]]
      /\ mutation' \in [Orgs -> [MutationIds -> MutationRows \cup {NoRow}]]
  BY <1>2, <1>3, Zenon DEF TypeOK
<1>8. /\ log'[o] = WorkLog(s) /\ entity'[o] = WorkEnt(s) /\ mutation'[o] = WorkMut(s)
      /\ \A x \in Orgs : x # o => /\ log'[x] = log[x] /\ entity'[x] = entity[x]
                                  /\ mutation'[x] = mutation[x]
  BY <1>2, <1>3, Zenon DEF TypeOK
<1> QED BY <1>1, <1>2, <1>3, <1>6, <1>7, <1>8, Zenon DEF w

\* Every step of a push keeps the type invariant.
LEMMA PushTypes ==
    ASSUME TypeOK, HolderInv, HistoryInv, NEW s \in Sessions, PushStep(s)
    PROVE  TypeOK'
<1>1. UNCHANGED <<pull, scope, cursor, got>>
  BY PushFrame, Zenon
<1>2. push[s] \in PushStates
  BY Zenon DEF TypeOK
<1>3. CASE \E o \in Orgs, b \in Batches : BeginPush(s, o, b)
  <2>1. PICK o \in Orgs, b \in Batches : BeginPush(s, o, b)
    BY <1>3, Zenon
  <2>2. b \in Seq(Records) /\ DOMAIN b \in SUBSET Nat /\ 1 \in 0..MaxAttempts
    BY SyncConstants
  <2> DEFINE w == [IdlePush EXCEPT !.pc = "lock", !.org = o, !.batch = b,
                                   !.pending = DOMAIN b, !.attempt = 1]
  <2>3. w \in PushStates
    BY <2>2, IdleTypes, Zenon DEF PushStates
  <2>4. push' = [push EXCEPT ![s] = w]
    BY <2>1, Zenon DEF BeginPush
  <2> HIDE DEF w
  <2>5. push' \in [Sessions -> PushStates]
    BY <2>3, <2>4, Zenon DEF TypeOK
  <2> QED BY <1>1, <2>1, <2>5, Zenon DEF BeginPush, TypeOK, dbVars
<1>4. CASE LockOrg(s)
  <2>1. push' = [push EXCEPT ![s] = [push[s] EXCEPT !.pc = "apply"]]
        /\ lock' = [lock EXCEPT ![push[s].org] = s]
    BY <1>4, Zenon DEF LockOrg
  <2>2. [push[s] EXCEPT !.pc = "apply"] \in PushStates
    BY <1>2, Zenon DEF PushStates
  <2>3. push' \in [Sessions -> PushStates] /\ lock' \in [Orgs -> Sessions \cup {Free}]
    BY <2>1, <2>2, Zenon DEF TypeOK
  <2> QED BY <1>1, <1>4, <2>3, Zenon DEF LockOrg, TypeOK, dbVars
<1>5. CASE \E i \in push[s].pending : MissingId(s, i) \/ PriorMutation(s, i)
  <2>1. PICK i \in push[s].pending : MissingId(s, i) \/ PriorMutation(s, i)
    BY <1>5, Zenon
  <2>2. push[s].pc = "apply" /\ UNCHANGED <<entity, mutation, log, nextSeq, lock, answers, handed>>
    BY <2>1, Zenon DEF MissingId, PriorMutation, Turn, dbVars
  <2>3. \E a \in BOOLEAN : push' = [push EXCEPT ![s] = Settle(s, i, a)]
    BY <2>1, Zenon DEF MissingId, PriorMutation, AcceptedReplay
  <2>4. \A a \in BOOLEAN : Settle(s, i, a) \in PushStates
    BY <2>2, TurnTypes, Zenon
  <2>5. push' \in [Sessions -> PushStates]
    BY <2>3, <2>4, Zenon DEF TypeOK
  <2> QED BY <1>1, <2>2, <2>5, Zenon DEF TypeOK
<1>6. CASE \E i \in push[s].pending : RejectRecord(s, i)
  <2>1. PICK i \in push[s].pending : RejectRecord(s, i)
    BY <1>6, Zenon
  <2>2. push' \in [Sessions -> PushStates]
    BY <2>1, RejectEffect, Zenon
  <2> QED BY <1>1, <2>1, <2>2, Zenon DEF RejectRecord, TypeOK, dbVars
<1>7. CASE \E i \in push[s].pending : AcceptRecord(s, i)
  <2>1. PICK i \in push[s].pending : AcceptRecord(s, i)
    BY <1>7, Zenon
  <2>2. push' \in [Sessions -> PushStates]
    BY <2>1, AcceptEffect, Zenon
  <2>3. nextSeq' \in 1..(MaxSeq + 1) /\ UNCHANGED <<entity, mutation, log, lock, answers, handed>>
    BY <2>1, SyncConstants DEF AcceptRecord, TypeOK, dbVars
  <2> QED BY <1>1, <2>2, <2>3, Zenon DEF TypeOK
<1>8. CASE CommitPush(s)
  <2>1. lock' \in [Orgs -> Sessions \cup {Free}]
    BY <1>8, CommitEffect, Zenon DEF TypeOK
  <2>2. UNCHANGED <<nextSeq, answers, handed>>
    BY <1>8, Zenon DEF CommitPush
  <2> QED BY <1>1, <1>8, <2>1, <2>2, CommitEffect, Zenon DEF TypeOK
<1>9. CASE RespondPush(s)
  <2> DEFINE o == push[s].org
  <2>1. push[s].pc = "read"
    BY <1>9, Zenon DEF RespondPush
  <2>2. o \in Orgs /\ push[s].done \subseteq Outcomes
    BY <2>1, <1>2, Zenon DEF HolderInv, PushStates
  <2>3. handed' \in [Orgs -> 0..MaxSeq]
    <3>1. Later(o, LastSeq(o)) \in 0..MaxSeq
      BY <2>2, LastSeqBound, LaterBound, Zenon
    <3> QED BY <1>9, <2>2, <3>1, Zenon DEF RespondPush, TypeOK
  <2>4. answers' \subseteq (Orgs \X Records \X BOOLEAN)
    BY <1>9, <2>2 DEF RespondPush, TypeOK, Outcomes
  <2>5. push' \in [Sessions -> PushStates] /\ UNCHANGED <<entity, mutation, log, nextSeq, lock>>
    BY <1>9, IdleTypes, Zenon DEF RespondPush, TypeOK, dbVars
  <2> QED BY <1>1, <2>3, <2>4, <2>5, Zenon DEF TypeOK
<1>10. ASSUME RetryPush(s) \/ FailPush(s)
       PROVE  lock' \in [Orgs -> Sessions \cup {Free}]
  BY <1>10, Zenon DEF RetryPush, FailPush, Release, TypeOK
<1>11. CASE RetryPush(s)
  <2> DEFINE w == [IdlePush EXCEPT !.pc = "lock", !.org = push[s].org,
                    !.batch = push[s].batch, !.pending = DOMAIN push[s].batch,
                    !.attempt = push[s].attempt + 1]
  <2>1. /\ push[s].batch \in Seq(Records) /\ DOMAIN push[s].batch \in SUBSET Nat
        /\ push[s].attempt + 1 \in 0..MaxAttempts /\ push[s].org \in Orgs \cup {None}
    <3>1. /\ push[s].batch \in Seq(Records) /\ push[s].attempt \in 0..MaxAttempts
          /\ push[s].org \in Orgs \cup {None}
      BY <1>2, Zenon DEF PushStates
    <3>2. push[s].attempt < MaxAttempts
      BY <1>11, Zenon DEF RetryPush
    <3>3. \A b \in Seq(Records) : DOMAIN b \in SUBSET Nat
      OBVIOUS
    <3>4. \A n \in 0..MaxAttempts : n < MaxAttempts => n + 1 \in 0..MaxAttempts
      BY SyncConstants
    <3> QED
      BY <3>1, <3>2, <3>3, <3>4, Zenon
  <2>2. w \in PushStates
    BY <2>1, IdleTypes, Zenon DEF PushStates
  <2>3. push' = [push EXCEPT ![s] = w]
    BY <1>11, Zenon DEF RetryPush
  <2> HIDE DEF w
  <2>4. push' \in [Sessions -> PushStates]
    BY <2>2, <2>3, Zenon DEF TypeOK
  <2> QED BY <1>1, <1>10, <1>11, <2>4, Zenon DEF RetryPush, TypeOK, dbVars
<1>12. CASE FailPush(s)
  <2>1. push' \in [Sessions -> PushStates]
    BY <1>12, IdleTypes, Zenon DEF FailPush, TypeOK
  <2> QED BY <1>1, <1>10, <1>12, <2>1, Zenon DEF FailPush, TypeOK, dbVars
<1> QED BY <1>3, <1>4, <1>5, <1>6, <1>7, <1>8, <1>9, <1>11, <1>12, Zenon DEF PushStep

(***************************************************************************)
(* The lock.                                                               *)
(***************************************************************************)

\* The handler is between transactions.
Clean(w) == w.ent = NoWrites /\ w.mut = NoMutations /\ w.rows = << >>

\* The handler asks for the lock with nothing done, or is idle, or awaits its answer.
LEMMA CleanEffect ==
    ASSUME TypeOK, HolderInv, NEW s \in Sessions,
           \/ \E o \in Orgs, b \in Batches : BeginPush(s, o, b)
           \/ CommitPush(s) \/ RespondPush(s) \/ RetryPush(s) \/ FailPush(s)
    PROVE  /\ \A t \in Sessions : t # s => push'[t] = push[t]
           /\ Clean(push'[s]) /\ push'[s].pc # "apply"
           /\ push'[s].pc # "idle" => push'[s].org \in Orgs
           /\ push'[s].pending \subseteq DOMAIN push'[s].batch
           /\ push'[s].pc \in {"idle", "lock"} => push'[s].done = {}
<1> USE DEF Clean
<1>1. CASE \E o \in Orgs, b \in Batches : BeginPush(s, o, b)
  <2>1. PICK o \in Orgs, b \in Batches : BeginPush(s, o, b)
    BY <1>1, Zenon
  <2> QED BY <2>1, Zenon DEF BeginPush, IdlePush, TypeOK
<1>2. CASE CommitPush(s)
  <2>1. push[s].pc = "apply" /\ push[s].org \in Orgs
    BY <1>2, Zenon DEF CommitPush, HolderInv
  <2> QED BY <1>2, <2>1, Zenon DEF CommitPush, IdlePush, TypeOK
<1>3. CASE RespondPush(s)
  BY <1>3, Zenon DEF RespondPush, IdlePush, TypeOK
<1>4. CASE RetryPush(s)
  <2>1. push[s].org \in Orgs
    BY <1>4, Zenon DEF RetryPush, HolderInv
  <2> QED BY <1>4, <2>1, Zenon DEF RetryPush, IdlePush, TypeOK
<1>5. CASE FailPush(s)
  BY <1>5, Zenon DEF FailPush, IdlePush, TypeOK
<1> QED BY <1>1, <1>2, <1>3, <1>4, <1>5, Zenon

\* Settling a record without writing: an id that is missing or already spent.
LEMMA SettleEffect ==
    ASSUME TypeOK, HolderInv, NEW s \in Sessions, NEW i \in push[s].pending,
           MissingId(s, i) \/ PriorMutation(s, i)
    PROVE  /\ \A t \in Sessions : t # s => push'[t] = push[t]
           /\ push[s].pc = "apply"
           /\ push'[s].pc = "apply" /\ push'[s].org = push[s].org
           /\ push'[s].batch = push[s].batch /\ push'[s].pending = push[s].pending \ {i}
           /\ push'[s].ent = push[s].ent /\ push'[s].mut = push[s].mut
           /\ push'[s].rows = push[s].rows
           /\ UNCHANGED <<entity, mutation, log, nextSeq, lock, answers, handed>>
<1>1. push[s].pc = "apply" /\ UNCHANGED <<entity, mutation, log, nextSeq, lock, answers, handed>>
  BY Zenon DEF MissingId, PriorMutation, Turn, dbVars
<1>2. PICK a \in BOOLEAN : push' = [push EXCEPT ![s] = Settle(s, i, a)]
  BY Zenon DEF MissingId, PriorMutation, AcceptedReplay
<1>3. push'[s] = Settle(s, i, a) /\ \A t \in Sessions : t # s => push'[t] = push[t]
  BY <1>2, Zenon DEF TypeOK
<1> QED BY <1>1, <1>3, TurnTypes

\* What a commit does, for the proofs that need no types.
LEMMA CommitTables ==
    ASSUME TypeOK, HolderInv, NEW s \in Sessions, CommitPush(s)
    PROVE  /\ push[s].pc = "apply" /\ push[s].org \in Orgs
           /\ log'[push[s].org] = WorkLog(s) /\ entity'[push[s].org] = WorkEnt(s)
           /\ mutation'[push[s].org] = WorkMut(s) /\ lock'[push[s].org] = Free
           /\ \A x \in Orgs : x # push[s].org =>
                /\ log'[x] = log[x] /\ entity'[x] = entity[x]
                /\ mutation'[x] = mutation[x] /\ lock'[x] = lock[x]
<1> DEFINE o == push[s].org
<1>1. push[s].pc = "apply" /\ o \in Orgs
  BY Zenon DEF CommitPush, HolderInv
<1>2. /\ log' = [log EXCEPT ![o] = WorkLog(s)]
      /\ entity' = [entity EXCEPT ![o] = WorkEnt(s)]
      /\ mutation' = [mutation EXCEPT ![o] = WorkMut(s)]
      /\ lock' = [lock EXCEPT ![o] = Free]
  BY Zenon DEF CommitPush, WorkLog, WorkEnt, WorkMut
<1> HIDE DEF o
<1>3. lock'[o] = Free /\ \A x \in Orgs : x # o => lock'[x] = lock[x]
  BY <1>1, <1>2, Zenon DEF TypeOK
<1>4. /\ log'[o] = WorkLog(s) /\ entity'[o] = WorkEnt(s) /\ mutation'[o] = WorkMut(s)
      /\ \A x \in Orgs : x # o => /\ log'[x] = log[x] /\ entity'[x] = entity[x]
                                  /\ mutation'[x] = mutation[x]
  BY <1>1, <1>2, Zenon DEF TypeOK
<1> QED BY <1>1, <1>3, <1>4, Zenon DEF o

\* The part of HolderInv that is about one handler.
HolderOf(s) ==
    /\ push[s].pc # "idle" => push[s].org \in Orgs
    /\ push[s].pending \subseteq DOMAIN push[s].batch
    /\ push[s].pc = "apply" => lock[push[s].org] = s
    /\ push[s].pc # "apply" =>
        push[s].ent = NoWrites /\ push[s].mut = NoMutations /\ push[s].rows = << >>
    /\ push[s].pc = "apply" => \A m \in MutationIds :
        push[s].mut[m] # NoRow => mutation[push[s].org][m] = NoRow

\* A step of s that takes no lock of another handler, and writes to no table another one holds
\* the lock of, has only s to account for.
LEMMA HolderFrame ==
    ASSUME TypeOK, HolderInv, NEW s \in Sessions,
           \A t \in Sessions : t # s => push'[t] = push[t],
           HolderOf(s)',
           \A t \in Sessions : t # s /\ push[t].pc = "apply" =>
               lock'[push[t].org] = t /\ mutation'[push[t].org] = mutation[push[t].org],
           \A o \in Orgs : lock'[o] # Free =>
               \/ lock'[o] = s /\ push'[s].pc = "apply" /\ push'[s].org = o
               \/ lock'[o] = lock[o] /\ lock[o] # s
    PROVE  HolderInv'
<1>1. ASSUME NEW t \in Sessions PROVE HolderOf(t)'
  <2>1. CASE t = s
    BY <2>1, Zenon
  <2>2. CASE t # s
    BY <2>2 DEF HolderOf, HolderInv
  <2> QED BY <2>1, <2>2, Zenon
<1>2. ASSUME NEW o \in Orgs, lock'[o] # Free
      PROVE  push'[lock'[o]].pc = "apply" /\ push'[lock'[o]].org = o
  <2>1. CASE lock'[o] = s /\ push'[s].pc = "apply" /\ push'[s].org = o
    BY <2>1, Zenon
  <2>2. CASE lock'[o] = lock[o] /\ lock[o] # s
    <3>1. lock[o] \in Sessions /\ lock[o] # Free
      BY <1>2, <2>2 DEF TypeOK
    <3> QED BY <2>2, <3>1, SMTT(30) DEF HolderInv
  <2> QED BY <1>2, <2>1, <2>2, Zenon
<1> QED BY <1>1, <1>2, Zenon DEF HolderInv, HolderOf

\* The lock discipline is kept by every step of a push handler.
LEMMA HolderStep ==
    ASSUME TypeOK, HolderInv, HistoryInv, NEW s \in Sessions, PushStep(s)
    PROVE  HolderInv'
<1>0. \A o \in Orgs : lock[o] \in Sessions \cup {Free}
  BY Zenon DEF TypeOK
<1>1. CASE (\E o \in Orgs, b \in Batches : BeginPush(s, o, b)) \/ RespondPush(s)
  <2>1. push[s].pc # "apply" /\ lock' = lock /\ mutation' = mutation
    BY <1>1, Zenon DEF BeginPush, RespondPush, dbVars
  <2>2. /\ \A t \in Sessions : t # s => push'[t] = push[t]
        /\ Clean(push'[s]) /\ push'[s].pc # "apply"
        /\ push'[s].pc # "idle" => push'[s].org \in Orgs
        /\ push'[s].pending \subseteq DOMAIN push'[s].batch
    BY <1>1, CleanEffect, Zenon
  <2>3. HolderOf(s)'
    BY <2>2, Zenon DEF HolderOf, Clean
  <2>4. \A t \in Sessions : t # s /\ push[t].pc = "apply" =>
            lock'[push[t].org] = t /\ mutation'[push[t].org] = mutation[push[t].org]
    BY <2>1, Zenon DEF HolderInv
  <2>5. \A o \in Orgs : lock'[o] # Free => lock'[o] = lock[o] /\ lock[o] # s
    BY <2>1, Zenon DEF HolderInv
  <2> QED BY <2>2, <2>3, <2>4, <2>5, HolderFrame, Zenon
<1>2. CASE LockOrg(s)
  <2>1. /\ push[s].pc = "lock" /\ lock[push[s].org] = Free /\ push[s].org \in Orgs
        /\ lock' = [lock EXCEPT ![push[s].org] = s] /\ mutation' = mutation
        /\ push' = [push EXCEPT ![s] = [push[s] EXCEPT !.pc = "apply"]]
    BY <1>2, Zenon DEF LockOrg, HolderInv, dbVars
  <2>2. push[s] \in PushStates
    BY Zenon DEF TypeOK
  <2>3. /\ \A t \in Sessions : t # s => push'[t] = push[t]
        /\ push'[s].pc = "apply" /\ push'[s].org = push[s].org /\ push'[s].mut = push[s].mut
        /\ push'[s].pending = push[s].pending /\ push'[s].batch = push[s].batch
    BY <2>1, <2>2, Zenon DEF TypeOK, PushStates
  <2>4. \A m \in MutationIds : push[s].mut[m] = NoRow
    BY <2>1 DEF HolderInv, NoMutations
  <2>5. lock'[push[s].org] = s /\ \A o \in Orgs : o # push[s].org => lock'[o] = lock[o]
    BY <2>1, Zenon DEF TypeOK
  <2>6. HolderOf(s)'
    BY <2>1, <2>3, <2>4, <2>5 DEF HolderOf, HolderInv
  <2>7. \A t \in Sessions : t # s /\ push[t].pc = "apply" =>
            lock'[push[t].org] = t /\ mutation'[push[t].org] = mutation[push[t].org]
    BY <2>1, <2>5, SyncConstants DEF HolderInv
  <2>8. \A o \in Orgs : lock'[o] # Free =>
            \/ lock'[o] = s /\ push'[s].pc = "apply" /\ push'[s].org = o
            \/ lock'[o] = lock[o] /\ lock[o] # s
    BY <2>1, <2>3, <2>5 DEF HolderInv
  <2> QED BY <2>3, <2>6, <2>7, <2>8, HolderFrame, Zenon
<1>3. CASE \E i \in push[s].pending : MissingId(s, i) \/ PriorMutation(s, i)
  <2>1. PICK i \in push[s].pending : MissingId(s, i) \/ PriorMutation(s, i)
    BY <1>3, Zenon
  <2>2. /\ \A t \in Sessions : t # s => push'[t] = push[t]
        /\ push[s].pc = "apply" /\ push'[s].pc = "apply" /\ push'[s].org = push[s].org
        /\ push'[s].batch = push[s].batch /\ push'[s].pending = push[s].pending \ {i}
        /\ push'[s].mut = push[s].mut /\ mutation' = mutation /\ lock' = lock
    BY <2>1, SettleEffect, Zenon
  <2>3. HolderOf(s)'
    BY <2>2 DEF HolderOf, HolderInv
  <2>4. \A t \in Sessions : t # s /\ push[t].pc = "apply" =>
            lock'[push[t].org] = t /\ mutation'[push[t].org] = mutation[push[t].org]
    BY <2>2, Zenon DEF HolderInv
  <2>5. \A o \in Orgs : lock'[o] # Free =>
            \/ lock'[o] = s /\ push'[s].pc = "apply" /\ push'[s].org = o
            \/ lock'[o] = lock[o] /\ lock[o] # s
    BY <2>2, Zenon DEF HolderInv
  <2> QED BY <2>2, <2>3, <2>4, <2>5, HolderFrame, Zenon
<1>4. CASE \E i \in push[s].pending : RejectRecord(s, i) \/ AcceptRecord(s, i)
  <2>1. PICK i \in push[s].pending : RejectRecord(s, i) \/ AcceptRecord(s, i)
    BY <1>4, Zenon
  <2> DEFINE r == push[s].batch[i]
  <2>3. /\ push[s].pc = "apply" /\ MutationAt(s, r.mid) = NoRow
        /\ lock' = lock /\ mutation' = mutation
    BY <2>1, Zenon DEF RejectRecord, AcceptRecord, Fresh, Turn, dbVars
  <2>4. /\ \A t \in Sessions : t # s => push'[t] = push[t]
        /\ push'[s].pc = "apply" /\ push'[s].org = push[s].org
        /\ push'[s].pending = push[s].pending \ {i} /\ push'[s].batch = push[s].batch
        /\ \E row : push'[s].mut = [push[s].mut EXCEPT ![r.mid] = row]
    <3>1. CASE RejectRecord(s, i)
      <4> DEFINE row == [fp |-> request_fingerprint(r), status |-> "rejected",
                         rev |-> EntityAt(s, r.ent).rev]
      <4>1. push'[s].mut = [push[s].mut EXCEPT ![r.mid] = row]
        BY <3>1, RejectEffect, Zenon
      <4>2. /\ \A t \in Sessions : t # s => push'[t] = push[t]
            /\ push'[s].pc = "apply" /\ push'[s].org = push[s].org
            /\ push'[s].pending = push[s].pending \ {i} /\ push'[s].batch = push[s].batch
        BY <3>1, RejectEffect, Zenon
      <4> HIDE DEF row, r
      <4> QED BY <4>1, <4>2, Zenon
    <3>2. CASE AcceptRecord(s, i)
      <4> DEFINE row == [fp |-> request_fingerprint(r), status |-> "accepted",
                         rev |-> Len(WorkLog(s)) + 1]
      <4>1. push'[s].mut = [push[s].mut EXCEPT ![r.mid] = row]
        BY <3>2, AcceptEffect, Zenon
      <4>2. /\ \A t \in Sessions : t # s => push'[t] = push[t]
            /\ push'[s].pc = "apply" /\ push'[s].org = push[s].org
            /\ push'[s].pending = push[s].pending \ {i} /\ push'[s].batch = push[s].batch
        BY <3>2, AcceptEffect, Zenon
      <4> HIDE DEF row, r
      <4> QED BY <4>1, <4>2, Zenon
    <3> QED BY <2>1, <3>1, <3>2, Zenon
  <2>5. mutation[push[s].org][r.mid] = NoRow
    BY <2>3, Zenon DEF MutationAt
  <2>6. push[s].mut \in MutationTable
    BY Zenon DEF TypeOK, PushStates, MutationTable
  <2>7. \A m \in MutationIds : m # r.mid => push'[s].mut[m] = push[s].mut[m]
    BY <2>4, <2>6, ZenonT(30) DEF MutationTable
  <2>8. HolderOf(s)'
    BY <2>3, <2>4, <2>5, <2>7, SMTT(30) DEF HolderOf, HolderInv
  <2>9. \A t \in Sessions : t # s /\ push[t].pc = "apply" =>
            lock'[push[t].org] = t /\ mutation'[push[t].org] = mutation[push[t].org]
    BY <2>3, Zenon DEF HolderInv
  <2>10. \A o \in Orgs : lock'[o] # Free =>
            \/ lock'[o] = s /\ push'[s].pc = "apply" /\ push'[s].org = o
            \/ lock'[o] = lock[o] /\ lock[o] # s
    BY <2>3, <2>4 DEF HolderInv
  <2> QED BY <2>4, <2>8, <2>9, <2>10, HolderFrame, Zenon
<1>5. CASE CommitPush(s)
  <2>1. /\ \A t \in Sessions : t # s => push'[t] = push[t]
        /\ Clean(push'[s]) /\ push'[s].pc # "apply"
        /\ push'[s].pc # "idle" => push'[s].org \in Orgs
        /\ push'[s].pending \subseteq DOMAIN push'[s].batch
    BY <1>5, CleanEffect, Zenon
  <2>2. /\ push[s].pc = "apply" /\ push[s].org \in Orgs /\ lock'[push[s].org] = Free
        /\ \A x \in Orgs : x # push[s].org => mutation'[x] = mutation[x] /\ lock'[x] = lock[x]
    BY <1>5, CommitTables, ZenonT(30)
  <2>3. HolderOf(s)'
    BY <2>1, Zenon DEF HolderOf, Clean
  <2>4. \A t \in Sessions : t # s /\ push[t].pc = "apply" =>
            lock'[push[t].org] = t /\ mutation'[push[t].org] = mutation[push[t].org]
    BY <2>2 DEF HolderInv
  <2>5. \A o \in Orgs : lock'[o] # Free => lock'[o] = lock[o] /\ lock[o] # s
    BY <2>2, SyncConstants, Zenon DEF HolderInv
  <2> QED BY <2>1, <2>3, <2>4, <2>5, HolderFrame, Zenon
<1>6. CASE RetryPush(s) \/ FailPush(s)
  <2>1. /\ \A t \in Sessions : t # s => push'[t] = push[t]
        /\ Clean(push'[s]) /\ push'[s].pc # "apply"
        /\ push'[s].pc # "idle" => push'[s].org \in Orgs
        /\ push'[s].pending \subseteq DOMAIN push'[s].batch
    BY <1>6, CleanEffect, Zenon
  <2>2. mutation' = mutation /\ \A o \in Orgs : lock'[o] = IF lock[o] = s THEN Free ELSE lock[o]
    BY <1>6, Zenon DEF RetryPush, FailPush, Release, dbVars
  <2>3. HolderOf(s)'
    BY <2>1, Zenon DEF HolderOf, Clean
  <2>4. \A t \in Sessions : t # s /\ push[t].pc = "apply" =>
            lock'[push[t].org] = t /\ mutation'[push[t].org] = mutation[push[t].org]
    BY <2>2, Zenon DEF HolderInv
  <2>5. \A o \in Orgs : lock'[o] # Free => lock'[o] = lock[o] /\ lock[o] # s
    BY <2>2, Zenon
  <2> QED BY <2>1, <2>3, <2>4, <2>5, HolderFrame, Zenon
<1> QED BY <1>1, <1>2, <1>3, <1>4, <1>5, <1>6, Zenon DEF PushStep

(***************************************************************************)
(* Histories.                                                              *)
(***************************************************************************)

\* A handler that a step leaves alone sees the same organization, as long as its tables stay.
LEMMA WorkSame ==
    ASSUME NEW s \in Sessions, push'[s].org = push[s].org, push'[s].rows = push[s].rows,
           push'[s].ent = push[s].ent, push'[s].mut = push[s].mut,
           log'[push[s].org] = log[push[s].org], entity'[push[s].org] = entity[push[s].org],
           mutation'[push[s].org] = mutation[push[s].org]
    PROVE  /\ WorkLog(s)' = WorkLog(s) /\ WorkEnt(s)' = WorkEnt(s) /\ WorkMut(s)' = WorkMut(s)
           /\ \A m \in MutationIds : MutationAt(s, m)' = MutationAt(s, m)
<1>1. WorkLog(s)' = WorkLog(s)
  BY Zenon DEF WorkLog
<1>2. WorkEnt(s)' = WorkEnt(s)
  BY Zenon DEF WorkEnt, EntityAt
<1>3. \A m \in MutationIds : MutationAt(s, m)' = MutationAt(s, m)
  BY Zenon DEF MutationAt
<1>4. WorkMut(s)' = WorkMut(s)
  BY <1>3, Zenon DEF WorkMut
<1> QED BY <1>1, <1>2, <1>3, <1>4, Zenon

\* Two handlers in a transaction work on different organizations.
LEMMA DistinctOrgs ==
    ASSUME HolderInv, NEW s \in Sessions, NEW t \in Sessions, s # t,
           push[s].pc = "apply", push[t].pc = "apply"
    PROVE  push[s].org # push[t].org
BY DEF HolderInv

\* Nothing a step of s does to the tables disturbs another handler.
LEMMA OthersSame ==
    ASSUME TypeOK, HolderInv, NEW s \in Sessions, PushStep(s),
           NEW t \in Sessions, t # s, push[t].pc = "apply"
    PROVE  /\ push'[t] = push[t]
           /\ log'[push[t].org] = log[push[t].org] /\ entity'[push[t].org] = entity[push[t].org]
           /\ mutation'[push[t].org] = mutation[push[t].org]
<1>1. CASE CommitPush(s)
  <2>1. push[s].pc = "apply" /\ push[t].org \in Orgs
    BY <1>1, Zenon DEF CommitPush, HolderInv
  <2>2. push[t].org # push[s].org
    BY <2>1, DistinctOrgs, Zenon
  <2>3. push'[t] = push[t]
    BY <1>1, CleanEffect, Zenon
  <2> QED BY <1>1, <2>1, <2>2, <2>3, CommitTables, Zenon
<1>2. CASE ~CommitPush(s)
  BY <1>2, Zenon DEF PushStep, BeginPush, LockOrg, MissingId, PriorMutation, RejectRecord,
              AcceptRecord, RespondPush, RetryPush, FailPush, dbVars, TypeOK
<1> QED BY <1>1, <1>2, Zenon

\* A rejection adds an outcome row and leaves the transaction's history as it was.
LEMMA RejectView ==
    ASSUME TypeOK, HolderInv, NEW s \in Sessions, NEW i \in push[s].pending, RejectRecord(s, i),
           HistoryInv
    PROVE  /\ WorkLog(s)' = WorkLog(s)
           /\ Consistent(WorkLog(s), WorkEnt(s), WorkMut(s))'
<1> DEFINE r == push[s].batch[i]
           row == [fp |-> request_fingerprint(r), status |-> "rejected",
                   rev |-> EntityAt(s, r.ent).rev]
<1>1. /\ push[s].pc = "apply" /\ MutationAt(s, r.mid) = NoRow
      /\ UNCHANGED <<entity, mutation, log>>
  BY Zenon DEF RejectRecord, Fresh, Turn, dbVars
<1>2. /\ r \in Records /\ r.mid \in MutationIds /\ row \in MutationRows
      /\ push'[s].mut = [push[s].mut EXCEPT ![r.mid] = row]
      /\ push'[s].ent = push[s].ent /\ push'[s].rows = push[s].rows
      /\ push'[s].org = push[s].org
  BY RejectEffect, Zenon
<1>3. row.status = "rejected"
  BY Zenon
<1> HIDE DEF row
<1>4. /\ WorkLog(s) \in Seq(LogRows) /\ WorkEnt(s) \in EntityRows /\ WorkMut(s) \in MutationTable
      /\ push[s].mut \in MutationTable
      /\ Consistent(WorkLog(s), WorkEnt(s), WorkMut(s))
  BY <1>1, WorkTypes, Zenon DEF HistoryInv, PushStates, MutationTable
<1>5. WorkLog(s)' = WorkLog(s) /\ WorkEnt(s)' = WorkEnt(s)
  BY <1>1, <1>2, Zenon DEF WorkLog, WorkEnt, EntityAt
<1>6. row # NoRow
  BY <1>2, SyncConstants, Zenon
<1>7. WorkMut(s)' = [WorkMut(s) EXCEPT ![r.mid] = row]
  BY <1>1, <1>2, <1>4, <1>6, Zenon DEF WorkMut, MutationAt, MutationTable
<1>8. WorkMut(s)[r.mid] = NoRow
  BY <1>1, <1>2, Zenon DEF WorkMut
<1>9. Consistent(WorkLog(s), WorkEnt(s), [WorkMut(s) EXCEPT ![r.mid] = row])
  BY <1>2, <1>3, <1>4, <1>8, SpendId, Zenon
<1> QED BY <1>5, <1>7, <1>9, Zenon

\* An acceptance extends the transaction's history consistently and in sequence order.
LEMMA AcceptView ==
    ASSUME TypeOK, HolderInv, HistoryInv, NEW s \in Sessions, NEW i \in push[s].pending,
           AcceptRecord(s, i)
    PROVE  /\ Consistent(WorkLog(s), WorkEnt(s), WorkMut(s))'
           /\ Ordered(WorkLog(s))'
<1> DEFINE r == push[s].batch[i]
           rev == Len(WorkLog(s)) + 1
           row == [seq |-> nextSeq, ent |-> r.ent, rev |-> rev, mid |-> r.mid]
           mrow == [fp |-> request_fingerprint(r), status |-> "accepted", rev |-> rev]
           st == [rev |-> rev, val |-> r.val]
<1>1. /\ push[s].pc = "apply" /\ MutationAt(s, r.mid) = NoRow
      /\ r.base = EntityAt(s, r.ent).rev
      /\ UNCHANGED <<entity, mutation, log>> /\ nextSeq \in 1..MaxSeq /\ nextSeq' = nextSeq + 1
  BY DEF AcceptRecord, Fresh, Turn, dbVars, IsStale, TypeOK
<1>2. /\ r \in Records /\ r.mid \in MutationIds /\ rev \in Nat /\ rev > 0
      /\ push'[s].mut = [push[s].mut EXCEPT ![r.mid] = mrow]
      /\ push'[s].ent = [push[s].ent EXCEPT ![r.ent] = st]
      /\ push'[s].rows = Append(push[s].rows, row) /\ row \in LogRows
      /\ push'[s].org = push[s].org
  BY AcceptEffect, ZenonT(30)
<1>3. r.ent \in Entities
  BY <1>2, Zenon DEF Records
<1>4. /\ WorkLog(s) \in Seq(LogRows) /\ WorkEnt(s) \in EntityRows /\ WorkMut(s) \in MutationTable
      /\ Consistent(WorkLog(s), WorkEnt(s), WorkMut(s)) /\ Ordered(WorkLog(s))
      /\ push[s].org \in Orgs
  BY <1>1, WorkTypes, Zenon DEF HistoryInv
<1>5. push[s].ent \in EntityRows /\ push[s].mut \in MutationTable /\ push[s].rows \in Seq(LogRows)
      /\ log[push[s].org] \in Seq(LogRows)
  BY <1>4, Zenon DEF TypeOK, PushStates, EntityRows, MutationTable
<1>6. WorkLog(s)' = Append(WorkLog(s), row)
  <2>1. WorkLog(s)' = log[push[s].org] \o Append(push[s].rows, row)
    BY <1>1, <1>2, Zenon DEF WorkLog
  <2>2. \A a, b \in Seq(LogRows), x \in LogRows : a \o Append(b, x) = Append(a \o b, x)
    OBVIOUS
  <2>3. row \in LogRows
    BY <1>2, Zenon
  <2> HIDE DEF row
  <2> QED BY <1>5, <2>1, <2>2, <2>3, Zenon DEF WorkLog
<1>7. WorkEnt(s)' = [WorkEnt(s) EXCEPT ![r.ent] = st]
  <2>1. st # Absent
    BY <1>2, SMTT(30) DEF Absent, None
  <2> HIDE DEF st
  <2>2. \A e \in Entities : push'[s].ent[e] = IF e = r.ent THEN st ELSE push[s].ent[e]
    BY <1>2, <1>3, <1>5, Zenon DEF EntityRows
  <2>3. \A e \in Entities : EntityAt(s, e)' = IF e = r.ent THEN st ELSE EntityAt(s, e)
    BY <1>1, <1>2, <2>1, <2>2, Zenon DEF EntityAt
  <2> QED BY <1>3, <2>3, ZenonT(30) DEF WorkEnt
<1>8. WorkMut(s)' = [WorkMut(s) EXCEPT ![r.mid] = mrow]
  <2>1. mrow \in MutationRows
    <3>1. \A x \in Records : request_fingerprint(x) \in Fingerprints
      BY DEF Records, Fingerprints, request_fingerprint
    <3>2. rev \in Int /\ request_fingerprint(r) \in Fingerprints
      <4> HIDE DEF r, rev
      <4> QED BY <1>2, <3>1, SMTT(30)
    <3> HIDE DEF r, rev
    <3> QED BY <3>2, Zenon DEF MutationRows
  <2>2. mrow # NoRow
    BY <2>1, SyncConstants, Zenon
  <2> HIDE DEF mrow
  <2> QED BY <1>1, <1>2, <1>5, <2>2, ZenonT(30) DEF WorkMut, MutationAt, MutationTable
<1>9. WorkMut(s)[r.mid] = NoRow /\ r.base = WorkEnt(s)[r.ent].rev
  BY <1>1, <1>2, <1>3, Zenon DEF WorkMut, WorkEnt
<1>10. Consistent(Append(WorkLog(s), row), [WorkEnt(s) EXCEPT ![r.ent] = st],
                  [WorkMut(s) EXCEPT ![r.mid] = mrow])
  BY <1>1, <1>2, <1>4, <1>9, AppendChange, Zenon
<1>11. Ordered(WorkLog(s))'
  <2>1. row.seq = nextSeq
    BY Zenon
  <2> HIDE DEF row
  <2>2. OrderedBelow(WorkLog(s), row.seq)
    BY <1>4, <2>1, Zenon DEF Ordered, OrderedBelow
  <2>3. OrderedBelow(Append(WorkLog(s), row), row.seq + 1)
    BY <1>2, <1>4, <2>2, AppendOrdered, Zenon
  <2>4. OrderedBelow(WorkLog(s)', nextSeq')
    BY <1>1, <1>6, <2>1, <2>3, Zenon
  <2> QED BY <2>4, Zenon DEF Ordered, OrderedBelow
<1> QED BY <1>6, <1>7, <1>8, <1>10, <1>11, Zenon

\* Every push step keeps each committed history, and each history a transaction sees,
\* consistent with its tables and in sequence order.
LEMMA HistoryStep ==
    ASSUME TypeOK, HolderInv, HistoryInv, NEW s \in Sessions, PushStep(s)
    PROVE  HistoryInv'
<1> SUFFICES /\ \A o \in Orgs : (Consistent(log[o], entity[o], mutation[o]) /\ Ordered(log[o]))'
             /\ \A t \in Sessions : push'[t].pc = "apply" =>
                  (Consistent(WorkLog(t), WorkEnt(t), WorkMut(t)) /\ Ordered(WorkLog(t)))'
  BY Zenon DEF HistoryInv
<1>1. nextSeq' >= nextSeq /\ nextSeq \in Nat /\ nextSeq' \in Nat
  <2>1. nextSeq \in Nat
    <3>1. nextSeq \in 1..(MaxSeq + 1) /\ MaxSeq \in Nat
      BY SyncConstants, Zenon DEF TypeOK
    <3> QED BY <3>1
  <2>2. nextSeq' = nextSeq \/ nextSeq' = nextSeq + 1
    BY Zenon DEF PushStep, BeginPush, LockOrg, MissingId, PriorMutation, RejectRecord,
         AcceptRecord, CommitPush, RespondPush, RetryPush, FailPush
  <2> QED BY <2>1, <2>2
<1>2. \A h \in Seq(LogRows) : Ordered(h) =>
          /\ \A a, b \in DOMAIN h : a < b => h[a].seq < h[b].seq
          /\ \A n \in DOMAIN h : h[n].seq < nextSeq'
  <2> SUFFICES ASSUME NEW h \in Seq(LogRows), Ordered(h), NEW n \in DOMAIN h
               PROVE  h[n].seq < nextSeq'
    BY Zenon DEF Ordered
  <2>1. h[n] \in LogRows
    OBVIOUS
  <2>2. h[n].seq \in Int /\ h[n].seq < nextSeq
    BY <2>1 DEF Ordered, LogRows
  <2> QED BY <1>1, <2>2
<1>3. ASSUME NEW t \in Sessions, t # s, push'[t].pc = "apply"
      PROVE  (Consistent(WorkLog(t), WorkEnt(t), WorkMut(t)) /\ Ordered(WorkLog(t)))'
  <2>1. push'[t] = push[t]
    BY <1>3, PushFrame, Zenon DEF PushStep, BeginPush, LockOrg, MissingId, PriorMutation, RejectRecord,
         AcceptRecord, CommitPush, RespondPush, RetryPush, FailPush, TypeOK
  <2>2. push[t].pc = "apply"
    BY <1>3, <2>1, Zenon
  <2>3. /\ log'[push[t].org] = log[push[t].org] /\ entity'[push[t].org] = entity[push[t].org]
        /\ mutation'[push[t].org] = mutation[push[t].org]
    BY <1>3, <2>2, OthersSame, Zenon
  <2>4. WorkLog(t)' = WorkLog(t) /\ WorkEnt(t)' = WorkEnt(t) /\ WorkMut(t)' = WorkMut(t)
    BY <2>1, <2>3, WorkSame, Zenon
  <2>5. WorkLog(t) \in Seq(LogRows) /\ Consistent(WorkLog(t), WorkEnt(t), WorkMut(t))
        /\ Ordered(WorkLog(t))
    BY <2>2, WorkTypes, Zenon DEF HistoryInv
  <2> QED BY <1>2, <2>4, <2>5, Zenon DEF Ordered
<1>4. CASE CommitPush(s)
  <2>1. /\ push[s].pc = "apply" /\ push[s].org \in Orgs
        /\ log'[push[s].org] = WorkLog(s) /\ entity'[push[s].org] = WorkEnt(s)
        /\ mutation'[push[s].org] = WorkMut(s)
        /\ \A x \in Orgs : x # push[s].org => /\ log'[x] = log[x] /\ entity'[x] = entity[x]
                                              /\ mutation'[x] = mutation[x]
    BY <1>4, CommitTables, Zenon
  <2>2. WorkLog(s) \in Seq(LogRows) /\ Ordered(WorkLog(s))
        /\ Consistent(WorkLog(s), WorkEnt(s), WorkMut(s))
    BY <2>1, WorkTypes, Zenon DEF HistoryInv
  <2>3. \A o \in Orgs : (Consistent(log[o], entity[o], mutation[o]) /\ Ordered(log[o]))'
    <3> TAKE o \in Orgs
    <3>1. CASE o = push[s].org
      BY <3>1, <2>1, <2>2, <1>2, Zenon DEF Ordered
    <3>2. CASE o # push[s].org
      <4>1. log[o] \in Seq(LogRows) /\ Ordered(log[o]) /\ Consistent(log[o], entity[o], mutation[o])
        BY Zenon DEF TypeOK, HistoryInv
      <4> QED BY <3>2, <4>1, <2>1, <1>2, Zenon DEF Ordered
    <3> QED BY <3>1, <3>2, Zenon
  <2>4. push'[s].pc # "apply"
    BY <1>4, CleanEffect, Zenon
  <2> QED BY <1>3, <2>3, <2>4, Zenon
<1>5. CASE ~CommitPush(s)
  <2>1. UNCHANGED <<entity, mutation, log>>
    BY <1>5, Zenon DEF PushStep, BeginPush, LockOrg, MissingId, PriorMutation, RejectRecord,
                AcceptRecord, RespondPush, RetryPush, FailPush, dbVars
  <2>2. \A o \in Orgs : (Consistent(log[o], entity[o], mutation[o]) /\ Ordered(log[o]))'
    <3> TAKE o \in Orgs
    <3>1. log[o] \in Seq(LogRows) /\ Ordered(log[o]) /\ Consistent(log[o], entity[o], mutation[o])
      BY Zenon DEF TypeOK, HistoryInv
    <3> QED BY <3>1, <2>1, <1>2, Zenon DEF Ordered
  <2>3. ASSUME push'[s].pc = "apply"
        PROVE  (Consistent(WorkLog(s), WorkEnt(s), WorkMut(s)) /\ Ordered(WorkLog(s)))'
    <3>1. CASE LockOrg(s)
      <4>1. /\ push[s].pc = "lock" /\ push[s].org \in Orgs /\ push'[s].org = push[s].org
            /\ push'[s].ent = NoWrites /\ push'[s].mut = NoMutations /\ push'[s].rows = << >>
        BY <3>1 DEF LockOrg, HolderInv, TypeOK, PushStates
      <4>2. TypeOK'
        BY PushTypes, Zenon
      <4>3. /\ WorkLog(s)' = log[push[s].org] /\ WorkEnt(s)' = entity[push[s].org]
            /\ WorkMut(s)' = mutation[push[s].org]
        <5> DEFINE o == push[s].org
      <5>1. /\ log[o] \in Seq(LogRows) /\ entity[o] \in EntityRows
              /\ mutation[o] \in MutationTable
          BY <4>1, Zenon DEF TypeOK, EntityRows, MutationTable
      <5>2. WorkLog(s)' = log[o] \o << >>
          BY <4>1, <2>1, Zenon DEF WorkLog
      <5>3. WorkEnt(s)' = [e \in Entities |-> entity[o][e]]
          BY <4>1, <2>1, Zenon DEF WorkEnt, EntityAt, NoWrites
      <5>4. WorkMut(s)' = [m \in MutationIds |-> mutation[o][m]]
          BY <4>1, <2>1, Zenon DEF WorkMut, MutationAt, NoMutations
      <5> QED BY <5>1, <5>2, <5>3, <5>4, <4>1, <2>1, SMTT(30) DEF EntityRows, MutationTable
      <4> QED BY <4>1, <4>3, <2>1, <2>2, Zenon
    <3>2. CASE \E i \in push[s].pending : MissingId(s, i) \/ PriorMutation(s, i)
      <4>1. /\ push[s].pc = "apply" /\ push'[s].org = push[s].org /\ push'[s].rows = push[s].rows
            /\ push'[s].ent = push[s].ent /\ push'[s].mut = push[s].mut
        BY <3>2, SettleEffect, Zenon
      <4>2. WorkLog(s)' = WorkLog(s) /\ WorkEnt(s)' = WorkEnt(s) /\ WorkMut(s)' = WorkMut(s)
        BY <4>1, <2>1, WorkSame, Zenon
      <4>3. WorkLog(s) \in Seq(LogRows) /\ Ordered(WorkLog(s))
            /\ Consistent(WorkLog(s), WorkEnt(s), WorkMut(s))
        BY <4>1, WorkTypes, Zenon DEF HistoryInv
      <4> QED BY <4>2, <4>3, <1>2, Zenon DEF Ordered
    <3>3. CASE \E i \in push[s].pending : RejectRecord(s, i)
      <4>1. PICK i \in push[s].pending : RejectRecord(s, i)
        BY <3>3, Zenon
      <4>2. WorkLog(s) \in Seq(LogRows) /\ Ordered(WorkLog(s))
        BY <4>1, WorkTypes, Zenon DEF HistoryInv, RejectRecord, Fresh, Turn
      <4> QED BY <4>1, <4>2, <1>2, RejectView, Zenon DEF Ordered
    <3>4. CASE \E i \in push[s].pending : AcceptRecord(s, i)
      BY <3>4, AcceptView, Zenon
    <3>5. CASE \/ \E o \in Orgs, b \in Batches : BeginPush(s, o, b)
               \/ RespondPush(s) \/ RetryPush(s) \/ FailPush(s)
      BY <2>3, <3>5, CleanEffect, Zenon
    <3> QED BY <1>5, <3>1, <3>2, <3>3, <3>4, <3>5, Zenon DEF PushStep
  <2> QED BY <1>3, <2>2, <2>3, Zenon
<1> QED BY <1>4, <1>5, Zenon

(***************************************************************************)
(* Cursors.                                                                *)
(***************************************************************************)

\* Committed mutation rows never change.
LEMMA MutationsStay ==
    ASSUME TypeOK, HolderInv, NEW s \in Sessions, PushStep(s), NEW o \in Orgs,
           NEW m \in MutationIds, mutation[o][m] # NoRow
    PROVE  mutation'[o][m] = mutation[o][m]
<1>1. CASE CommitPush(s)
  <2>1. /\ push[s].pc = "apply" /\ mutation'[push[s].org] = WorkMut(s)
        /\ \A x \in Orgs : x # push[s].org => mutation'[x] = mutation[x]
    BY <1>1, CommitTables, Zenon
  <2>2. CASE o = push[s].org
    <3>1. push[s].mut[m] = NoRow
      BY <2>1, <2>2, Zenon DEF HolderInv
    <3> QED BY <2>1, <2>2, <3>1, Zenon DEF WorkMut, MutationAt
  <2> QED BY <2>1, <2>2, Zenon
<1>2. CASE ~CommitPush(s)
  BY <1>2, Zenon DEF PushStep, BeginPush, LockOrg, MissingId, PriorMutation, RejectRecord,
              AcceptRecord, RespondPush, RetryPush, FailPush, dbVars
<1> QED BY <1>1, <1>2, Zenon

\* A transaction's changes come after every committed one.
LEMMA RowsAhead ==
    ASSUME TypeOK, HolderInv, HistoryInv, NEW s \in Sessions, push[s].pc = "apply",
           NEW n \in DOMAIN push[s].rows, NEW k \in DOMAIN log[push[s].org]
    PROVE  log[push[s].org][k].seq < push[s].rows[n].seq
<1> DEFINE a == log[push[s].org]
           b == push[s].rows
<1>1. a \in Seq(LogRows) /\ b \in Seq(LogRows) /\ Ordered(a \o b)
  BY Zenon DEF TypeOK, PushStates, HolderInv, HistoryInv, WorkLog
<1> HIDE DEF a, b
<1>2. k \in DOMAIN a /\ n \in DOMAIN b
  BY Zenon DEF a, b
<1>3. /\ (a \o b)[k] = a[k] /\ (a \o b)[Len(a) + n] = b[n]
      /\ k \in DOMAIN (a \o b) /\ Len(a) + n \in DOMAIN (a \o b) /\ k < Len(a) + n
  BY <1>1, <1>2, Concatenation, FirstPart, Zenon
<1>4. (a \o b)[k].seq < (a \o b)[Len(a) + n].seq
  BY <1>1, <1>3, Zenon DEF Ordered
<1> QED BY <1>3, <1>4, Zenon DEF a, b

\* The rows of the history after a commit: the old ones, then the transaction's.
LEMMA CommittedRows ==
    ASSUME TypeOK, HolderInv, NEW s \in Sessions, CommitPush(s), NEW n \in DOMAIN WorkLog(s)
    PROVE  /\ log[push[s].org] \in Seq(LogRows) /\ WorkLog(s) \in Seq(LogRows)
           /\ \/ n \in DOMAIN log[push[s].org] /\ WorkLog(s)[n] = log[push[s].org][n]
              \/ /\ n > Len(log[push[s].org])
                 /\ \E k \in DOMAIN push[s].rows : WorkLog(s)[n] = push[s].rows[k]
<1> DEFINE a == log[push[s].org]
           b == push[s].rows
<1>1. a \in Seq(LogRows) /\ b \in Seq(LogRows)
  BY Zenon DEF TypeOK, PushStates, HolderInv, CommitPush
<1>2. WorkLog(s) = a \o b
  BY Zenon DEF WorkLog
<1> HIDE DEF a, b
<1>3. a \o b \in Seq(LogRows)
  BY <1>1, Concatenation, Zenon
<1>4. \/ n \in DOMAIN a /\ (a \o b)[n] = a[n]
      \/ n > Len(a) /\ \E k \in DOMAIN b : (a \o b)[n] = b[k]
  <2>1. n \in DOMAIN (a \o b)
    BY <1>2, Zenon
  <2> QED BY <1>1, <2>1, EitherPart, Zenon
<1> QED BY <1>1, <1>2, <1>3, <1>4, Zenon DEF a, b

\* The highest cursor handed out stays below everything uncommitted when a handler steps.
LEMMA HandedStep ==
    ASSUME TypeOK, HolderInv, HistoryInv, HandedInv, NEW s \in Sessions, PushStep(s)
    PROVE  HandedInv'
<1>1. cursor' = cursor
  BY PushFrame, Zenon
<1>2. nextSeq \in Nat /\ (\A o \in Orgs : handed[o] \in Nat) /\ (\A d \in Devices : OrgOf[d] \in Orgs)
  BY SyncConstants DEF TypeOK
<1>3. CASE RespondPush(s)
  <2> DEFINE o == push[s].org
  <2>1. /\ push[s].pc = "read" /\ o \in Orgs /\ nextSeq' = nextSeq
        /\ handed' = [handed EXCEPT ![o] = Later(o, LastSeq(o))]
    BY <1>3, Zenon DEF RespondPush, HolderInv
  <2>2. /\ \A t \in Sessions : t # s => push'[t] = push[t]
        /\ push'[s].pc # "apply"
    BY <1>3, CleanEffect, Zenon
  <2> HIDE DEF o
  <2>3. /\ LastSeq(o) \in 0..MaxSeq
        /\ LastSeq(o) = 0 \/ \E n \in DOMAIN log[o] : LastSeq(o) = log[o][n].seq
    BY <2>1, LastSeqBound, Zenon
  <2>4. /\ Later(o, LastSeq(o)) \in {handed[o], LastSeq(o)}
        /\ Later(o, LastSeq(o)) >= handed[o]
    BY <2>1, <2>3, LaterBound, Zenon
  <2>5. handed'[o] = Later(o, LastSeq(o)) /\ \A x \in Orgs : x # o => handed'[x] = handed[x]
    BY <2>1, Zenon DEF TypeOK
  <2>6. LastSeq(o) < nextSeq
    <3>1. nextSeq > 0
      BY DEF TypeOK
    <3> QED BY <2>1, <2>3, <3>1, Zenon DEF HistoryInv, Ordered
  <2>7. \A x \in Orgs : handed'[x] < nextSeq'
    BY <2>1, <2>4, <2>5, <2>6, Zenon DEF HandedInv
  <2>8. \A d \in Devices : cursor'[d] <= handed'[OrgOf[d]]
    <3> SUFFICES ASSUME NEW d \in Devices PROVE cursor[d] <= handed'[OrgOf[d]]
      BY <1>1, Zenon
    <3>1. cursor[d] <= handed[OrgOf[d]] /\ cursor[d] \in 0..MaxSeq /\ OrgOf[d] \in Orgs
      BY <1>2, Zenon DEF HandedInv, TypeOK
    <3>2. \A x \in 0..MaxSeq : x \in Int
      OBVIOUS
    <3>3. handed[OrgOf[d]] \in 0..MaxSeq
      BY <3>1, Zenon DEF TypeOK
    <3>4. CASE OrgOf[d] = o
      <4>1. PICK l : l = Later(o, LastSeq(o))
        BY Zenon
      <4>2. cursor[d] \in Int /\ handed[o] \in Int /\ l \in Int /\ cursor[d] <= handed[o]
        BY <2>3, <2>4, <3>1, <3>2, <3>3, <3>4, <4>1, Zenon
      <4>3. handed[o] <= l
        BY <2>4, <4>1, <4>2, Order, Zenon
      <4>4. cursor[d] <= l
        BY <4>2, <4>3, Order, Zenon
      <4> QED BY <2>5, <3>4, <4>1, <4>4, Zenon
    <3>5. CASE OrgOf[d] # o
      BY <2>5, <3>1, <3>5, Zenon
    <3> QED BY <3>4, <3>5, Zenon
  <2>9. ASSUME NEW t \in Sessions, push'[t].pc = "apply", NEW n \in DOMAIN push'[t].rows
        PROVE  push'[t].rows[n].seq > handed'[push'[t].org]
    <3>1. push'[t] = push[t] /\ push[t].pc = "apply" /\ push[t].org \in Orgs
      BY <2>2, <2>9, Zenon DEF HolderInv
    <3>2. push[t].rows[n].seq > handed[push[t].org]
      BY <2>9, <3>1, Zenon DEF HandedInv
    <3>3. CASE push[t].org = o
      <4>1. push[t].rows[n].seq > 0
        <5>1. push[t].rows \in Seq(LogRows)
          BY Zenon DEF TypeOK, PushStates
        <5>2. push[t].rows[n] \in LogRows
          BY <5>1, <2>9, <3>1, Rows, Zenon
        <5>3. \A x \in LogRows : x.seq > 0
          BY DEF LogRows
        <5> QED BY <5>2, <5>3, Zenon
      <4>2. \A k \in DOMAIN log[o] : log[o][k].seq < push[t].rows[n].seq
        BY <2>9, <3>1, <3>3, RowsAhead, Zenon
      <4>3. push[t].rows[n].seq > LastSeq(o)
        BY <2>3, <4>1, <4>2, Zenon
      <4> QED BY <2>4, <2>5, <3>1, <3>2, <3>3, <4>3, Zenon
    <3>4. CASE push[t].org # o
      BY <2>5, <3>1, <3>2, <3>4, Zenon
    <3> QED BY <3>3, <3>4, Zenon
  <2> QED BY <2>7, <2>8, <2>9, Zenon DEF HandedInv
<1>4. CASE ~RespondPush(s)
  <2>1. handed' = handed /\ (nextSeq' = nextSeq \/ nextSeq' = nextSeq + 1)
    BY <1>4, Zenon DEF PushStep, BeginPush, LockOrg, MissingId, PriorMutation, RejectRecord,
                AcceptRecord, CommitPush, RetryPush, FailPush
  <2>2. ASSUME NEW t \in Sessions, push'[t].pc = "apply", NEW n \in DOMAIN push'[t].rows
        PROVE  push'[t].rows[n].seq > handed'[push'[t].org]
    <3>1. CASE push[t].pc = "apply" /\ push'[t].rows = push[t].rows /\ push'[t].org = push[t].org
      BY <2>1, <2>2, <3>1, Zenon DEF HandedInv
    <3>2. CASE t = s /\ \E i \in push[s].pending : AcceptRecord(s, i)
      <4>1. PICK i \in push[s].pending : AcceptRecord(s, i)
        BY <3>2, Zenon
      <4> DEFINE r == push[s].batch[i]
                 rev == Len(WorkLog(s)) + 1
                 row == [seq |-> nextSeq, ent |-> r.ent, rev |-> rev, mid |-> r.mid]
      <4>2. push'[s].rows = Append(push[s].rows, row) /\ row \in LogRows
            /\ push'[s].org = push[s].org
        BY <4>1, AcceptEffect, Zenon
      <4>3. row.seq = nextSeq
        BY Zenon
      <4> HIDE DEF row
      <4>4. /\ push[s].pc = "apply" /\ push[s].org \in Orgs /\ push[s].rows \in Seq(LogRows)
            /\ nextSeq > handed[push[s].org]
        BY <1>2, <4>1, ZenonT(30) DEF AcceptRecord, Fresh, Turn, HolderInv, TypeOK, PushStates, HandedInv
      <4>5. \/ push'[s].rows[n] = row
            \/ n \in DOMAIN push[s].rows /\ push'[s].rows[n] = push[s].rows[n]
        BY <2>2, <3>2, <4>2, <4>4
      <4> QED BY <2>1, <3>2, <4>2, <4>3, <4>4, <4>5, Zenon DEF HandedInv
    <3>3. CASE t # s
      <4>1. push'[t] = push[t]
        BY <3>3, Zenon DEF PushStep, BeginPush, LockOrg, MissingId, PriorMutation, RejectRecord,
             AcceptRecord, CommitPush, RespondPush, RetryPush, FailPush, TypeOK
      <4> QED BY <2>2, <3>1, <4>1, Zenon
    <3>4. CASE t = s /\ LockOrg(s)
      <4>1. push'[s].rows = << >>
        BY <3>4 DEF LockOrg, HolderInv, TypeOK, PushStates
      <4> QED BY <2>2, <3>4, <4>1
    <3>5. CASE t = s /\ \E i \in push[s].pending : MissingId(s, i) \/ PriorMutation(s, i)
      BY <3>1, <3>5, SettleEffect, Zenon
    <3>6. CASE t = s /\ \E i \in push[s].pending : RejectRecord(s, i)
      <4>1. PICK i \in push[s].pending : RejectRecord(s, i)
        BY <3>6, Zenon
      <4>2. push'[s].rows = push[s].rows /\ push'[s].org = push[s].org
        BY <4>1, RejectEffect, Zenon
      <4> QED BY <3>1, <3>6, <4>1, <4>2, Zenon DEF RejectRecord, Fresh, Turn
    <3>7. CASE t = s /\ (\/ \E o \in Orgs, b \in Batches : BeginPush(s, o, b)
                         \/ CommitPush(s) \/ RetryPush(s) \/ FailPush(s))
      BY <2>2, <3>7, CleanEffect, Zenon
    <3> QED BY <1>4, <3>2, <3>3, <3>4, <3>5, <3>6, <3>7, Zenon DEF PushStep
  <2>3. \A x \in Orgs : handed'[x] < nextSeq'
    BY <1>2, <2>1 DEF HandedInv
  <2>4. \A d \in Devices : cursor'[d] <= handed'[OrgOf[d]]
    BY <1>1, <2>1, Zenon DEF HandedInv
  <2> QED BY <2>2, <2>3, <2>4, Zenon DEF HandedInv
<1> QED BY <1>3, <1>4, Zenon

\* An entity is never behind a committed change to it.
LEMMA EntityAtLeast ==
    ASSUME NEW h \in Seq(LogRows), NEW en, NEW mu, NEW e \in Entities, Consistent(h, en, mu)
    PROVE  \A n \in DOMAIN h : h[n].ent = e => h[n].rev = n /\ en[e].rev \in Nat /\ n <= en[e].rev
<1> SUFFICES ASSUME NEW n \in DOMAIN h, h[n].ent = e
             PROVE  h[n].rev = n /\ en[e].rev \in Nat /\ n <= en[e].rev
  BY Zenon
<1>1. h[n].rev = n
  BY Zenon DEF Consistent, ChangeOK
<1>2. PICK k \in 0..Len(h) :
        /\ IsLast(h, e, Len(h) + 1, k)
        /\ en[e] = IF k = 0 THEN Absent ELSE [rev |-> k, val |-> mu[h[k].mid].fp.val]
  BY Zenon DEF Consistent, EntityOK
<1>3. n \in 1..Len(h) /\ Len(h) \in Nat
  OBVIOUS
<1>4. n <= k
  BY <1>2, <1>3 DEF IsLast
<1>5. k # 0 /\ k \in Nat
  BY <1>3, <1>4
<1>6. en[e].rev = k
  BY <1>2, <1>5
<1> QED BY <1>1, <1>4, <1>5, <1>6, Zenon

\* What a longer history makes of an entity is not older.
LEMMA EntityGrows ==
    ASSUME NEW h \in Seq(LogRows), NEW h2 \in Seq(LogRows), NEW en, NEW mu, NEW en2, NEW mu2,
           Consistent(h, en, mu), Consistent(h2, en2, mu2),
           DOMAIN h \subseteq DOMAIN h2, \A n \in DOMAIN h : h2[n] = h[n], NEW e \in Entities
    PROVE  en[e].rev \in Int /\ en2[e].rev \in Int /\ en[e].rev <= en2[e].rev
<1>1. PICK k \in 0..Len(h) :
        /\ IsLast(h, e, Len(h) + 1, k)
        /\ en[e] = IF k = 0 THEN Absent ELSE [rev |-> k, val |-> mu[h[k].mid].fp.val]
  BY Zenon DEF Consistent, EntityOK
<1>2. PICK j \in 0..Len(h2) :
        en2[e] = IF j = 0 THEN Absent ELSE [rev |-> j, val |-> mu2[h2[j].mid].fp.val]
  BY Zenon DEF Consistent, EntityOK
<1>3. en2[e].rev \in Int /\ en2[e].rev >= None
  <2>1. CASE j = 0
    BY <1>2, <2>1 DEF Absent, None
  <2>2. CASE j # 0
    <3>1. en2[e].rev = j
      BY <1>2, <2>2
    <3> QED BY <2>2, <3>1 DEF None
  <2> QED BY <2>1, <2>2, Zenon
<1>4. CASE k = 0
  <2>1. en[e].rev = None
    BY <1>1, <1>4, SMTT(30) DEF Absent
  <2> QED BY <1>3, <2>1 DEF None
<1>5. CASE k # 0
  <2>1. k \in DOMAIN h /\ h[k].ent = e /\ k \in Nat
    <3>1. k \in DOMAIN h /\ k \in Nat
      BY <1>1, <1>5
    <3> QED BY <1>1, <1>5, <3>1, Zenon DEF IsLast
  <2>2. en[e].rev = k
    BY <1>1, <1>5, SMTT(30)
  <2>3. k \in DOMAIN h2 /\ h2[k].ent = e
    BY <2>1, Zenon
  <2>4. en2[e].rev \in Nat /\ k <= en2[e].rev
    BY <2>3, EntityAtLeast, Zenon
  <2> QED BY <2>1, <2>2, <2>4
<1> QED BY <1>4, <1>5, Zenon

\* A commit does not disturb a pull in progress, nor what the devices were told: its changes
\* come after every cursor and every scan.
LEMMA PullUndisturbed ==
    ASSUME TypeOK, HolderInv, HistoryInv, HandedInv, PullInv, NothingSkipped,
           NEW s \in Sessions, PushStep(s)
    PROVE  PullInv' /\ NothingSkipped'
<1>1. UNCHANGED <<pull, scope, cursor, got>>
  BY PushFrame, Zenon
<1>2. CASE ~CommitPush(s)
  <2>1. UNCHANGED <<entity, log>>
    BY <1>2, Zenon DEF PushStep, BeginPush, LockOrg, MissingId, PriorMutation, RejectRecord,
                AcceptRecord, RespondPush, RetryPush, FailPush, dbVars
  <2> QED BY <1>1, <2>1, Zenon DEF PullInv, NothingSkipped
<1>3. CASE CommitPush(s)
  <2> DEFINE o == push[s].org
  <2>1. /\ push[s].pc = "apply" /\ o \in Orgs
        /\ log'[o] = WorkLog(s) /\ entity'[o] = WorkEnt(s)
        /\ \A x \in Orgs : x # o => log'[x] = log[x] /\ entity'[x] = entity[x]
    BY <1>3, CommitTables, Zenon
  <2>2. /\ log[o] \in Seq(LogRows) /\ push[s].rows \in Seq(LogRows)
        /\ Consistent(log[o], entity[o], mutation[o])
        /\ Consistent(WorkLog(s), WorkEnt(s), WorkMut(s))
        /\ WorkLog(s) = log[o] \o push[s].rows
    BY <2>1, Zenon DEF TypeOK, PushStates, HistoryInv, WorkLog
  <2>3. /\ WorkLog(s) \in Seq(LogRows) /\ DOMAIN log[o] \subseteq DOMAIN WorkLog(s)
        /\ \A n \in DOMAIN log[o] : WorkLog(s)[n] = log[o][n]
    <3> DEFINE a == log[o]
               b == push[s].rows
    <3>1. a \in Seq(LogRows) /\ b \in Seq(LogRows) /\ WorkLog(s) = a \o b
      BY <2>2, Zenon
    <3> HIDE DEF a, b
    <3>2. /\ a \o b \in Seq(LogRows) /\ DOMAIN a \subseteq DOMAIN (a \o b)
          /\ \A n \in DOMAIN a : (a \o b)[n] = a[n]
      BY <3>1, Concatenation, FirstPart, Zenon
    <3> QED BY <3>1, <3>2, Zenon DEF a
  <2>4. \A n \in DOMAIN WorkLog(s) :
            \/ n \in DOMAIN log[o] /\ WorkLog(s)[n] = log[o][n]
            \/ \E k \in DOMAIN push[s].rows : WorkLog(s)[n] = push[s].rows[k]
    BY <1>3, CommittedRows, Zenon
  <2>5. \A k \in DOMAIN push[s].rows : push[s].rows[k] \in LogRows
    BY <2>2, Rows, Zenon
  <2>6. \A n \in DOMAIN log[o] : log[o][n] \in LogRows
    BY <2>2, Rows, Zenon
  <2>7. \A c \in LogRows : c.seq \in Int
    BY DEF LogRows
  <2>8. \A k \in DOMAIN push[s].rows : push[s].rows[k].seq > handed[o]
    BY <2>1, Zenon DEF HandedInv
  <2>9. \A k \in DOMAIN push[s].rows, n \in DOMAIN log[o] : log[o][n].seq < push[s].rows[k].seq
    BY <2>1, RowsAhead, Zenon
  <2> HIDE DEF o
  <2>10. ASSUME NEW d \in Devices
         PROVE  /\ (\A n \in DOMAIN log[OrgOf[d]] :
                      LET c == log[OrgOf[d]][n]
                      IN  c.seq <= cursor[d] /\ c.ent \in InitScope[d] => got[d][c.ent] >= c.rev)'
                /\ (/\ InitScope[d] \subseteq scope[d]
                    /\ \A e \in Entities : got[d][e] <= entity[OrgOf[d]][e].rev
                    /\ pull[d].pc = "page" =>
                        /\ InitScope[d] \subseteq pull[d].scope
                        /\ pull[d].changes \subseteq Range(log[OrgOf[d]])
                        /\ \A c \in pull[d].changes, x \in Range(log[OrgOf[d]]) :
                             cursor[d] < x.seq /\ x.seq <= c.seq => x \in pull[d].changes)'
    <3>1. OrgOf[d] \in Orgs /\ cursor[d] \in Int /\ handed[OrgOf[d]] \in Int
          /\ cursor[d] <= handed[OrgOf[d]] /\ got[d] \in [Entities -> Int]
      <4>1. OrgOf[d] \in Orgs /\ cursor[d] \in 0..MaxSeq
        BY SyncConstants, Zenon DEF TypeOK
      <4>2. handed[OrgOf[d]] \in 0..MaxSeq /\ cursor[d] <= handed[OrgOf[d]] /\ got[d] \in [Entities -> Int]
        BY <4>1, Zenon DEF TypeOK, HandedInv
      <4>3. \A x \in 0..MaxSeq : x \in Int
        OBVIOUS
      <4> QED BY <4>1, <4>2, <4>3, Zenon
    <3>2. CASE OrgOf[d] # o
      BY <1>1, <2>1, <3>1, <3>2, Zenon DEF PullInv, NothingSkipped
    <3>3. CASE OrgOf[d] = o
      <4>1. \A k \in DOMAIN push[s].rows : push[s].rows[k].seq > cursor[d]
        <5>1. handed[o] \in Int /\ cursor[d] \in Int /\ cursor[d] <= handed[o]
          BY <3>1, <3>3, Zenon
        <5>2. ASSUME NEW x \in Int, x > handed[o] PROVE x > cursor[d]
          BY <5>1, <5>2, Order, Zenon
        <5>3. \A k \in DOMAIN push[s].rows : push[s].rows[k].seq \in Int
          BY <2>5, <2>7, Zenon
        <5> QED BY <2>8, <5>2, <5>3, Zenon
      <4>2. \A n \in DOMAIN WorkLog(s) :
              LET c == WorkLog(s)[n]
              IN  c.seq <= cursor[d] /\ c.ent \in InitScope[d] => got[d][c.ent] >= c.rev
        <5> SUFFICES ASSUME NEW n \in DOMAIN WorkLog(s), WorkLog(s)[n].seq <= cursor[d],
                            WorkLog(s)[n].ent \in InitScope[d]
                     PROVE  got[d][WorkLog(s)[n].ent] >= WorkLog(s)[n].rev
          BY Zenon
        <5>1. CASE n \in DOMAIN log[o] /\ WorkLog(s)[n] = log[o][n]
          BY <3>3, <5>1, Zenon DEF NothingSkipped
        <5>2. ASSUME NEW k \in DOMAIN push[s].rows, WorkLog(s)[n] = push[s].rows[k]
              PROVE  FALSE
          BY <2>5, <2>7, <3>1, <4>1, <5>2, Order, Zenon
        <5> QED BY <2>4, <5>1, <5>2, Zenon
      <4>3. \A e \in Entities : got[d][e] <= WorkEnt(s)[e].rev
        <5> TAKE e \in Entities
        <5>1. entity[o][e].rev \in Int /\ WorkEnt(s)[e].rev \in Int
              /\ entity[o][e].rev <= WorkEnt(s)[e].rev
          BY <2>2, <2>3, EntityGrows, Zenon
        <5>2. got[d][e] \in Int /\ got[d][e] <= entity[o][e].rev
          BY <3>1, <3>3, Zenon DEF PullInv
        <5> QED BY <5>1, <5>2
      <4>4. ASSUME pull[d].pc = "page"
            PROVE  /\ InitScope[d] \subseteq pull[d].scope
                   /\ pull[d].changes \subseteq Range(WorkLog(s))
                   /\ \A c \in pull[d].changes, x \in Range(WorkLog(s)) :
                        cursor[d] < x.seq /\ x.seq <= c.seq => x \in pull[d].changes
        <5>1. /\ InitScope[d] \subseteq pull[d].scope /\ pull[d].changes \subseteq Range(log[o])
              /\ \A c \in pull[d].changes, x \in Range(log[o]) :
                   cursor[d] < x.seq /\ x.seq <= c.seq => x \in pull[d].changes
          BY <3>3, <4>4, Zenon DEF PullInv
        <5>2. Range(log[o]) \subseteq Range(WorkLog(s))
          BY <2>3, Zenon DEF Range
        <5>3. ASSUME NEW c \in pull[d].changes, NEW x \in Range(WorkLog(s)),
                     cursor[d] < x.seq, x.seq <= c.seq
              PROVE  x \in pull[d].changes
          <6>1. PICK n \in DOMAIN log[o] : c = log[o][n]
            BY <5>1, Zenon DEF Range
          <6>2. PICK j \in DOMAIN WorkLog(s) : x = WorkLog(s)[j]
            BY Zenon DEF Range
          <6>3. ~(\E k \in DOMAIN push[s].rows : x = push[s].rows[k])
            BY <2>5, <2>6, <2>7, <2>9, <5>3, <6>1
          <6>4. x \in Range(log[o])
            BY <2>4, <6>2, <6>3, Zenon DEF Range
          <6> QED BY <5>1, <5>3, <6>4, Zenon
        <5> QED BY <5>1, <5>2, <5>3, Zenon
      <4>5. InitScope[d] \subseteq scope[d]
        BY Zenon DEF PullInv
      <4> QED BY <1>1, <2>1, <3>3, <4>2, <4>3, <4>4, <4>5, Zenon
    <3> QED BY <3>2, <3>3, Zenon
  <2> QED BY <2>10, Zenon DEF PullInv, NothingSkipped
<1> QED BY <1>2, <1>3, Zenon

(***************************************************************************)
(* Outcomes.                                                               *)
(***************************************************************************)

\* The part of DoneInv that is about one handler.
DoneOf(s) ==
    /\ push[s].pc \in {"idle", "lock"} => push[s].done = {}
    /\ push[s].pc \in {"apply", "read"} => \A x \in push[s].done : x[1].mid # NoId =>
        /\ MutationAt(s, x[1].mid) # NoRow
        /\ x[2] = AcceptedReplay(MutationAt(s, x[1].mid), x[1])

\* An outcome names its record: the id it carries is a mutation id.
LEMMA OutcomeIds ==
    ASSUME TypeOK, NEW s \in Sessions, NEW x \in push[s].done, x[1].mid # NoId
    PROVE  x[1].mid \in MutationIds
<1>1. push[s].done \subseteq Outcomes
  BY Zenon DEF TypeOK, PushStates
<1>2. x[1] \in Records
  BY <1>1, Zenon DEF Outcomes
<1> QED BY <1>2, Zenon DEF Records

\* A handler between its commit and its answer sees the committed rows, which only grow.
LEMMA OthersDone ==
    ASSUME TypeOK, HolderInv, DoneInv, NEW s \in Sessions, PushStep(s),
           NEW t \in Sessions, t # s
    PROVE  DoneOf(t)'
<1>1. push'[t] = push[t]
  BY Zenon DEF PushStep, BeginPush, LockOrg, MissingId, PriorMutation, RejectRecord,
       AcceptRecord, CommitPush, RespondPush, RetryPush, FailPush, TypeOK
<1>2. DoneOf(t)
  BY Zenon DEF DoneOf, DoneInv
<1>3. CASE push[t].pc = "apply"
  <2>1. \A m : MutationAt(t, m)' = MutationAt(t, m)
    BY <1>1, <1>3, OthersSame, Zenon DEF MutationAt
  <2> QED BY <1>1, <1>2, <2>1, Zenon DEF DoneOf
<1>4. CASE push[t].pc = "read"
  <2> DEFINE o == push[t].org
  <2>1. o \in Orgs /\ push[t].mut = NoMutations
    BY <1>4, Zenon DEF HolderInv
  <2>2. \A m \in MutationIds : MutationAt(t, m) = mutation[o][m] /\ MutationAt(t, m)' = mutation'[o][m]
    BY <1>1, <2>1, Zenon DEF MutationAt, NoMutations
  <2>3. \A m \in MutationIds : MutationAt(t, m) # NoRow => MutationAt(t, m)' = MutationAt(t, m)
    BY <2>1, <2>2, MutationsStay, Zenon
  <2>4. ASSUME NEW x \in push[t].done, x[1].mid # NoId
        PROVE  /\ MutationAt(t, x[1].mid)' # NoRow
               /\ x[2] = AcceptedReplay(MutationAt(t, x[1].mid)', x[1])
    <3>1. x[1].mid \in MutationIds
      BY <2>4, OutcomeIds, Zenon
    <3>2. /\ MutationAt(t, x[1].mid) # NoRow
          /\ x[2] = AcceptedReplay(MutationAt(t, x[1].mid), x[1])
      BY <1>2, <1>4, <2>4, Zenon DEF DoneOf
    <3> QED BY <2>3, <3>1, <3>2, Zenon
  <2> QED BY <1>1, <1>4, <2>4, Zenon DEF DoneOf
<1>5. CASE push[t].pc \in {"idle", "lock"}
  BY <1>1, <1>2, <1>5, Zenon DEF DoneOf
<1>6. push[t].pc \in {"idle", "lock", "apply", "read"}
  BY Zenon DEF TypeOK, PushStates
<1> QED BY <1>3, <1>4, <1>5, <1>6, Zenon

\* The loop reports a record as the row it found or wrote says.
LEMMA SettledDone ==
    ASSUME TypeOK, HolderInv, DoneInv, NEW s \in Sessions, push[s].pc = "apply",
           push'[s].pc = "apply", NEW r \in Records, NEW a \in BOOLEAN,
           push'[s].done = push[s].done \cup {<<r, a>>},
           \A m \in MutationIds : MutationAt(s, m) # NoRow => MutationAt(s, m)' = MutationAt(s, m),
           r.mid # NoId => /\ MutationAt(s, r.mid)' # NoRow
                           /\ a = AcceptedReplay(MutationAt(s, r.mid)', r)
    PROVE  DoneOf(s)'
<1>1. ASSUME NEW x \in push'[s].done, x[1].mid # NoId
      PROVE  /\ MutationAt(s, x[1].mid)' # NoRow
             /\ x[2] = AcceptedReplay(MutationAt(s, x[1].mid)', x[1])
  <2>1. CASE x \in push[s].done
    <3>1. x[1].mid \in MutationIds
      BY <1>1, <2>1, OutcomeIds, Zenon
    <3>2. /\ MutationAt(s, x[1].mid) # NoRow
          /\ x[2] = AcceptedReplay(MutationAt(s, x[1].mid), x[1])
      BY <1>1, <2>1, Zenon DEF DoneInv
    <3>3. MutationAt(s, x[1].mid)' = MutationAt(s, x[1].mid)
      BY <3>1, <3>2, Zenon
    <3> QED BY <3>2, <3>3, Zenon
  <2>2. CASE x = <<r, a>>
    <3>1. x[1] = r /\ x[2] = a
      BY <2>2, Zenon
    <3> QED BY <1>1, <3>1, Zenon
  <2> QED BY <1>1, <2>1, <2>2, Zenon
<1> QED BY <1>1, Zenon DEF DoneOf

\* The outcomes a handler reports stay true through its own steps.
LEMMA OwnDone ==
    ASSUME TypeOK, HolderInv, HistoryInv, DoneInv, NEW s \in Sessions, PushStep(s)
    PROVE  DoneOf(s)'
<1>1. CASE \/ \E o \in Orgs, b \in Batches : BeginPush(s, o, b)
           \/ RespondPush(s) \/ RetryPush(s) \/ FailPush(s)
  <2>1. push'[s].pc \in {"idle", "lock"}
    <3>1. CASE \E o \in Orgs, b \in Batches : BeginPush(s, o, b)
      <4>1. PICK o \in Orgs, b \in Batches : BeginPush(s, o, b)
        BY <3>1, Zenon
      <4> QED BY <4>1, Zenon DEF BeginPush, IdlePush, TypeOK
    <3>2. CASE RespondPush(s) \/ FailPush(s)
      <4>1. push'[s] = IdlePush
        BY <3>2, Zenon DEF RespondPush, FailPush, TypeOK
      <4> QED BY <4>1 DEF IdlePush
    <3>3. CASE RetryPush(s)
      BY <3>3, Zenon DEF RetryPush, IdlePush, TypeOK
    <3> QED BY <1>1, <3>1, <3>2, <3>3, Zenon
  <2>2. push'[s].done = {}
    BY <1>1, <2>1, CleanEffect, Zenon
  <2> QED BY <2>1, <2>2, Zenon DEF DoneOf
<1>2. CASE LockOrg(s)
  <2>1. push'[s].done = push[s].done /\ push[s].pc = "lock"
    BY <1>2, Zenon DEF LockOrg, TypeOK, PushStates
  <2>2. push'[s].done = {}
    BY <2>1, Zenon DEF DoneInv
  <2> QED BY <2>2, Zenon DEF DoneOf
<1>3. CASE \E i \in push[s].pending : MissingId(s, i) \/ PriorMutation(s, i)
  <2>1. PICK i \in push[s].pending : MissingId(s, i) \/ PriorMutation(s, i)
    BY <1>3, Zenon
  <2> DEFINE r == push[s].batch[i]
  <2>2. /\ push[s].pc = "apply" /\ push'[s].pc = "apply" /\ push'[s].org = push[s].org
        /\ push'[s].mut = push[s].mut /\ mutation' = mutation
    BY <2>1, SettleEffect, Zenon
  <2>3. \A m : MutationAt(s, m)' = MutationAt(s, m)
    BY <2>2, Zenon DEF MutationAt
  <2>4. r \in Records
    BY <2>1, <2>2, TurnTypes, ZenonT(30)
  <2>5. ASSUME NEW a \in BOOLEAN, push' = [push EXCEPT ![s] = Settle(s, i, a)]
        PROVE  push'[s].done = push[s].done \cup {<<r, a>>}
    <3>1. push'[s] = Settle(s, i, a)
      BY <2>5, Zenon DEF TypeOK
    <3> QED BY <2>2, <3>1, TurnTypes, SMTT(30)
  <2>6. CASE MissingId(s, i)
    <3>1. r.mid = NoId /\ push' = [push EXCEPT ![s] = Settle(s, i, FALSE)]
      BY <2>6, Zenon DEF MissingId
    <3>2. push'[s].done = push[s].done \cup {<<r, FALSE>>}
      BY <2>5, <3>1, Zenon
    <3> HIDE DEF r
    <3> QED BY <2>2, <2>3, <2>4, <3>1, <3>2, SettledDone, Zenon
  <2>7. CASE PriorMutation(s, i)
    <3>1. PICK q \in Records : q = r
      BY <2>4, Zenon
    <3>2. PICK a \in BOOLEAN : a = AcceptedReplay(MutationAt(s, q.mid), q)
      BY Zenon DEF AcceptedReplay
    <3>3. /\ q.mid # NoId /\ MutationAt(s, q.mid) # NoRow
          /\ push' = [push EXCEPT ![s] = Settle(s, i, a)]
      BY <2>7, <3>1, <3>2, Zenon DEF PriorMutation
    <3>4. push'[s].done = push[s].done \cup {<<q, a>>}
      BY <2>5, <3>1, <3>3, Zenon
    <3>5. MutationAt(s, q.mid)' # NoRow /\ a = AcceptedReplay(MutationAt(s, q.mid)', q)
      BY <2>3, <3>2, <3>3, Zenon
    <3> HIDE DEF r
    <3> QED BY <2>2, <2>3, <3>4, <3>5, SettledDone, Zenon
  <2> QED BY <2>1, <2>6, <2>7, Zenon
<1>4. ASSUME NEW r \in Records, NEW a \in BOOLEAN, NEW row \in MutationRows,
             push[s].pc = "apply", push'[s].pc = "apply", push'[s].org = push[s].org,
             mutation' = mutation, r.mid \in MutationIds, MutationAt(s, r.mid) = NoRow,
             push'[s].mut = [push[s].mut EXCEPT ![r.mid] = row],
             push'[s].done = push[s].done \cup {<<r, a>>}, a = AcceptedReplay(row, r)
      PROVE  DoneOf(s)'
  <2>1. push[s].mut \in MutationTable /\ row # NoRow
    BY <1>4, SyncConstants, Zenon DEF TypeOK, PushStates, MutationTable
  <2>2. \A m \in MutationIds : push'[s].mut[m] = IF m = r.mid THEN row ELSE push[s].mut[m]
    BY <1>4, <2>1, Zenon DEF MutationTable
  <2>3. MutationAt(s, r.mid)' = row
    BY <1>4, <2>1, <2>2, Zenon DEF MutationAt
  <2>4. \A m \in MutationIds : MutationAt(s, m) # NoRow => MutationAt(s, m)' = MutationAt(s, m)
    BY <1>4, <2>1, <2>2, Zenon DEF MutationAt
  <2> QED BY <1>4, <2>1, <2>3, <2>4, SettledDone, Zenon
<1>5. CASE \E i \in push[s].pending : RejectRecord(s, i)
  <2>1. PICK i \in push[s].pending : RejectRecord(s, i)
    BY <1>5, Zenon
  <2> DEFINE r == push[s].batch[i]
             row == [fp |-> request_fingerprint(r), status |-> "rejected",
                     rev |-> EntityAt(s, r.ent).rev]
  <2>2. /\ push[s].pc = "apply" /\ MutationAt(s, r.mid) = NoRow /\ mutation' = mutation
    BY <2>1, Zenon DEF RejectRecord, Fresh, Turn, dbVars
  <2>3. /\ push'[s].pc = "apply" /\ push'[s].org = push[s].org
        /\ r \in Records /\ r.mid \in MutationIds /\ row \in MutationRows
    BY <2>1, RejectEffect, Zenon
  <2>4. push'[s].mut = [push[s].mut EXCEPT ![r.mid] = row]
    BY <2>1, RejectEffect, Zenon
  <2>5. push'[s].done = push[s].done \cup {<<r, FALSE>>}
    BY <2>1, RejectEffect, ZenonT(30)
  <2>6. AcceptedReplay(row, r) = FALSE
    BY Zenon DEF AcceptedReplay
  <2> HIDE DEF row
  <2> QED BY <1>4, <2>2, <2>3, <2>4, <2>5, <2>6, Zenon
<1>6. CASE \E i \in push[s].pending : AcceptRecord(s, i)
  <2>1. PICK i \in push[s].pending : AcceptRecord(s, i)
    BY <1>6, Zenon
  <2> DEFINE r == push[s].batch[i]
             rev == Len(WorkLog(s)) + 1
             row == [fp |-> request_fingerprint(r), status |-> "accepted", rev |-> rev]
  <2>2. /\ push[s].pc = "apply" /\ MutationAt(s, r.mid) = NoRow /\ mutation' = mutation
    BY <2>1, Zenon DEF AcceptRecord, Fresh, Turn, dbVars
  <2>3. /\ push'[s].pc = "apply" /\ push'[s].org = push[s].org
        /\ r \in Records /\ r.mid \in MutationIds /\ rev \in Nat
    BY <2>1, AcceptEffect, Zenon
  <2>4. push'[s].mut = [push[s].mut EXCEPT ![r.mid] = row]
    BY <2>1, AcceptEffect, ZenonT(30)
  <2>5. push'[s].done = push[s].done \cup {<<r, TRUE>>}
    BY <2>1, AcceptDone, Zenon
  <2>6. row \in MutationRows
    <3>1. rev \in Int
      BY <2>3
    <3> HIDE DEF rev
    <3> QED BY <2>3, <3>1, OutcomeRow, Zenon
  <2>7. AcceptedReplay(row, r) = TRUE
    BY Zenon DEF AcceptedReplay
  <2> HIDE DEF row
  <2> QED BY <1>4, <2>2, <2>3, <2>4, <2>5, <2>6, <2>7, Zenon
<1>7. CASE CommitPush(s)
  <2> DEFINE o == push[s].org
  <2>1. push[s].pc = "apply" /\ mutation'[o] = WorkMut(s)
    BY <1>7, CommitTables, Zenon
  <2>2. push'[s].org = o /\ push'[s].done = push[s].done /\ push'[s].mut = NoMutations
    BY <1>7, ZenonT(30) DEF CommitPush, IdlePush, TypeOK
  <2>3. \A m \in MutationIds : MutationAt(s, m)' = MutationAt(s, m)
    BY <2>1, <2>2, SMTT(30) DEF MutationAt, NoMutations, WorkMut
  <2>4. \A x \in push[s].done : x[1].mid # NoId => x[1].mid \in MutationIds
    BY OutcomeIds, Zenon
  <2>5. push'[s].pc = "read"
    BY <1>7, Zenon DEF CommitPush, IdlePush, TypeOK
  <2>6. push'[s].pc \notin {"idle", "lock"} /\ push[s].pc \in {"apply", "read"}
    BY <2>1, <2>5
  <2>7. \A x \in push[s].done : x[1].mid # NoId =>
          /\ MutationAt(s, x[1].mid) # NoRow
          /\ x[2] = AcceptedReplay(MutationAt(s, x[1].mid), x[1])
    BY <2>6, Zenon DEF DoneOf, DoneInv
  <2>8. \A x \in push[s].done : x[1].mid # NoId =>
          /\ MutationAt(s, x[1].mid)' # NoRow
          /\ x[2] = AcceptedReplay(MutationAt(s, x[1].mid)', x[1])
    BY <2>3, <2>4, <2>7, Zenon
  <2> QED BY <2>2, <2>6, <2>8, Zenon DEF DoneOf, AcceptedReplay, request_fingerprint
<1> QED BY <1>1, <1>2, <1>3, <1>5, <1>6, <1>7, Zenon DEF PushStep

\* An answer repeats what is committed, and what is committed stays.
LEMMA AnswersStep ==
    ASSUME TypeOK, HolderInv, DoneInv, AnswersDurable, NEW s \in Sessions, PushStep(s)
    PROVE  AnswersDurable'
<1> SUFFICES ASSUME NEW a \in answers', a[2].mid # NoId
             PROVE  /\ mutation'[a[1]][a[2].mid] # NoRow
                    /\ a[3] = AcceptedReplay(mutation'[a[1]][a[2].mid], a[2])
  BY Zenon DEF AnswersDurable
<1>1. CASE a \in answers
  <2>1. a[1] \in Orgs /\ a[2] \in Records
    BY <1>1, Zenon DEF TypeOK
  <2>2. a[2].mid \in MutationIds
    BY <2>1, Zenon DEF Records
  <2>3. /\ mutation[a[1]][a[2].mid] # NoRow
        /\ a[3] = AcceptedReplay(mutation[a[1]][a[2].mid], a[2])
    BY <1>1, Zenon DEF AnswersDurable
  <2>4. mutation'[a[1]][a[2].mid] = mutation[a[1]][a[2].mid]
    BY <2>1, <2>2, <2>3, MutationsStay, Zenon
  <2> QED BY <2>3, <2>4, Zenon
<1>2. CASE a \notin answers
  <2>1. RespondPush(s)
    BY <1>2, Zenon DEF PushStep, BeginPush, LockOrg, MissingId, PriorMutation, RejectRecord,
                AcceptRecord, CommitPush, RetryPush, FailPush
  <2>2. /\ push[s].pc = "read" /\ mutation' = mutation
        /\ answers' = answers \cup {<<push[s].org, d[1], d[2]>> : d \in push[s].done}
    BY <2>1, Zenon DEF RespondPush, dbVars
  <2>3. PICK d \in push[s].done : a = <<push[s].org, d[1], d[2]>>
    BY <1>2, <2>2, Zenon
  <2>4. a[1] = push[s].org /\ a[2] = d[1] /\ a[3] = d[2]
    BY <2>3, Zenon
  <2>5. d[1].mid \in MutationIds
    BY <2>4, OutcomeIds, ZenonT(30)
  <2>6. MutationAt(s, d[1].mid) = mutation[push[s].org][d[1].mid]
    BY <2>2, <2>5, SMTT(30) DEF HolderInv, MutationAt, NoMutations
  <2>7. /\ MutationAt(s, d[1].mid) # NoRow
        /\ d[2] = AcceptedReplay(MutationAt(s, d[1].mid), d[1])
    BY <2>2, <2>4, Zenon DEF DoneInv
  <2> QED BY <2>2, <2>4, <2>6, <2>7, Zenon
<1> QED BY <1>1, <1>2, Zenon

(***************************************************************************)
(* Pages.                                                                  *)
(***************************************************************************)

\* What a step of one device must establish for it; the other devices keep theirs.
PullOf(d) ==
    /\ InitScope[d] \subseteq scope[d]
    /\ \A e \in Entities : got[d][e] <= entity[OrgOf[d]][e].rev
    /\ pull[d].pc = "page" =>
        /\ InitScope[d] \subseteq pull[d].scope
        /\ pull[d].changes \subseteq Range(log[OrgOf[d]])
        /\ \A c \in pull[d].changes, x \in Range(log[OrgOf[d]]) :
            cursor[d] < x.seq /\ x.seq <= c.seq => x \in pull[d].changes
NothingSkippedBy(d) ==
    \A n \in DOMAIN log[OrgOf[d]] :
        LET c == log[OrgOf[d]][n]
        IN  c.seq <= cursor[d] /\ c.ent \in InitScope[d] => got[d][c.ent] >= c.rev

\* The rows a page consumes have no gap after the cursor.
LEMMA NoGap ==
    ASSUME TypeOK, PullInv, NEW d \in Devices, pull[d].pc = "page", NEW x \in Consumed(d),
           NEW c \in Range(log[OrgOf[d]]), cursor[d] < c.seq, c.seq <= x.seq
    PROVE  c \in Consumed(d)
<1>1. x \in pull[d].changes /\ \A y \in pull[d].changes : y.seq <= x.seq => Fits(d, y)
  BY Zenon DEF Consumed
<1>2. c \in pull[d].changes
  BY <1>1, Zenon DEF PullInv
<1>3. \A y \in pull[d].changes : y.seq \in Int
  <2>1. pull[d].changes \subseteq LogRows
    BY Zenon DEF TypeOK, PullStates
  <2> QED BY <2>1 DEF LogRows
<1>4. \A y \in pull[d].changes : y.seq <= c.seq => y.seq <= x.seq
  BY <1>1, <1>2, <1>3, Order, Zenon
<1> QED BY <1>1, <1>2, <1>4, Zenon DEF Consumed

\* A change the page passes is delivered, or an earlier page delivered it.
LEMMA Passed ==
    ASSUME TypeOK, HistoryInv, PullInv, NothingSkipped, NEW d \in Devices, pull[d].pc = "page",
           NEW next \in Int, next = cursor[d] \/ \E x \in Consumed(d) : next = x.seq,
           NEW n \in DOMAIN log[OrgOf[d]], log[OrgOf[d]][n].seq <= next,
           log[OrgOf[d]][n].ent \in InitScope[d]
    PROVE  LET c == log[OrgOf[d]][n]
           IN  /\ c.ent \in Entities /\ entity[OrgOf[d]][c.ent].rev >= c.rev
               /\ \/ got[d][c.ent] >= c.rev
                  \/ c.ent \in {y.ent : y \in {x \in Consumed(d) : x.ent \in pull[d].scope}}
<1>1. PICK o, c : o = OrgOf[d] /\ c = log[o][n]
  BY ZenonT(30)
<1>2. o \in Orgs /\ log[o] \in Seq(LogRows) /\ entity[o] \in [Entities -> EntityStates]
      /\ cursor[d] \in Int /\ InitScope[d] \subseteq pull[d].scope
  <2>1. o \in Orgs /\ cursor[d] \in 0..MaxSeq
    BY <1>1, SyncConstants, Zenon DEF TypeOK
  <2>2. log[o] \in Seq(LogRows) /\ entity[o] \in [Entities -> EntityStates]
        /\ InitScope[d] \subseteq pull[d].scope
    BY <2>1, Zenon DEF TypeOK, PullInv
  <2> QED BY <2>1, <2>2
<1>3. n \in DOMAIN log[o] /\ n \in Nat /\ c \in LogRows /\ c \in Range(log[o])
  BY <1>1, <1>2, Rows, Zenon DEF Range
<1>4. c.ent \in Entities /\ c.seq \in Int
  BY <1>3 DEF LogRows
<1>5. c.rev = n /\ entity[o][c.ent].rev \in Nat /\ n <= entity[o][c.ent].rev
  <2>1. Consistent(log[o], entity[o], mutation[o])
    BY <1>2, Zenon DEF HistoryInv
  <2>2. \A k \in DOMAIN log[o] : log[o][k].ent = c.ent =>
            log[o][k].rev = k /\ entity[o][c.ent].rev \in Nat /\ k <= entity[o][c.ent].rev
    BY <1>2, <1>4, <2>1, EntityAtLeast, Zenon
  <2> QED BY <1>1, <1>3, <2>2, Zenon
<1>6. entity[o][c.ent].rev >= c.rev
  BY <1>3, <1>5
<1>7. CASE c.seq <= cursor[d]
  BY <1>1, <1>4, <1>6, <1>7, Zenon DEF NothingSkipped
<1>8. CASE cursor[d] < c.seq
  <2>1. ~(next = cursor[d])
    BY <1>1, <1>2, <1>4, <1>8
  <2>2. PICK x \in Consumed(d) : next = x.seq
    BY <2>1, Zenon
  <2>3. c \in Consumed(d)
    BY <1>1, <1>3, <1>8, <2>2, NoGap, Zenon
  <2>4. c.ent \in pull[d].scope
    BY <1>1, <1>2, Zenon
  <2> QED BY <1>1, <1>4, <1>6, <2>3, <2>4, ZenonT(30)
<1> QED BY <1>2, <1>4, <1>7, <1>8, Order, Zenon

\* The cursor a page hands out is that of a committed change, so it is below the counter and
\* below everything uncommitted.
LEMMA PageHanded ==
    ASSUME TypeOK, HolderInv, HistoryInv, HandedInv, NEW d \in Devices, NEW o \in Orgs, o = OrgOf[d],
           NEW next \in 0..MaxSeq, next = cursor[d] \/ \E c \in Range(log[o]) : next = c.seq,
           cursor' = [cursor EXCEPT ![d] = next], handed' = [handed EXCEPT ![o] = Later(o, next)],
           UNCHANGED <<log, nextSeq, push>>
    PROVE  HandedInv'
<1>1. /\ Later(o, next) \in {handed[o], next} /\ Later(o, next) >= handed[o]
      /\ Later(o, next) >= next /\ Later(o, next) \in 0..MaxSeq
  BY LaterBound, Zenon
<1>2. handed'[o] = Later(o, next) /\ \A x \in Orgs : x # o => handed'[x] = handed[x]
  BY Zenon DEF TypeOK
<1>3. nextSeq \in Int /\ next \in Int /\ \A x \in Orgs : handed[x] \in Int
  BY SyncConstants DEF TypeOK
<1>4. cursor[d] <= handed[o] /\ handed[o] < nextSeq
  BY Zenon DEF HandedInv
<1>5. next <= handed[o] \/ \E n \in DOMAIN log[o] : next = log[o][n].seq
  BY <1>4, Zenon DEF Range
<1>6. next < nextSeq
  <2>1. CASE next <= handed[o]
    BY <1>3, <1>4, <2>1, Order, Zenon
  <2>2. CASE \E n \in DOMAIN log[o] : next = log[o][n].seq
    BY <2>2, Zenon DEF HistoryInv, Ordered
  <2> QED BY <1>5, <2>1, <2>2, Zenon
<1>7. \A x \in Orgs : handed'[x] < nextSeq'
  BY <1>1, <1>2, <1>6, Zenon DEF HandedInv
<1>8. ASSUME NEW x \in Devices
      PROVE  cursor'[x] <= handed'[OrgOf[x]]
  <2>1. cursor[x] \in 0..MaxSeq /\ cursor[x] <= handed[OrgOf[x]] /\ OrgOf[x] \in Orgs
    BY SyncConstants, Zenon DEF TypeOK, HandedInv
  <2>2. CASE x = d
    <3>1. cursor'[x] = next /\ handed'[OrgOf[x]] = Later(o, next)
      BY <1>2, <2>2, ZenonT(30) DEF TypeOK
    <3>2. next <= Later(o, next)
      BY <1>1
    <3> QED BY <3>1, <3>2, Zenon
  <2>3. CASE x # d
    <3>1. cursor'[x] = cursor[x]
      BY <2>3, Zenon DEF TypeOK
    <3>2. CASE OrgOf[x] # o
      BY <1>2, <2>1, <3>1, <3>2, Zenon
    <3>3. CASE OrgOf[x] = o
      <4>1. cursor[x] \in Int /\ Later(o, next) \in Int
        BY <1>1, <2>1
      <4>2. cursor[x] <= Later(o, next)
        BY <1>1, <1>3, <2>1, <3>3, <4>1, Order, Zenon
      <4> QED BY <1>2, <3>1, <3>3, <4>2, Zenon
    <3> QED BY <3>2, <3>3, Zenon
  <2> QED BY <2>2, <2>3, Zenon
<1>9. ASSUME NEW t \in Sessions, push'[t].pc = "apply", NEW n \in DOMAIN push'[t].rows
      PROVE  push'[t].rows[n].seq > handed'[push'[t].org]
  <2>1. push'[t] = push[t] /\ push[t].pc = "apply" /\ push[t].org \in Orgs
    BY <1>9, Zenon DEF HolderInv
  <2>2. push[t].rows[n].seq > handed[push[t].org]
    BY <1>9, <2>1, Zenon DEF HandedInv
  <2>3. push[t].rows[n].seq \in Int
    <3>1. push[t].rows \in Seq(LogRows)
      BY Zenon DEF TypeOK, PushStates
    <3>2. push[t].rows[n] \in LogRows
      BY <1>9, <2>1, <3>1, Rows, Zenon
    <3> QED BY <3>2 DEF LogRows
  <2>4. CASE push[t].org = o
    <3>1. CASE next <= handed[o]
      <4>1. handed[o] < push[t].rows[n].seq
        BY <1>3, <2>2, <2>3, <2>4, Order, Zenon
      <4>2. next < push[t].rows[n].seq
        BY <1>3, <2>3, <3>1, <4>1, Order, Zenon
      <4> QED BY <1>1, <1>2, <1>3, <2>1, <2>2, <2>3, <2>4, <4>2, Order, Zenon
    <3>2. CASE \E k \in DOMAIN log[o] : next = log[o][k].seq
      <4>1. next < push[t].rows[n].seq
        BY <1>9, <2>1, <2>4, <3>2, RowsAhead, Zenon
      <4> QED BY <1>1, <1>2, <1>3, <2>1, <2>2, <2>3, <2>4, <4>1, Order, Zenon
    <3> QED BY <1>5, <3>1, <3>2, Zenon
  <2>5. CASE push[t].org # o
    BY <1>2, <2>1, <2>2, <2>5, Zenon
  <2> QED BY <2>4, <2>5, Zenon
<1> QED BY <1>7, <1>8, <1>9, Zenon DEF HandedInv

\* A page moves the cursor over changes it delivers or may not show, and no others.
LEMMA PageStep ==
    ASSUME TypeOK, HolderInv, HistoryInv, HandedInv, PullInv, NothingSkipped,
           NEW d \in Devices, PullPage(d)
    PROVE  PullOf(d)' /\ NothingSkippedBy(d)' /\ HandedInv'
<1>1. UNCHANGED <<entity, mutation, log, nextSeq, lock, push, answers, scope>>
  BY Zenon DEF PullPage, dbVars
<1>2. PICK o, sent :
        /\ o = OrgOf[d]
        /\ sent = {c.ent : c \in {x \in Consumed(d) : x.ent \in pull[d].scope}}
  BY Zenon
<1>3. PICK next \in {cursor[d]} \cup {c.seq : c \in Consumed(d)} :
        /\ cursor' = [cursor EXCEPT ![d] = next]
        /\ handed' = [handed EXCEPT ![o] = Later(o, next)]
  BY <1>2, Zenon DEF PullPage
<1>4. /\ pull[d].pc = "page" /\ pull' = [pull EXCEPT ![d] = IdlePull]
      /\ got' = [got EXCEPT ![d] =
                   [e \in Entities |-> IF e \in sent THEN entity[o][e].rev ELSE got[d][e]]]
  BY <1>2, Zenon DEF PullPage
<1>5. o \in Orgs /\ entity[o] \in [Entities -> EntityStates] /\ cursor[d] \in 0..MaxSeq
  BY <1>2, SyncConstants, Zenon DEF TypeOK
<1>6. next = cursor[d] \/ \E x \in Consumed(d) : next = x.seq
  BY <1>3, Zenon
<1>7. next \in 0..MaxSeq /\ (next = cursor[d] \/ \E c \in Range(log[o]) : next = c.seq)
  <2>1. \A x \in Consumed(d) : x \in LogRows /\ x \in Range(log[o])
    BY <1>2, <1>4, Zenon DEF Consumed, TypeOK, PullStates, PullInv
  <2>2. \A x \in LogRows : x.seq \in 0..MaxSeq
    BY DEF LogRows
  <2> QED BY <1>5, <1>6, <2>1, <2>2, Zenon
<1>8. /\ cursor'[d] = next /\ pull'[d] = IdlePull
      /\ \A e \in Entities : got'[d][e] = IF e \in sent THEN entity[o][e].rev ELSE got[d][e]
  BY <1>3, <1>4, Zenon DEF TypeOK
<1>9. PullOf(d)'
  <2>1. pull'[d].pc # "page"
    BY <1>8 DEF IdlePull
  <2>2. \A e \in Entities : got'[d][e] <= entity[o][e].rev
    <3>1. \A e \in Entities : entity[o][e].rev \in Int /\ got[d][e] <= entity[o][e].rev
      BY <1>2, <1>5, Zenon DEF EntityStates, PullInv
    <3>2. \A x \in Int : x <= x
      OBVIOUS
    <3> QED BY <1>8, <3>1, <3>2, Zenon
  <2>3. InitScope[d] \subseteq scope[d]
    BY Zenon DEF PullInv
  <2> QED BY <1>1, <1>2, <2>1, <2>2, <2>3, Zenon DEF PullOf
<1>10. NothingSkippedBy(d)'
  <2> SUFFICES ASSUME NEW n \in DOMAIN log[o], log[o][n].seq <= next,
                      log[o][n].ent \in InitScope[d]
               PROVE  got'[d][log[o][n].ent] >= log[o][n].rev
    BY <1>1, <1>2, <1>8, Zenon DEF NothingSkippedBy
  <2>1. next \in Int
    BY <1>7
  <2>2. PICK c : c = log[o][n]
    BY Zenon
  <2>3. /\ c.ent \in Entities /\ entity[o][c.ent].rev >= c.rev
        /\ got[d][c.ent] >= c.rev \/ c.ent \in sent
    BY <1>2, <1>4, <1>6, <2>1, <2>2, Passed, Zenon
  <2> QED BY <1>8, <2>2, <2>3, Zenon
<1>11. HandedInv'
  BY <1>1, <1>2, <1>3, <1>5, <1>7, PageHanded, Zenon
<1> QED BY <1>9, <1>10, <1>11, Zenon

\* The initial state satisfies the inductive invariant.
LEMMA InitInv == Init => SyncInv
<1> SUFFICES ASSUME Init PROVE SyncInv
  BY Zenon
<1>1. TypeOK
  <2>1. /\ NoWrites \in [Entities -> EntityStates]
        /\ NoMutations \in [MutationIds -> MutationRows \cup {NoRow}]
        /\ IdlePush \in PushStates /\ IdlePull \in PullStates
    BY IdleTypes, Zenon DEF EntityRows, MutationTable
  <2>2. None \in Int /\ 1 \in 1..(MaxSeq + 1) /\ 0 \in 0..MaxSeq
    BY SyncConstants DEF None
  <2> QED BY <2>1, <2>2, SyncConstants DEF Init, TypeOK
<1>2. /\ \A s \in Sessions : push[s] = IdlePush
      /\ IdlePush.pc = "idle" /\ IdlePush.pending = {} /\ IdlePush.ent = NoWrites
      /\ IdlePush.mut = NoMutations /\ IdlePush.rows = << >> /\ IdlePush.done = {}
  BY Zenon DEF Init, IdlePush
<1>3. HolderInv
  BY <1>2, Zenon DEF Init, HolderInv
<1>4. HistoryInv
  <2>1. ASSUME NEW o \in Orgs
        PROVE  Consistent(log[o], entity[o], mutation[o]) /\ Ordered(log[o])
    <3>1. log[o] = << >> /\ entity[o] = NoWrites /\ mutation[o] = NoMutations
      BY Zenon DEF Init
    <3>2. DOMAIN log[o] = {} /\ Len(log[o]) = 0
      BY <3>1
    <3>3. \A m \in MutationIds : MutationOK(log[o], mutation[o], m)
      BY <3>1, Zenon DEF MutationOK, NoMutations
    <3>4. \A e \in Entities : EntityOK(log[o], entity[o], mutation[o], e)
      <4> TAKE e \in Entities
      <4>1. IsLast(log[o], e, Len(log[o]) + 1, 0)
        BY <3>2 DEF IsLast
      <4>2. entity[o][e] = Absent
        BY <3>1, Zenon DEF NoWrites
      <4>3. 0 \in 0..Len(log[o])
        BY <3>2
      <4> QED BY <4>1, <4>2, <4>3, Zenon DEF EntityOK
    <3> QED BY <3>2, <3>3, <3>4, Zenon DEF Consistent, Ordered
  <2> QED BY <1>2, <2>1, Zenon DEF HistoryInv
<1>5. HandedInv
  <2>1. 0 < 1 /\ 0 <= 0
    OBVIOUS
  <2>2. \A d \in Devices : OrgOf[d] \in Orgs
    BY SyncConstants, Zenon
  <2>3. /\ nextSeq = 1 /\ \A o \in Orgs : handed[o] = 0
        /\ \A d \in Devices : cursor[d] = 0
    BY Zenon DEF Init
  <2> QED BY <1>2, <2>1, <2>2, <2>3, Zenon DEF HandedInv
<1>6. PullInv /\ NothingSkipped
  <2>1. \A d \in Devices : OrgOf[d] \in Orgs
    BY SyncConstants, Zenon
  <2>2. \A d \in Devices : log[OrgOf[d]] = << >> /\ entity[OrgOf[d]] = NoWrites
                           /\ pull[d].pc = "idle" /\ scope[d] = InitScope[d]
    BY <2>1, Zenon DEF Init, IdlePull
  <2>3. \A d \in Devices, e \in Entities : got[d][e] = None /\ NoWrites[e].rev = None
    BY Zenon DEF Init, NoWrites, Absent
  <2>4. None <= None
    BY DEF None
  <2> QED BY <2>2, <2>3, <2>4, SMTT(30) DEF PullInv, NothingSkipped
<1>7. DoneInv /\ AnswersDurable
  BY <1>2, Zenon DEF Init, DoneInv, AnswersDurable
<1> QED BY <1>1, <1>3, <1>4, <1>5, <1>6, <1>7, Zenon DEF SyncInv

(***************************************************************************)
(* Scans, and the theorems.                                                *)
(***************************************************************************)

INSTANCE FiniteSetTheorems

\* A set of changes read from a log is finite.
LEMMA RangeFinite ==
    ASSUME NEW h \in Seq(LogRows), NEW S \in SUBSET Range(h)
    PROVE  IsFiniteSet(S)
<1>1. h \in Seq(Range(h)) /\ DOMAIN h = 1..Len(h)
  BY DEF Range
<1>2. \A x \in Range(h) : \E n \in 1..Len(h) : h[n] = x
  BY <1>1, Zenon DEF Range
<1>3. IsFiniteSet(Range(h))
  BY <1>1, <1>2, Zenon DEF IsFiniteSet
<1> QED BY <1>3, FS_Subset, Zenon

\* A scan that is cut off after ScanLimit changes leaves no gap before a change it returns.
LEMMA ScanIsPrefix ==
    ASSUME NEW h \in Seq(LogRows), NEW rows \in SUBSET Range(h),
           NEW c \in rows, NEW x \in rows, x.seq <= c.seq,
           Cardinality({y \in rows : y.seq < c.seq}) < ScanLimit
    PROVE  Cardinality({y \in rows : y.seq < x.seq}) < ScanLimit
<1> DEFINE A == {y \in rows : y.seq < c.seq}
           B == {y \in rows : y.seq < x.seq}
<1>1. \A y \in Range(h) : y \in LogRows
  BY DEF Range
<1>2. \A y \in rows : y.seq \in Int
  BY <1>1 DEF LogRows
<1>3. B \subseteq A /\ A \subseteq Range(h)
  BY <1>2
<1>4. IsFiniteSet(A)
  BY <1>3, RangeFinite, Zenon
<1> HIDE DEF A, B
<1>5. IsFiniteSet(B) /\ Cardinality(B) <= Cardinality(A)
  BY <1>3, <1>4, FS_Subset, Zenon
<1>6. Cardinality(A) \in Nat /\ Cardinality(B) \in Nat /\ ScanLimit \in Nat
  BY <1>4, <1>5, FS_CardinalityType, SyncConstants, Zenon
<1> QED BY <1>5, <1>6 DEF A, B

\* Every step of a device keeps the cursor invariants.
LEMMA PullStepInv ==
    ASSUME TypeOK, HolderInv, HistoryInv, HandedInv, PullInv, NothingSkipped,
           NEW d \in Devices, PullStep(d)
    PROVE  HandedInv' /\ PullInv' /\ NothingSkipped'
<1>1. UNCHANGED <<entity, mutation, log, nextSeq, lock, push, answers>>
  BY PullFrame, Zenon
<1>2. ASSUME NEW x \in Devices, x # d
      PROVE  PullOf(x)' /\ NothingSkippedBy(x)'
  <2>1. /\ pull'[x] = pull[x] /\ scope'[x] = scope[x] /\ cursor'[x] = cursor[x]
        /\ got'[x] = got[x]
    BY <1>2, Zenon DEF PullStep, PullScan, PullPage, PullLost, GrantScope, TypeOK
  <2> QED BY <1>1, <2>1, Zenon DEF PullOf, NothingSkippedBy, PullInv, NothingSkipped
<1>3. PullOf(d) /\ NothingSkippedBy(d)
  BY Zenon DEF PullOf, NothingSkippedBy, PullInv, NothingSkipped
<1>4. CASE PullScan(d)
  <2> DEFINE rows == {c \in Range(log[OrgOf[d]]) : c.seq > cursor[d]}
             ch == {c \in rows : Cardinality({x \in rows : x.seq < c.seq}) < ScanLimit}
  <2>1. pull' = [pull EXCEPT ![d] = [pc |-> "page", scope |-> scope[d], changes |-> ch]]
        /\ UNCHANGED <<scope, cursor, got, handed>>
    BY <1>4, Zenon DEF PullScan
  <2>2. pull'[d] = [pc |-> "page", scope |-> scope[d], changes |-> ch]
    BY <2>1, Zenon DEF TypeOK
  <2>3. log[OrgOf[d]] \in Seq(LogRows)
    BY SyncConstants, Zenon DEF TypeOK
  <2>4. ASSUME NEW c \in ch, NEW x \in Range(log[OrgOf[d]]), cursor[d] < x.seq, x.seq <= c.seq
        PROVE  x \in ch
    <3>1. x \in rows /\ c \in rows /\ rows \subseteq Range(log[OrgOf[d]])
          /\ Cardinality({y \in rows : y.seq < c.seq}) < ScanLimit
      <4>1. x \in LogRows
        BY <2>3 DEF Range
      <4>2. x.seq \in Int /\ cursor[d] \in Int
        BY <4>1 DEF LogRows, TypeOK
      <4> QED BY <2>4, <4>2, Zenon
    <3> HIDE DEF rows
    <3>2. Cardinality({y \in rows : y.seq < x.seq}) < ScanLimit
      BY <2>3, <2>4, <3>1, ScanIsPrefix, Zenon
    <3> QED BY <3>1, <3>2, Zenon
  <2>5. ch \subseteq Range(log[OrgOf[d]])
    BY ZenonT(30)
  <2> HIDE DEF ch
  <2>6. pull'[d].pc = "page" /\ pull'[d].scope = scope[d] /\ pull'[d].changes = ch
    BY <2>2, SMTT(30)
  <2>7. PullOf(d)' /\ NothingSkippedBy(d)'
    BY <1>1, <1>3, <2>1, <2>4, <2>5, <2>6, ZenonT(30) DEF PullOf, NothingSkippedBy
  <2>8. HandedInv'
    BY <1>1, <2>1, Zenon DEF HandedInv
  <2> QED BY <1>2, <2>7, <2>8, Zenon DEF PullInv, NothingSkipped, PullOf, NothingSkippedBy
<1>5. CASE PullPage(d)
  BY <1>2, <1>5, PageStep, Zenon DEF PullInv, NothingSkipped, PullOf, NothingSkippedBy
<1>6. CASE PullLost(d)
  <2>1. pull'[d].pc = "idle" /\ UNCHANGED <<scope, cursor, got, handed>>
    BY <1>6, Zenon DEF PullLost, IdlePull, TypeOK
  <2>2. PullOf(d)' /\ NothingSkippedBy(d)'
    BY <1>1, <1>3, <2>1, Zenon DEF PullOf, NothingSkippedBy
  <2>3. HandedInv'
    BY <1>1, <2>1, Zenon DEF HandedInv
  <2> QED BY <1>2, <2>2, <2>3, Zenon DEF PullInv, NothingSkipped, PullOf, NothingSkippedBy
<1>7. CASE \E e \in Entities : GrantScope(d, e)
  <2>1. scope[d] \subseteq scope'[d] /\ UNCHANGED <<pull, cursor, got, handed>>
    BY <1>7, Zenon DEF GrantScope, TypeOK
  <2>2. PullOf(d)' /\ NothingSkippedBy(d)'
    BY <1>1, <1>3, <2>1, Zenon DEF PullOf, NothingSkippedBy
  <2>3. HandedInv'
    BY <1>1, <2>1, Zenon DEF HandedInv
  <2> QED BY <1>2, <2>2, <2>3, Zenon DEF PullInv, NothingSkipped, PullOf, NothingSkippedBy
<1> QED BY <1>4, <1>5, <1>6, <1>7, Zenon DEF PullStep

\* Every step preserves the inductive invariant.
LEMMA StepInv == SyncInv /\ [Next]_vars => SyncInv'
<1> SUFFICES ASSUME SyncInv, [Next]_vars PROVE SyncInv'
  BY Zenon
<1> USE DEF SyncInv
<1>1. CASE \E s \in Sessions : PushStep(s)
  <2>1. PICK s \in Sessions : PushStep(s)
    BY <1>1, Zenon
  <2>2. TypeOK'
    BY <2>1, PushTypes, Zenon
  <2>3. HolderInv'
    BY <2>1, HolderStep, Zenon
  <2>4. HistoryInv'
    BY <2>1, HistoryStep, Zenon
  <2>5. HandedInv'
    BY <2>1, HandedStep, Zenon
  <2>6. PullInv' /\ NothingSkipped'
    BY <2>1, PullUndisturbed, Zenon
  <2>7. DoneInv'
    <3>1. \A t \in Sessions : DoneOf(t)'
      BY <2>1, OwnDone, OthersDone, Zenon
    <3> QED BY <3>1, Zenon DEF DoneInv, DoneOf
  <2>8. AnswersDurable'
    BY <2>1, AnswersStep, Zenon
  <2> QED BY <2>2, <2>3, <2>4, <2>5, <2>6, <2>7, <2>8, Zenon
<1>2. CASE \E d \in Devices : PullStep(d)
  <2>1. PICK d \in Devices : PullStep(d)
    BY <1>2, Zenon
  <2>2. UNCHANGED <<entity, mutation, log, nextSeq, lock, push, answers>>
    BY <2>1, PullFrame, Zenon
  <2>3. TypeOK'
    BY <2>1, PullTypes, Zenon
  <2>4. HandedInv' /\ PullInv' /\ NothingSkipped'
    BY <2>1, PullStepInv, Zenon
  <2>5. HolderInv'
    BY <2>2, Zenon DEF HolderInv
  <2>6. HistoryInv'
    BY <2>2, WorkSame, Zenon DEF HistoryInv, Ordered
  <2>7. DoneInv'
    BY <2>2, Zenon DEF DoneInv, MutationAt
  <2>8. AnswersDurable'
    BY <2>2, Zenon DEF AnswersDurable
  <2> QED BY <2>3, <2>4, <2>5, <2>6, <2>7, <2>8, Zenon
<1>3. CASE UNCHANGED vars
  <2>1. /\ UNCHANGED <<entity, mutation, log, nextSeq, lock, push>>
        /\ UNCHANGED <<pull, scope, cursor, got, answers, handed>>
    BY <1>3, Zenon DEF vars
  <2>2. TypeOK'
    BY <2>1, Zenon DEF TypeOK
  <2>3. HolderInv'
    BY <2>1, Zenon DEF HolderInv
  <2>4. HistoryInv'
    BY <2>1, WorkSame, Zenon DEF HistoryInv, Ordered
  <2>5. HandedInv' /\ PullInv' /\ NothingSkipped'
    BY <2>1, Zenon DEF HandedInv, PullInv, NothingSkipped
  <2>6. DoneInv' /\ AnswersDurable'
    BY <2>1, Zenon DEF DoneInv, AnswersDurable, MutationAt
  <2> QED BY <2>2, <2>3, <2>4, <2>5, <2>6, Zenon
<1> QED BY <1>1, <1>2, <1>3, Zenon DEF Next

\* The inductive invariant, and with it type correctness, NothingSkipped and AnswersDurable,
\* holds of every run: any number of organizations, handlers, devices and batches.
THEOREM SyncSafe == Spec => []SyncInv
BY InitInv, StepInv, PTL DEF Spec

\* Every variable keeps its type.
THEOREM TypeCorrect == Spec => []TypeOK
<1>1. SyncInv => TypeOK
  BY Zenon DEF SyncInv
<1> QED BY <1>1, SyncSafe, PTL

\* A pull cursor never passes a change its device was always allowed to see and has not got.
THEOREM PullSkipsNothing == Spec => []NothingSkipped
<1>1. SyncInv => NothingSkipped
  BY Zenon DEF SyncInv
<1> QED BY <1>1, SyncSafe, PTL

\* What clients were told about a mutation stays what the tables say about it.
THEOREM AnswersStayTrue == Spec => []AnswersDurable
<1>1. SyncInv => AnswersDurable
  BY Zenon DEF SyncInv
<1> QED BY <1>1, SyncSafe, PTL

\* Revisions of an organization are the positions in its change log: unique and without gaps.
THEOREM RevisionsArePositions == Spec => []RevisionIsPosition
<1>1. SyncInv => RevisionIsPosition
  BY Zenon DEF SyncInv, HistoryInv, Consistent, ChangeOK, RevisionIsPosition
<1> QED BY <1>1, SyncSafe, PTL

\* An accepted mutation is one change of the log, and every change is one accepted mutation.
THEOREM MutationsApplyOnce == Spec => []AppliedOnce
<1>1. SyncInv => AppliedOnce
  <2> SUFFICES ASSUME SyncInv, NEW o \in Orgs
               PROVE  /\ \A m \in MutationIds :
                          mutation[o][m] # NoRow /\ mutation[o][m].status = "accepted" =>
                            \E n \in DOMAIN log[o] :
                              log[o][n].mid = m /\ log[o][n].rev = mutation[o][m].rev
                      /\ \A n \in DOMAIN log[o] :
                          LET m == log[o][n].mid
                          IN  mutation[o][m] # NoRow /\ mutation[o][m].status = "accepted"
                              /\ mutation[o][m].rev = log[o][n].rev
    BY Zenon DEF AppliedOnce
  <2>1. /\ \A n \in DOMAIN log[o] : ChangeOK(log[o], mutation[o], n)
        /\ \A m \in MutationIds : MutationOK(log[o], mutation[o], m)
    BY Zenon DEF SyncInv, HistoryInv, Consistent
  <2> QED BY <2>1, ZenonT(30) DEF ChangeOK, MutationOK
<1> QED BY <1>1, SyncSafe, PTL

\* Every accepted change was made on top of the one before it to the same entity, and the entity
\* row is what its last change made it.
THEOREM UpdatesAreNotLost == Spec => []NoLostUpdate
<1>1. SyncInv => NoLostUpdate
  <2> SUFFICES ASSUME SyncInv, NEW o \in Orgs
               PROVE  /\ \A n \in DOMAIN log[o] : \E k \in 0..(n - 1) :
                          /\ IsLast(log[o], log[o][n].ent, n, k)
                          /\ mutation[o][log[o][n].mid].fp.base =
                                IF k = 0 THEN None ELSE log[o][k].rev
                      /\ \A e \in Entities : \E k \in 0..Len(log[o]) :
                          /\ IsLast(log[o], e, Len(log[o]) + 1, k)
                          /\ entity[o][e] = IF k = 0 THEN Absent
                               ELSE [rev |-> log[o][k].rev,
                                     val |-> mutation[o][log[o][k].mid].fp.val]
    BY Zenon DEF NoLostUpdate
  <2> DEFINE h == log[o]
             mu == mutation[o]
             en == entity[o]
  <2>1. /\ \A n \in DOMAIN h : ChangeOK(h, mu, n)
        /\ \A e \in Entities : EntityOK(h, en, mu, e)
        /\ h \in Seq(LogRows)
    BY Zenon DEF SyncInv, HistoryInv, Consistent, TypeOK
  <2> HIDE DEF h, mu, en
  <2>2. DOMAIN h = 1..Len(h) /\ Len(h) \in Nat
    BY <2>1
  <2>3. \A n \in DOMAIN h : h[n].rev = n
    BY <2>1, Zenon DEF ChangeOK
  <2>4. ASSUME NEW n \in DOMAIN h
        PROVE  \E k \in 0..(n - 1) : /\ IsLast(h, h[n].ent, n, k)
                                     /\ mu[h[n].mid].fp.base = IF k = 0 THEN None ELSE h[k].rev
    <3>1. PICK k \in 0..(n - 1) : /\ IsLast(h, h[n].ent, n, k)
                                  /\ mu[h[n].mid].fp.base = IF k = 0 THEN None ELSE k
      BY <2>1, Zenon DEF ChangeOK
    <3>2. k # 0 => h[k].rev = k
      BY <2>2, <2>3
    <3> QED BY <3>1, <3>2, Zenon
  <2>5. ASSUME NEW e \in Entities
        PROVE  \E k \in 0..Len(h) :
                  /\ IsLast(h, e, Len(h) + 1, k)
                  /\ en[e] = IF k = 0 THEN Absent
                             ELSE [rev |-> h[k].rev, val |-> mu[h[k].mid].fp.val]
    <3>1. PICK k \in 0..Len(h) :
            /\ IsLast(h, e, Len(h) + 1, k)
            /\ en[e] = IF k = 0 THEN Absent ELSE [rev |-> k, val |-> mu[h[k].mid].fp.val]
      BY <2>1, Zenon DEF EntityOK
    <3>2. k # 0 => h[k].rev = k
      BY <2>2, <2>3
    <3> QED BY <3>1, <3>2, Zenon
  <2> QED BY <2>4, <2>5, Zenon DEF h, mu, en
<1> QED BY <1>1, SyncSafe, PTL

\* A cursor handed to a client cuts the log for good: what commits later is after it.
THEOREM CursorsAreStable == Spec => CursorIsStableCut
<1> DEFINE A == \A o \in Orgs : \A n \in DOMAIN log'[o] :
                    n > Len(log[o]) => log'[o][n].seq > handed[o]
<1>1. SyncInv /\ [Next]_vars => [A]_vars
  <2> SUFFICES ASSUME SyncInv, Next, NEW o \in Orgs, NEW n \in DOMAIN log'[o], n > Len(log[o])
               PROVE  log'[o][n].seq > handed[o]
    BY Zenon
  <2> USE DEF SyncInv
  <2>1. log[o] \in Seq(LogRows)
    BY Zenon DEF TypeOK
  <2>2. log'[o] # log[o]
    BY <2>1
  <2>3. PICK s \in Sessions : PushStep(s)
    BY <2>2, PullFrame, Zenon DEF Next
  <2>4. CommitPush(s)
    BY <2>2, <2>3, Zenon DEF PushStep, BeginPush, LockOrg, MissingId, PriorMutation, RejectRecord,
                AcceptRecord, RespondPush, RetryPush, FailPush, dbVars
  <2>5. o = push[s].org /\ log'[o] = WorkLog(s) /\ push[s].pc = "apply"
    BY <2>2, <2>4, CommitTables, Zenon
  <2>6. \E k \in DOMAIN push[s].rows : log'[o][n] = push[s].rows[k]
    <3>1. n \in DOMAIN WorkLog(s)
      BY <2>5, Zenon
    <3>2. \/ n \in DOMAIN log[o] /\ WorkLog(s)[n] = log[o][n]
          \/ \E k \in DOMAIN push[s].rows : WorkLog(s)[n] = push[s].rows[k]
      BY <2>4, <2>5, <3>1, CommittedRows, Zenon
    <3>3. n \notin DOMAIN log[o]
      BY <2>1
    <3> QED BY <2>5, <3>2, <3>3, Zenon
  <2> QED BY <2>5, <2>6, Zenon DEF HandedInv
<1> HIDE DEF A
<1>2. Spec => [][A]_vars
  BY <1>1, SyncSafe, PTL DEF Spec
<1> QED BY <1>2, Zenon DEF CursorIsStableCut, A
=============================================================================
