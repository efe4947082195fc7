-------------------------- MODULE LifecycleProofs --------------------------
(* Proofs about Lifecycle, for any quotations, users, capabilities and      *)
(* histories.  A quotation whose history ends in an approval stays as it    *)
(* is: no event may follow one.  From that the refinement of                *)
(* QuotationHandoff follows, and that every approval is by an approver.     *)
EXTENDS Lifecycle, WellFoundedInduction, TLAPS

-----------------------------------------------------------------------------
(* Histories.                                                               *)

\* A history is a sequence of quotation events.
LEMMA HistoryType ==
    ASSUME NEW h \in QuotationHistories
    PROVE  /\ h \in Seq(QuotationEvents) /\ Len(h) \in Nat /\ DOMAIN h = 1..Len(h)
           /\ \A i \in DOMAIN h : h[i].kind \in QuotationKinds /\ h[i].by \in Users
<1>1. h \in Seq(QuotationEvents)
  BY LifecycleConstants
<1>2. Len(h) \in Nat /\ DOMAIN h = 1..Len(h) /\ \A i \in DOMAIN h : h[i] \in QuotationEvents
  BY <1>1
<1> QED
  BY <1>1, <1>2 DEF QuotationEvents

\* The state a history leads to is a status, and so is every state of its closure.
LEMMA StateType ==
    ASSUME NEW h \in QuotationHistories
    PROVE  Closure(StateAfter(h, Len(h))) \subseteq Statuses
<1>1. StateAfter(h, Len(h)) \in QuotationKinds \cup {"draft"}
  BY HistoryType DEF StateAfter
<1> QED
  BY <1>1 DEF Closure, Statuses, QuotationKinds

\* Sent and approved are the status of a document only right after such an event.
LEMMA ClosureOnlyOf ==
    ASSUME NEW s \in QuotationKinds \cup {"draft"}, NEW t \in {"sent", "approved"}
    PROVE  t \in Closure(s) <=> s = t
BY DEF Closure, QuotationKinds

\* _apply_quotation_event: nothing follows an approval, and an approval follows a sending.
LEMMA EventsAroundApproval ==
    ASSUME NEW h \in QuotationHistories, ValidOrder(h), NEW i \in DOMAIN h
    PROVE  /\ StateAfter(h, i - 1) # "approved"
           /\ h[i].kind = "approved" => StateAfter(h, i - 1) = "sent"
<1> DEFINE s == StateAfter(h, i - 1)
<1>1. i \in Nat /\ i >= 1 /\ (i # 1 => i - 1 \in DOMAIN h)
  BY HistoryType
<1>2. s \in QuotationKinds \cup {"draft"}
  <2>1. CASE i = 1
    BY <2>1 DEF StateAfter
  <2>2. CASE i # 1
    BY <1>1, <2>2, HistoryType DEF StateAfter
  <2> QED
    BY <2>1, <2>2
<1>3. h[i].kind \in QuotationKinds
  BY HistoryType
<1>4. Closure(s) \cap Before(h[i].kind) # {}
  BY DEF ValidOrder
<1> HIDE DEF s
<1>5. s # "approved"
  BY <1>3, <1>4 DEF Closure, Before, QuotationKinds
<1>6. h[i].kind = "approved" => s = "sent"
  BY <1>2, <1>4 DEF Closure, Before, QuotationKinds
<1> QED
  BY <1>5, <1>6 DEF s

-----------------------------------------------------------------------------
(* One accepted push.                                                       *)

\* A document of the types PushQuotation builds.
LEMMA PushedDocument ==
    ASSUME NEW h \in QuotationHistories, NEW s \in Closure(StateAfter(h, Len(h))), NEW c \in Contents,
           NEW r \in 1..MaxRevision, NEW p \in Quotations \cup {NoDoc}
    PROVE  [status |-> s, content |-> c, revision |-> r, supersedes |-> p, events |-> h] \in QuotationDocs
BY StateType DEF QuotationDocs

\* What TypeOK says of a stored document.
StoredDoc(doc) ==
    /\ doc \in QuotationDocs /\ ValidOrder(doc.events)
    /\ doc.status \in Closure(StateAfter(doc.events, Len(doc.events)))

\* The status of a stored document is sent or approved exactly when its last event is.
LEMMA StatusOfDocument ==
    ASSUME NEW doc, StoredDoc(doc), NEW t \in {"sent", "approved"}
    PROVE  doc.status = t <=> StateAfter(doc.events, Len(doc.events)) = t
<1>1. doc.events \in QuotationHistories
  BY DEF StoredDoc, QuotationDocs
<1>2. StateAfter(doc.events, Len(doc.events)) \in QuotationKinds \cup {"draft"}
  BY <1>1, HistoryType DEF StateAfter
<1>3. doc.status = t => StateAfter(doc.events, Len(doc.events)) = t
  BY <1>2, ClosureOnlyOf DEF StoredDoc
<1>4. StateAfter(doc.events, Len(doc.events)) = t => Closure(t) = {t}
  BY DEF Closure
<1> QED
  BY <1>3, <1>4 DEF StoredDoc

\* A change of an approved quotation is no change of status or history.
LEMMA ApprovedStays ==
    ASSUME NEW cur, StoredDoc(cur), cur.status = "approved",
           NEW new, StoredDoc(new), cur # NoDoc, Extends(cur, new.events)
    PROVE  new.status = "approved"
<1> DEFINE e == cur.events
           f == new.events
<1>1. e \in QuotationHistories /\ f \in QuotationHistories
  BY DEF StoredDoc, QuotationDocs
<1>2. /\ Len(e) \in Nat /\ Len(f) \in Nat /\ DOMAIN e = 1..Len(e) /\ DOMAIN f = 1..Len(f)
      /\ Len(e) <= Len(f) /\ \A i \in DOMAIN e : f[i] = e[i]
  BY <1>1, HistoryType DEF Extends
<1>3. StateAfter(e, Len(e)) = "approved"
  BY StatusOfDocument
<1>4. Len(e) # 0 /\ StateAfter(f, Len(e)) = "approved"
  BY <1>2, <1>3 DEF StateAfter
<1>5. ~(Len(f) > Len(e))
  <2> SUFFICES ASSUME Len(f) > Len(e) PROVE FALSE
    OBVIOUS
  <2>1. Len(e) + 1 \in DOMAIN f /\ (Len(e) + 1) - 1 = Len(e)
    BY <1>2
  <2>2. StateAfter(f, (Len(e) + 1) - 1) # "approved"
    BY <1>1, <2>1, EventsAroundApproval DEF StoredDoc
  <2> QED
    BY <1>4, <2>1, <2>2
<1>6. StateAfter(f, Len(f)) = "approved"
  BY <1>2, <1>4, <1>5
<1> QED
  BY <1>6, StatusOfDocument

\* Approvals in an accepted document are by an approver: there is only the one it ends in, and
\* that is by the user who pushes.
LEMMA AcceptedApprovals ==
    ASSUME NEW u, NEW q, NEW cur, NEW new, StoredDoc(new), QuotationValid(u, q, cur, new),
           NEW i \in DOMAIN new.events, new.events[i].kind = "approved"
    PROVE  "quotation.approve" \in Caps[new.events[i].by]
<1> DEFINE e == new.events
<1>1. e \in QuotationHistories
  BY DEF StoredDoc, QuotationDocs
<1>2. Len(e) \in Nat /\ DOMAIN e = 1..Len(e) /\ i \in 1..Len(e)
  BY <1>1, HistoryType
<1>3. i = Len(e)
  <2> SUFFICES ASSUME i # Len(e) PROVE FALSE
    OBVIOUS
  <2>1. i + 1 \in DOMAIN e /\ (i + 1) - 1 = i /\ i # 0
    BY <1>2
  <2>2. StateAfter(e, (i + 1) - 1) # "approved"
    BY <1>1, <2>1, EventsAroundApproval DEF StoredDoc
  <2> QED
    BY <2>1, <2>2 DEF StateAfter
<1>4. StateAfter(e, Len(e)) = "approved"
  BY <1>2, <1>3 DEF StateAfter
<1>5. new.status = "approved"
  BY <1>4, StatusOfDocument
<1>6. "quotation.approve" \in Caps[u] /\ e[Len(e)].by = u
  BY <1>5 DEF QuotationValid, CapabilityFor, ContentLocked, ByCurrentActor
<1> QED
  BY <1>3, <1>6

\* A document accepted as sent or approved says what was last sent: either this push sends it, or
\* the stored document was sent or approved and its content is locked.
LEMMA AcceptedAsSent ==
    ASSUME NEW u, NEW q, NEW cur, cur # NoDoc => StoredDoc(cur), NEW new, StoredDoc(new),
           QuotationValid(u, q, cur, new), new.status \in {"sent", "approved"},
           \A i \in Appended(cur, new.events) : new.events[i].kind # "sent"
    PROVE  cur # NoDoc /\ cur.status \in {"sent", "approved"} /\ new.content = cur.content
<1> DEFINE f == new.events
           n == Len(f)
<1>1. f \in QuotationHistories
  BY DEF StoredDoc, QuotationDocs
<1>2. n \in Nat /\ DOMAIN f = 1..n
  BY <1>1, HistoryType
<1>3. StateAfter(f, n) = new.status /\ n # 0
  <2>1. StateAfter(f, n) = new.status
    BY StatusOfDocument
  <2> QED
    BY <2>1 DEF StateAfter
<1>4. n \in DOMAIN f /\ f[n].kind = new.status
  BY <1>2, <1>3 DEF StateAfter
<1>5. new.status = "approved" => n - 1 \in DOMAIN f /\ f[n - 1].kind = "sent"
  <2> SUFFICES ASSUME new.status = "approved" PROVE n - 1 \in DOMAIN f /\ f[n - 1].kind = "sent"
    OBVIOUS
  <2>1. StateAfter(f, n - 1) = "sent"
    BY <1>1, <1>4, EventsAroundApproval DEF StoredDoc
  <2>2. n - 1 # 0
    BY <2>1 DEF StateAfter
  <2>3. f[n - 1].kind = "sent"
    BY <2>1, <2>2 DEF StateAfter
  <2> HIDE DEF f, n
  <2>4. n - 1 \in DOMAIN f
    BY <1>2, <1>3, <2>2
  <2> QED
    BY <2>3, <2>4
<1>6. cur # NoDoc
  BY <1>4, <1>5 DEF Appended
<1> DEFINE e == cur.events
<1>7. e \in QuotationHistories
  BY <1>6 DEF StoredDoc, QuotationDocs
<1>8. /\ Len(e) \in Nat /\ DOMAIN e = 1..Len(e) /\ Len(e) <= n
      /\ \A i \in DOMAIN e : f[i] = e[i]
  BY <1>6, <1>7, HistoryType DEF QuotationValid, Extends
<1>9. \A i \in DOMAIN f : f[i].kind = "sent" => i \in DOMAIN e
  BY <1>6 DEF Appended
<1>10. StateAfter(e, Len(e)) \in {"sent", "approved"}
  <2>1. CASE n \in DOMAIN e
    <3>1. Len(e) = n /\ e[Len(e)].kind = new.status
      BY <1>4, <1>8, <2>1
    <3> QED
      BY <1>3, <3>1 DEF StateAfter
  <2>2. CASE n \notin DOMAIN e
    <3>1. new.status = "approved"
      BY <1>4, <1>9, <2>2
    <3>2. Len(e) = n - 1 /\ e[Len(e)].kind = "sent" /\ Len(e) # 0
      <4>1. n - 1 \in DOMAIN e /\ f[n - 1].kind = "sent"
        BY <1>5, <1>9, <3>1, Zenon
      <4>2. e[n - 1].kind = "sent"
        BY <1>8, <4>1, Zenon
      <4> HIDE DEF n, e, f
      <4>4. Len(e) = n - 1 /\ Len(e) # 0
        BY <1>2, <1>8, <1>4, <2>2, <4>1
      <4> QED
        BY <4>2, <4>4, Zenon
    <3>3. StateAfter(e, Len(e)) = e[Len(e)].kind
      BY <3>2, Zenon DEF StateAfter
    <3> QED
      BY <3>2, <3>3, Zenon
  <2> QED
    BY <2>1, <2>2
<1>11. cur.status \in {"sent", "approved"}
  BY <1>6, <1>10, StatusOfDocument
<1> QED
  BY <1>6, <1>11 DEF QuotationValid, Keeps, ContentLocked

-----------------------------------------------------------------------------
(* The histories of blockers.                                               *)

\* Induction, as a fact about sets of numbers.
LEMMA SetInduction ==
    ASSUME NEW T, T \subseteq Nat, 0 \in T, \A n \in T : n + 1 \in T
    PROVE  \A n \in Nat : n \in T
<1> SUFFICES ASSUME Nat \ T # {} PROVE FALSE
  BY Zenon
<1> DEFINE U == Nat \ T
<1>1. PICK m \in U : \A k \in U : <<k, m>> \notin OpToRel(<, Nat)
  BY WFMin, NatLessThanWellFounded, Zenon
<1>2. \A k \in U : ~(k < m)
  BY <1>1, Zenon DEF OpToRel
<1> QED
  BY <1>2

\* f[i] is what the first i events of h lead to, for i up to n.
NewBlocker == [state |-> "new", snapshot |-> NoDoc]
Leads(f, h, n) ==
    f = [i \in 0..n |-> IF i = 0 THEN NewBlocker ELSE BlockerStep(f[i - 1], h[i])]

LEMMA LeadsExists ==
    ASSUME NEW h, NEW m \in Nat
    PROVE  \E f : Leads(f, h, m)
<1> DEFINE T == {n \in Nat : \E f : Leads(f, h, n)}
<1>1. 0 \in T
  <2> DEFINE f == [i \in 0..0 |-> NewBlocker]
  <2>1. Leads(f, h, 0)
    BY DEF Leads
  <2> QED
    BY <2>1, Zenon
<1>2. ASSUME NEW n \in T PROVE n + 1 \in T
  <2>1. PICK f : Leads(f, h, n)
    BY Zenon
  <2> DEFINE g == [i \in 0..(n + 1) |-> IF i <= n THEN f[i] ELSE BlockerStep(f[n], h[n + 1])]
  <2>2. n \in Nat
    BY Zenon
  <2>3. \A i \in 0..n : f[i] = IF i = 0 THEN NewBlocker ELSE BlockerStep(f[i - 1], h[i])
    BY <2>1, Zenon DEF Leads
  <2>4. \A i \in 0..(n + 1) : g[i] = IF i = 0 THEN NewBlocker ELSE BlockerStep(g[i - 1], h[i])
    BY <2>2, <2>3
  <2>5. g = [i \in 0..(n + 1) |-> g[i]]
    BY Zenon
  <2> HIDE DEF g
  <2>6. Leads(g, h, n + 1)
    BY <2>4, <2>5, Zenon DEF Leads
  <2> QED
    BY <2>6
<1>3. T \subseteq Nat /\ \A n \in T : n + 1 \in T
  BY <1>2
<1> HIDE DEF T
<1>4. m \in T
  BY <1>1, <1>3, SetInduction, Zenon
<1> QED
  BY <1>4, Zenon DEF T

\* The last of the resolutions among the first n events has not been undone.
StaysResolved(h, n) ==
    \E i \in 1..n : h[i].kind = "resolved" /\ \A j \in i + 1 .. n : h[j].kind # "reopened"

\* One more event.
LEMMA StaysResolvedStep ==
    ASSUME NEW h, NEW n \in Nat
    PROVE  /\ ~StaysResolved(h, 0)
           /\ h[n + 1].kind = "resolved" => StaysResolved(h, n + 1)
           /\ h[n + 1].kind = "reopened" => ~StaysResolved(h, n + 1)
           /\ h[n + 1].kind \notin {"resolved", "reopened"} =>
                (StaysResolved(h, n + 1) <=> StaysResolved(h, n))
<1>1. ~StaysResolved(h, 0)
  BY DEF StaysResolved
<1>2. ASSUME h[n + 1].kind = "resolved" PROVE StaysResolved(h, n + 1)
  <2>1. n + 1 \in 1..(n + 1) /\ \A j \in (n + 1) + 1 .. n + 1 : h[j].kind # "reopened"
    OBVIOUS
  <2> QED
    BY <1>2, <2>1 DEF StaysResolved
<1>3. ASSUME h[n + 1].kind = "reopened", StaysResolved(h, n + 1) PROVE FALSE
  <2>1. PICK i \in 1..(n + 1) :
          h[i].kind = "resolved" /\ \A j \in i + 1 .. n + 1 : h[j].kind # "reopened"
    BY <1>3 DEF StaysResolved
  <2>2. i # n + 1
    BY <1>3, <2>1
  <2>3. n + 1 \in i + 1 .. n + 1
    BY <2>2
  <2> QED
    BY <1>3, <2>1, <2>3
<1>4. ASSUME h[n + 1].kind \notin {"resolved", "reopened"}, StaysResolved(h, n + 1)
      PROVE  StaysResolved(h, n)
  <2>1. PICK i \in 1..(n + 1) :
          h[i].kind = "resolved" /\ \A j \in i + 1 .. n + 1 : h[j].kind # "reopened"
    BY <1>4 DEF StaysResolved
  <2>2. i \in 1..n
    BY <1>4, <2>1
  <2>3. \A j \in i + 1 .. n : j \in i + 1 .. n + 1
    BY <2>2
  <2> QED
    BY <2>1, <2>2, <2>3 DEF StaysResolved
<1>5. ASSUME h[n + 1].kind \notin {"resolved", "reopened"}, StaysResolved(h, n)
      PROVE  StaysResolved(h, n + 1)
  <2>1. PICK i \in 1..n : h[i].kind = "resolved" /\ \A j \in i + 1 .. n : h[j].kind # "reopened"
    BY <1>5 DEF StaysResolved
  <2>2. i \in 1..(n + 1) /\ \A j \in i + 1 .. n + 1 : j \in i + 1 .. n \/ j = n + 1
    OBVIOUS
  <2> QED
    BY <1>5, <2>1, <2>2 DEF StaysResolved
<1> QED
  BY <1>1, <1>2, <1>3, <1>4, <1>5

\* What validate_blocker_lifecycle's replay makes of a whole history, however long: a blocker
\* comes out resolved exactly when its last resolution has not been undone.
LEMMA BlockerReplay ==
    ASSUME NEW h \in BlockerHistories, BlockerState(h) \in {"open", "resolved"}
    PROVE  BlockerState(h) = "resolved" <=> StaysResolved(h, Len(h))
<1>1. /\ Len(h) \in Nat /\ Len(h) >= 1 /\ DOMAIN h = 1..Len(h)
      /\ \A i \in 1..Len(h) : h[i].kind \in BlockerKinds
  <2>1. h \in Seq(BlockerEvents) /\ h # <<>>
    BY LifecycleConstants
  <2>2. \A e \in BlockerEvents : e.kind \in BlockerKinds
    BY DEF BlockerEvents
  <2> QED
    BY <2>1, <2>2
<1> DEFINE g == CHOOSE f : Leads(f, h, Len(h))
<1>2. Leads(g, h, Len(h))
  BY <1>1, LeadsExists, Zenon
<1>3. BlockerState(h) = g[Len(h)].state
  BY Zenon DEF BlockerState, Leads, NewBlocker
<1> HIDE DEF g
<1>4. \A i \in 0..Len(h) : g[i] = IF i = 0 THEN NewBlocker ELSE BlockerStep(g[i - 1], h[i])
  BY <1>2, Zenon DEF Leads
<1> DEFINE Fine(n) == /\ g[n].state = "new" => n = 0
                      /\ g[n].state = "open" => ~StaysResolved(h, n)
                      /\ g[n].state = "resolved" => StaysResolved(h, n)
           T == {n \in Nat : n <= Len(h) => Fine(n)}
<1>5. Fine(0)
  <2>1. g[0] = NewBlocker
    BY <1>1, <1>4
  <2> QED
    BY <2>1 DEF NewBlocker
<1>6. ASSUME NEW n \in Nat, n + 1 <= Len(h), Fine(n) PROVE Fine(n + 1)
  <2>1. g[n + 1] = BlockerStep(g[n], h[n + 1]) /\ h[n + 1].kind \in BlockerKinds /\ n + 1 # 0
    BY <1>1, <1>4, <1>6
  <2>2. g[n + 1].state =
          CASE h[n + 1].kind = "created" /\ g[n].state = "new" -> "open"
            [] h[n + 1].kind = "updated" /\ g[n].state \in {"open", "resolved"}
               /\ h[n + 1].snapshot # g[n].snapshot -> g[n].state
            [] h[n + 1].kind = "resolved" /\ g[n].state = "open" -> "resolved"
            [] h[n + 1].kind = "reopened" /\ g[n].state = "resolved" -> "open"
            [] OTHER -> "invalid"
    BY <2>1 DEF BlockerStep
  <2>3. CASE h[n + 1].kind = "created"
    <3>1. g[n + 1].state \in {"open", "invalid"} /\ (g[n + 1].state = "open" => n = 0)
      BY <1>6, <2>2, <2>3
    <3>2. g[n + 1].state = "open" => ~StaysResolved(h, n + 1)
      BY <2>3, <3>1, StaysResolvedStep
    <3> QED
      BY <3>1, <3>2
  <2>4. CASE h[n + 1].kind = "updated"
    <3>1. g[n + 1].state \in {"open", "resolved"} => g[n + 1].state = g[n].state
      BY <2>2, <2>4
    <3>2. g[n + 1].state # "new"
      BY <2>2, <2>4
    <3> QED
      BY <1>6, <2>4, <3>1, <3>2, StaysResolvedStep
  <2>5. CASE h[n + 1].kind = "resolved"
    <3>1. g[n + 1].state \in {"resolved", "invalid"}
      BY <2>2, <2>5
    <3> QED
      BY <2>5, <3>1, StaysResolvedStep
  <2>6. CASE h[n + 1].kind = "reopened"
    <3>1. g[n + 1].state \in {"open", "invalid"}
      BY <2>2, <2>6
    <3> QED
      BY <2>6, <3>1, StaysResolvedStep
  <2> QED
    BY <2>1, <2>3, <2>4, <2>5, <2>6 DEF BlockerKinds
<1>7. Fine(Len(h))
  <2> HIDE DEF Fine
  <2>1. T \subseteq Nat /\ 0 \in T
    BY <1>5
  <2>2. ASSUME NEW n \in T PROVE n + 1 \in T
    BY <1>1, <1>6
  <2> HIDE DEF T
  <2>3. Len(h) \in T
    BY <1>1, <2>1, <2>2, SetInduction, Zenon
  <2> QED
    BY <1>1, <2>3 DEF T
<1> QED
  BY <1>3, <1>7

-----------------------------------------------------------------------------
(* The invariant.                                                           *)

\* A quotation that is sent, not only one that is approved, says what it said when it was sent.
SentAsSent ==
    \A q \in Quotations : quotation[q] # NoDoc =>
        (quotation[q].status \in {"sent", "approved"} => quotation[q].content = sentAs[q])

Inv == TypeOK /\ SentAsSent /\ ApprovalsAreAuthentic /\ RevisionsAreContiguous

\* What an accepted push of a quotation does, in one place for the steps below.
LEMMA PushFacts ==
    ASSUME TypeOK, NEW u \in Users, NEW q \in Quotations, PushQuotation(u, q)
    PROVE  \E new :
             /\ StoredDoc(new) /\ new # NoDoc /\ QuotationValid(u, q, quotation[q], new)
             /\ quotation' = [quotation EXCEPT ![q] = new]
             /\ sentAs' = IF \E i \in Appended(quotation[q], new.events) : new.events[i].kind = "sent"
                          THEN [sentAs EXCEPT ![q] = new.content] ELSE sentAs
             /\ blocker' = blocker /\ erased' = erased
<1>1. PICK h \in {g \in QuotationHistories : Extends(quotation[q], g)} :
        \E s \in Closure(StateAfter(h, Len(h))), c \in Contents, r \in 1..MaxRevision, p \in Quotations \cup {NoDoc} :
          LET new == [status |-> s, content |-> c, revision |-> r, supersedes |-> p, events |-> h] IN
          /\ QuotationValid(u, q, quotation[q], new)
          /\ quotation' = [quotation EXCEPT ![q] = new]
          /\ sentAs' = IF \E i \in Appended(quotation[q], h) : h[i].kind = "sent"
                       THEN [sentAs EXCEPT ![q] = c] ELSE sentAs
          /\ UNCHANGED <<blocker, erased>>
  BY Zenon DEF PushQuotation
<1>2. PICK s \in Closure(StateAfter(h, Len(h))), c \in Contents, r \in 1..MaxRevision, p \in Quotations \cup {NoDoc} :
          LET new == [status |-> s, content |-> c, revision |-> r, supersedes |-> p, events |-> h] IN
          /\ QuotationValid(u, q, quotation[q], new)
          /\ quotation' = [quotation EXCEPT ![q] = new]
          /\ sentAs' = IF \E i \in Appended(quotation[q], h) : h[i].kind = "sent"
                       THEN [sentAs EXCEPT ![q] = c] ELSE sentAs
          /\ UNCHANGED <<blocker, erased>>
  BY <1>1, Zenon
<1> DEFINE new == [status |-> s, content |-> c, revision |-> r, supersedes |-> p, events |-> h]
<1>3. new \in QuotationDocs
  BY PushedDocument
<1>4. new.content = c /\ new.events = h /\ new.status = s
  OBVIOUS
<1>5. QuotationValid(u, q, quotation[q], new)
  BY <1>2, Zenon
<1>6. new # NoDoc
  BY <1>3, LifecycleConstants
<1>7. quotation' = [quotation EXCEPT ![q] = new] /\ UNCHANGED <<blocker, erased>>
  BY <1>2, Zenon
<1>8. sentAs' = IF \E i \in Appended(quotation[q], new.events) : new.events[i].kind = "sent"
                THEN [sentAs EXCEPT ![q] = new.content] ELSE sentAs
  BY <1>2, <1>4, Zenon
<1>9. StoredDoc(new)
  <2> HIDE DEF new
  <2> QED
    BY <1>3, <1>5 DEF StoredDoc, QuotationValid
<1> HIDE DEF new
<1> QED
  BY <1>5, <1>6, <1>7, <1>8, <1>9, Zenon

\* A stored document is what TypeOK says of it.
LEMMA StoredOfType ==
    ASSUME TypeOK, NEW q \in Quotations, quotation[q] # NoDoc
    PROVE  StoredDoc(quotation[q])
BY DEF TypeOK, StoredDoc

-----------------------------------------------------------------------------
(* Every step preserves the invariant.                                      *)

LEMMA PushQuotationPreserves ==
    ASSUME Inv, NEW u \in Users, NEW q \in Quotations, PushQuotation(u, q)
    PROVE  Inv'
<1> DEFINE cur == quotation[q]
<1>1. PICK new :
        /\ StoredDoc(new) /\ new # NoDoc /\ QuotationValid(u, q, quotation[q], new)
        /\ quotation' = [quotation EXCEPT ![q] = new]
        /\ sentAs' = IF \E i \in Appended(quotation[q], new.events) : new.events[i].kind = "sent"
                     THEN [sentAs EXCEPT ![q] = new.content] ELSE sentAs
        /\ blocker' = blocker /\ erased' = erased
  BY PushFacts DEF Inv
<1>2. quotation \in [Quotations -> QuotationDocs \cup {NoDoc}] /\ sentAs \in [Quotations -> Contents \cup {NoDoc}]
  BY DEF Inv, TypeOK
<1>3. quotation'[q] = new /\ \A r \in Quotations \ {q} : quotation'[r] = quotation[r]
  BY <1>1, <1>2
<1>4. \A r \in Quotations \ {q} : sentAs'[r] = sentAs[r]
  BY <1>1, <1>2
<1>5. new \in QuotationDocs /\ new.content \in Contents
  BY <1>1 DEF StoredDoc, QuotationDocs
<1>6. TypeOK'
  <2>1. quotation' \in [Quotations -> QuotationDocs \cup {NoDoc}]
    BY <1>1, <1>2, <1>5
  <2>2. sentAs' \in [Quotations -> Contents \cup {NoDoc}]
    BY <1>1, <1>2, <1>5
  <2>3. ASSUME NEW r \in Quotations, quotation'[r] # NoDoc
        PROVE  /\ ValidOrder(quotation'[r].events)
               /\ quotation'[r].status \in Closure(StateAfter(quotation'[r].events, Len(quotation'[r].events)))
    <3>1. CASE r = q
      BY <1>1, <1>3, <3>1 DEF StoredDoc
    <3>2. CASE r # q
      BY <1>3, <2>3, <3>2 DEF Inv, TypeOK
    <3> QED
      BY <3>1, <3>2
  <2> QED
    BY <1>1, <2>1, <2>2, <2>3 DEF Inv, TypeOK
<1>7. SentAsSent'
  <2> SUFFICES ASSUME NEW r \in Quotations, quotation'[r] # NoDoc,
                      quotation'[r].status \in {"sent", "approved"}
               PROVE  quotation'[r].content = sentAs'[r]
    BY Zenon DEF SentAsSent
  <2>1. CASE r # q
    BY <1>3, <1>4, <2>1 DEF Inv, SentAsSent
  <2>2. CASE r = q /\ \E i \in Appended(cur, new.events) : new.events[i].kind = "sent"
    BY <1>1, <1>2, <1>3, <2>2
  <2>3. CASE r = q /\ \A i \in Appended(cur, new.events) : new.events[i].kind # "sent"
    <3>1. cur # NoDoc => StoredDoc(cur)
      BY StoredOfType DEF Inv
    <3>2. cur # NoDoc /\ cur.status \in {"sent", "approved"} /\ new.content = cur.content
      BY <1>1, <1>3, <2>3, <3>1, AcceptedAsSent
    <3>3. sentAs' = sentAs
      BY <1>1, <2>3
    <3> QED
      BY <1>3, <2>3, <3>2, <3>3 DEF Inv, SentAsSent
  <2> QED
    BY <2>1, <2>2, <2>3
<1>8. ApprovalsAreAuthentic'
  <2> SUFFICES ASSUME NEW r \in Quotations, quotation'[r] # NoDoc,
                      NEW i \in DOMAIN quotation'[r].events, quotation'[r].events[i].kind = "approved"
               PROVE  "quotation.approve" \in Caps[quotation'[r].events[i].by]
    BY Zenon DEF ApprovalsAreAuthentic
  <2>1. CASE r = q
    BY <1>1, <1>3, <2>1, AcceptedApprovals
  <2>2. CASE r # q
    BY <1>3, <2>2 DEF Inv, ApprovalsAreAuthentic
  <2> QED
    BY <2>1, <2>2
<1>9. RevisionsAreContiguous'
  <2> SUFFICES ASSUME NEW r \in Quotations, quotation'[r] # NoDoc,
                      quotation'[r].supersedes \notin erased \cup {NoDoc}
               PROVE  LET p == quotation'[quotation'[r].supersedes] IN
                      p # NoDoc /\ p.revision + 1 = quotation'[r].revision
    BY <1>1, Zenon DEF RevisionsAreContiguous
  <2> DEFINE p == quotation'[r].supersedes
  <2>1. \A x \in QuotationDocs : x.supersedes \in Quotations \cup {NoDoc} /\ x.revision \in 1..MaxRevision
    BY DEF QuotationDocs
  <2>2. p \in Quotations
    BY <1>2, <1>3, <1>5, <2>1
  <2>3. MaxRevision \in Nat
    BY LifecycleConstants
  <2>4. ASSUME NEW x \in Quotations, quotation[x] # NoDoc, quotation[x].supersedes \notin erased \cup {NoDoc}
        PROVE  /\ quotation[quotation[x].supersedes] # NoDoc
               /\ quotation[quotation[x].supersedes].revision + 1 = quotation[x].revision
    BY <2>4 DEF Inv, RevisionsAreContiguous
  <2>5. cur # NoDoc => new.revision = cur.revision /\ new.supersedes = cur.supersedes
    BY <1>1 DEF QuotationValid, Keeps
  <2>6. CASE r # q
    <3>1. quotation[p] # NoDoc /\ quotation[p].revision + 1 = quotation'[r].revision
      BY <1>3, <2>4, <2>6
    <3>2. CASE p = q
      BY <1>1, <1>3, <2>5, <3>1, <3>2
    <3>3. CASE p # q
      BY <1>3, <2>2, <3>1, <3>3
    <3> QED
      BY <3>2, <3>3
  <2>7. CASE r = q /\ cur = NoDoc
    <3>1. Replaces(q, new) /\ new.supersedes # NoDoc
      BY <1>1, <1>3, <2>7 DEF QuotationValid
    <3>2. p # q /\ quotation[p] # NoDoc /\ quotation[p].revision = new.revision - 1
      BY <1>3, <2>7, <3>1 DEF Replaces
    <3>3. new.revision \in Nat
      BY <1>5, <2>1, <2>3
    <3> QED
      BY <1>3, <2>2, <2>7, <3>2, <3>3
  <2>8. CASE r = q /\ cur # NoDoc
    <3>1. quotation[p] # NoDoc /\ quotation[p].revision + 1 = new.revision
      BY <1>3, <2>4, <2>5, <2>8
    <3>2. p # q
      <4>1. cur \in QuotationDocs
        BY <1>2, <2>8
      <4>2. cur.revision \in Nat /\ cur.revision + 1 # cur.revision
        BY <2>1, <2>3, <4>1
      <4> QED
        BY <2>5, <2>8, <3>1, <4>2
    <3> QED
      BY <1>3, <2>2, <2>8, <3>1, <3>2
  <2> QED
    BY <2>6, <2>7, <2>8
<1> QED
  BY <1>6, <1>7, <1>8, <1>9 DEF Inv

\* A deletion takes the terms, and every claim about the quotation, with it.
LEMMA DeleteQuotationPreserves ==
    ASSUME Inv, NEW u \in Users, NEW q \in Quotations, DeleteQuotation(u, q)
    PROVE  Inv'
<1>1. quotation \in [Quotations -> QuotationDocs \cup {NoDoc}] /\ sentAs \in [Quotations -> Contents \cup {NoDoc}]
  BY DEF Inv, TypeOK
<1>2. /\ quotation' = [quotation EXCEPT ![q] = NoDoc] /\ sentAs' = [sentAs EXCEPT ![q] = NoDoc]
      /\ erased' = erased \cup {q} /\ blocker' = blocker
  BY DEF DeleteQuotation
<1>3. /\ quotation'[q] = NoDoc
      /\ \A r \in Quotations \ {q} : quotation'[r] = quotation[r] /\ sentAs'[r] = sentAs[r]
  BY <1>1, <1>2
<1>4. TypeOK'
  <2>1. /\ quotation' \in [Quotations -> QuotationDocs \cup {NoDoc}]
        /\ sentAs' \in [Quotations -> Contents \cup {NoDoc}]
    BY <1>1, <1>2
  <2>2. \A r \in Quotations : quotation'[r] # NoDoc => quotation'[r] = quotation[r]
    BY <1>3
  <2>3. \A r \in Quotations : quotation'[r] # NoDoc =>
           /\ ValidOrder(quotation'[r].events)
           /\ quotation'[r].status \in Closure(StateAfter(quotation'[r].events, Len(quotation'[r].events)))
    BY <2>2, Zenon DEF Inv, TypeOK
  <2> QED
    BY <1>2, <2>1, <2>3 DEF Inv, TypeOK
<1>5. SentAsSent' /\ ApprovalsAreAuthentic'
  BY <1>3 DEF Inv, SentAsSent, ApprovalsAreAuthentic
<1>6. RevisionsAreContiguous'
  <2> SUFFICES ASSUME NEW r \in Quotations, quotation'[r] # NoDoc,
                      quotation'[r].supersedes \notin erased' \cup {NoDoc}
               PROVE  LET p == quotation'[quotation'[r].supersedes] IN
                      p # NoDoc /\ p.revision + 1 = quotation'[r].revision
    BY Zenon DEF RevisionsAreContiguous
  <2>1. r # q /\ quotation'[r] = quotation[r]
    BY <1>3
  <2>2. quotation[r].supersedes \in Quotations \ {q}
    BY <1>1, <1>2, <2>1 DEF QuotationDocs
  <2> QED
    BY <1>2, <1>3, <2>1, <2>2 DEF Inv, RevisionsAreContiguous
<1> QED
  BY <1>4, <1>5, <1>6 DEF Inv

\* A step of a blocker leaves the quotations alone.
LEMMA BlockerStepPreserves ==
    ASSUME Inv, NEW b \in Blockers, (\E u \in Users : PushBlocker(u, b)) \/ DeleteBlocker(b)
    PROVE  Inv'
<1>1. UNCHANGED <<quotation, sentAs, erased>>
  BY Zenon DEF PushBlocker, DeleteBlocker
<1>2. \E doc \in BlockerDocs \cup {NoDoc} :
        /\ blocker' = [blocker EXCEPT ![b] = doc]
        /\ doc # NoDoc => doc.status = BlockerState(doc.events)
  <2>1. CASE DeleteBlocker(b)
    BY <2>1, ZenonT(30) DEF DeleteBlocker
  <2>2. ASSUME NEW u \in Users, PushBlocker(u, b)
        PROVE  \E doc \in BlockerDocs : blocker' = [blocker EXCEPT ![b] = doc] /\ doc.status = BlockerState(doc.events)
    <3>1. PICK h \in BlockerHistories, s \in {"open", "resolved"}, c \in Contents :
            LET new == [status |-> s, content |-> c, events |-> h] IN
            BlockerValid(u, blocker[b], new) /\ blocker' = [blocker EXCEPT ![b] = new]
      BY <2>2, Zenon DEF PushBlocker
    <3> DEFINE new == [status |-> s, content |-> c, events |-> h]
    <3>2. new \in BlockerDocs
      BY DEF BlockerDocs
    <3>3. BlockerValid(u, blocker[b], new) /\ blocker' = [blocker EXCEPT ![b] = new]
      BY <3>1, Zenon
    <3> HIDE DEF new
    <3>4. new.status = BlockerState(new.events)
      BY <3>3, Zenon DEF BlockerValid
    <3> QED
      BY <3>2, <3>3, <3>4, Zenon
  <2> QED
    BY <2>1, <2>2, Zenon
<1>3. PICK doc \in BlockerDocs \cup {NoDoc} :
        /\ blocker' = [blocker EXCEPT ![b] = doc]
        /\ doc # NoDoc => doc.status = BlockerState(doc.events)
  BY <1>2, Zenon
<1>4. blocker \in [Blockers -> BlockerDocs \cup {NoDoc}]
  BY DEF Inv, TypeOK
<1>5. /\ blocker' \in [Blockers -> BlockerDocs \cup {NoDoc}]
      /\ \A x \in Blockers : blocker'[x] = IF x = b THEN doc ELSE blocker[x]
  BY <1>3, <1>4
<1>6. \A x \in Blockers : blocker'[x] # NoDoc => blocker'[x].status = BlockerState(blocker'[x].events)
  <2> TAKE x \in Blockers
  <2>1. CASE x = b
    BY <1>3, <1>5, <2>1, Zenon
  <2>2. CASE x # b
    BY <1>5, <2>2, Zenon DEF Inv, TypeOK
  <2> QED
    BY <2>1, <2>2
<1>7. TypeOK'
  BY <1>1, <1>5, <1>6, Zenon DEF Inv, TypeOK
<1>8. SentAsSent' /\ ApprovalsAreAuthentic' /\ RevisionsAreContiguous'
  BY <1>1 DEF Inv, SentAsSent, ApprovalsAreAuthentic, RevisionsAreContiguous
<1> QED
  BY <1>7, <1>8 DEF Inv

LEMMA InitInv == Init => Inv
BY DEF Init, Inv, TypeOK, SentAsSent, ApprovalsAreAuthentic, RevisionsAreContiguous

LEMMA NextInv == Inv /\ [Next]_vars => Inv'
<1> SUFFICES ASSUME Inv, [Next]_vars PROVE Inv'
  OBVIOUS
<1>1. CASE UNCHANGED vars
  BY <1>1 DEF vars, Inv, TypeOK, SentAsSent, ApprovalsAreAuthentic, RevisionsAreContiguous
<1>2. CASE Next
  BY <1>2, PushQuotationPreserves, DeleteQuotationPreserves, BlockerStepPreserves, Zenon DEF Next
<1> QED
  BY <1>1, <1>2

LEMMA Invariance == Spec => []Inv
BY InitInv, NextInv, PTL DEF Spec

-----------------------------------------------------------------------------
(* Theorems.                                                                *)

\* Every stored document is well formed, with a status its history leads to: whatever is pushed,
\* validate_lifecycle_mutation leaves no other document behind.
THEOREM LifecycleTypeCorrect == Spec => []TypeOK
BY Invariance, PTL DEF Inv

\* What is approved is what was sent: the content lock of validate_quotation_lifecycle holds from
\* the sending to the approval, also when one push appends both events.
THEOREM ApprovedSaysWhatWasSent == Spec => []ApprovedAsSent
<1>1. Inv => ApprovedAsSent
  BY DEF Inv, SentAsSent, ApprovedAsSent
<1> QED
  BY <1>1, Invariance, PTL

\* Every approval on record is by a user who may approve, although only the latest event of a
\* push is compared with its user.
THEOREM OnlyApproversApprove == Spec => []ApprovalsAreAuthentic
BY Invariance, PTL DEF Inv

\* Revisions are contiguous along the predecessors that have not been deleted.
THEOREM ContiguousRevisions == Spec => []RevisionsAreContiguous
BY Invariance, PTL DEF Inv

\* The latest event of a stored blocker does not contradict it.
LatestAgrees ==
    \A b \in Blockers : blocker[b] # NoDoc =>
        blocker[b].events[Len(blocker[b].events)].snapshot \in {NoDoc, blocker[b].content}

LEMMA NextLatestAgrees == TypeOK /\ LatestAgrees /\ [Next]_vars => LatestAgrees'
<1> SUFFICES ASSUME TypeOK, LatestAgrees, [Next]_vars PROVE LatestAgrees'
  BY Zenon
<1>1. CASE blocker' = blocker
  BY <1>1 DEF LatestAgrees
<1>2. ASSUME NEW b \in Blockers, (\E u \in Users : PushBlocker(u, b)) \/ DeleteBlocker(b)
      PROVE  LatestAgrees'
  <2>1. PICK doc :
          /\ blocker' = [blocker EXCEPT ![b] = doc]
          /\ doc # NoDoc => doc.events[Len(doc.events)].snapshot \in {NoDoc, doc.content}
    BY <1>2, ZenonT(60) DEF PushBlocker, DeleteBlocker, BlockerValid
  <2>2. DOMAIN blocker = Blockers
    BY DEF TypeOK
  <2>3. \A x \in Blockers : blocker'[x] = IF x = b THEN doc ELSE blocker[x]
    BY <2>1, <2>2, Zenon
  <2> QED
    BY <2>1, <2>3, Zenon DEF LatestAgrees
<1>3. blocker' = blocker \/ \E b \in Blockers : (\E u \in Users : PushBlocker(u, b)) \/ DeleteBlocker(b)
  <2>1. ASSUME NEW u \in Users, NEW q \in Quotations, PushQuotation(u, q) \/ DeleteQuotation(u, q)
        PROVE  blocker' = blocker
    BY <2>1, Zenon DEF PushQuotation, DeleteQuotation
  <2>2. UNCHANGED vars => blocker' = blocker
    BY DEF vars
  <2> QED
    BY <2>1, <2>2, Zenon DEF Next
<1> QED
  BY <1>1, <1>2, <1>3, Zenon

\* A stored blocker is resolved exactly when its last resolution has not been undone, and its
\* latest event's snapshot is its content: the replay of validate_blocker_lifecycle gives the
\* status the whole history calls for, whatever its length.
THEOREM BlockersAreOnRecord == Spec => []BlockerIsOnRecord
<1>1. Init => LatestAgrees
  BY DEF Init, LatestAgrees
<1>2. TypeOK /\ LatestAgrees => BlockerIsOnRecord
  <2> SUFFICES ASSUME TypeOK, LatestAgrees, NEW b \in Blockers, blocker[b] # NoDoc
               PROVE  LET e == blocker[b].events IN
                      /\ blocker[b].status = "resolved" <=>
                           \E i \in DOMAIN e : /\ e[i].kind = "resolved"
                                               /\ \A j \in i + 1 .. Len(e) : e[j].kind # "reopened"
                      /\ e[Len(e)].snapshot \in {NoDoc, blocker[b].content}
    BY Zenon DEF BlockerIsOnRecord
  <2>1. PICK e : e = blocker[b].events
    BY Zenon
  <2>2. /\ e \in BlockerHistories /\ blocker[b].status = BlockerState(e)
        /\ blocker[b].status \in {"open", "resolved"}
    <3>1. blocker[b] \in BlockerDocs
      BY Zenon DEF TypeOK
    <3> QED
      BY <2>1, <3>1 DEF TypeOK, BlockerDocs
  <2>3. DOMAIN e = 1..Len(e)
    BY <2>2, LifecycleConstants
  <2>4. blocker[b].status = "resolved" <=> StaysResolved(e, Len(e))
    BY <2>2, BlockerReplay, Zenon
  <2>5. e[Len(e)].snapshot \in {NoDoc, blocker[b].content}
    BY <2>1, Zenon DEF LatestAgrees
  <2> QED
    BY <2>1, <2>3, <2>4, <2>5, Zenon DEF StaysResolved
<1> QED
  BY <1>1, <1>2, NextLatestAgrees, LifecycleTypeCorrect, PTL DEF Spec

-----------------------------------------------------------------------------
(* The refinement.                                                          *)

\* A push of a quotation approves it, or leaves what deliveries find alone.
LEMMA PushRefines ==
    ASSUME Inv, NEW u \in Users, NEW q \in Quotations, PushQuotation(u, q)
    PROVE  Handoff!NextHandoff \/ Standing' = Standing
<1> DEFINE cur == quotation[q]
           Stand(doc) == IF doc = NoDoc THEN NoDoc ELSE IF doc.status = "approved" THEN doc.content ELSE NoDoc
<1>1. PICK new :
        /\ StoredDoc(new) /\ new # NoDoc /\ QuotationValid(u, q, quotation[q], new)
        /\ quotation' = [quotation EXCEPT ![q] = new]
  BY PushFacts DEF Inv
<1>2. quotation \in [Quotations -> QuotationDocs \cup {NoDoc}]
  BY DEF Inv, TypeOK
<1>3. Standing = [r \in Quotations |-> Stand(quotation[r])] /\ Standing' = [r \in Quotations |-> Stand(quotation'[r])]
  BY Zenon DEF Standing
<1>4. Standing' = [Standing EXCEPT ![q] = Stand(new)]
  <2> HIDE DEF Stand
  <2> QED
    BY <1>1, <1>2, <1>3
<1>5. CASE cur # NoDoc /\ cur.status = "approved"
  <2>1. StoredDoc(cur)
    BY <1>5, StoredOfType DEF Inv
  <2>2. new.status = "approved"
    BY <1>1, <1>5, <2>1, ApprovedStays DEF QuotationValid
  <2>3. new.content = cur.content
    BY <1>1, <1>5 DEF QuotationValid, Keeps, ContentLocked
  <2>4. Stand(new) = Standing[q]
    BY <1>1, <1>3, <1>5, <2>2, <2>3
  <2> HIDE DEF Stand
  <2> QED
    BY <1>3, <1>4, <2>4
<1>6. CASE ~(cur # NoDoc /\ cur.status = "approved")
  <2>1. Standing[q] = NoDoc
    BY <1>3, <1>6
  <2>2. CASE new.status = "approved"
    <3>1. Stand(new) = new.content /\ new.content \in Contents
      BY <1>1, <2>2 DEF StoredDoc, QuotationDocs
    <3>2. Handoff!Approve(q, new.content)
      BY <1>4, <2>1, <3>1, Zenon DEF Handoff!Approve
    <3> QED
      BY <3>1, <3>2, Zenon DEF Handoff!NextHandoff
  <2>3. CASE new.status # "approved"
    <3>1. Stand(new) = NoDoc
      BY <2>3
    <3> HIDE DEF Stand
    <3> QED
      BY <1>3, <1>4, <2>1, <3>1
  <2> QED
    BY <2>2, <2>3
<1> QED
  BY <1>5, <1>6

\* A deletion withdraws what was approved, or leaves what deliveries find alone.
LEMMA DeleteRefines ==
    ASSUME Inv, NEW u \in Users, NEW q \in Quotations, DeleteQuotation(u, q)
    PROVE  Handoff!NextHandoff \/ Standing' = Standing
<1> DEFINE Stand(doc) == IF doc = NoDoc THEN NoDoc ELSE IF doc.status = "approved" THEN doc.content ELSE NoDoc
<1>1. quotation' = [quotation EXCEPT ![q] = NoDoc]
  BY DEF DeleteQuotation
<1>2. quotation \in [Quotations -> QuotationDocs \cup {NoDoc}]
  BY DEF Inv, TypeOK
<1>3. Standing = [r \in Quotations |-> Stand(quotation[r])] /\ Standing' = [r \in Quotations |-> Stand(quotation'[r])]
  BY Zenon DEF Standing
<1>4. Stand(NoDoc) = NoDoc
  OBVIOUS
<1> HIDE DEF Stand
<1>5. Standing' = [Standing EXCEPT ![q] = NoDoc]
  BY <1>1, <1>2, <1>3, <1>4
<1>6. CASE Standing[q] = NoDoc
  BY <1>3, <1>5, <1>6
<1>7. CASE Standing[q] # NoDoc
  BY <1>5, <1>7, Zenon DEF Handoff!NextHandoff, Handoff!Withdraw
<1> QED
  BY <1>6, <1>7

\* The quotations of validate_lifecycle_mutation keep the promise deliveries rely on: once
\* approved, what a delivery finds stays until the quotation is deleted.
THEOREM LifecycleImplementsHandoff == Spec => ApprovedTermsStand
<1>1. Init => Handoff!InitHandoff
  BY DEF Init, Handoff!InitHandoff, Standing
<1>2. Inv /\ [Next]_vars => [Handoff!NextHandoff]_Standing
  <2> SUFFICES ASSUME Inv, [Next]_vars PROVE Handoff!NextHandoff \/ Standing' = Standing
    OBVIOUS
  <2>1. CASE quotation' = quotation
    BY <2>1 DEF Standing
  <2>2. CASE Next
    <3>1. ASSUME NEW b \in Blockers, (\E u \in Users : PushBlocker(u, b)) \/ DeleteBlocker(b)
          PROVE  quotation' = quotation
      BY <3>1, Zenon DEF PushBlocker, DeleteBlocker
    <3> QED
      BY <2>1, <2>2, <3>1, PushRefines, DeleteRefines, Zenon DEF Next
  <2> QED
    BY <2>1, <2>2 DEF vars
<1> QED
  BY <1>1, <1>2, Invariance, PTL DEF Spec, ApprovedTermsStand, Handoff!HandoffSpec
=============================================================================
