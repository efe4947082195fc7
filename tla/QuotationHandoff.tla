-------------------------- MODULE QuotationHandoff --------------------------
(* What quotations promise to deliveries.  The terms of an approved         *)
(* quotation stand until the quotation is deleted; an approval that follows *)
(* a deletion may have other terms.  Lifecycle implements this, Delivery    *)
(* relies on it.                                                            *)
CONSTANTS
    Quotations,
    Terms,     \* number, revision, currency, pricing version and total of a quotation
    NoTerms    \* the quotation is not there, deleted or not approved

ASSUME HandoffConstants == NoTerms \notin Terms

VARIABLE quote    \* what a delivery finds

\* Mutant: a quotation is approved again in place.
ApproveAgain(q, t) == quote' = [quote EXCEPT ![q] = t]

Approve(q, t) == quote[q] = NoTerms /\ quote' = [quote EXCEPT ![q] = t]

Withdraw(q) == quote[q] # NoTerms /\ quote' = [quote EXCEPT ![q] = NoTerms]

InitHandoff == quote = [q \in Quotations |-> NoTerms]

NextHandoff == \E q \in Quotations : Withdraw(q) \/ \E t \in Terms : Approve(q, t)

HandoffSpec == InitHandoff /\ [][NextHandoff]_quote
=============================================================================
