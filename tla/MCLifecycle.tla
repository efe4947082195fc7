---------------------------- MODULE MCLifecycle ----------------------------
(* Instance of Lifecycle for TLC. *)
EXTENDS Lifecycle, TLC

CONSTANTS q1, q2, b1, maker, chief, a, b, prj

mcProject == [q \in {q1, q2} |-> prj]
mcCaps == [u \in {maker, chief} |->
    IF u = maker THEN {"quotation.create", "quotation.send"} ELSE {"quotation.approve"}]

E(kind, u) == [kind |-> kind, by |-> u]

\* Every prefix of sending, rejecting, sending again and approving, by either user; an approval
\* of the first sending, or of none; a supersession; and an approval with an event after it.
mcQuotationHistories ==
    LET again == <<E("sent", maker), E("rejected", maker), E("sent", maker)>> IN
    {SubSeq(again, 1, n) : n \in 0..3}
    \cup {Append(SubSeq(again, 1, n), E("approved", u)) : n \in {1, 3}, u \in {maker, chief}}
    \cup {Append(SubSeq(again, 1, n), E("superseded", maker)) : n \in 0..1} \cup {<<E("approved", chief)>>}
    \cup {<<again[1], E("approved", maker), E("superseded", maker)>>}

\* A blocker is created, updated or not, resolved and reopened.
F(kind, snapshot) == [kind |-> kind, by |-> maker, snapshot |-> snapshot]
mcBlockerHistories ==
    LET all == <<F("created", NoDoc), F("resolved", NoDoc), F("reopened", a)>> IN
    {SubSeq(all, 1, n) : n \in 1..3} \cup {<<all[1], F("updated", a)>>, <<all[1], all[2], F("updated", a)>>}

Symmetry == Permutations({q1, q2})
=============================================================================
