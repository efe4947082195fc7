---------------------------- MODULE MCOwnership ----------------------------
(* Instance of Ownership for TLC. *)
EXTENDS Ownership, TLC

CONSTANTS c1, p1, p2, s1, i1, v1, r1, g1, a1, q1, d1

mcEntities == {c1, p1, p2, s1, i1, v1, r1, g1, a1, q1, d1}
mcKind == [e \in mcEntities |->
    CASE e = c1 -> "customer" [] e \in {p1, p2} -> "project" [] e = s1 -> "project_sector"
      [] e = i1 -> "item" [] e = v1 -> "evidence" [] e = g1 -> "configuration"
      [] e = r1 -> "customer_requirement" [] e = a1 -> "item_audit_event"
      [] e = q1 -> "quotation" [] e = d1 -> "delivery_execution"]
Membership(on, c, p) == [active |-> on, allC |-> FALSE, allP |-> FALSE, cs |-> c, ps |-> p]
mcAuthorities == {Membership(TRUE, {}, {}), Membership(FALSE, {}, {})}
mcPages == {{r1}, {s1, d1}, mcEntities}
Symmetry == Permutations({p1, p2})
=============================================================================
