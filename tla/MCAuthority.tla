---------------------------- MODULE MCAuthority ----------------------------
(* Instance of Authority for TLC. *)
EXTENDS Authority, TLC

CONSTANTS h1, h2, h3

\* The older member has been granted customers 2 and 1, in this order; administrators ask for
\* the same two.
mcWanted == [active : BOOLEAN, scope : {{1, 2}}, sorted : {TRUE}]
mcHeld == {[active |-> TRUE, scope |-> {1, 2}, sorted |-> FALSE]}
Symmetry == Permutations(Handlers)
=============================================================================
