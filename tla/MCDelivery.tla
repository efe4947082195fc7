----------------------------- MODULE MCDelivery -----------------------------
(* Instance of Delivery for TLC. *)
EXTENDS Delivery

CONSTANTS m1, m2

\* A delivery is created with its first event, or well under way.
mcCreationHistories ==
    {<<"engineeringReview">>,
     <<"engineeringReview", "materialsRequired", "procurement", "production">>}
=============================================================================
