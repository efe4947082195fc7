------------------------------- MODULE MCPool -------------------------------
(* Instances of Pool for TLC. *)
EXTENDS Pool, TLC

symmetry == Permutations(Callers) \cup Permutations(Conns)
=============================================================================
