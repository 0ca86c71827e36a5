-------------------------- MODULE MCEnrollmentFlow --------------------------
(* A small instance of EnrollmentFlow. *)
EXTENDS EnrollmentFlow, TLC

Symmetry == Permutations(Accounts) \cup Permutations(Slots)
=============================================================================
