----------------------------- MODULE MCEnrolment ----------------------------
(* Enrolment for TLC: small sets of requests, ids and keys.       *)
EXTENDS Enrolment, TLC

Symmetry == Permutations(Ids) \cup Permutations(Keys) \cup Permutations(Requests)
=============================================================================
