-------------------------- MODULE MCOperatorAccount -------------------------
(* OperatorAccount for TLC: two requests that overlap.                      *)
EXTENDS OperatorAccount, TLC

Symmetry == Permutations(Requests)
=============================================================================
