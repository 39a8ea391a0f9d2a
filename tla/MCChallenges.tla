---------------------------- MODULE MCChallenges ----------------------------
(* Challenges for TLC: more callers than room, and time to expire twice.    *)
EXTENDS Challenges, TLC

Symmetry == Permutations(Nonces)
=============================================================================
