----------------------------- MODULE MCRegistry -----------------------------
(* Registry for TLC: two agents and two tunnels, which belong to one agent   *)
(* or to both, and one operator. No symmetry: liveness is checked too.       *)
EXTENDS Registry
=============================================================================
