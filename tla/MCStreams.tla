----------------------------- MODULE MCStreams -----------------------------
(***************************************************************************)
(* TLC instance of AgentStreams: one stream of each kind, hops of one      *)
(* chunk so that every copy can block, two chunks each way; commands with  *)
(* and without a process that outlives their shell.                        *)
(***************************************************************************)
EXTENDS AgentStreams

\* Absent, negative, within the cap, at it and beyond it.
MCRequests == {-1, 0, 1, 2, 3}
=============================================================================
