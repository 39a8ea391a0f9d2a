------------------------------ MODULE MCTunnel ------------------------------
(* Instances of Tunnel for TLC. The agent's timing does not matter here: one *)
(* duration, and a backoff that is at its ceiling from the start.            *)
EXTENDS Tunnel, TLC

MCDurations == {0}

=============================================================================
