------------------------------ MODULE MCAgent -------------------------------
(* Instances of Agent for TLC, with the constants of client/run.go.         *)
EXTENDS Agent

\* Around healthySession, up to the 35 s the three timeouts of one failed
\* attempt add up to.
MCDurations == {0, 29, 30, 35}
=============================================================================
