---------------------------- MODULE MCConfigFile ----------------------------
(* Instances of ConfigFile for TLC.                                         *)
EXTENDS ConfigFile, TLC

Symmetric == Permutations(Commands) \cup Permutations(Conns)
=============================================================================
