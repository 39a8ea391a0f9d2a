---------------------------- MODULE MCSelfUpdate ----------------------------
(* SelfUpdate for TLC: two releases, in the environments the cfgs choose.    *)
EXTENDS SelfUpdate
=============================================================================
