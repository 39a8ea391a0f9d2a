------------------------------- MODULE MCFeed -------------------------------
(* Instances of Feed for TLC.                                               *)
EXTENDS Feed
=============================================================================
