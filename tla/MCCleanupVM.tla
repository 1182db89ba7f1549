---------------------------- MODULE MCCleanupVM -----------------------------
(* Instances of CleanupVM for TLC.                                           *)
EXTENDS CleanupVM
=============================================================================
