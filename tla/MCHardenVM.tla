----------------------------- MODULE MCHardenVM -----------------------------
(* Instances of HardenVM for TLC.                                            *)
EXTENDS HardenVM
=============================================================================
