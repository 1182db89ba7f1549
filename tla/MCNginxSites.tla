---------------------------- MODULE MCNginxSites ----------------------------
(* The workers and sites for TLC, which are interchangeable.                 *)
EXTENDS NginxSites, TLC

Interchangeable == Permutations(Workers) \cup Permutations(Sites)
=============================================================================
