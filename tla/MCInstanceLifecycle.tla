------------------------ MODULE MCInstanceLifecycle ------------------------
(* The instance for TLC: workers, versions and credentials are               *)
(* interchangeable.                                                          *)
EXTENDS InstanceLifecycle, TLC

Interchangeable ==
    Permutations(Workers) \cup Permutations(Versions) \cup Permutations(Keys)
=============================================================================
