--------------------------- MODULE MCUfwReconcile ---------------------------
(* Instances of UfwReconcile for TLC.                                        *)
EXTENDS UfwReconcile, TLC

CONSTANTS c1, c2

TwoCalls == {c1, c2}

CallSymmetry == Permutations(TwoCalls)
=============================================================================
