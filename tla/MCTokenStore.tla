----------------------------- MODULE MCTokenStore -----------------------------
(* An instance of TokenStore for TLC: a bootstrap and three rotations.       *)
EXTENDS TokenStore

CONSTANTS t1, t2, t3

ThreeTokens == {t1, t2, t3}
=============================================================================
