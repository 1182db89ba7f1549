---------------------------- MODULE MCSelfUpgrade ----------------------------
(* Instances of SelfUpgrade for TLC.                                         *)
EXTENDS SelfUpgrade, TLC

CONSTANTS u1, u2, u3

TwoUpgrades   == {u1, u2}
ThreeUpgrades == {u1, u2, u3}
=============================================================================
