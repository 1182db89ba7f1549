CONSTANTS
    u1 = u1
    u2 = u2
    u3 = u3
    Upgrades <- ThreeUpgrades
    Digested <- TwoUpgrades
    Chunks = 2
SPECIFICATION FairSpec
INVARIANT OneAtATimeExecIsWhole
PROPERTY LiveImageUntouched
PROPERTY SwapIsRestarted
CHECK_DEADLOCK FALSE
