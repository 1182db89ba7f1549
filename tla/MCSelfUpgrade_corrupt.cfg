CONSTANTS
    u1 = u1
    u2 = u2
    u3 = u3
    Upgrades <- TwoUpgrades
    Digested <- TwoUpgrades
    Chunks = 2
SPECIFICATION Spec
INVARIANT ExecIsWhole
CHECK_DEADLOCK FALSE
