SPECIFICATION Spec
CONSTANTS
    Workers = {w1, w2}
    Versions = {v1, v2}
    Keys = {k1, k2}
    None = None
    Broken = Broken
    MaxJobs = 2
    MaxFaults = 1
PROPERTIES
    DeploySuccessServes
    
    RemovalLeavesNothing
    DestroyIsIdempotent
    UpgradeIsAllOrNothing
    
SYMMETRY Interchangeable
CHECK_DEADLOCK FALSE
