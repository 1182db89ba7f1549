SPECIFICATION Spec
CONSTANTS
    Workers = {w1, w2}
    Sites = {s1, s2}
    NoSite = NoSite
    Blank = Blank
    MaxJobs = 3
    MaxFaults = 1
PROPERTIES
    SuccessServes
    OthersKeepServing
    LeavesLoadable
    TLSRepairs
SYMMETRY Interchangeable
CHECK_DEADLOCK FALSE
