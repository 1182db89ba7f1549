SPECIFICATION Spec
CONSTANTS
    Workers = {w1, w2}
    Contents = {c1, c2}
    None = None
    Empty = Empty
    Partial = Partial
    Chunks = 2
    MaxJobs = 2
    MaxFaults = 1
INVARIANT
    NoJobStuck
PROPERTIES
    BackupIsWhole
    DroppedForTheRightBackup
    
    RestoreCanBeRepeated
    VerifiedIsRestorable
SYMMETRY Interchangeable
CHECK_DEADLOCK FALSE
