SPECIFICATION Spec
CONSTANTS
    Workers = {w1}
    Contents = {c1}
    None = None
    Empty = Empty
    Partial = Partial
    Chunks = 2
    MaxJobs = 1
    MaxFaults = 0
PROPERTY BackupIsKept
CHECK_DEADLOCK FALSE
