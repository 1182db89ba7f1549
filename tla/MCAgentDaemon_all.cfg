CONSTANTS
    r1 = r1
    r2 = r2
    n1 = n1
    Requests <- TwoRequests
    Notifications <- OneNotice
    Others = {}
    SendCap = 1
    MaxBackoff = 2
SPECIFICATION FairSpec
INVARIANT ResponseInOnePlace
PROPERTY KeepsPromise
PROPERTY ReaderExitEndsSession
PROPERTY ShutdownTerminates
PROPERTY SteadySessionDrains
CHECK_DEADLOCK FALSE
