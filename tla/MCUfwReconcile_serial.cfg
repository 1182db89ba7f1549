CONSTANTS
    c1 = c1
    c2 = c2
    Calls <- TwoCalls
    Ports = {22, 80}
    Sources = {1, 8}
    V6Sources = {8}
    Any6 = 9
    MaxConcurrent = 1
SPECIFICATION Spec
SYMMETRY CallSymmetry
CHECK_DEADLOCK FALSE
INVARIANT WantedStaysOpen
PROPERTY NarrowsExactly
PROPERTY KeepsAllowlists
PROPERTY ReportIsDelta

