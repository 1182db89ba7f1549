CONSTANTS
    c1 = c1
    c2 = c2
    Calls <- TwoCalls
    Ports = {22, 80}
    Sources = {1}
    V6Sources = {}
    Any6 = 9
    MaxConcurrent = 2
SPECIFICATION Spec
SYMMETRY CallSymmetry
CHECK_DEADLOCK FALSE
PROPERTY OtherPortsUntouched
