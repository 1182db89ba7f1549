CONSTANTS
    NewPorts = {22, 2222}
    OldPorts = {2222}
    Modes = {"socket", "service"}
    UfwBefore = {FALSE}
    FirewallAsked = {TRUE}
    MaxFaults = 1
    MaxRuns = 2
    MaxCleanups = 2
SPECIFICATION CleanupSpec
CHECK_DEADLOCK FALSE
PROPERTY RevertRestoresDoor
