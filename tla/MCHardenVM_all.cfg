CONSTANTS
    NewPorts = {22, 2222}
    OldPorts = {22, 2200}
    Modes = {"socket", "service"}
    UfwBefore = {TRUE, FALSE}
    FirewallAsked = {TRUE, FALSE}
    MaxFaults = 2
    MaxRuns = 2
SPECIFICATION Spec
CHECK_DEADLOCK FALSE
INVARIANT NoLockout
INVARIANT SuccessOpensDoor
INVARIANT FirewallAdmitsSSH
INVARIANT KeysBeforeLock
 
