SPECIFICATION Spec
CONSTANTS
    s1 = s1
    s2 = s2
    Signings <- MCSignings
    MaxJobs = 1
    MaxCrashes = 0
    Faults = {"timeout"}
INVARIANTS
    NoFatalUnlock
CHECK_DEADLOCK FALSE
