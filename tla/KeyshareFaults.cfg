SPECIFICATION FairSpec
CONSTANTS
    s1 = s1
    s2 = s2
    Signings <- MCSignings
    MaxJobs = 3
    MaxCrashes = 1
    Faults = {"timeout", "dropped", "failed"}
INVARIANTS
    LockHeld
    NoTornRead
    KeyshareInv
PROPERTIES
    JobsReturn
    LockReleased
CHECK_DEADLOCK FALSE
