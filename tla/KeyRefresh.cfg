SPECIFICATION FairSpec
CONSTANTS
    a = a
    b = b
    c = c
    d = d
    Peers <- MCPeers
    MaxEvents = 3
    Members <- MCMembers
    Threshold <- MCThreshold
    Orders <- MCOrders
    MaxFaults = 1
    Faulty = {a}
    TimingOut <- MCTimingOut
INVARIANTS
    RefreshInv
    OneCoordinator
    PartiesAgree
    TopologyNotBehindKey
PROPERTIES
    KeyKept
    RefreshRuns
CHECK_DEADLOCK FALSE
