SPECIFICATION FairSpec
CONSTANTS
    n1 = n1
    n2 = n2
    n3 = n3
    Peers <- MCPeers
    KeyPeers <- MCKeyPeers
    Threshold <- MCThreshold
    Rank <- MCRank
    Coordinators = {n1}
    MaxAttempts = 1
    Retrying = {}
    TimingOut = {n1, n2, n3}
    Failing = {}
    Duplicating = TRUE
PROPERTIES
    ExecuteReturns
CHECK_DEADLOCK FALSE
