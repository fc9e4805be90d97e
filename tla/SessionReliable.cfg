SPECIFICATION ReliableSpec
CONSTANTS
    n1 = n1
    n2 = n2
    n3 = n3
    Peers <- MCPeers
    KeyPeers <- MCKeyPeers
    Threshold <- MCThreshold
    Rank <- MCRank
    Coordinators = {n1}
    MaxAttempts = 1
    Retrying = {}
    TimingOut = {}
    Failing = {}
    Duplicating = FALSE
PROPERTIES
    SubsetStarts
CHECK_DEADLOCK FALSE
