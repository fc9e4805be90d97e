SPECIFICATION Spec
CONSTANTS
    n1 = n1
    n2 = n2
    n3 = n3
    Peers <- MCPeers
    KeyPeers <- MCOldKeyPeers
    Threshold <- MCThreshold
    Rank <- MCRank
    Coordinators = {n1, n2}
    MaxAttempts = 2
    Retrying = {n3}
    TimingOut = {n3}
    Failing = {n2}
    Duplicating = TRUE
INVARIANTS
    SubsetSound
    OneSubsetPerAttempt
    PartyFollowsCoordinator
    SignatureHasQuorum
    SessionInv
PROPERTIES
    PartyStartsOnce
    ImplementsSession
CHECK_DEADLOCK FALSE
