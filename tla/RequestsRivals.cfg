SPECIFICATION Spec
CONSTANTS
    n1 = n1
    n2 = n2
    n3 = n3
    d1 = d1
    forged = forged
    unpaid = unpaid
    unlock = unlock
    Relayers <- MCRelayers
    Threshold = 1
    Requests = {d1, unlock}
    Lighter = {}
    Unlocks = {unlock}
    BadRepayment = {}
    Genuine = {d1}
    Posts <- MCRivalPosts
    Failing = {n1}
    TimingOut = {n3}
    Expiring = {n1}
    Watching = {}
INVARIANTS
    AcceptedIsPursued
    RequestsInv
PROPERTIES
    ImplementsSession
CHECK_DEADLOCK FALSE
