SPECIFICATION FairSpec
CONSTANTS
    n1 = n1
    n2 = n2
    n3 = n3
    d1 = d1
    forged = forged
    unpaid = unpaid
    unlock = unlock
    Relayers <- MCRelayers
    Threshold = 1
    Requests = {d1, forged, unpaid}
    Lighter = {d1, forged}
    Unlocks = {}
    BadRepayment = {unpaid}
    Genuine = {d1}
    Posts <- MCCallPosts
    Failing = {n1}
    TimingOut = {}
    Expiring = {}
    Watching = {n3}
INVARIANTS
    SignedIsValidated
PROPERTIES
    SignatureSpreads
CHECK_DEADLOCK FALSE
