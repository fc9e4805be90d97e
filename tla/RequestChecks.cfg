SPECIFICATION FairSpec
CONSTANTS
    Requests <- MCRequests
    Receipts <- MCReceipts
    Rewrites <- MCRewrites
    Chains <- MCChains
    Lighter = "lighter"
    Symbols <- MCSymbols
    TokenStore <- MCTokenStore
    AcrossPools = {"home"}
    LifiSettlers = {"home", "coarse"}
    Repayers = {"home"}
    Liquidators <- MCLiquidators
    Buckets = {1, 2}
    UsdcDecimals = 1
    Retries = 3
    MayFail <- External
INVARIANTS
    SignedIsPaidFor
    StatusIsTrue
PROPERTIES
    HandlerReturns
    CallAnswered
CHECK_DEADLOCK FALSE
