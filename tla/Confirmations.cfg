SPECIFICATION FairSpec
CONSTANTS
    Buckets <- MCBuckets
    BucketDepth <- MCBucketDepth
    Values <- MCValues
    Cent = 10
    Blocktime = 2
    TIMEOUT = 8
    Word = 256
    MaxLag = 5
    MaxReorg = 2
    MaxHead = 6
INVARIANTS
    ConfirmedIsDeep
    SleepIsBounded
PROPERTIES
    WaitReturns
CHECK_DEADLOCK FALSE
