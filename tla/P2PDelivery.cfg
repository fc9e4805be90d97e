SPECIFICATION CommSpec
CONSTANTS
    c1 = c1
    c2 = c2
    g1 = g1
    g2 = g2
    g3 = g3
    Channels <- MCChannels
    Senders <- MCSenders
    Long = {g1}
    Sessions <- MCSessions
    Dashed <- MCDashed
    Types = {"msg"}
    MaxMessages = 3
    MaxFaults = 1
SYMMETRY Symmetry
INVARIANTS
    SubscriptionsInv
    ExactDelivery
    LatestDelivery
    StreamsInv
    NoStreamLeaks
    SentIsNotLost
    ErrorsNeedFaults
CHECK_DEADLOCK FALSE
