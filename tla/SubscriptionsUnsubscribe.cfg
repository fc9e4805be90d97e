SPECIFICATION Spec
CONSTANTS
    c1 = c1
    c2 = c2
    c3 = c3
    Channels <- MCChannels
    Sessions <- MCSessions
    Dashed <- MCDashed
    Types = {"msg"}
    MaxMessages = 3
INVARIANTS
    UnsubscribedIsGone
CHECK_DEADLOCK FALSE
