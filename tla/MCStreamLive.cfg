SPECIFICATION FairSpec
CONSTANTS
    s1 = s1
    c1 = c1
    c2 = c2
    Senders <- OneSend
    TrySenders = {}
    Closers <- OneCloser
    WriteQueue = 1
    HasClock = TRUE
PROPERTIES
    CloseReachesDone
CHECK_DEADLOCK FALSE
