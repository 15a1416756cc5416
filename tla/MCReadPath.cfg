SPECIFICATION FairSpec
CONSTANTS
    NoCipher = NoCipher
    DefaultMaxPayload = 4
    ObserverBuffer = 1
    Streams <- MCStreams
    ReadSize = 3
    maxRead = 5
    ReadIdle = TRUE
    MaxTime = 1
INVARIANTS
    
    StatsExact
PROPERTIES
    CloseIsFinal
    NeverBlocked
CHECK_DEADLOCK FALSE
