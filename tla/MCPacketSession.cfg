SPECIFICATION FairSpec
CONSTANTS
    s1 = s1
    t1 = t1
    e1 = e1
    Senders <- OneOfEach
    TrySenders <- OneTry
    Enders <- OneEnder
    WriteQueue = 1
    HasClock = TRUE
INVARIANTS
    DrainLosesNothing
    DoneReleasesAll
PROPERTIES
    EndReachesDone
CHECK_DEADLOCK FALSE
