SPECIFICATION Spec
CONSTANTS
    s1 = s1
    c1 = c1
    c2 = c2
    Senders <- OneSend
    TrySenders = {}
    Closers <- TwoClosers
    WriteQueue = 1
    HasClock = FALSE
SYMMETRY Symmetry
INVARIANTS
    NilMeansDelivered
    GracefulLosesNothing
    DoneReleasesAll
PROPERTIES
    FirstCauseWins
CHECK_DEADLOCK FALSE
