SPECIFICATION Spec
CONSTANTS
    s1 = s1
    c1 = c1
    Senders <- OneSend
    TrySenders = {}
    Closers <- OneCloser
    WriteQueue = 1
    Options <- PingOrClock
INVARIANTS
    GracefulLosesNothing
    DoneReleasesAll
    DeferredReadIsKept
    NeverStuck
PROPERTIES
    FirstCauseWins
CHECK_DEADLOCK FALSE
