SPECIFICATION FairSpec
CONSTANTS
    Kinds <- AllKinds
    Waiters = {w1, w2}
    Callers = {k1}
    Closers = {c1}
    Timeouts <- MCTimeouts
    Milli = 2
    MaxMillis = 2
    MaxElapsed = 6
    MaxPackets = 1
    Nobody = Nobody
INVARIANTS
    NoUseAfterClose
    WakeIsAnswered
    NeverEarly
PROPERTIES
    CloseGetsThrough
