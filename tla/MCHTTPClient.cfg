SPECIFICATION Spec
CONSTANTS
    r1 = r1
    r2 = r2
    x1 = x1
    x2 = x2
    Requests <- TwoRequests
    Closers <- TwoClosers
    Orders <- MCOrders
    Mixes <- MCMixes
    NetErrors <- MCNetErrors
    QuicErrors <- MCQuicErrors
SYMMETRY Symmetry
INVARIANTS
    ReplayIsSafe
    OutcomeAccounts
    CloseReleases
CHECK_DEADLOCK FALSE
