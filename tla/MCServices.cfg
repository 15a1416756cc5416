SPECIFICATION ServicesSpec
CONSTANTS
    l1 = l1
    l2 = l2
    l3 = l3
    l4 = l4
    p1 = p1
    p2 = p2
    q1 = q1
    NoPeer = NoPeer
    NoListener = NoListener
    Leases <- MCLeases
    Peers <- MCPeers
    PeerOf <- MCPeerOf
    Listeners <- MCListeners
    ListenerOf <- MCListenerOf
    MaxConnections = 2
    MaxConnectionsPerPeer = 1
    MaxConcurrentHandshakes = 0
    MaxPendingUpgrades = 0
    MaxPerListener = 2
    a1 = a1
    a2 = a2
    a3 = a3
    b1 = b1
    A = A
    B = B
    Engine = Engine
    Nobody = Nobody
    Sends <- FourSends
    TrySends <- MCTry
    Sessions <- MCSessions
    SessionOf <- MCSessionOf
    Size <- MCSize
    WriteQueue = 1
    LocalLimit = 4
    GlobalLimit = 3
    reader = reader
    writer = writer
    Touchers <- Both
    connectionIdle = 2
    maxLifetime = 3
    MaxTime = 4
INVARIANTS
    LeasesAccounted
    AccountingExact
    QuotasSafe
    ExpiresOnTime
    
    
PROPERTIES
    WaitsEnd
CHECK_DEADLOCK FALSE
