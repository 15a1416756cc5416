SPECIFICATION FairSpec
CONSTANTS
    tlsAccept = tlsAccept
    udp = udp
    lsn = lsn
    p1 = p1
    s1 = s1
    s2 = s2
    NoPeer = NoPeer
    Conns <- MCConns
    Listeners <- MCListeners
    Peers <- MCPeers
    Callers <- MCCallers
    Kind <- MCKind
    ListenerOf <- MCListenerOf
    PeerOf <- MCPeerOf
    MaxConnections = 2
    MaxConnectionsPerPeer = 0
    MaxConcurrentHandshakes = 1
    MaxPendingUpgrades = 0
INVARIANTS
    BarrierExact
    SnapshotComplete
    NilShutdownIsGraceful
PROPERTIES
    ImplementsBarrier
    AbortReachesDone
CHECK_DEADLOCK FALSE
