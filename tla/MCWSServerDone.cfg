SPECIFICATION FairSpec
CONSTANTS
    c1 = c1
    c2 = c2
    d1 = d1
    d2 = d2
    Peers = {}
    NoPeer = NoPeer
    MaxConnections = 2
    MaxConnectionsPerPeer = 0
    MaxConcurrentHandshakes = 1
    MaxPendingUpgrades = 2
    Conns <- MCConns
    Dials <- MCDials
    WSSDials <- MCWSSDials
    Casts <- OneConn
PROPERTIES
    ClosingReachesDone
