CONSTANTS
    s1 = s1
    s2 = s2
    p1 = p1
    p2 = p2
    t1 = t1
    None = None
    Sessions <- MCSessions
    Peers    <- MCPeers
    PeerOf   <- MCPeerOf
    Senders  <- MCSenders
SPECIFICATION FairSpec
CHECK_DEADLOCK FALSE
PROPERTIES
    StopEnds
