\* A ping of the node's own loopback, and show commands.
SPECIFICATION FairSpec
CONSTANTS
    R0 = R0
    R1 = R1
    a = a
    b = b
    AddrBits = 4
    NoIntf = NoIntf
    Unparsable = Unparsable
    BroadcastMac = BroadcastMac
    NoEntry = NoEntry
    Intf <- MCIntf
    Node <- MCNode
    Rank <- MCRank
    IntfSeq <- MCIntfSeq
    Owner <- MCOwner
    Peer <- MCPeer
    IP <- MCIP
    Mask <- MCMask
    Loopback <- MCLoopback
    InitTTL = 2
    SockCap = 4
    PingCount = 1
    MaxCommands = 2
    PingCommands <- LoopbackPings
    ArpCommands = {}
    RouteCommands = {}
    ShowCommands <- FaultShows
INVARIANTS
    LoopbackIsLocal
CHECK_DEADLOCK FALSE
