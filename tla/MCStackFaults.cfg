\* Routing loops, an unreachable gateway and show commands on the same two nodes.
SPECIFICATION WarmSpec
CONSTANTS
    R0 = R0
    R1 = R1
    a = a
    b = b
    AddrBits = 4
    NoIntf = NoIntf
    Unparsable = Unparsable
    BroadcastMac = BroadcastMac
    NoEntry = NoEntry
    Intf <- MCIntf
    Node <- MCNode
    Rank <- MCRank
    IntfSeq <- MCIntfSeq
    Owner <- MCOwner
    Peer <- MCPeer
    IP <- MCIP
    Mask <- MCMask
    Loopback <- MCLoopback
    InitTTL = 4
    SockCap = 3
    PingCount = 1
    MaxCommands = 4
    PingCommands <- FaultPings
    ArpCommands = {}
    RouteCommands <- FaultRoutes
    ShowCommands <- FaultShows
INVARIANTS
    CrashNeedsMisconfiguration
PROPERTIES
    Quiesces
CHECK_DEADLOCK FALSE
