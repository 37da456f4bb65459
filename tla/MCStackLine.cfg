\* A router between two subnets, pinged across.
SPECIFICATION MCFairSpec
CONSTANTS
    R0 = R0
    R1 = R1
    R2 = R2
    if0 = if0
    if1 = if1
    if2 = if2
    if3 = if3
    AddrBits = 4
    NoIntf = NoIntf
    Unparsable = Unparsable
    BroadcastMac = BroadcastMac
    NoEntry = NoEntry
    Intf <- MCIntf
    Node <- MCNode
    Rank <- MCRank
    IntfSeq <- MCIntfSeq
    Owner <- MCOwner
    Peer <- MCPeer
    IP <- MCIP
    Mask <- MCMask
    Loopback <- MCLoopback
    InitTTL = 2
    SockCap = 4
    PingCount = 1
    MaxCommands = 3
    PingCommands <- LinePings
    ArpCommands <- LineArps
    RouteCommands = {}
    ShowCommands = {}
INVARIANTS
    EchoHasOneDescendant
    RepliesReachTheAsker
PROPERTIES
    WarmPingsAreAnswered
    ImplementsEchoNet
    EchoesSettle
CHECK_DEADLOCK FALSE
