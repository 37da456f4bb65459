\* Two neighbours: pings and explicit ARP requests, both threads fair.
SPECIFICATION FairSpec
CONSTANTS
    R0 = R0
    R1 = R1
    a = a
    b = b
    AddrBits = 4
    NoIntf = NoIntf
    Unparsable = Unparsable
    BroadcastMac = BroadcastMac
    NoEntry = NoEntry
    Intf <- MCIntf
    Node <- MCNode
    Rank <- MCRank
    IntfSeq <- MCIntfSeq
    Owner <- MCOwner
    Peer <- MCPeer
    IP <- MCIP
    Mask <- MCMask
    Loopback <- MCLoopback
    InitTTL = 2
    SockCap = 4
    PingCount = 1
    MaxCommands = 3
    PingCommands <- PeerPings
    ArpCommands <- PeerArps
    RouteCommands = {}
    ShowCommands = {}
INVARIANTS
    TypeOK
    ArpSound
    ReceiverWaitIsFutile
    EchoHasOneDescendant
    RepliesReachTheAsker
PROPERTIES
    ArpStable
    PingReturns
    RequestsAreAnswered
    WarmPingsAreAnswered
CHECK_DEADLOCK FALSE
