\* One switch whose ports are reconfigured while hosts resolve and ping.
SPECIFICATION Spec
CONSTANTS
    Switch <- OneSwitch
    Host <- OneHost
    Rank <- OneRank
    Port <- OnePort
    PortSeq <- OnePortSeq
    Owner <- OneOwner
    Peer <- OnePeer
    Behind <- OneBehind
    Vlan <- OneVlan
    Slots = 2
    InitMode <- OneMode
    InitVlans <- OneVlans
    BroadcastMac = BroadcastMac
    GarbledDst = GarbledDst
    GarbledSrc = GarbledSrc
    Nobody = Nobody
    NoPort = NoPort
    SockCap = 13
    MaxCommands = 4
    ArpCommands <- AskOne
    PingCommands <- PingOne
    VlanCommands <- MoveOne
    RemoveCommands <- RemoveOne
    ModeCommands <- ModeOne
\* The user may stop typing, and select then blocks for ever.
CHECK_DEADLOCK FALSE
INVARIANTS
    TypeOK
    
    
    RoomLeft
