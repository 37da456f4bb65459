\* Three hosts of one switch in one VLAN: does each hear a broadcast of the others?
SPECIFICATION Spec
CONSTANTS
    Switch <- OneSwitch
    Host <- OneHost
    Rank <- OneRank
    Port <- OnePort
    PortSeq <- OnePortSeq
    Owner <- OneOwner
    Peer <- OnePeer
    Behind <- OneBehind
    Vlan <- OneVlan
    Slots = 2
    InitMode <- OneMode
    InitVlans <- TenVlans
    BroadcastMac = BroadcastMac
    GarbledDst = GarbledDst
    GarbledSrc = GarbledSrc
    Nobody = Nobody
    NoPort = NoPort
    SockCap = 4
    MaxCommands = 1
    ArpCommands <- AskOne
    PingCommands <- NoCommands
    VlanCommands <- NoCommands
    RemoveCommands <- NoCommands
    ModeCommands <- NoCommands
\* The user may stop typing, and select then blocks for ever.
CHECK_DEADLOCK FALSE
INVARIANTS
    FloodReachesMembers
