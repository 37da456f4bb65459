\* The same two switches: does a frame keep its VLAN across the trunk?
SPECIFICATION FairSpec
CONSTANTS
    Switch <- TwoSwitch
    Host <- TwoHost
    Rank <- TwoRank
    Port <- TwoPort
    PortSeq <- TwoPortSeq
    Owner <- TwoOwner
    Peer <- TwoPeer
    Behind <- TwoBehind
    Vlan <- TwoVlan
    Slots = 2
    InitMode <- TwoMode
    InitVlans <- TwoVlans
    BroadcastMac = BroadcastMac
    GarbledDst = GarbledDst
    GarbledSrc = GarbledSrc
    Nobody = Nobody
    NoPort = NoPort
    SockCap = 4
    MaxCommands = 3
    ArpCommands <- AskTwo
    PingCommands <- PingTwo
    VlanCommands <- MoveTwo
    RemoveCommands <- RemoveTwo
    ModeCommands <- ModeTwo
\* The user may stop typing, and select then blocks for ever.
CHECK_DEADLOCK FALSE
PROPERTIES
    TrunkKeepsVlan
