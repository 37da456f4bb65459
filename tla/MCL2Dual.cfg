\* Two switches joined by a trunk; ports move between VLANs and the trunk loses one.
SPECIFICATION FairSpec
CONSTANTS
    Switch <- TwoSwitch
    Host <- TwoHost
    Rank <- TwoRank
    Port <- TwoPort
    PortSeq <- TwoPortSeq
    Owner <- TwoOwner
    Peer <- TwoPeer
    Behind <- TwoBehind
    Vlan <- TwoVlan
    Slots = 2
    InitMode <- TwoMode
    InitVlans <- TwoVlans
    BroadcastMac = BroadcastMac
    GarbledDst = GarbledDst
    GarbledSrc = GarbledSrc
    Nobody = Nobody
    NoPort = NoPort
    SockCap = 4
    MaxCommands = 4
    ArpCommands <- AskTwo
    PingCommands <- PingTwo
    VlanCommands <- MoveTwo
    RemoveCommands <- RemoveTwo
    ModeCommands <- ModeTwo
\* The user may stop typing, and select then blocks for ever.
CHECK_DEADLOCK FALSE
INVARIANTS
    MacSound
    AtMostOnce
PROPERTIES
    Quiesces
