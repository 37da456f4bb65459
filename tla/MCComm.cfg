\* Two topologies, one after the other, and a created one.
SPECIFICATION FairSpec
CONSTANTS
    Node <- Routers
    Intf <- Ends
    NodeSeq <- NewestFirst
    Owner <- EndOwner
    Peer <- OtherEnd
    Name <- EndName
    MaxGraphs = 2
    MaxCreates = 1
    MaxPackets = 2
    SockCap = 2
\* With no command and no datagram, select blocks for ever.
CHECK_DEADLOCK FALSE
INVARIANTS
    TypeOK
    ArrivesWhereSent
    RecvNeverBlocks
    ZeroedServesOneScan
PROPERTIES
    DatagramsAreServed
