\* One topology, a command and a reply.
SPECIFICATION FairSpec
CONSTANTS
    Node <- Routers
    Intf <- Ends
    NodeSeq <- NewestFirst
    Owner <- EndOwner
    Peer <- OtherEnd
    Name <- EndName
    MaxGraphs = 1
    MaxCreates = 0
    MaxPackets = 2
    SockCap = 2
\* With no command and no datagram, select blocks for ever.
CHECK_DEADLOCK FALSE
INVARIANT
    SendsWhatItIsGiven
