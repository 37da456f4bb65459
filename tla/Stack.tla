------------------------------- MODULE Stack -------------------------------
(***************************************************************************)
(* The layer 2 and layer 3 paths of a topology of routers and hosts joined *)
(* by point-to-point links, every interface in L3 mode.                    *)
(*                                                                         *)
(* One process holds every node. Two of its threads run stack code: "cli"  *)
(* executes a command and what it calls, to the end, and "rx" takes one    *)
(* datagram of one node and runs the frame through the stack, to the end.  *)
(* Nodes are joined by UDP sockets of the same process, one per node. No   *)
(* lock protects anything, so the two threads interleave; the unit here is *)
(* one function of layer2.c or layer3.c.                                   *)
(*                                                                         *)
(* Every call from one of those functions to the next is the last thing it *)
(* does, so a thread's stack is one pending call: task[t].                 *)
(***************************************************************************)
EXTENDS IPv4, FiniteSets

CONSTANTS
    Node,           \* the nodes of topology->node_list
    Rank,           \* a node's place in that list
    IntfSeq,        \* node->intf[], up to the first empty slot
    Owner,          \* intf->att_node
    Peer,           \* the other end of intf->link
    IP, Mask,       \* the address of an interface
    Loopback,       \* lb_addr, or Unparsable where none was set
    Unparsable,     \* an lb_addr that inet_pton and strcmp both refuse
    BroadcastMac,   \* ff:ff:ff:ff:ff:ff
    NoEntry,        \* arp_table_lookup's NULL
    InitTTL,        \* 64 in the program
    SockCap,        \* datagrams the kernel holds for one socket
    PingCount,      \* packets per ping command
    MaxCommands,    \* bound on the commands of one behaviour
    PingCommands,   \* <<node, address>> the user may ping
    ArpCommands,    \* <<node, address>> the user may resolve
    RouteCommands,  \* [node, dst, mask, gw, oif] the user may configure
    ShowCommands    \* sets of nodes that one show command prints

ASSUME StackAssumption ==
    /\ Node # {} /\ IsFiniteSet(Node)
    /\ Rank \in [Node -> Nat]
    /\ \A m, n \in Node : Rank[m] = Rank[n] => m = n
    /\ Owner \in [Intf -> Node]
    /\ Peer \in [Intf -> Intf]
    /\ \A i \in Intf : Peer[i] # i /\ Peer[Peer[i]] = i
    /\ IntfSeq \in [Node -> Seq(Intf)]
    /\ \A n \in Node : \A k \in 1..Len(IntfSeq[n]) : Owner[IntfSeq[n][k]] = n
    /\ IP \in [Intf -> Addr] /\ Mask \in [Intf -> MaskLen]
    /\ \A i \in Intf : IP[i] # BroadcastAddr
    /\ Unparsable \notin Addr
    /\ Loopback \in [Node -> Addr \cup {Unparsable}]
    /\ BroadcastMac \notin Intf
    /\ InitTTL \in Nat \ {0} /\ SockCap \in Nat /\ PingCount \in Nat /\ MaxCommands \in Nat
    /\ PingCommands \subseteq Node \X Addr
    /\ ArpCommands \subseteq Node \X Addr
    /\ RouteCommands \subseteq
          [node : Node, dst : Addr, mask : MaskLen, gw : Addr, oif : Intf]
    /\ ShowCommands \subseteq SUBSET Node

VARIABLES
    sock,      \* node -> datagrams waiting in its UDP socket, oldest first
    ready,     \* nodes that the last select found readable, not yet visited
    arp,       \* node -> address -> what arp_table_lookup finds
    routes,    \* node -> route table, newest first
    lo,        \* node -> lb_addr
    task,      \* thread -> the call it is executing
    ping,      \* the ping command in progress on the cli thread
    crashed,   \* the process has died
    commands,  \* commands issued so far (bounds the behaviour)
    echoes,    \* history: who sent each echo message, and where to
    console    \* history: the lines that received ICMP packets printed

vars == <<sock, ready, arp, routes, lo, task, ping, crashed, commands, echoes, console>>

Thread == {"cli", "rx"}

-----------------------------------------------------------------------------
(* Packets. An interface stands for its own MAC address. The id of an echo *)
(* is history: it names the echo message that a packet descends from.      *)

IcmpType == {"echo", "reply", "unreachable", "exceeded"}
Icmp == [type : IcmpType, id : Nat]
Packet == [src : Addr, dst : Addr, ttl : 1..InitTTL, icmp : Icmp]

Mac == Intf \cup {BroadcastMac}
ArpFrame == [type : {"arpRequest", "arpReply"}, dst : Mac, src : Intf,
             srcIp : Addr, dstIp : Addr]
IpFrame == [type : {"ip"}, dst : Mac, src : Intf, pkt : Packet]
Datagram == [iif : Intf, frame : ArpFrame \cup IpFrame]

ArpEntry == [mac : Mac, oif : Intf \cup {NoIntf}]
\* init_arp_table: the entry for 255.255.255.255, whose oif is "local".
BroadcastEntry == [mac |-> BroadcastMac, oif |-> NoIntf]

(* Pending calls, named after the function that runs next. *)
Idle == [op |-> "idle"]
\* layer3_pkt_receive_from_top(node, icmp, dst)
FromTop(n, icmp, dst) == [op |-> "fromTop", node |-> n, icmp |-> icmp, dst |-> dst]
\* demote_pkt_to_layer2 and l2_forward_ip_packet(node, hop, oif, pkt)
L2Fwd(n, hop, oif, pkt) ==
    [op |-> "l2fwd", node |-> n, hop |-> hop, oif |-> oif, pkt |-> pkt]
\* l2_forward_ip_packet in sleep_for(50), waiting for an ARP reply
ArpWait(n, hop, oif, pkt) ==
    [op |-> "arpWait", node |-> n, hop |-> hop, oif |-> oif, pkt |-> pkt]
\* promote_pkt_to_layer3 and layer3_ip_pkt_recv_from_layer2(node, pkt)
L3Recv(n, pkt) == [op |-> "l3recv", node |-> n, pkt |-> pkt]

Task ==
    {Idle}
    \cup [op : {"fromTop"}, node : Node, icmp : Icmp, dst : Addr]
    \cup [op : {"l2fwd", "arpWait"}, node : Node, hop : Addr,
          oif : Intf \cup {NoIntf}, pkt : Packet]
    \cup [op : {"l3recv"}, node : Node, pkt : Packet]

NoPing == [node |-> "none"]
Ping == [node : Node, dst : Addr, i : 0..PingCount, sent : Nat]

-----------------------------------------------------------------------------
\* node_get_matching_subnet_interface
OnSubnet(i, a) == ApplyMask(a, Mask[i]) = ApplyMask(IP[i], Mask[i])

MatchingSubnetIntf(n, a) ==
    LET slots == {k \in 1..Len(IntfSeq[n]) : OnSubnet(IntfSeq[n][k], a)}
    IN  IF slots = {} THEN NoIntf
        ELSE IntfSeq[n][CHOOSE k \in slots : \A j \in slots : k <= j]

\* Mutant: only the loopback is compared.
LocalDeliveryOfLoopback(n, a) == lo[n] = a

\* is_layer3_local_delivery
LocalDelivery(n, a) == lo[n] = a \/ \E i \in Intf : Owner[i] = n /\ IP[i] = a

\* send_pkt_out and the loopback network: a datagram for a full socket is lost.
Deliver(q, i, frame) ==
    LET far == Peer[i]
    IN  [q EXCEPT ![Owner[far]] =
            IF Len(@) < SockCap THEN Append(@, [iif |-> far, frame |-> frame]) ELSE @]

ArpRequestFrame(i, a) ==
    [type |-> "arpRequest", dst |-> BroadcastMac, src |-> i, srcIp |-> IP[i], dstIp |-> a]
\* Mutant: the reply's source MAC is the request's destination.
ArpReplyFrameFromBroadcast(i, request) ==
    [type |-> "arpReply", dst |-> request.src, src |-> request.dst,
     srcIp |-> request.dstIp, dstIp |-> request.srcIp]
\* Mutant: the addresses of the request are not swapped.
ArpReplyFrameUnswapped(i, request) ==
    [type |-> "arpReply", dst |-> request.src, src |-> i,
     srcIp |-> request.srcIp, dstIp |-> request.dstIp]

ArpReplyFrame(i, request) ==
    [type |-> "arpReply", dst |-> request.src, src |-> i,
     srcIp |-> request.dstIp, dstIp |-> request.srcIp]
IpFrameOf(i, mac, pkt) == [type |-> "ip", dst |-> mac, src |-> i, pkt |-> pkt]

\* The bytes that uninitialised src_addr may hold when inet_pton refuses lb_addr.
LoopbackSource(n) == IF lo[n] = Unparsable THEN Addr ELSE {lo[n]}

InitRoutes(n) ==
    LET len == Len(IntfSeq[n])
        ofIntf(i) == DirectRoute(ApplyMask(IP[i], Mask[i]), Mask[i])
    IN  IF Loopback[n] = Unparsable
        THEN [k \in 1..len |-> ofIntf(IntfSeq[n][len + 1 - k])]
        ELSE [k \in 1..(len + 1) |->
                IF k <= len THEN ofIntf(IntfSeq[n][len + 1 - k])
                            ELSE DirectRoute(Loopback[n], AddrBits)]

\* A topology that has just been loaded, its receiver thread started.
Init ==
    /\ sock = [n \in Node |-> <<>>]
    /\ ready = {}
    /\ arp = [n \in Node |-> [a \in Addr |-> IF a = BroadcastAddr THEN BroadcastEntry
                                                                  ELSE NoEntry]]
    /\ routes = [n \in Node |-> InitRoutes(n)]
    /\ lo = Loopback
    /\ task = [t \in Thread |-> Idle]
    /\ ping = NoPing
    /\ crashed = FALSE
    /\ commands = 0
    /\ echoes = <<>>
    /\ console = {}

-----------------------------------------------------------------------------
Running(t, op) == ~crashed /\ task[t].op = op

\* The call ends, or is replaced by the last call it makes.
Become(t, next) == task' = [task EXCEPT ![t] = next]

OnlyTask == UNCHANGED <<sock, ready, arp, routes, lo, ping, crashed, commands, echoes, console>>

\* A NULL dereference or an exhausted stack takes the process down.
Crash ==
    /\ crashed' = TRUE
    /\ UNCHANGED <<sock, ready, arp, routes, lo, task, ping, commands, echoes, console>>

Send(i, frame) ==
    /\ sock' = Deliver(sock, i, frame)
    /\ UNCHANGED <<ready, arp, routes, lo, ping, crashed, commands, echoes, console>>

Report(n, icmp) == console' = console \cup {[node |-> n, type |-> icmp.type, id |-> icmp.id]}

Unreachable(icmp) == [type |-> "unreachable", id |-> icmp.id]
Exceeded(icmp) == [type |-> "exceeded", id |-> icmp.id]
EchoReply(icmp) == [type |-> "reply", id |-> icmp.id]

(* layer3_pkt_receive_from_top *)

\* Without a route the node reports to its own loopback, by a call of the same
\* function. Where that address has no route either, nothing ends the calls.
NoRouteFromTop(t) ==
    /\ Running(t, "fromTop")
    /\ LET n == task[t].node
           d == task[t].dst
           src == IF lo[n] = Unparsable THEN AnyAddr ELSE lo[n]
       IN  /\ LongestMatch(routes[n], d) = NoRoute
           /\ IF src = d THEN Crash
              ELSE Become(t, FromTop(n, Unreachable(task[t].icmp), src)) /\ OnlyTask

DirectFromTop(t) ==
    /\ Running(t, "fromTop")
    /\ LET n == task[t].node
           d == task[t].dst
           r == LongestMatch(routes[n], d)
           oif == MatchingSubnetIntf(n, r.dest)
       IN  /\ r # NoRoute /\ r.direct
           /\ \E src \in (IF oif = NoIntf THEN LoopbackSource(n) ELSE {IP[oif]}) :
                 Become(t, L2Fwd(n, d, NoIntf,
                    [src |-> src, dst |-> d, ttl |-> InitTTL, icmp |-> task[t].icmp]))
           /\ OnlyTask

\* Mutant: the interface is matched against the destination, not the gateway.
GatewayFromTopByDestination(t) ==
    /\ Running(t, "fromTop")
    /\ LET n == task[t].node
           d == task[t].dst
           r == LongestMatch(routes[n], d)
           oif == MatchingSubnetIntf(n, d)
       IN  /\ r # NoRoute /\ ~r.direct
           /\ IF oif = NoIntf THEN Crash
              ELSE /\ Become(t, L2Fwd(n, r.gw, oif,
                        [src |-> IP[oif], dst |-> d, ttl |-> InitTTL, icmp |-> task[t].icmp]))
                   /\ OnlyTask

\* The output interface is the one on the gateway's subnet, and not the route's
\* oif; where no interface is, the NULL is dereferenced.
GatewayFromTop(t) ==
    /\ Running(t, "fromTop")
    /\ LET n == task[t].node
           d == task[t].dst
           r == LongestMatch(routes[n], d)
           oif == MatchingSubnetIntf(n, r.gw)
       IN  /\ r # NoRoute /\ ~r.direct
           /\ IF oif = NoIntf THEN Crash
              ELSE /\ Become(t, L2Fwd(n, r.gw, oif,
                        [src |-> IP[oif], dst |-> d, ttl |-> InitTTL, icmp |-> task[t].icmp]))
                   /\ OnlyTask

(* l2_forward_ip_packet *)

\* demote_pkt_to_layer2 names no interface for a direct route, in which case the
\* packet may be the node's own and goes back up.
L2LocalDelivery(t) ==
    /\ Running(t, "l2fwd")
    /\ task[t].oif = NoIntf
    /\ LocalDelivery(task[t].node, task[t].hop)
    /\ Become(t, L3Recv(task[t].node, task[t].pkt))
    /\ OnlyTask

OutIntf(t) ==
    IF task[t].oif = NoIntf THEN MatchingSubnetIntf(task[t].node, task[t].hop)
    ELSE task[t].oif

Forwards(t) ==
    /\ Running(t, "l2fwd")
    /\ ~(task[t].oif = NoIntf /\ LocalDelivery(task[t].node, task[t].hop))

\* The frame takes the MAC of the entry and leaves on the interface chosen above,
\* not on the entry's oif.
L2Transmit(t, oif) ==
    LET mac == arp[task[t].node][task[t].hop].mac
    IN  IF oif = NoIntf THEN Crash
        ELSE Become(t, Idle) /\ Send(oif, IpFrameOf(oif, mac, task[t].pkt))

L2ForwardKnown(t) ==
    /\ Forwards(t)
    /\ arp[task[t].node][task[t].hop] # NoEntry
    /\ L2Transmit(t, OutIntf(t))

\* Mutant: the table is not read before the request is sent.
L2ForwardAlwaysAsks(t) ==
    /\ Forwards(t)
    /\ Become(t, ArpWait(task[t].node, task[t].hop, OutIntf(t), task[t].pkt))
    /\ IF OutIntf(t) = NoIntf THEN OnlyTask
       ELSE Send(OutIntf(t), ArpRequestFrame(OutIntf(t), task[t].hop))

\* send_arp_broadcast_request, then sleep_for(50). It returns without sending when
\* it finds no interface either.
L2ForwardUnknown(t) ==
    /\ Forwards(t)
    /\ arp[task[t].node][task[t].hop] = NoEntry
    /\ Become(t, ArpWait(task[t].node, task[t].hop, OutIntf(t), task[t].pkt))
    /\ IF OutIntf(t) = NoIntf THEN OnlyTask
       ELSE Send(OutIntf(t), ArpRequestFrame(OutIntf(t), task[t].hop))

\* The sleep is over and the table is read once more.
ArpResolved(t) ==
    /\ Running(t, "arpWait")
    /\ arp[task[t].node][task[t].hop] # NoEntry
    /\ L2Transmit(t, task[t].oif)

\* Mutant: arp_sent is not tested, the loop asks again.
ArpTimeoutRetries(t) ==
    /\ Running(t, "arpWait")
    /\ arp[task[t].node][task[t].hop] = NoEntry
    /\ UNCHANGED task
    /\ IF task[t].oif = NoIntf THEN OnlyTask
       ELSE Send(task[t].oif, ArpRequestFrame(task[t].oif, task[t].hop))

ArpTimeout(t) ==
    /\ Running(t, "arpWait")
    /\ arp[task[t].node][task[t].hop] = NoEntry
    /\ Become(t, Idle)
    /\ OnlyTask

(* layer3_ip_pkt_recv_from_layer2 *)

NoRouteRecv(t) ==
    /\ Running(t, "l3recv")
    /\ LET n == task[t].node
           pkt == task[t].pkt
       IN  /\ LongestMatch(routes[n], pkt.dst) = NoRoute
           /\ Become(t, FromTop(n, Unreachable(pkt.icmp), pkt.src))
    /\ OnlyTask

\* Mutant: the answer goes to the destination of the echo message.
LocalRecvAnswersDestination(t) ==
    /\ Running(t, "l3recv")
    /\ LET n == task[t].node
           pkt == task[t].pkt
           r == LongestMatch(routes[n], pkt.dst)
       IN  /\ r # NoRoute /\ r.direct
           /\ LocalDelivery(n, pkt.dst)
           /\ IF pkt.icmp.type = "echo"
              THEN Become(t, FromTop(n, EchoReply(pkt.icmp), pkt.dst)) /\ OnlyTask
              ELSE /\ Become(t, Idle)
                   /\ Report(n, pkt.icmp)
                   /\ UNCHANGED <<sock, ready, arp, routes, lo, ping, crashed,
                                  commands, echoes>>

\* Mutant: the type of the ICMP message is not tested.
LocalRecvAnswersAll(t) ==
    /\ Running(t, "l3recv")
    /\ LET n == task[t].node
           pkt == task[t].pkt
           r == LongestMatch(routes[n], pkt.dst)
       IN  /\ r # NoRoute /\ r.direct
           /\ LocalDelivery(n, pkt.dst)
           /\ IF pkt.icmp.type # "none"
              THEN Become(t, FromTop(n, EchoReply(pkt.icmp), pkt.src)) /\ OnlyTask
              ELSE /\ Become(t, Idle)
                   /\ Report(n, pkt.icmp)
                   /\ UNCHANGED <<sock, ready, arp, routes, lo, ping, crashed,
                                  commands, echoes>>

\* process_icmp_pkt: an echo message is answered, the others print a line.
LocalRecv(t) ==
    /\ Running(t, "l3recv")
    /\ LET n == task[t].node
           pkt == task[t].pkt
           r == LongestMatch(routes[n], pkt.dst)
       IN  /\ r # NoRoute /\ r.direct
           /\ LocalDelivery(n, pkt.dst)
           /\ IF pkt.icmp.type = "echo"
              THEN Become(t, FromTop(n, EchoReply(pkt.icmp), pkt.src)) /\ OnlyTask
              ELSE /\ Become(t, Idle)
                   /\ Report(n, pkt.icmp)
                   /\ UNCHANGED <<sock, ready, arp, routes, lo, ping, crashed,
                                  commands, echoes>>

\* Delivery to a host of a connected subnet does not count as a hop.
ConnectedRecv(t) ==
    /\ Running(t, "l3recv")
    /\ LET n == task[t].node
           pkt == task[t].pkt
           r == LongestMatch(routes[n], pkt.dst)
       IN  /\ r # NoRoute /\ r.direct
           /\ ~LocalDelivery(n, pkt.dst)
           /\ Become(t, L2Fwd(n, pkt.dst, NoIntf, pkt))
    /\ OnlyTask

\* Mutants: the TTL is not decremented; it is tested before it is decremented.
ForwardRecvKeepsTtl(t) ==
    /\ Running(t, "l3recv")
    /\ LET n == task[t].node
           pkt == task[t].pkt
           r == LongestMatch(routes[n], pkt.dst)
       IN  /\ r # NoRoute /\ ~r.direct
           /\ Become(t, L2Fwd(n, r.gw, r.oif, pkt))
    /\ OnlyTask

ForwardRecvExpiresEarly(t) ==
    /\ Running(t, "l3recv")
    /\ LET n == task[t].node
           pkt == task[t].pkt
           r == LongestMatch(routes[n], pkt.dst)
       IN  /\ r # NoRoute /\ ~r.direct
           /\ Become(t, IF pkt.ttl <= 2
                        THEN FromTop(n, Exceeded(pkt.icmp), pkt.src)
                        ELSE L2Fwd(n, r.gw, r.oif, [pkt EXCEPT !.ttl = @ - 1]))
    /\ OnlyTask

\* Forwarding does use the route's oif.
ForwardRecv(t) ==
    /\ Running(t, "l3recv")
    /\ LET n == task[t].node
           pkt == task[t].pkt
           r == LongestMatch(routes[n], pkt.dst)
       IN  /\ r # NoRoute /\ ~r.direct
           /\ Become(t, IF pkt.ttl = 1
                        THEN FromTop(n, Exceeded(pkt.icmp), pkt.src)
                        ELSE L2Fwd(n, r.gw, r.oif, [pkt EXCEPT !.ttl = @ - 1]))
    /\ OnlyTask

-----------------------------------------------------------------------------
(* The receiver thread: _network_start_pkt_receiver_thread, _pkt_receive,  *)
(* layer2_frame_recv and promote_pkt_to_layer2 on interfaces in L3 mode.   *)

\* select blocks until some socket is readable, and its answer is a snapshot.
Select ==
    /\ Running("rx", "idle") /\ ready = {}
    /\ \E n \in Node : sock[n] # <<>>
    /\ ready' = {n \in Node : sock[n] # <<>>}
    /\ UNCHANGED <<sock, arp, routes, lo, task, ping, crashed, commands, echoes, console>>

\* The scan visits the readable nodes in list order and takes one datagram each.
Visits(n) ==
    /\ Running("rx", "idle")
    /\ n \in ready /\ sock[n] # <<>>
    /\ \A m \in ready : Rank[n] <= Rank[m]

\* l2_frame_recv_qualify_on_interface for an untagged frame, L3 mode
Qualifies(d) == d.frame.dst \in {d.iif, BroadcastMac}

Consume(n) == ready' = ready \ {n}
Taken(n) == [sock EXCEPT ![n] = Tail(@)]

\* Mutant: the request for the node's own address is dropped.
RecvArpRequestSilently(n) ==
    /\ Visits(n)
    /\ LET d == Head(sock[n])
       IN  /\ Qualifies(d) /\ d.frame.type = "arpRequest"
           /\ d.frame.dstIp = IP[d.iif]
    /\ sock' = Taken(n)
    /\ Consume(n)
    /\ UNCHANGED <<arp, routes, lo, task, ping, crashed, commands, echoes, console>>

\* process_arp_broadcast_request: only the address of the interface it came in on
RecvArpRequest(n) ==
    /\ Visits(n)
    /\ LET d == Head(sock[n])
       IN  /\ Qualifies(d) /\ d.frame.type = "arpRequest"
           /\ d.frame.dstIp = IP[d.iif]
           /\ sock' = Deliver(Taken(n), d.iif, ArpReplyFrame(d.iif, d.frame))
    /\ Consume(n)
    /\ UNCHANGED <<arp, routes, lo, task, ping, crashed, commands, echoes, console>>

\* Mutant: the reply starts a new table.
RecvArpReplyResets(n) ==
    /\ Visits(n)
    /\ LET d == Head(sock[n])
       IN  /\ Qualifies(d) /\ d.frame.type = "arpReply"
           /\ arp' = [arp EXCEPT ![n] = [x \in Addr |->
                        IF x = d.frame.srcIp THEN [mac |-> d.frame.src, oif |-> d.iif]
                        ELSE NoEntry]]
    /\ sock' = Taken(n)
    /\ Consume(n)
    /\ UNCHANGED <<routes, lo, task, ping, crashed, commands, echoes, console>>

\* arp_table_update_from_arp_reply: any reply is believed.
RecvArpReply(n) ==
    /\ Visits(n)
    /\ LET d == Head(sock[n])
       IN  /\ Qualifies(d) /\ d.frame.type = "arpReply"
           /\ arp' = [arp EXCEPT ![n][d.frame.srcIp] = [mac |-> d.frame.src, oif |-> d.iif]]
    /\ sock' = Taken(n)
    /\ Consume(n)
    /\ UNCHANGED <<routes, lo, task, ping, crashed, commands, echoes, console>>

\* Mutant: the datagram stays in the socket.
RecvIpPeeks(n) ==
    /\ Visits(n)
    /\ LET d == Head(sock[n])
       IN  /\ Qualifies(d) /\ d.frame.type = "ip"
           /\ Become("rx", L3Recv(n, d.frame.pkt))
    /\ Consume(n)
    /\ UNCHANGED <<sock, arp, routes, lo, ping, crashed, commands, echoes, console>>

RecvIp(n) ==
    /\ Visits(n)
    /\ LET d == Head(sock[n])
       IN  /\ Qualifies(d) /\ d.frame.type = "ip"
           /\ Become("rx", L3Recv(n, d.frame.pkt))
    /\ sock' = Taken(n)
    /\ Consume(n)
    /\ UNCHANGED <<arp, routes, lo, ping, crashed, commands, echoes, console>>

RecvDiscard(n) ==
    /\ Visits(n)
    /\ LET d == Head(sock[n])
       IN  ~Qualifies(d) \/ (d.frame.type = "arpRequest" /\ d.frame.dstIp # IP[d.iif])
    /\ sock' = Taken(n)
    /\ Consume(n)
    /\ UNCHANGED <<arp, routes, lo, task, ping, crashed, commands, echoes, console>>

-----------------------------------------------------------------------------
(* The commands. A handler runs on the cli thread and returns before the   *)
(* next command is read.                                                   *)

Prompt ==
    /\ Running("cli", "idle") /\ ping = NoPing
    /\ commands < MaxCommands
    /\ commands' = commands + 1

\* send_ping_request: the loop counter is not initialised. Its values from
\* PingCount on all end the loop before the first packet.
PingCommand(n, dst) ==
    /\ Prompt
    /\ \E i \in 0..PingCount : ping' = [node |-> n, dst |-> dst, i |-> i, sent |-> 0]
    /\ UNCHANGED <<sock, ready, arp, routes, lo, task, crashed, echoes, console>>

PingSend ==
    /\ Running("cli", "idle") /\ ping # NoPing
    /\ ping.i < PingCount
    /\ echoes' = Append(echoes, [node |-> ping.node, dst |-> ping.dst])
    /\ Become("cli", FromTop(ping.node, [type |-> "echo", id |-> Len(echoes) + 1], ping.dst))
    /\ ping' = [ping EXCEPT !.i = @ + 1, !.sent = @ + 1]
    /\ UNCHANGED <<sock, ready, arp, routes, lo, crashed, commands, console>>

PingReturn ==
    /\ Running("cli", "idle") /\ ping # NoPing
    /\ ping.i >= PingCount
    /\ ping' = NoPing
    /\ UNCHANGED <<sock, ready, arp, routes, lo, task, crashed, commands, echoes, console>>

\* resolve_arp_handler: send_arp_broadcast_request without an interface
ResolveArp(n, a) ==
    /\ Prompt
    /\ LET oif == MatchingSubnetIntf(n, a)
       IN  sock' = IF oif = NoIntf \/ IP[oif] = a THEN sock
                   ELSE Deliver(sock, oif, ArpRequestFrame(oif, a))
    /\ UNCHANGED <<ready, arp, routes, lo, task, ping, crashed, echoes, console>>

\* config_route_handler and rt_table_add_route
ConfigRoute(c) ==
    /\ Prompt
    /\ Owner[c.oif] = c.node
    /\ routes' = [routes EXCEPT ![c.node] = <<StaticRoute(c.dst, c.mask, c.gw, c.oif)>> \o @]
    /\ UNCHANGED <<sock, ready, arp, lo, task, ping, crashed, echoes, console>>

\* dump_nw_node appends "/32" to lb_addr itself.
ShowNodes(S) ==
    /\ Prompt
    /\ lo' = [n \in Node |-> IF n \in S THEN Unparsable ELSE lo[n]]
    /\ UNCHANGED <<sock, ready, arp, routes, task, ping, crashed, echoes, console>>

-----------------------------------------------------------------------------
Call(t) ==
    \/ NoRouteFromTop(t) \/ DirectFromTop(t) \/ GatewayFromTop(t)
    \/ L2LocalDelivery(t) \/ L2ForwardKnown(t) \/ L2ForwardUnknown(t)
    \/ ArpResolved(t) \/ ArpTimeout(t)
    \/ NoRouteRecv(t) \/ LocalRecv(t) \/ ConnectedRecv(t) \/ ForwardRecv(t)

Receive ==
    \/ Select
    \/ \E n \in Node : RecvArpRequest(n) \/ RecvArpReply(n) \/ RecvIp(n) \/ RecvDiscard(n)

Command ==
    \/ \E c \in PingCommands : PingCommand(c[1], c[2])
    \/ \E c \in ArpCommands : ResolveArp(c[1], c[2])
    \/ \E c \in RouteCommands : ConfigRoute(c)
    \/ \E S \in ShowCommands : ShowNodes(S)

RxStep == Call("rx") \/ Receive
CliStep == Call("cli") \/ PingSend \/ PingReturn

Next == RxStep \/ CliStep \/ Command

Spec == Init /\ [][Next]_vars

\* Both threads are scheduled; nobody has to type a command.
FairSpec == Spec /\ WF_vars(RxStep) /\ WF_vars(CliStep)

-----------------------------------------------------------------------------
(* Correctness *)

ConsoleLine == [node : Node, type : IcmpType \ {"echo"}, id : Nat]

\* The type of every variable.
TypeOK ==
    /\ sock \in [Node -> Seq(Datagram)]
    /\ ready \subseteq Node
    /\ arp \in [Node -> [Addr -> ArpEntry \cup {NoEntry}]]
    /\ routes \in [Node -> Seq(Route)]
    /\ lo \in [Node -> Addr \cup {Unparsable}]
    /\ task \in [Thread -> Task]
    /\ ping \in Ping \cup {NoPing}
    /\ crashed \in BOOLEAN
    /\ commands \in 0..MaxCommands
    /\ echoes \in Seq([node : Node, dst : Addr])
    /\ console \subseteq ConsoleLine

\* Whatever the interleaving of requests, replies and the commands that cause
\* them, a node that believes any ARP reply it is handed (layer2.c:84-99) never
\* binds an address to anything but the interface that owns it, at the other end
\* of the link that the entry names.
EntrySound(n, a, e) ==
    /\ e.mac \in Intf /\ IP[e.mac] = a
    /\ e.oif = Peer[e.mac] /\ Owner[e.oif] = n

ArpSound ==
    \A n \in Node, a \in Addr \ {BroadcastAddr} :
        arp[n][a] # NoEntry => EntrySound(n, a, arp[n][a])

\* While the receiver sleeps for an ARP reply (layer2.c:379-392) nothing can add
\* the entry it waits for: the only code that could is the receiver itself. So
\* every packet that it forwards or answers to an unresolved hop is lost.
ReceiverWaitIsFutile ==
    task["rx"].op = "arpWait" => arp[task["rx"].node][task["rx"].hop] = NoEntry

\* What stands at place k of a node's socket, and what a thread has in hands.
InSocket(n, k, id) ==
    /\ k \in 1..Len(sock[n])
    /\ sock[n][k].frame.type = "ip" /\ sock[n][k].frame.pkt.icmp.id = id

InHand(t) == CASE task[t].op = "fromTop" -> {task[t].icmp}
               [] task[t].op \in {"l2fwd", "arpWait", "l3recv"} -> {task[t].pkt.icmp}
               [] OTHER -> {}
HeldBy(t, id) == \E m \in InHand(t) : m.id = id

\* An echo message has at most one descendant, whatever answers, reports and
\* retransmissions it causes on its way: one datagram, one packet in a thread's
\* hands, or one line on the console.
Descendants(id) ==
    {<<"socket", p>> : p \in {q \in Node \X (1..SockCap) : InSocket(q[1], q[2], id)}}
    \cup {<<"thread", t>> : t \in {u \in Thread : HeldBy(u, id)}}
    \cup {<<"line", c>> : c \in {l \in console : l.id = id}}

EchoHasOneDescendant ==
    \A id \in 1..Len(echoes) : \A x, y \in Descendants(id) : x = y

\* A line "bytes received" is printed only by the node that pinged, and the
\* address it pinged is one of another interface or loopback or its own, never a
\* destination that no node owns (layer3.c:366-372, 389-393).
RepliesReachTheAsker ==
    \A c \in console : c.type = "reply" =>
        /\ c.node = echoes[c.id].node
        /\ \/ \E i \in Intf : IP[i] = echoes[c.id].dst
           \/ \E n \in Node : Loopback[n] = echoes[c.id].dst

\* The process dies only where the configuration lets it: a route through a gateway
\* that no interface of the node reaches (layer3.c:252), or a node without a
\* loopback address that can be read (layer3.c:215-224).
OffLinkGateway(n) ==
    \E k \in 1..Len(routes[n]) :
        ~routes[n][k].direct /\ MatchingSubnetIntf(n, routes[n][k].gw) = NoIntf

CrashNeedsMisconfiguration ==
    crashed => \E n \in Node : OffLinkGateway(n) \/ lo[n] = Unparsable

\* No step forgets an ARP entry or rebinds it, although every reply overwrites the
\* table: what a thread looked up before it lost the processor is still true.
ArpStable ==
    [][\A n \in Node, a \in Addr : arp[n][a] # NoEntry => arp'[n][a] = arp[n][a]]_vars

\* A ping command gives the prompt back, whatever its packets meet.
PingReturns == (ping # NoPing) ~> (ping = NoPing)

\* The network falls silent, unless the process has died: no packet circulates for
\* ever, on a loop of routes (layer3.c:468-482) or between two nodes that report
\* errors to each other.
Quiesces == <>[](crashed \/ (task["rx"] = Idle /\ \A n \in Node : sock[n] = <<>>))

\* A request that reaches the owner of an address is answered, and the answer
\* enters the table of the node that asked.
RequestInFlight(i) ==
    \E k \in 1..Len(sock[Owner[Peer[i]]]) :
        LET d == sock[Owner[Peer[i]]][k]
        IN  /\ d.iif = Peer[i] /\ d.frame.type = "arpRequest"
            /\ d.frame.dstIp = IP[Peer[i]]

RequestsAreAnswered ==
    \A i \in Intf : RequestInFlight(i) ~> (arp[Owner[i]][IP[Peer[i]]] # NoEntry)

\* Once both ends of every link have resolved each other and every route of the
\* plan is configured, a ping of the address of an interface brings a reply.
Warm ==
    /\ \A i \in Intf : arp[Owner[i]][IP[Peer[i]]] # NoEntry
    /\ \A c \in RouteCommands : \E k \in 1..Len(routes[c.node]) :
          routes[c.node][k] = StaticRoute(c.dst, c.mask, c.gw, c.oif)

Pinging(id) ==
    /\ task["cli"].op = "fromTop" /\ task["cli"].icmp = [type |-> "echo", id |-> id]
    /\ \E i \in Intf : IP[i] = task["cli"].dst

Replied(id) == \E c \in console : c.type = "reply" /\ c.id = id

WarmPingsAreAnswered ==
    \A id \in 1..(MaxCommands * PingCount) : (Pinging(id) /\ Warm) ~> Replied(id)

\* The stacks are a network in the sense of EchoNet: no interleaving, misrouting or
\* error about an error revives an echo message that was lost or printed, answers one
\* for an address that nobody has, or answers a reply or an error.
TypesOf(id) ==
    {m.type : m \in {h \in UNION {InHand(t) : t \in Thread} : h.id = id}}
    \cup {sock[p[1]][p[2]].frame.pkt.icmp.type :
            p \in {q \in Node \X (1..SockCap) : InSocket(q[1], q[2], id)}}

FateOf(id) ==
    LET printed == {c.type : c \in {l \in console : l.id = id}}
        types == TypesOf(id)
    IN  CASE printed # {} -> IF "reply" \in printed THEN "answered" ELSE "reported"
          [] printed = {} /\ types = {} -> "lost"
          [] OTHER -> IF "echo" \in types THEN "request"
                      ELSE IF "reply" \in types THEN "answer" ELSE "error"

Net == INSTANCE EchoNet WITH
    Owned <- {IP[i] : i \in Intf} \cup {Loopback[n] : n \in Node},
    fate <- [id \in 1..Len(echoes) |-> FateOf(id)]
ImplementsEchoNet == Net!Spec

\* Every echo message meets its fate, whichever tables on its way are cold and
\* whatever errors it causes.
EchoesSettle ==
    \A id \in 1..(MaxCommands * PingCount) :
        (id \in 1..Len(echoes) /\ TypesOf(id) # {}) ~> TypesOf(id) = {}

-----------------------------------------------------------------------------
(* What the repository says and the code does not do *)

\* ping.c:10 prints "Sending %d packets" with the count of the command.
PingSendsCount ==
    [][ping # NoPing /\ ping' = NoPing => ping.sent = PingCount]_vars

\* "Dump Completed Network Topology" (nwcli.c:788): a command that shows the nodes
\* leaves them as they were, so what is addressed to a loopback is delivered.
LoopbackIsLocal ==
    \A n \in Node : Loopback[n] # Unparsable => LocalDelivery(n, Loopback[n])
=============================================================================
