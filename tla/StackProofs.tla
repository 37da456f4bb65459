---------------------------- MODULE StackProofs ----------------------------
(* Theorems about module Stack, for every topology, every TTL and every    *)
(* bound on the commands.                                                  *)
EXTENDS Stack, SequenceTheorems, WellFoundedInduction, TLAPS

-----------------------------------------------------------------------------
(* Masks and the route lookup, for every width and every table *)

\* A nonempty set of naturals has a least element.
LEMMA NatMinimum ==
  ASSUME NEW T, T \subseteq Nat, T # {}
  PROVE  \E x \in T : \A y \in T : x <= y
<1>1. PICK x \in T : \A y \in T : ~ (<<y, x>> \in OpToRel(<, Nat))
  BY NatLessThanWellFounded, WFMin
<1>2. \A y \in T : ~ (y < x)
  BY <1>1 DEF OpToRel
<1> QED
  BY <1>2

\* 0.0.0.0 and 255.255.255.255 are addresses.
LEMMA ConstantAddrs == AnyAddr \in Addr /\ BroadcastAddr \in Addr
  BY DEF Addr, AnyAddr, BroadcastAddr

\* A masked address is an address.
LEMMA ApplyMaskType ==
  ASSUME NEW x \in Addr, NEW m \in MaskLen
  PROVE  ApplyMask(x, m) \in Addr
  BY DEF Addr, ApplyMask, MaskLen

\* Masking twice is masking once, with the shorter mask: what a route stores
\* (rt_table_add_route) matches itself.
LEMMA ApplyMaskTwice ==
  ASSUME NEW x \in Addr, NEW m \in MaskLen
  PROVE  ApplyMask(ApplyMask(x, m), m) = ApplyMask(x, m)
  BY DEF Addr, ApplyMask, MaskLen

\* The routes that the table functions build are well formed.
LEMMA RouteTypes ==
  /\ NoRoute \in Route
  /\ \A x \in Addr, m \in MaskLen : DirectRoute(x, m) \in Route
  /\ \A x, g \in Addr, m \in MaskLen, i \in Intf : StaticRoute(x, m, g, i) \in Route
<1>1. NoRoute \in Route
  BY ConstantAddrs, IPv4Assumption DEF NoRoute, Route, MaskLen
<1>2. \A x \in Addr, m \in MaskLen : DirectRoute(x, m) \in Route
  BY ConstantAddrs DEF DirectRoute, Route
<1>3. \A x, g \in Addr, m \in MaskLen, i \in Intf : StaticRoute(x, m, g, i) \in Route
  BY ApplyMaskType DEF StaticRoute, Route
<1> QED
  BY <1>1, <1>2, <1>3

\* Among the routes that match there is a best one (layer3.c:63-96) ...
THEOREM BestRouteExists ==
  ASSUME NEW rt \in Seq(Route), NEW dst \in Addr, Candidates(rt, dst) # {}
  PROVE  \E k \in Candidates(rt, dst) : IsBest(rt, dst, k)
<1> DEFINE C == Candidates(rt, dst)
<1> DEFINE gaps == {AddrBits - rt[k].mask : k \in C}
<1>1. C \subseteq 1..Len(rt) /\ \A k \in C : rt[k] \in Route
  BY DEF Candidates
<1>2. \A k \in C : rt[k].mask \in 0..AddrBits
  BY <1>1 DEF Route, MaskLen
<1>3. gaps \subseteq Nat /\ gaps # {}
  BY <1>2, IPv4Assumption
<1>4. PICK g \in gaps : \A h \in gaps : g <= h
  BY <1>3, NatMinimum
<1>5. PICK l \in C : g = AddrBits - rt[l].mask
  BY <1>4
<1> DEFINE longest == {k \in C : rt[k].mask = rt[l].mask}
<1>6. longest \subseteq Nat /\ longest # {}
  BY <1>1, <1>5
<1>7. PICK k \in longest : \A j \in longest : k <= j
  <2> HIDE DEF longest
  <2> QED BY <1>6, NatMinimum
<1>8. \A j \in C : rt[j].mask <= rt[l].mask
  <2> TAKE j \in C
  <2>1. AddrBits - rt[l].mask <= AddrBits - rt[j].mask
    BY <1>4, <1>5
  <2> QED BY <2>1, <1>2, <1>5, IPv4Assumption
<1>9. \A j \in C : rt[j].mask < rt[k].mask \/ (rt[j].mask = rt[k].mask /\ k <= j)
  BY <1>2, <1>7, <1>8
<1> QED
  BY <1>7, <1>9 DEF IsBest

\* ... and only one: the lookup is a function of the table and of the destination.
THEOREM BestRouteUnique ==
  ASSUME NEW rt \in Seq(Route), NEW dst \in Addr,
         NEW j, IsBest(rt, dst, j), NEW k, IsBest(rt, dst, k)
  PROVE  j = k
<1>1. j \in 1..Len(rt) /\ k \in 1..Len(rt)
  BY DEF IsBest, Candidates
<1>2. rt[j] \in Route /\ rt[k] \in Route
  BY <1>1
<1>3. rt[j].mask \in 0..AddrBits /\ rt[k].mask \in 0..AddrBits
  BY <1>2 DEF Route, MaskLen
<1> QED
  BY <1>1, <1>3, IPv4Assumption DEF IsBest

\* The lookup returns a route of the table that matches, or NoRoute.
THEOREM LongestMatchSpec ==
  ASSUME NEW rt \in Seq(Route), NEW dst \in Addr
  PROVE  /\ LongestMatch(rt, dst) \in Route
         /\ LongestMatch(rt, dst) = NoRoute <=> Candidates(rt, dst) = {}
         /\ LongestMatch(rt, dst) # NoRoute =>
              \E k \in Candidates(rt, dst) :
                 IsBest(rt, dst, k) /\ LongestMatch(rt, dst) = rt[k]
<1>1. CASE Candidates(rt, dst) = {}
  BY <1>1, RouteTypes DEF LongestMatch
<1>2. CASE Candidates(rt, dst) # {}
  <2> DEFINE k == CHOOSE k \in Candidates(rt, dst) : IsBest(rt, dst, k)
  <2>1. k \in Candidates(rt, dst) /\ IsBest(rt, dst, k)
    BY <1>2, BestRouteExists
  <2>2. LongestMatch(rt, dst) = rt[k]
    BY <1>2 DEF LongestMatch
  <2>3. rt[k] \in Route /\ rt[k].mask > 0
    BY <2>1 DEF Candidates
  <2>4. rt[k] # NoRoute
    BY <2>3 DEF NoRoute
  <2> QED
    BY <1>2, <2>1, <2>2, <2>3, <2>4
<1> QED
  BY <1>1, <1>2

-----------------------------------------------------------------------------
(* The stack *)

Frame == ArpFrame \cup IpFrame
Sockets == [Node -> Seq(Datagram)]
Tasks == [Thread -> Task]

-----------------------------------------------------------------------------
(* Types of the operators *)

\* The other end, the owner and the address of an interface, from the assumptions.
LEMMA LinkTypes ==
  \A i \in Intf : /\ Peer[i] \in Intf /\ Owner[i] \in Node /\ IP[i] \in Addr
                  /\ Mask[i] \in MaskLen /\ Peer[Peer[i]] = i
  BY StackAssumption

\* Sending a frame leaves every socket a queue of datagrams.
LEMMA DeliverType ==
  ASSUME NEW q \in Sockets, NEW i \in Intf, NEW f \in Frame
  PROVE  Deliver(q, i, f) \in Sockets
<1>1. Peer[i] \in Intf /\ Owner[Peer[i]] \in Node
  BY LinkTypes
<1>2. [iif |-> Peer[i], frame |-> f] \in Datagram
  BY <1>1 DEF Datagram, Frame
<1>3. q[Owner[Peer[i]]] \in Seq(Datagram)
  BY <1>1 DEF Sockets
<1>4. Append(q[Owner[Peer[i]]], [iif |-> Peer[i], frame |-> f]) \in Seq(Datagram)
  BY <1>2, <1>3
<1> QED
  BY <1>3, <1>4 DEF Deliver, Sockets

\* The frames that layer 2 builds are well formed.
LEMMA FrameTypes ==
  /\ \A i \in Intf, x \in Addr : ArpRequestFrame(i, x) \in Frame
  /\ \A i \in Intf, r \in ArpFrame : ArpReplyFrame(i, r) \in Frame
  /\ \A i \in Intf, m \in Mac, p \in Packet : IpFrameOf(i, m, p) \in Frame
  BY LinkTypes DEF ArpRequestFrame, ArpReplyFrame, IpFrameOf, Frame, ArpFrame, IpFrame, Mac

\* node_get_matching_subnet_interface returns an interface or NULL.
LEMMA MatchingSubnetType ==
  ASSUME NEW n \in Node, NEW x \in Addr
  PROVE  MatchingSubnetIntf(n, x) \in Intf \cup {NoIntf}
<1> DEFINE slots == {k \in 1..Len(IntfSeq[n]) : OnSubnet(IntfSeq[n][k], x)}
<1>1. IntfSeq[n] \in Seq(Intf)
  BY StackAssumption
<1>2. CASE slots = {}
  BY <1>2 DEF MatchingSubnetIntf
<1>3. CASE slots # {}
  <2>1. slots \subseteq Nat
    BY <1>1
  <2>2. \E k \in slots : \A j \in slots : k <= j
    <3> HIDE DEF slots
    <3> QED BY <1>3, <2>1, NatMinimum
  <2>3. (CHOOSE k \in slots : \A j \in slots : k <= j) \in slots
    BY <2>2
  <2> DEFINE first == CHOOSE k \in slots : \A j \in slots : k <= j
  <2>4. first \in 1..Len(IntfSeq[n])
    BY <2>3
  <2>5. MatchingSubnetIntf(n, x) = IntfSeq[n][first]
    BY <1>3 DEF MatchingSubnetIntf
  <2> HIDE DEF first
  <2> QED BY <1>1, <2>4, <2>5
<1> QED BY <1>2, <1>3

\* The calls that the functions of the two layers make are well formed.
LEMMA TaskTypes ==
  /\ Idle \in Task
  /\ \A n \in Node, m \in Icmp, x \in Addr : FromTop(n, m, x) \in Task
  /\ \A n \in Node, x \in Addr, i \in Intf \cup {NoIntf}, p \in Packet :
        L2Fwd(n, x, i, p) \in Task /\ ArpWait(n, x, i, p) \in Task
  /\ \A n \in Node, p \in Packet : L3Recv(n, p) \in Task
  BY DEF Idle, FromTop, L2Fwd, ArpWait, L3Recv, Task

\* The messages made out of another one are well formed.
LEMMA IcmpTypes ==
  \A m \in Icmp : Unreachable(m) \in Icmp /\ Exceeded(m) \in Icmp /\ EchoReply(m) \in Icmp
  BY DEF Icmp, IcmpType, Unreachable, Exceeded, EchoReply

\* What a thread's pending call holds, by the name of the call.
LEMMA TaskFields ==
  ASSUME TypeOK, NEW t \in Thread
  PROVE  /\ task[t] \in Task
         /\ task[t].op = "fromTop" =>
              task[t].node \in Node /\ task[t].icmp \in Icmp /\ task[t].dst \in Addr
         /\ task[t].op \in {"l2fwd", "arpWait"} =>
              /\ task[t].node \in Node /\ task[t].hop \in Addr
              /\ task[t].oif \in Intf \cup {NoIntf} /\ task[t].pkt \in Packet
         /\ task[t].op = "l3recv" => task[t].node \in Node /\ task[t].pkt \in Packet
<1>1. task[t] \in Task
  BY DEF TypeOK
<1> QED
  BY <1>1 DEF Task, Idle

\* The routes of a node that has just been configured are a route table.
LEMMA InitRoutesType ==
  ASSUME NEW n \in Node
  PROVE  InitRoutes(n) \in Seq(Route)
<1> DEFINE len == Len(IntfSeq[n])
           ofIntf(i) == DirectRoute(ApplyMask(IP[i], Mask[i]), Mask[i])
<1>1. IntfSeq[n] \in Seq(Intf) /\ len \in Nat
  BY StackAssumption
<1>2. \A i \in Intf : ofIntf(i) \in Route
  BY LinkTypes, ApplyMaskType, RouteTypes
<1>3. \A k \in 1..len : ofIntf(IntfSeq[n][len + 1 - k]) \in Route
  <2> TAKE k \in 1..len
  <2>1. len + 1 - k \in 1..len
    BY <1>1
  <2>2. IntfSeq[n][len + 1 - k] \in Intf
    BY <1>1, <2>1
  <2> QED BY <1>2, <2>2
<1>4. CASE Loopback[n] = Unparsable
  <2>1. InitRoutes(n) = [k \in 1..len |-> ofIntf(IntfSeq[n][len + 1 - k])]
    BY <1>4 DEF InitRoutes
  <2> HIDE DEF ofIntf, len
  <2>2. InitRoutes(n) \in [1..len -> Route]
    BY <1>3, <2>1
  <2> QED BY <1>1, <2>2, SeqDef
<1>5. CASE Loopback[n] # Unparsable
  <2>1. InitRoutes(n) = [k \in 1..(len + 1) |->
                           IF k <= len THEN ofIntf(IntfSeq[n][len + 1 - k])
                                       ELSE DirectRoute(Loopback[n], AddrBits)]
    BY <1>5 DEF InitRoutes
  <2>2. DirectRoute(Loopback[n], AddrBits) \in Route
    BY <1>5, StackAssumption, IPv4Assumption, RouteTypes DEF MaskLen
  <2> HIDE DEF ofIntf, len
  <2>3. \A k \in 1..(len + 1) : k <= len => k \in 1..len
    BY <1>1
  <2>4. InitRoutes(n) \in [1..(len + 1) -> Route]
    BY <1>3, <2>1, <2>2, <2>3
  <2> QED BY <1>1, <2>4, SeqDef
<1> QED BY <1>4, <1>5

-----------------------------------------------------------------------------
(* Type correctness *)

\* A step that only replaces a thread's call keeps the types ...
LEMMA BecomeType ==
  ASSUME TypeOK, NEW t \in Thread, NEW x \in Task, Become(t, x), OnlyTask
  PROVE  TypeOK'
  BY DEF TypeOK, Become, OnlyTask

\* ... and so does one that sends a frame ...
LEMMA SendType ==
  ASSUME TypeOK, NEW t \in Thread, NEW x \in Task, Become(t, x),
         NEW i \in Intf, NEW f \in Frame, Send(i, f)
  PROVE  TypeOK'
<1>1. Deliver(sock, i, f) \in Sockets
  BY DeliverType DEF TypeOK, Sockets
<1>2. sock' \in [Node -> Seq(Datagram)]
  BY <1>1 DEF Send, Sockets
<1> QED
  BY <1>2 DEF TypeOK, Become, Send

\* ... and one that takes the process down.
LEMMA CrashType ==
  ASSUME TypeOK, Crash
  PROVE  TypeOK'
  BY DEF TypeOK, Crash

\* What the lookup of a node finds, and the interface it then looks for.
LEMMA LookupTypes ==
  ASSUME TypeOK, NEW n \in Node, NEW x \in Addr
  PROVE  /\ LongestMatch(routes[n], x) \in Route
         /\ LongestMatch(routes[n], x).dest \in Addr
         /\ LongestMatch(routes[n], x).gw \in Addr
         /\ LongestMatch(routes[n], x).oif \in Intf \cup {NoIntf}
<1>1. routes[n] \in Seq(Route)
  BY DEF TypeOK
<1>2. LongestMatch(routes[n], x) \in Route
  BY <1>1, LongestMatchSpec
<1> QED
  BY <1>2 DEF Route

\* layer3_pkt_receive_from_top keeps the types.
LEMMA FromTopType ==
  ASSUME TypeOK, NEW t \in Thread,
         NoRouteFromTop(t) \/ DirectFromTop(t) \/ GatewayFromTop(t)
  PROVE  TypeOK'
<1> DEFINE n == task[t].node
           d == task[t].dst
           m == task[t].icmp
           r == LongestMatch(routes[n], d)
<1>1. n \in Node /\ d \in Addr /\ m \in Icmp
  BY TaskFields DEF NoRouteFromTop, DirectFromTop, GatewayFromTop, Running
<1>2. r.dest \in Addr /\ r.gw \in Addr
  BY <1>1, LookupTypes
<1>3. lo[n] # Unparsable => lo[n] \in Addr
  BY <1>1 DEF TypeOK
<1>4. \A s \in Addr : [src |-> s, dst |-> d, ttl |-> InitTTL, icmp |-> m] \in Packet
  BY <1>1, StackAssumption DEF Packet
<1>5. CASE NoRouteFromTop(t)
  <2> DEFINE src == IF lo[n] = Unparsable THEN AnyAddr ELSE lo[n]
  <2>1. src \in Addr /\ Unreachable(m) \in Icmp
    BY <1>1, <1>3, ConstantAddrs, IcmpTypes
  <2>2. FromTop(n, Unreachable(m), src) \in Task
    BY <1>1, <2>1, TaskTypes
  <2>3. Crash \/ (Become(t, FromTop(n, Unreachable(m), src)) /\ OnlyTask)
    BY <1>5 DEF NoRouteFromTop
  <2> HIDE DEF src, n, m, d
  <2> QED BY <2>2, <2>3, CrashType, BecomeType
<1>6. CASE DirectFromTop(t)
  <2> DEFINE oif == MatchingSubnetIntf(n, r.dest)
             srcs == IF oif = NoIntf THEN LoopbackSource(n) ELSE {IP[oif]}
  <2>1. oif \in Intf \cup {NoIntf}
    BY <1>1, <1>2, MatchingSubnetType
  <2>2. srcs \subseteq Addr
    BY <2>1, <1>3, LinkTypes DEF LoopbackSource
  <2>3. PICK s \in srcs :
          Become(t, L2Fwd(n, d, NoIntf,
                    [src |-> s, dst |-> d, ttl |-> InitTTL, icmp |-> m]))
    BY <1>6 DEF DirectFromTop
  <2>4. OnlyTask
    BY <1>6 DEF DirectFromTop
  <2>5. L2Fwd(n, d, NoIntf, [src |-> s, dst |-> d, ttl |-> InitTTL, icmp |-> m]) \in Task
    BY <1>1, <1>4, <2>2, TaskTypes
  <2> HIDE DEF n, m, d, srcs
  <2> QED BY <2>3, <2>4, <2>5, BecomeType
<1>7. CASE GatewayFromTop(t)
  <2> DEFINE oif == MatchingSubnetIntf(n, r.gw)
             next == L2Fwd(n, r.gw, oif,
                       [src |-> IP[oif], dst |-> d, ttl |-> InitTTL, icmp |-> m])
  <2>1. oif \in Intf \cup {NoIntf}
    BY <1>1, <1>2, MatchingSubnetType
  <2>2. Crash \/ (oif # NoIntf /\ Become(t, next) /\ OnlyTask)
    BY <1>7 DEF GatewayFromTop
  <2>3. oif # NoIntf => next \in Task
    BY <1>1, <1>2, <1>4, <2>1, LinkTypes, TaskTypes
  <2> HIDE DEF next
  <2> QED BY <2>2, <2>3, CrashType, BecomeType
<1> QED
  BY <1>5, <1>6, <1>7

\* Sending a packet to a resolved hop keeps the types.
LEMMA TransmitType ==
  ASSUME TypeOK, NEW t \in Thread, task[t].op \in {"l2fwd", "arpWait"},
         arp[task[t].node][task[t].hop] # NoEntry,
         NEW oif \in Intf \cup {NoIntf}, L2Transmit(t, oif)
  PROVE  TypeOK'
<1> DEFINE mac == arp[task[t].node][task[t].hop].mac
<1>1. arp[task[t].node][task[t].hop] \in ArpEntry /\ task[t].pkt \in Packet
  BY TaskFields DEF TypeOK
<1>2. mac \in Mac
  BY <1>1 DEF ArpEntry
<1>3. oif # NoIntf => IpFrameOf(oif, mac, task[t].pkt) \in Frame
  BY <1>1, <1>2, FrameTypes
<1>4. CASE oif = NoIntf
  BY <1>4, CrashType DEF L2Transmit
<1>5. CASE oif # NoIntf
  <2>1. Become(t, Idle) /\ Send(oif, IpFrameOf(oif, mac, task[t].pkt))
    BY <1>5 DEF L2Transmit
  <2> HIDE DEF mac
  <2> QED BY <1>3, <1>5, <2>1, TaskTypes, SendType
<1> QED
  BY <1>4, <1>5

\* l2_forward_ip_packet keeps the types.
LEMMA ForwardType ==
  ASSUME TypeOK, NEW t \in Thread,
         \/ L2LocalDelivery(t) \/ L2ForwardKnown(t) \/ L2ForwardUnknown(t)
         \/ ArpResolved(t) \/ ArpTimeout(t)
  PROVE  TypeOK'
<1> DEFINE n == task[t].node
           oif == OutIntf(t)
<1>1. /\ task[t].op \in {"l2fwd", "arpWait"}
      /\ n \in Node /\ task[t].hop \in Addr
      /\ task[t].oif \in Intf \cup {NoIntf} /\ task[t].pkt \in Packet
  <2>1. task[t].op \in {"l2fwd", "arpWait"}
    BY DEF L2LocalDelivery, L2ForwardKnown, L2ForwardUnknown, ArpResolved, ArpTimeout,
           Forwards, Running
  <2> QED BY <2>1, TaskFields
<1>2. oif \in Intf \cup {NoIntf}
  BY <1>1, MatchingSubnetType DEF OutIntf
<1>3. CASE L2LocalDelivery(t)
  BY <1>1, <1>3, TaskTypes, BecomeType DEF L2LocalDelivery
<1>4. CASE L2ForwardKnown(t)
  <2> HIDE DEF oif
  <2> QED BY <1>1, <1>2, <1>4, TransmitType DEF L2ForwardKnown, oif
<1>5. CASE L2ForwardUnknown(t)
  <2>1. ArpWait(n, task[t].hop, oif, task[t].pkt) \in Task
    BY <1>1, <1>2, TaskTypes
  <2>2. Become(t, ArpWait(n, task[t].hop, oif, task[t].pkt))
    BY <1>5 DEF L2ForwardUnknown
  <2>3. OnlyTask \/ (oif # NoIntf /\ Send(oif, ArpRequestFrame(oif, task[t].hop)))
    BY <1>5 DEF L2ForwardUnknown
  <2>4. oif # NoIntf => ArpRequestFrame(oif, task[t].hop) \in Frame
    BY <1>1, <1>2, FrameTypes
  <2> HIDE DEF n, oif
  <2> QED BY <1>2, <2>1, <2>2, <2>3, <2>4, BecomeType, SendType
<1>6. CASE ArpResolved(t)
  BY <1>1, <1>6, TransmitType DEF ArpResolved
<1>7. CASE ArpTimeout(t)
  BY <1>7, TaskTypes, BecomeType DEF ArpTimeout
<1> QED
  BY <1>3, <1>4, <1>5, <1>6, <1>7

\* layer3_ip_pkt_recv_from_layer2 keeps the types.
LEMMA UpwardType ==
  ASSUME TypeOK, NEW t \in Thread,
         NoRouteRecv(t) \/ LocalRecv(t) \/ ConnectedRecv(t) \/ ForwardRecv(t)
  PROVE  TypeOK'
<1> DEFINE n == task[t].node
           pkt == task[t].pkt
           r == LongestMatch(routes[n], pkt.dst)
<1>1. n \in Node /\ pkt \in Packet
  BY TaskFields DEF NoRouteRecv, LocalRecv, ConnectedRecv, ForwardRecv, Running
<1>2. /\ pkt.dst \in Addr /\ pkt.src \in Addr /\ pkt.ttl \in 1..InitTTL
      /\ pkt.icmp \in Icmp
  BY <1>1 DEF Packet
<1>3. r.gw \in Addr /\ r.oif \in Intf \cup {NoIntf}
  BY <1>1, <1>2, LookupTypes
<1>4. /\ Unreachable(pkt.icmp) \in Icmp
      /\ Exceeded(pkt.icmp) \in Icmp
      /\ EchoReply(pkt.icmp) \in Icmp
  BY <1>2, IcmpTypes
<1>5. CASE NoRouteRecv(t)
  <2>1. FromTop(n, Unreachable(pkt.icmp), pkt.src) \in Task
    BY <1>1, <1>2, <1>4, TaskTypes
  <2>2. Become(t, FromTop(n, Unreachable(pkt.icmp), pkt.src)) /\ OnlyTask
    BY <1>5 DEF NoRouteRecv
  <2> QED BY <2>1, <2>2, BecomeType
<1>6. CASE LocalRecv(t)
  <2>1. CASE pkt.icmp.type = "echo"
    <3>1. FromTop(n, EchoReply(pkt.icmp), pkt.src) \in Task
      BY <1>1, <1>2, <1>4, TaskTypes
    <3>2. Become(t, FromTop(n, EchoReply(pkt.icmp), pkt.src)) /\ OnlyTask
      BY <1>6, <2>1 DEF LocalRecv
    <3> QED BY <3>1, <3>2, BecomeType
  <2>2. CASE pkt.icmp.type # "echo"
    <3>1. /\ Become(t, Idle) /\ Report(n, pkt.icmp)
          /\ UNCHANGED <<sock, ready, arp, routes, lo, ping, crashed, commands, echoes>>
      BY <1>6, <2>2 DEF LocalRecv
    <3>2. [node |-> n, type |-> pkt.icmp.type, id |-> pkt.icmp.id] \in ConsoleLine
      BY <1>1, <1>2, <2>2 DEF ConsoleLine, Icmp
    <3> HIDE DEF n, pkt
    <3> QED BY <3>1, <3>2, TaskTypes DEF TypeOK, Become, Report
  <2> QED BY <2>1, <2>2
<1>7. CASE ConnectedRecv(t)
  <2>1. L2Fwd(n, pkt.dst, NoIntf, pkt) \in Task
    BY <1>1, <1>2, TaskTypes
  <2>2. Become(t, L2Fwd(n, pkt.dst, NoIntf, pkt)) /\ OnlyTask
    BY <1>7 DEF ConnectedRecv
  <2> QED BY <2>1, <2>2, BecomeType
<1>8. CASE ForwardRecv(t)
  <2> DEFINE fewer == [pkt EXCEPT !.ttl = @ - 1]
             next == IF pkt.ttl = 1 THEN FromTop(n, Exceeded(pkt.icmp), pkt.src)
                                    ELSE L2Fwd(n, r.gw, r.oif, fewer)
  <2>1. pkt.ttl # 1 => fewer \in Packet
    <3>1. pkt.ttl # 1 => pkt.ttl - 1 \in 1..InitTTL
      <4>1. \A k \in 1..InitTTL : k # 1 => k - 1 \in 1..InitTTL
        BY StackAssumption
      <4> HIDE DEF pkt
      <4> QED BY <1>2, <4>1
    <3> HIDE DEF pkt
    <3> QED BY <1>1, <3>1 DEF Packet
  <2>2. next \in Task
    <3> HIDE DEF fewer, r
    <3> QED BY <1>1, <1>2, <1>3, <1>4, <2>1, TaskTypes
  <2>3. Become(t, next) /\ OnlyTask
    BY <1>8 DEF ForwardRecv
  <2> HIDE DEF next
  <2> QED BY <2>2, <2>3, BecomeType
<1> QED
  BY <1>5, <1>6, <1>7, <1>8

\* A thread steps through the layers.
LEMMA CallType ==
  ASSUME TypeOK, NEW t \in Thread, Call(t)
  PROVE  TypeOK'
  BY FromTopType, ForwardType, UpwardType DEF Call

\* The datagram that the receiver takes is well formed, and so is what is left.
LEMMA VisitTypes ==
  ASSUME TypeOK, NEW n \in Node, Visits(n)
  PROVE  /\ Head(sock[n]) \in Datagram
         /\ Taken(n) \in Sockets
<1>1. sock[n] \in Seq(Datagram) /\ sock[n] # <<>>
  BY DEF TypeOK, Visits
<1>2. Head(sock[n]) \in Datagram /\ Tail(sock[n]) \in Seq(Datagram)
  BY <1>1
<1> QED
  BY <1>2 DEF Taken, TypeOK, Sockets

\* The receiver thread's loop keeps the types.
LEMMA ReceiveType ==
  ASSUME TypeOK, Receive
  PROVE  TypeOK'
<1>1. CASE Select
  BY <1>1 DEF Select, TypeOK
<1>2. ASSUME NEW n \in Node,
             RecvArpRequest(n) \/ RecvArpReply(n) \/ RecvIp(n) \/ RecvDiscard(n)
      PROVE  TypeOK'
  <2> DEFINE d == Head(sock[n])
  <2>1. Visits(n)
    BY <1>2 DEF RecvArpRequest, RecvArpReply, RecvIp, RecvDiscard
  <2>2. d \in Datagram /\ Taken(n) \in Sockets
    BY <2>1, VisitTypes
  <2>3. d.iif \in Intf /\ d.frame \in ArpFrame \cup IpFrame
    BY <2>2 DEF Datagram
  <2>4. Consume(n) => ready' \subseteq Node
    BY DEF Consume, TypeOK
  <2>5. CASE RecvArpRequest(n)
    <3>1. d.frame \in ArpFrame
      BY <2>3, <2>5 DEF RecvArpRequest, IpFrame
    <3>2. Deliver(Taken(n), d.iif, ArpReplyFrame(d.iif, d.frame)) \in Sockets
      BY <2>2, <2>3, <3>1, FrameTypes, DeliverType
    <3>3. sock' = Deliver(Taken(n), d.iif, ArpReplyFrame(d.iif, d.frame))
      BY <2>5 DEF RecvArpRequest
    <3> QED BY <2>4, <2>5, <3>2, <3>3 DEF RecvArpRequest, TypeOK, Sockets
  <2>6. CASE RecvArpReply(n)
    <3>1. d.frame \in ArpFrame
      BY <2>3, <2>6 DEF RecvArpReply, IpFrame
    <3>2. [mac |-> d.frame.src, oif |-> d.iif] \in ArpEntry
      BY <2>3, <3>1 DEF ArpFrame, ArpEntry, Mac
    <3>3. arp' = [arp EXCEPT ![n][d.frame.srcIp] = [mac |-> d.frame.src, oif |-> d.iif]]
      BY <2>6 DEF RecvArpReply
    <3>4. arp' \in [Node -> [Addr -> ArpEntry \cup {NoEntry}]]
      <4> HIDE DEF d
      <4> QED BY <3>2, <3>3 DEF TypeOK
    <3> QED BY <2>2, <2>4, <2>6, <3>4 DEF RecvArpReply, TypeOK, Sockets
  <2>7. CASE RecvIp(n)
    <3>1. d.frame \in IpFrame
      BY <2>3, <2>7 DEF RecvIp, ArpFrame
    <3>2. L3Recv(n, d.frame.pkt) \in Task
      BY <3>1, TaskTypes DEF IpFrame
    <3>3. Become("rx", L3Recv(n, d.frame.pkt))
      BY <2>7 DEF RecvIp
    <3>4. task' \in [Thread -> Task]
      <4> HIDE DEF d
      <4> QED BY <3>2, <3>3 DEF TypeOK, Become, Thread
    <3> QED BY <2>2, <2>4, <2>7, <3>4 DEF RecvIp, TypeOK, Sockets
  <2>8. CASE RecvDiscard(n)
    BY <2>2, <2>4, <2>8 DEF RecvDiscard, TypeOK, Sockets
  <2> QED BY <1>2, <2>5, <2>6, <2>7, <2>8
<1> QED
  BY <1>1, <1>2 DEF Receive

\* send_ping_request keeps the types.
LEMMA CliType ==
  ASSUME TypeOK, PingSend \/ PingReturn
  PROVE  TypeOK'
<1>1. "cli" \in Thread
  BY DEF Thread
<1>2. CASE PingSend
  <2>1. ping \in Ping
    BY <1>2 DEF PingSend, TypeOK
  <2>2. ping.node \in Node /\ ping.dst \in Addr /\ ping.i \in Nat /\ ping.sent \in Nat
    BY <2>1 DEF Ping
  <2>3. echoes \in Seq([node : Node, dst : Addr])
    BY DEF TypeOK
  <2>4. echoes' \in Seq([node : Node, dst : Addr])
    BY <1>2, <2>2, <2>3 DEF PingSend
  <2>5. [type |-> "echo", id |-> Len(echoes) + 1] \in Icmp
    BY <2>3 DEF Icmp, IcmpType
  <2>6. FromTop(ping.node, [type |-> "echo", id |-> Len(echoes) + 1], ping.dst) \in Task
    BY <2>2, <2>5, TaskTypes
  <2>7. task' \in [Thread -> Task]
    BY <1>1, <1>2, <2>6 DEF PingSend, Become, TypeOK
  <2>8. ping.i + 1 \in 0..PingCount
    BY <1>2, <2>1, StackAssumption DEF PingSend, Ping
  <2>9. ping' \in Ping
    <3>1. ping' = [ping EXCEPT !.i = @ + 1, !.sent = @ + 1]
      BY <1>2 DEF PingSend
    <3>2. ping' = [node |-> ping.node, dst |-> ping.dst,
                   i |-> ping.i + 1, sent |-> ping.sent + 1]
      BY <2>1, <3>1 DEF Ping
    <3>3. ping.sent + 1 \in Nat
      BY <2>2
    <3> QED BY <2>2, <2>8, <3>2, <3>3 DEF Ping
  <2> QED BY <1>2, <2>4, <2>7, <2>9 DEF PingSend, TypeOK
<1>3. CASE PingReturn
  BY <1>3 DEF PingReturn, TypeOK
<1> QED
  BY <1>2, <1>3

\* The commands keep the types.
LEMMA CommandType ==
  ASSUME TypeOK, Command
  PROVE  TypeOK'
<1>1. Prompt => commands' \in 0..MaxCommands
  BY StackAssumption DEF Prompt, TypeOK
<1>2. ASSUME NEW c \in PingCommands, PingCommand(c[1], c[2])
      PROVE  TypeOK'
  <2>1. c[1] \in Node /\ c[2] \in Addr
    BY StackAssumption
  <2>2. PICK i \in 0..PingCount : ping' = [node |-> c[1], dst |-> c[2], i |-> i, sent |-> 0]
    BY <1>2 DEF PingCommand
  <2>3. ping' \in Ping
    BY <2>1, <2>2 DEF Ping
  <2> QED BY <1>1, <1>2, <2>3 DEF PingCommand, TypeOK
<1>3. ASSUME NEW c \in ArpCommands, ResolveArp(c[1], c[2])
      PROVE  TypeOK'
  <2> DEFINE oif == MatchingSubnetIntf(c[1], c[2])
  <2>1. c[1] \in Node /\ c[2] \in Addr
    BY StackAssumption
  <2>2. oif \in Intf \cup {NoIntf}
    BY <2>1, MatchingSubnetType
  <2>3. sock \in Sockets
    BY DEF TypeOK, Sockets
  <2>4. oif # NoIntf => Deliver(sock, oif, ArpRequestFrame(oif, c[2])) \in Sockets
    BY <2>1, <2>2, <2>3, FrameTypes, DeliverType
  <2>5. sock' = IF oif = NoIntf \/ IP[oif] = c[2] THEN sock
                ELSE Deliver(sock, oif, ArpRequestFrame(oif, c[2]))
    BY <1>3 DEF ResolveArp
  <2>6. sock' \in Sockets
    <3> HIDE DEF oif
    <3> QED BY <2>3, <2>4, <2>5
  <2> QED BY <1>1, <1>3, <2>6 DEF ResolveArp, TypeOK, Sockets
<1>4. ASSUME NEW c \in RouteCommands, ConfigRoute(c)
      PROVE  TypeOK'
  <2>1. /\ c.node \in Node /\ c.dst \in Addr /\ c.mask \in MaskLen
        /\ c.gw \in Addr /\ c.oif \in Intf
    BY StackAssumption
  <2>2. StaticRoute(c.dst, c.mask, c.gw, c.oif) \in Route
    BY <2>1, RouteTypes
  <2>3. <<StaticRoute(c.dst, c.mask, c.gw, c.oif)>> \o routes[c.node] \in Seq(Route)
    BY <2>1, <2>2 DEF TypeOK
  <2>4. routes' \in [Node -> Seq(Route)]
    BY <1>4, <2>3 DEF ConfigRoute, TypeOK
  <2> QED BY <1>1, <1>4, <2>4 DEF ConfigRoute, TypeOK
<1>5. ASSUME NEW S \in ShowCommands, ShowNodes(S)
      PROVE  TypeOK'
  <2>1. lo' \in [Node -> Addr \cup {Unparsable}]
    BY <1>5 DEF ShowNodes, TypeOK
  <2> QED BY <1>1, <1>5, <2>1 DEF ShowNodes, TypeOK
<1> QED
  BY <1>2, <1>3, <1>4, <1>5 DEF Command

\* A topology that has just been loaded is well typed.
LEMMA InitType == Init => TypeOK
<1> SUFFICES ASSUME Init PROVE TypeOK
  OBVIOUS
<1>1. sock \in [Node -> Seq(Datagram)] /\ ready \subseteq Node
  BY DEF Init
<1>2. arp \in [Node -> [Addr -> ArpEntry \cup {NoEntry}]]
  BY DEF Init, BroadcastEntry, ArpEntry, Mac
<1>3. routes \in [Node -> Seq(Route)]
  BY InitRoutesType DEF Init
<1>4. lo \in [Node -> Addr \cup {Unparsable}]
  BY StackAssumption DEF Init
<1>5. task \in [Thread -> Task]
  BY TaskTypes DEF Init
<1>6. ping \in Ping \cup {NoPing} /\ crashed \in BOOLEAN
  BY DEF Init
<1>8. commands \in 0..MaxCommands
  BY StackAssumption DEF Init
<1>7. echoes \in Seq([node : Node, dst : Addr]) /\ console \subseteq ConsoleLine
  BY DEF Init
<1> QED
  BY <1>1, <1>2, <1>3, <1>4, <1>5, <1>6, <1>7, <1>8 DEF TypeOK

\* Every step keeps the types.
LEMMA NextType == TypeOK /\ [Next]_vars => TypeOK'
<1> SUFFICES ASSUME TypeOK, [Next]_vars PROVE TypeOK'
  OBVIOUS
<1>1. CASE RxStep
  BY <1>1, CallType, ReceiveType DEF RxStep, Thread
<1>2. CASE CliStep
  BY <1>2, CallType, CliType DEF CliStep, Thread
<1>3. CASE Command
  BY <1>3, CommandType
<1>4. CASE UNCHANGED vars
  BY <1>4 DEF vars, TypeOK
<1> QED
  BY <1>1, <1>2, <1>3, <1>4 DEF Next

\* Every value that the two threads pass between the layers, store in a table or
\* put into a socket has the type of the structure that the code declares for it:
\* in particular no packet ever travels with a time to live of 0.
THEOREM TypeCorrect == Spec => []TypeOK
  BY InitType, NextType, PTL DEF Spec

-----------------------------------------------------------------------------
(* ARP: ArpSound is not inductive, because RecvArpReply believes what the  *)
(* socket holds. The strengthening says what the sockets hold.             *)

DatagramSound(n, d) ==
    /\ Owner[d.iif] = n
    /\ d.frame.src = Peer[d.iif]
    /\ d.frame.type = "arpReply" => d.frame.srcIp = IP[d.frame.src]

SocketsSound(q) == \A n \in Node : \A k \in 1..Len(q[n]) : DatagramSound(n, q[n][k])

ArpInv == TypeOK /\ SocketsSound(sock) /\ ArpSound

\* A frame that its sender vouches for keeps the sockets sound.
LEMMA DeliverSound ==
  ASSUME NEW q \in Sockets, SocketsSound(q), NEW i \in Intf, NEW f \in Frame,
         f.src = i, f.type = "arpReply" => f.srcIp = IP[i]
  PROVE  SocketsSound(Deliver(q, i, f))
<1> DEFINE far == Peer[i]
           m == Owner[far]
           d == [iif |-> far, frame |-> f]
           p == Deliver(q, i, f)
<1>1. far \in Intf /\ m \in Node /\ Peer[far] = i
  BY LinkTypes
<1>2. DatagramSound(m, d)
  BY <1>1 DEF DatagramSound
<1>3. \A n \in Node : n # m => p[n] = q[n]
  BY DEF Deliver, Sockets
<1>4. p[m] = q[m] \/ p[m] = Append(q[m], d)
  BY <1>1 DEF Deliver, Sockets
<1>5. q[m] \in Seq(Datagram) /\ d \in Datagram
  BY <1>1 DEF Sockets, Datagram, Frame
<1>6. \A k \in 1..Len(p[m]) : DatagramSound(m, p[m][k])
  <2>1. \A k \in 1..Len(q[m]) : DatagramSound(m, q[m][k])
    BY <1>1 DEF SocketsSound
  <2>2. CASE p[m] = q[m]
    BY <2>1, <2>2
  <2>3. CASE p[m] = Append(q[m], d)
    <3> HIDE DEF d, p, m
    <3> QED BY <1>2, <1>5, <2>1, <2>3
  <2> QED BY <1>4, <2>2, <2>3
<1> HIDE DEF p, m
<1> QED
  BY <1>3, <1>6 DEF SocketsSound, p

\* The first datagram of a socket, and the rest of it.
LEMMA TakenSound ==
  ASSUME TypeOK, SocketsSound(sock), NEW n \in Node, Visits(n)
  PROVE  DatagramSound(n, Head(sock[n])) /\ SocketsSound(Taken(n))
<1>1. sock[n] \in Seq(Datagram) /\ sock[n] # <<>>
  BY DEF TypeOK, Visits
<1>2. \A k \in 1..Len(sock[n]) : DatagramSound(n, sock[n][k])
  BY DEF SocketsSound
<1>3. DatagramSound(n, Head(sock[n]))
  BY <1>1, <1>2
<1>4. \A k \in 1..Len(Tail(sock[n])) : DatagramSound(n, Tail(sock[n])[k])
  BY <1>1, <1>2
<1>5. Taken(n)[n] = Tail(sock[n]) /\ \A m \in Node : m # n => Taken(n)[m] = sock[m]
  BY DEF Taken, TypeOK
<1> QED
  BY <1>3, <1>4, <1>5 DEF SocketsSound

\* Only the receiver writes a table.
LEMMA CallKeepsArp ==
  ASSUME NEW t \in Thread, Call(t)
  PROVE  UNCHANGED arp
  BY DEF Call, NoRouteFromTop, DirectFromTop, GatewayFromTop, L2LocalDelivery,
         L2ForwardKnown, L2ForwardUnknown, ArpResolved, ArpTimeout, NoRouteRecv, LocalRecv,
         ConnectedRecv, ForwardRecv, L2Transmit, Crash, OnlyTask, Send

\* A thread sends nothing, an ARP request or a packet.
LEMMA CallSends ==
  ASSUME TypeOK, NEW t \in Thread, Call(t)
  PROVE  \/ UNCHANGED sock
         \/ \E i \in Intf, f \in Frame : /\ f.src = i /\ f.type # "arpReply"
                                         /\ sock' = Deliver(sock, i, f)
<1>1. CASE NoRouteFromTop(t) \/ DirectFromTop(t) \/ GatewayFromTop(t)
           \/ L2LocalDelivery(t) \/ ArpTimeout(t)
           \/ NoRouteRecv(t) \/ LocalRecv(t) \/ ConnectedRecv(t) \/ ForwardRecv(t)
  BY <1>1 DEF NoRouteFromTop, DirectFromTop, GatewayFromTop, L2LocalDelivery, ArpTimeout,
              NoRouteRecv, LocalRecv, ConnectedRecv, ForwardRecv, Crash, OnlyTask
<1>2. CASE L2ForwardKnown(t) \/ L2ForwardUnknown(t) \/ ArpResolved(t)
  <2> DEFINE n == task[t].node
             a == task[t].hop
             pkt == task[t].pkt
  <2>1. /\ n \in Node /\ a \in Addr /\ pkt \in Packet
        /\ task[t].oif \in Intf \cup {NoIntf}
    BY <1>2, TaskFields
       DEF L2ForwardKnown, L2ForwardUnknown, ArpResolved, Forwards, Running
  <2>2. OutIntf(t) \in Intf \cup {NoIntf}
    BY <2>1, MatchingSubnetType DEF OutIntf
  <2>3. ASSUME NEW oif \in Intf \cup {NoIntf}, L2Transmit(t, oif), arp[n][a] # NoEntry
        PROVE  \/ UNCHANGED sock
               \/ \E i \in Intf, f \in Frame : /\ f.src = i /\ f.type # "arpReply"
                                               /\ sock' = Deliver(sock, i, f)
    <3>1. CASE oif = NoIntf
      BY <2>3, <3>1 DEF L2Transmit, Crash
    <3>2. CASE oif # NoIntf
      <4> DEFINE f == IpFrameOf(oif, arp[n][a].mac, pkt)
      <4>1. arp[n][a] \in ArpEntry
        BY <2>1, <2>3 DEF TypeOK
      <4>2. f \in Frame
        BY <2>1, <3>2, <4>1, FrameTypes DEF ArpEntry
      <4>3. f.src = oif /\ f.type # "arpReply"
        BY DEF IpFrameOf
      <4>4. sock' = Deliver(sock, oif, f)
        BY <2>3, <3>2 DEF L2Transmit, Send
      <4> HIDE DEF f
      <4> QED BY <3>2, <4>2, <4>3, <4>4
    <3> QED BY <3>1, <3>2
  <2>4. CASE L2ForwardKnown(t)
    BY <2>2, <2>3, <2>4 DEF L2ForwardKnown
  <2>5. CASE ArpResolved(t)
    BY <2>1, <2>3, <2>5 DEF ArpResolved
  <2>6. CASE L2ForwardUnknown(t)
    <3> DEFINE f == ArpRequestFrame(OutIntf(t), a)
    <3>1. CASE OutIntf(t) = NoIntf
      BY <2>6, <3>1 DEF L2ForwardUnknown, OnlyTask
    <3>2. CASE OutIntf(t) # NoIntf
      <4>1. f \in Frame
        BY <2>1, <2>2, <3>2, FrameTypes
      <4>2. f.src = OutIntf(t) /\ f.type # "arpReply"
        BY DEF ArpRequestFrame
      <4>3. sock' = Deliver(sock, OutIntf(t), f)
        BY <2>6, <3>2 DEF L2ForwardUnknown, Send
      <4> HIDE DEF f
      <4> QED BY <2>2, <3>2, <4>1, <4>2, <4>3
    <3> QED BY <3>1, <3>2
  <2> QED BY <1>2, <2>4, <2>5, <2>6
<1> QED
  BY <1>1, <1>2 DEF Call

\* What a reply puts into the table.
LEMMA ReplyEntry ==
  ASSUME ArpInv, NEW n \in Node, RecvArpReply(n)
  PROVE  LET d == Head(sock[n])
             e == [mac |-> d.frame.src, oif |-> d.iif]
         IN  /\ d.frame.srcIp \in Addr \ {BroadcastAddr}
             /\ EntrySound(n, d.frame.srcIp, e)
             /\ arp' = [arp EXCEPT ![n][d.frame.srcIp] = e]
<1> DEFINE d == Head(sock[n])
           e == [mac |-> d.frame.src, oif |-> d.iif]
<1>1. Visits(n) /\ d.frame.type = "arpReply"
  BY DEF RecvArpReply
<1>2. d \in Datagram /\ DatagramSound(n, d)
  BY <1>1, VisitTypes, TakenSound DEF ArpInv
<1>3. d.iif \in Intf /\ d.frame \in ArpFrame
  BY <1>1, <1>2 DEF Datagram, IpFrame
<1>4. d.frame.src \in Intf /\ d.frame.srcIp \in Addr
  BY <1>3 DEF ArpFrame
<1>5. /\ Owner[d.iif] = n /\ d.frame.src = Peer[d.iif]
      /\ d.frame.srcIp = IP[d.frame.src]
  BY <1>1, <1>2 DEF DatagramSound
<1>6. Peer[d.frame.src] = d.iif
  BY <1>3, <1>5, LinkTypes
<1>7. d.frame.srcIp # BroadcastAddr
  BY <1>4, <1>5, StackAssumption
<1>8. EntrySound(n, d.frame.srcIp, e)
  BY <1>4, <1>5, <1>6 DEF EntrySound
<1>9. arp' = [arp EXCEPT ![n][d.frame.srcIp] = e]
  BY DEF RecvArpReply
<1> QED
  BY <1>4, <1>7, <1>8, <1>9

\* The invariant holds when no table and no socket holds anything ...
LEMMA InitArp == Init => ArpInv
<1> SUFFICES ASSUME Init PROVE SocketsSound(sock) /\ ArpSound
  BY InitType DEF ArpInv
<1>1. SocketsSound(sock)
  BY DEF Init, SocketsSound
<1>2. ArpSound
  BY DEF Init, ArpSound
<1> QED
  BY <1>1, <1>2

\* ... and every step keeps it.
LEMMA NextArp == ArpInv /\ [Next]_vars => ArpInv'
<1> SUFFICES ASSUME ArpInv, [Next]_vars PROVE SocketsSound(sock') /\ ArpSound'
  BY NextType DEF ArpInv, SocketsSound, DatagramSound
<1>0. TypeOK /\ SocketsSound(sock) /\ ArpSound /\ sock \in Sockets
  BY DEF ArpInv, TypeOK, Sockets
<1>1. ASSUME NEW t \in Thread, Call(t)
      PROVE  SocketsSound(sock') /\ ArpSound'
  <2>1. SocketsSound(sock')
    BY <1>0, <1>1, CallSends, DeliverSound
  <2>2. ArpSound'
    BY <1>0, <1>1, CallKeepsArp DEF ArpSound, EntrySound
  <2> QED BY <2>1, <2>2
<1>2. CASE Select \/ PingSend \/ PingReturn
  BY <1>0, <1>2 DEF Select, PingSend, PingReturn, ArpSound, EntrySound
<1>3. ASSUME NEW n \in Node, RecvArpRequest(n)
      PROVE  SocketsSound(sock') /\ ArpSound'
  <2> DEFINE d == Head(sock[n])
             f == ArpReplyFrame(d.iif, d.frame)
  <2>1. Visits(n) /\ d.frame.type = "arpRequest" /\ d.frame.dstIp = IP[d.iif]
    BY <1>3 DEF RecvArpRequest
  <2>2. d \in Datagram /\ Taken(n) \in Sockets /\ SocketsSound(Taken(n))
    BY <1>0, <2>1, VisitTypes, TakenSound
  <2>3. d.iif \in Intf /\ d.frame \in ArpFrame
    BY <2>1, <2>2 DEF Datagram, IpFrame
  <2>4. f \in Frame
    BY <2>3, FrameTypes
  <2>5. f.src = d.iif /\ f.srcIp = IP[d.iif]
    BY <2>1 DEF ArpReplyFrame
  <2>6. sock' = Deliver(Taken(n), d.iif, f)
    BY <1>3 DEF RecvArpRequest
  <2>7. SocketsSound(sock')
    <3> HIDE DEF d, f
    <3> QED BY <2>2, <2>3, <2>4, <2>5, <2>6, DeliverSound
  <2>8. ArpSound'
    BY <1>0, <1>3 DEF RecvArpRequest, ArpSound, EntrySound
  <2> QED BY <2>7, <2>8
<1>4. ASSUME NEW n \in Node, RecvArpReply(n)
      PROVE  SocketsSound(sock') /\ ArpSound'
  <2> DEFINE d == Head(sock[n])
             x == d.frame.srcIp
             e == [mac |-> d.frame.src, oif |-> d.iif]
  <2>1. SocketsSound(sock')
    BY <1>0, <1>4, TakenSound DEF RecvArpReply
  <2>2. x \in Addr \ {BroadcastAddr} /\ EntrySound(n, x, e) /\ arp' = [arp EXCEPT ![n][x] = e]
    BY <1>4, ReplyEntry
  <2>3. ASSUME NEW m \in Node, NEW y \in Addr \ {BroadcastAddr}, arp'[m][y] # NoEntry
        PROVE  EntrySound(m, y, arp'[m][y])
    <3> HIDE DEF e, x
    <3>1. CASE m = n /\ y = x
      <4>1. arp'[m][y] = e
        BY <1>0, <2>2, <3>1 DEF TypeOK
      <4> QED BY <2>2, <3>1, <4>1
    <3>2. CASE ~(m = n /\ y = x)
      <4>1. arp'[m][y] = arp[m][y]
        BY <1>0, <2>2, <3>2 DEF TypeOK
      <4> QED BY <1>0, <2>3, <4>1 DEF ArpSound
    <3> QED BY <3>1, <3>2
  <2>4. ArpSound'
    BY <2>3 DEF ArpSound, EntrySound
  <2> QED BY <2>1, <2>4
<1>5. ASSUME NEW n \in Node, RecvIp(n) \/ RecvDiscard(n)
      PROVE  SocketsSound(sock') /\ ArpSound'
  BY <1>0, <1>5, TakenSound DEF RecvIp, RecvDiscard, ArpSound, EntrySound
<1>6. CASE Command
  <2>1. ASSUME NEW c \in ArpCommands, ResolveArp(c[1], c[2])
        PROVE  SocketsSound(sock')
    <3> DEFINE oif == MatchingSubnetIntf(c[1], c[2])
               f == ArpRequestFrame(oif, c[2])
    <3>1. c[1] \in Node /\ c[2] \in Addr
      BY StackAssumption
    <3>2. oif \in Intf \cup {NoIntf}
      BY <3>1, MatchingSubnetType
    <3>3. sock' = sock \/ (oif # NoIntf /\ sock' = Deliver(sock, oif, f))
      BY <2>1 DEF ResolveArp
    <3>4. oif # NoIntf => f \in Frame
      BY <3>1, <3>2, FrameTypes
    <3>5. f.src = oif /\ f.type # "arpReply"
      BY DEF ArpRequestFrame
    <3> HIDE DEF oif, f
    <3> QED BY <1>0, <3>2, <3>3, <3>4, <3>5, DeliverSound
  <2>2. UNCHANGED arp
    BY <1>6 DEF Command, PingCommand, ResolveArp, ConfigRoute, ShowNodes
  <2>3. SocketsSound(sock')
    BY <1>0, <1>6, <2>1 DEF Command, PingCommand, ConfigRoute, ShowNodes
  <2>4. ArpSound'
    BY <1>0, <2>2 DEF ArpSound, EntrySound
  <2> QED BY <2>3, <2>4
<1>7. CASE UNCHANGED vars
  BY <1>0, <1>7 DEF vars, ArpSound, EntrySound
<1> QED
  BY <1>1, <1>2, <1>3, <1>4, <1>5, <1>6, <1>7
     DEF Next, RxStep, CliStep, Receive, Thread

\* The invariant of the ARP protocol always holds.
LEMMA ArpInvariant == Spec => []ArpInv
  BY InitArp, NextArp, PTL DEF Spec

\* In every topology, with any number of nodes asking and answering at once, an
\* ARP table binds an address only to the interface that owns it (layer2.c:84-99).
THEOREM ArpIsSound == Spec => []ArpSound
<1>1. ArpInv => ArpSound
  BY DEF ArpInv
<1> QED
  BY <1>1, ArpInvariant, PTL

\* Where no two interfaces share an address, an entry that a thread has read stays
\* true for as long as the thread may use it, although nothing locks the table.
THEOREM ArpIsStable ==
  ASSUME \A i, j \in Intf : IP[i] = IP[j] => i = j
  PROVE  Spec => ArpStable
<1>1. ASSUME ArpInv, [Next]_vars, NEW n \in Node, NEW a \in Addr, arp[n][a] # NoEntry
      PROVE  arp'[n][a] = arp[n][a]
  <2>0. TypeOK /\ ArpSound
    BY <1>1 DEF ArpInv
  <2>1. ASSUME NEW m \in Node, RecvArpReply(m)
        PROVE  arp'[n][a] = arp[n][a]
    <3> DEFINE d == Head(sock[m])
               x == d.frame.srcIp
               e == [mac |-> d.frame.src, oif |-> d.iif]
    <3>1. x \in Addr \ {BroadcastAddr} /\ EntrySound(m, x, e) /\ arp' = [arp EXCEPT ![m][x] = e]
      BY <1>1, <2>1, ReplyEntry
    <3>2. CASE n = m /\ a = x
      <4>1. arp[n][a] \in [mac : Mac, oif : Intf \cup {NoIntf}]
        BY <1>1, <2>0 DEF TypeOK, ArpEntry
      <4>2. EntrySound(n, a, arp[n][a])
        BY <1>1, <2>0, <3>1, <3>2 DEF ArpSound
      <4>3. arp[n][a].mac = e.mac /\ arp[n][a].oif = e.oif
        <5> HIDE DEF e, x
        <5> QED BY <1>1, <3>1, <3>2, <4>2 DEF EntrySound
      <4>4. arp[n][a] = [mac |-> arp[n][a].mac, oif |-> arp[n][a].oif]
        BY <4>1
      <4>5. arp[n][a] = e
        BY <4>3, <4>4
      <4>6. arp'[n][a] = e
        <5> HIDE DEF e, x
        <5> QED BY <2>0, <3>1, <3>2 DEF TypeOK
      <4> QED BY <4>5, <4>6
    <3>3. CASE ~(n = m /\ a = x)
      <4> HIDE DEF e, x
      <4> QED BY <2>0, <3>1, <3>3 DEF TypeOK
    <3> QED BY <3>2, <3>3
  <2>2. CASE UNCHANGED arp
    BY <2>2
  <2>3. UNCHANGED arp \/ \E m \in Node : RecvArpReply(m)
    BY <1>1, CallKeepsArp
       DEF Next, RxStep, CliStep, Thread, Receive, Select, RecvArpRequest, RecvIp,
           RecvDiscard, PingSend, PingReturn, Command, PingCommand, ResolveArp,
           ConfigRoute, ShowNodes, vars
  <2> QED BY <2>1, <2>2, <2>3
<1>2. ArpInv /\ [Next]_vars =>
        [\A n \in Node, a \in Addr : arp[n][a] # NoEntry => arp'[n][a] = arp[n][a]]_vars
  BY <1>1
<1> QED
  BY <1>2, ArpInvariant, PTL DEF Spec, ArpStable

\* The receiver is the only writer of the tables, so whatever it waits for in
\* sleep_for(50) does not come: the packet it holds is lost (layer2.c:379-392).
THEOREM ReceiverWaitsInVain == Spec => []ReceiverWaitIsFutile
<1>1. Init => ReceiverWaitIsFutile
  BY DEF Init, Idle, ReceiverWaitIsFutile, Thread
<1>2. TypeOK /\ ReceiverWaitIsFutile /\ [Next]_vars => ReceiverWaitIsFutile'
  <2> SUFFICES ASSUME TypeOK, ReceiverWaitIsFutile, [Next]_vars
               PROVE  ReceiverWaitIsFutile'
    OBVIOUS
  <2>1. task \in [Thread -> Task] /\ "rx" \in Thread /\ "cli" \in Thread /\ "rx" # "cli"
    BY DEF TypeOK, Thread
  <2>2. CASE Call("cli")
    <3>1. UNCHANGED arp
      BY <2>1, <2>2, CallKeepsArp
    <3>2. task'["rx"] = task["rx"]
      BY <2>1, <2>2
         DEF Call, NoRouteFromTop, DirectFromTop, GatewayFromTop, L2LocalDelivery,
             L2ForwardKnown, L2ForwardUnknown, ArpResolved, ArpTimeout, NoRouteRecv,
             LocalRecv, ConnectedRecv, ForwardRecv, L2Transmit, Crash, Become
    <3> QED BY <3>1, <3>2 DEF ReceiverWaitIsFutile
  <2>3. CASE PingSend \/ PingReturn \/ Command \/ UNCHANGED vars
    BY <2>1, <2>3 DEF PingSend, PingReturn, Become, Command, PingCommand, ResolveArp,
                      ConfigRoute, ShowNodes, vars, ReceiverWaitIsFutile
  <2>4. CASE Receive
    <3>1. ASSUME NEW n \in Node, RecvIp(n)
          PROVE  task'["rx"].op # "arpWait"
      <4>1. task'["rx"] = L3Recv(n, Head(sock[n]).frame.pkt)
        BY <2>1, <3>1 DEF RecvIp, Become
      <4> QED BY <4>1 DEF L3Recv
    <3>2. task["rx"].op = "idle"
      BY <2>4 DEF Receive, Select, Visits, Running, RecvArpRequest, RecvArpReply,
                  RecvIp, RecvDiscard
    <3>3. UNCHANGED task \/ \E n \in Node : RecvIp(n)
      BY <2>4 DEF Receive, Select, RecvArpRequest, RecvArpReply, RecvDiscard
    <3>4. task'["rx"].op # "arpWait"
      BY <3>1, <3>2, <3>3
    <3> QED BY <3>4 DEF ReceiverWaitIsFutile
  <2>5. CASE L2ForwardUnknown("rx")
    <3>1. UNCHANGED arp
      BY <2>1, <2>5, CallKeepsArp DEF Call
    <3>2. /\ task'["rx"].node = task["rx"].node /\ task'["rx"].hop = task["rx"].hop
          /\ arp[task["rx"].node][task["rx"].hop] = NoEntry
      BY <2>1, <2>5 DEF L2ForwardUnknown, Become, ArpWait
    <3> QED BY <3>1, <3>2 DEF ReceiverWaitIsFutile
  <2>6. CASE Call("rx") /\ ~L2ForwardUnknown("rx")
    <3>1. UNCHANGED arp
      BY <2>1, <2>6, CallKeepsArp
    <3>2. UNCHANGED task \/ task'["rx"].op # "arpWait"
      <4>1. ASSUME NEW x, Become("rx", x), x.op # "arpWait"
            PROVE  task'["rx"].op # "arpWait"
        BY <2>1, <4>1 DEF Become
      <4>2. /\ Idle.op # "arpWait"
            /\ \A n, m, d : FromTop(n, m, d).op # "arpWait"
            /\ \A n, h, i, p : L2Fwd(n, h, i, p).op # "arpWait"
            /\ \A n, p : L3Recv(n, p).op # "arpWait"
        BY DEF Idle, FromTop, L2Fwd, L3Recv
      <4>3. CASE NoRouteFromTop("rx")
        BY <4>1, <4>2, <4>3 DEF NoRouteFromTop, Crash
      <4>4. CASE DirectFromTop("rx")
        BY <4>1, <4>2, <4>4 DEF DirectFromTop
      <4>5. CASE GatewayFromTop("rx")
        BY <4>1, <4>2, <4>5 DEF GatewayFromTop, Crash
      <4>6. CASE L2LocalDelivery("rx") \/ ArpTimeout("rx")
        BY <4>1, <4>2, <4>6 DEF L2LocalDelivery, ArpTimeout
      <4>7. CASE L2ForwardKnown("rx") \/ ArpResolved("rx")
        BY <4>1, <4>2, <4>7 DEF L2ForwardKnown, ArpResolved, L2Transmit, Crash
      <4>8. CASE NoRouteRecv("rx") \/ LocalRecv("rx")
        BY <4>1, <4>2, <4>8 DEF NoRouteRecv, LocalRecv
      <4>9. CASE ConnectedRecv("rx") \/ ForwardRecv("rx")
        BY <4>1, <4>2, <4>9 DEF ConnectedRecv, ForwardRecv
      <4> QED BY <2>6, <4>3, <4>4, <4>5, <4>6, <4>7, <4>8, <4>9 DEF Call
    <3> QED BY <3>1, <3>2 DEF ReceiverWaitIsFutile
  <2> QED BY <2>2, <2>3, <2>4, <2>5, <2>6 DEF Next, RxStep, CliStep
<1> QED
  BY <1>1, <1>2, TypeCorrect, PTL DEF Spec
=============================================================================
