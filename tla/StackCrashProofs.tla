-------------------------- MODULE StackCrashProofs --------------------------
(* When the process can die: module Stack's CrashNeedsMisconfiguration, for *)
(* every topology and every sequence of commands.                           *)
EXTENDS StackProofs

IntfRoute(i) == DirectRoute(ApplyMask(IP[i], Mask[i]), Mask[i])
LoopbackRoute(n) == DirectRoute(Loopback[n], AddrBits)

\* A direct route is the one of an interface or of the loopback; a static one
\* names an interface.
RouteSound(n, r) ==
    IF r.direct
    THEN \/ Loopback[n] # Unparsable /\ r = LoopbackRoute(n)
         \/ \E j \in 1..Len(IntfSeq[n]) : r = IntfRoute(IntfSeq[n][j])
    ELSE r.oif \in Intf

RoutesSound ==
    \A n \in Node :
        /\ Loopback[n] # Unparsable =>
              \E k \in 1..Len(routes[n]) : routes[n][k] = LoopbackRoute(n)
        /\ \A k \in 1..Len(routes[n]) : RouteSound(n, routes[n][k])

LoSound == \A n \in Node : lo[n] \in {Loopback[n], Unparsable}

\* A call that names no interface is about a hop that the node can reach without
\* one, and waits for it only after its loopback has been lost.
CallSound(c) ==
    /\ c.op \in {"l2fwd", "arpWait"} /\ c.oif = NoIntf =>
          c.hop = Loopback[c.node] \/ MatchingSubnetIntf(c.node, c.hop) # NoIntf
    /\ c.op = "arpWait" /\ c.oif = NoIntf => lo[c.node] = Unparsable

CallsSound == \A t \in Thread : CallSound(task[t])

CrashInv ==
    /\ TypeOK /\ RoutesSound /\ LoSound /\ CallsSound
    /\ CrashNeedsMisconfiguration

-----------------------------------------------------------------------------
\* The mask of a host route leaves an address as it is.
LEMMA FullMask == \A x \in Addr : ApplyMask(x, AddrBits) = x
  BY IPv4Assumption DEF Addr, ApplyMask

\* An interface on the subnet of an address makes the search succeed.
LEMMA SubnetFound ==
  ASSUME NEW n \in Node, NEW x \in Addr,
         NEW k \in 1..Len(IntfSeq[n]), OnSubnet(IntfSeq[n][k], x)
  PROVE  MatchingSubnetIntf(n, x) # NoIntf
<1> DEFINE slots == {j \in 1..Len(IntfSeq[n]) : OnSubnet(IntfSeq[n][j], x)}
           first == CHOOSE i \in slots : \A j \in slots : i <= j
<1>1. IntfSeq[n] \in Seq(Intf)
  BY StackAssumption
<1>2. slots \subseteq Nat /\ slots # {}
  BY <1>1
<1>3. \E i \in slots : \A j \in slots : i <= j
  <2> HIDE DEF slots
  <2> QED BY <1>2, NatMinimum
<1>4. first \in 1..Len(IntfSeq[n])
  BY <1>3
<1>5. MatchingSubnetIntf(n, x) = IntfSeq[n][first]
  BY <1>2 DEF MatchingSubnetIntf
<1> HIDE DEF first
<1> QED
  BY <1>1, <1>4, <1>5, IPv4Assumption

\* A direct route leads to a hop that needs no gateway.
LEMMA DirectHop ==
  ASSUME CrashInv, NEW n \in Node, NEW x \in Addr,
         LongestMatch(routes[n], x) # NoRoute, LongestMatch(routes[n], x).direct
  PROVE  x = Loopback[n] \/ MatchingSubnetIntf(n, x) # NoIntf
<1>1. routes[n] \in Seq(Route)
  BY DEF CrashInv, TypeOK
<1>2. PICK k \in Candidates(routes[n], x) : LongestMatch(routes[n], x) = routes[n][k]
  BY <1>1, LongestMatchSpec
<1> DEFINE r == routes[n][k]
<1>3. k \in 1..Len(routes[n]) /\ ApplyMask(x, r.mask) = r.dest /\ r.direct
  BY <1>2 DEF Candidates, Matches
<1>4. RouteSound(n, r)
  BY <1>3 DEF CrashInv, RoutesSound
<1>5. CASE Loopback[n] # Unparsable /\ r = LoopbackRoute(n)
  <2>1. r.mask = AddrBits /\ r.dest = Loopback[n]
    BY <1>5 DEF LoopbackRoute, DirectRoute
  <2> QED BY <1>3, <2>1, FullMask
<1>6. ASSUME NEW j \in 1..Len(IntfSeq[n]), r = IntfRoute(IntfSeq[n][j])
      PROVE  MatchingSubnetIntf(n, x) # NoIntf
  <2>1. r.mask = Mask[IntfSeq[n][j]]
        /\ r.dest = ApplyMask(IP[IntfSeq[n][j]], Mask[IntfSeq[n][j]])
    BY <1>6 DEF IntfRoute, DirectRoute
  <2>2. OnSubnet(IntfSeq[n][j], x)
    BY <1>3, <2>1 DEF OnSubnet
  <2> QED BY <2>2, SubnetFound
<1> QED
  BY <1>3, <1>4, <1>5, <1>6 DEF RouteSound

\* A readable loopback has a route.
LEMMA LoopbackHasRoute ==
  ASSUME CrashInv, NEW n \in Node, lo[n] # Unparsable
  PROVE  LongestMatch(routes[n], lo[n]) # NoRoute
<1>1. lo[n] = Loopback[n] /\ Loopback[n] # Unparsable /\ lo[n] \in Addr
  BY DEF CrashInv, LoSound, TypeOK
<1>2. PICK k \in 1..Len(routes[n]) : routes[n][k] = LoopbackRoute(n)
  BY <1>1 DEF CrashInv, RoutesSound
<1>3. routes[n] \in Seq(Route)
  BY DEF CrashInv, TypeOK
<1>4. Matches(routes[n][k], lo[n]) /\ routes[n][k].mask > 0
  BY <1>1, <1>2, FullMask, IPv4Assumption DEF LoopbackRoute, DirectRoute, Matches
<1>5. k \in Candidates(routes[n], lo[n])
  BY <1>4 DEF Candidates
<1> QED
  BY <1>1, <1>3, <1>5, LongestMatchSpec

\* The parts of the invariant that a call of a thread cannot disturb.
LEMMA CallFrame ==
  ASSUME NEW t \in Thread, Call(t)
  PROVE  UNCHANGED <<routes, lo>>
  BY DEF Call, NoRouteFromTop, DirectFromTop, GatewayFromTop, L2LocalDelivery,
         L2ForwardKnown, L2ForwardUnknown, ArpResolved, ArpTimeout, NoRouteRecv, LocalRecv,
         ConnectedRecv, ForwardRecv, L2Transmit, Crash, OnlyTask, Send

\* A call that does not crash and whose continuation is sound keeps the invariant.
LEMMA BecomeSound ==
  ASSUME CrashInv, TypeOK', UNCHANGED <<routes, lo, crashed>>,
         NEW t \in Thread, NEW c, Become(t, c), CallSound(c)
  PROVE  CrashInv'
<1>1. RoutesSound' /\ LoSound'
  BY DEF CrashInv, RoutesSound, LoSound
<1>2. CallsSound'
  BY DEF CrashInv, TypeOK, Become, CallsSound, CallSound
<1>3. CrashNeedsMisconfiguration'
  BY DEF CrashInv, CrashNeedsMisconfiguration, OffLinkGateway
<1> QED
  BY <1>1, <1>2, <1>3 DEF CrashInv

\* The process may die on a node that is misconfigured.
LEMMA CrashSound ==
  ASSUME CrashInv, TypeOK', Crash, NEW n \in Node, OffLinkGateway(n) \/ lo[n] = Unparsable
  PROVE  CrashInv'
<1>1. RoutesSound' /\ LoSound' /\ CallsSound'
  BY DEF CrashInv, Crash, RoutesSound, LoSound, CallsSound, CallSound
<1>2. CrashNeedsMisconfiguration'
  BY DEF Crash, CrashNeedsMisconfiguration, OffLinkGateway
<1> QED
  BY <1>1, <1>2 DEF CrashInv

\* The calls that name an interface, or none, without a wait are sound.
LEMMA SimpleCallsSound ==
  /\ CallSound(Idle)
  /\ \A n, m, x : CallSound(FromTop(n, m, x))
  /\ \A n, m : CallSound(L3Recv(n, m))
  /\ \A n, x, m : \A i \in Intf : CallSound(L2Fwd(n, x, i, m))
  BY IPv4Assumption DEF CallSound, Idle, FromTop, L3Recv, L2Fwd

\* layer3_pkt_receive_from_top keeps the invariant.
LEMMA FromTopSound ==
  ASSUME CrashInv, TypeOK', NEW t \in Thread,
         NoRouteFromTop(t) \/ DirectFromTop(t) \/ GatewayFromTop(t)
  PROVE  CrashInv'
<1> DEFINE n == task[t].node
           d == task[t].dst
           r == LongestMatch(routes[n], d)
<1>0. TypeOK
  BY DEF CrashInv
<1>1. n \in Node /\ d \in Addr
  BY <1>0, TaskFields DEF NoRouteFromTop, DirectFromTop, GatewayFromTop, Running
<1>2. r.gw \in Addr
  BY <1>0, <1>1, LookupTypes
<1>3. CASE NoRouteFromTop(t)
  <2> DEFINE src == IF lo[n] = Unparsable THEN AnyAddr ELSE lo[n]
             next == FromTop(n, Unreachable(task[t].icmp), src)
  <2>1. r = NoRoute /\ ((src = d /\ Crash) \/ (Become(t, next) /\ OnlyTask))
    BY <1>3 DEF NoRouteFromTop
  <2>2. CASE src = d /\ Crash
    <3>1. lo[n] = Unparsable
      BY <1>1, <2>1, <2>2, LoopbackHasRoute
    <3> QED BY <1>1, <2>2, <3>1, CrashSound
  <2>3. CASE Become(t, next) /\ OnlyTask
    <3> HIDE DEF src
    <3> QED BY <2>3, SimpleCallsSound, BecomeSound DEF OnlyTask
  <2> QED BY <2>1, <2>2, <2>3
<1>4. CASE DirectFromTop(t)
  <2>1. r # NoRoute /\ r.direct /\ OnlyTask
    BY <1>4 DEF DirectFromTop
  <2>2. PICK p : Become(t, L2Fwd(n, d, NoIntf, p))
    BY <1>4 DEF DirectFromTop
  <2>3. d = Loopback[n] \/ MatchingSubnetIntf(n, d) # NoIntf
    BY <1>1, <2>1, DirectHop
  <2>4. CallSound(L2Fwd(n, d, NoIntf, p))
    BY <2>3 DEF CallSound, L2Fwd
  <2> HIDE DEF n, d, r
  <2> QED BY <2>1, <2>2, <2>4, BecomeSound DEF OnlyTask
<1>5. CASE GatewayFromTop(t)
  <2> DEFINE oif == MatchingSubnetIntf(n, r.gw)
             next == L2Fwd(n, r.gw, oif,
                       [src |-> IP[oif], dst |-> d, ttl |-> InitTTL, icmp |-> task[t].icmp])
  <2>1. r # NoRoute /\ ~r.direct
    BY <1>5 DEF GatewayFromTop
  <2>2. (oif = NoIntf /\ Crash) \/ (oif # NoIntf /\ Become(t, next) /\ OnlyTask)
    BY <1>5 DEF GatewayFromTop
  <2>3. CASE oif = NoIntf /\ Crash
    <3>1. routes[n] \in Seq(Route)
      BY <1>0, <1>1 DEF TypeOK
    <3>2. PICK k \in Candidates(routes[n], d) : r = routes[n][k]
      BY <1>1, <2>1, <3>1, LongestMatchSpec
    <3>3. OffLinkGateway(n)
      BY <2>1, <2>3, <3>2 DEF Candidates, OffLinkGateway
    <3> QED BY <1>1, <2>3, <3>3, CrashSound
  <2>4. CASE oif # NoIntf /\ Become(t, next) /\ OnlyTask
    <3>1. oif \in Intf
      BY <1>1, <1>2, <2>4, MatchingSubnetType
    <3>2. CallSound(next)
      <4> HIDE DEF oif
      <4> QED BY <3>1, SimpleCallsSound
    <3> HIDE DEF next
    <3> QED BY <2>4, <3>2, BecomeSound DEF OnlyTask
  <2> QED BY <2>2, <2>3, <2>4
<1> QED
  BY <1>3, <1>4, <1>5

\* l2_forward_ip_packet keeps the invariant.
LEMMA ForwardSound ==
  ASSUME CrashInv, TypeOK', NEW t \in Thread,
         \/ L2LocalDelivery(t) \/ L2ForwardKnown(t) \/ L2ForwardUnknown(t)
         \/ ArpResolved(t) \/ ArpTimeout(t)
  PROVE  CrashInv'
<1> DEFINE n == task[t].node
           hop == task[t].hop
           oif == OutIntf(t)
<1>0. TypeOK
  BY DEF CrashInv
<1>1. /\ task[t].op \in {"l2fwd", "arpWait"}
      /\ n \in Node /\ hop \in Addr /\ task[t].oif \in Intf \cup {NoIntf}
  <2>1. task[t].op \in {"l2fwd", "arpWait"}
    BY DEF L2LocalDelivery, L2ForwardKnown, L2ForwardUnknown, ArpResolved, ArpTimeout,
           Forwards, Running
  <2> QED BY <1>0, <2>1, TaskFields
<1>2. /\ task[t].oif = NoIntf => hop = Loopback[n] \/ MatchingSubnetIntf(n, hop) # NoIntf
      /\ task[t].op = "arpWait" /\ task[t].oif = NoIntf => lo[n] = Unparsable
  BY <1>1 DEF CrashInv, CallsSound, CallSound
\* No interface was found: the hop was the loopback that the node has lost.
<1>3. ASSUME Forwards(t), oif = NoIntf
      PROVE  lo[n] = Unparsable /\ hop = Loopback[n]
  <2>1. task[t].oif = NoIntf /\ MatchingSubnetIntf(n, hop) = NoIntf
    BY <1>3 DEF OutIntf
  <2>2. hop = Loopback[n] /\ ~LocalDelivery(n, hop)
    BY <1>2, <1>3, <2>1 DEF Forwards
  <2> QED BY <1>1, <2>2 DEF LocalDelivery, CrashInv, LoSound
<1>4. ASSUME NEW i \in Intf \cup {NoIntf}, L2Transmit(t, i), i = NoIntf => lo[n] = Unparsable
      PROVE  CrashInv'
  <2>1. CASE i = NoIntf
    BY <1>1, <1>4, <2>1, CrashSound DEF L2Transmit
  <2>2. CASE i # NoIntf
    <3>1. Become(t, Idle) /\ UNCHANGED <<routes, lo, crashed>>
      BY <1>4, <2>2 DEF L2Transmit, Send
    <3> QED BY <3>1, SimpleCallsSound, BecomeSound
  <2> QED BY <2>1, <2>2
<1>5. oif \in Intf \cup {NoIntf}
  BY <1>1, MatchingSubnetType DEF OutIntf
<1>6. CASE L2LocalDelivery(t)
  BY <1>6, SimpleCallsSound, BecomeSound DEF L2LocalDelivery, OnlyTask
<1>7. CASE L2ForwardKnown(t)
  BY <1>3, <1>4, <1>5, <1>7 DEF L2ForwardKnown
<1>8. CASE L2ForwardUnknown(t)
  <2> DEFINE next == ArpWait(n, hop, oif, task[t].pkt)
  <2>1. Become(t, next) /\ UNCHANGED <<routes, lo, crashed>>
    BY <1>8 DEF L2ForwardUnknown, OnlyTask, Send
  <2>2. oif = NoIntf => lo[n] = Unparsable /\ hop = Loopback[n]
    BY <1>3, <1>8 DEF L2ForwardUnknown
  <2>3. CallSound(next)
    BY <2>2 DEF CallSound, ArpWait
  <2> HIDE DEF next
  <2> QED BY <2>1, <2>3, BecomeSound
<1>9. CASE ArpResolved(t)
  <2>1. task[t].op = "arpWait" /\ L2Transmit(t, task[t].oif)
    BY <1>9 DEF ArpResolved, Running
  <2> QED BY <1>1, <1>2, <1>4, <2>1
<1>10. CASE ArpTimeout(t)
  BY <1>10, SimpleCallsSound, BecomeSound DEF ArpTimeout, OnlyTask
<1> QED
  BY <1>6, <1>7, <1>8, <1>9, <1>10

\* layer3_ip_pkt_recv_from_layer2 keeps the invariant.
LEMMA UpwardSound ==
  ASSUME CrashInv, TypeOK', NEW t \in Thread,
         NoRouteRecv(t) \/ LocalRecv(t) \/ ConnectedRecv(t) \/ ForwardRecv(t)
  PROVE  CrashInv'
<1> DEFINE n == task[t].node
           pkt == task[t].pkt
           r == LongestMatch(routes[n], pkt.dst)
<1>0. TypeOK
  BY DEF CrashInv
<1>1. n \in Node /\ pkt \in Packet
  BY <1>0, TaskFields DEF NoRouteRecv, LocalRecv, ConnectedRecv, ForwardRecv, Running
<1>2. pkt.dst \in Addr /\ routes[n] \in Seq(Route)
  BY <1>0, <1>1 DEF Packet, TypeOK
<1>3. CASE NoRouteRecv(t)
  BY <1>3, SimpleCallsSound, BecomeSound DEF NoRouteRecv, OnlyTask
<1>4. CASE LocalRecv(t)
  <2>1. UNCHANGED <<routes, lo, crashed>>
    BY <1>4 DEF LocalRecv, OnlyTask
  <2>2. Become(t, Idle) \/ Become(t, FromTop(n, EchoReply(pkt.icmp), pkt.src))
    BY <1>4 DEF LocalRecv
  <2> QED BY <2>1, <2>2, SimpleCallsSound, BecomeSound
<1>5. CASE ConnectedRecv(t)
  <2>1. /\ r # NoRoute /\ r.direct
        /\ Become(t, L2Fwd(n, pkt.dst, NoIntf, pkt)) /\ OnlyTask
    BY <1>5 DEF ConnectedRecv
  <2>2. pkt.dst = Loopback[n] \/ MatchingSubnetIntf(n, pkt.dst) # NoIntf
    BY <1>1, <1>2, <2>1, DirectHop
  <2>3. CallSound(L2Fwd(n, pkt.dst, NoIntf, pkt))
    BY <2>2 DEF CallSound, L2Fwd
  <2> QED BY <2>1, <2>3, BecomeSound DEF OnlyTask
<1>6. CASE ForwardRecv(t)
  <2> DEFINE exceeded == FromTop(n, Exceeded(pkt.icmp), pkt.src)
             onward == L2Fwd(n, r.gw, r.oif, [pkt EXCEPT !.ttl = @ - 1])
  <2>1. r # NoRoute /\ ~r.direct /\ OnlyTask
    BY <1>6 DEF ForwardRecv
  <2>2. Become(t, exceeded) \/ Become(t, onward)
    BY <1>6 DEF ForwardRecv
  <2>3. PICK k \in Candidates(routes[n], pkt.dst) : r = routes[n][k]
    BY <1>2, <2>1, LongestMatchSpec
  <2>4. k \in 1..Len(routes[n])
    BY <2>3 DEF Candidates
  <2>5. r.oif \in Intf
    BY <1>1, <2>1, <2>3, <2>4 DEF CrashInv, RoutesSound, RouteSound
  <2>6. CallSound(exceeded) /\ CallSound(onward)
    BY <2>5, SimpleCallsSound
  <2> HIDE DEF exceeded, onward
  <2> QED BY <2>1, <2>2, <2>6, BecomeSound DEF OnlyTask
<1> QED
  BY <1>3, <1>4, <1>5, <1>6

\* A step that leaves the calls alone, or gives the receiver a packet to take up.
LEMMA OtherSound ==
  ASSUME CrashInv, TypeOK', UNCHANGED <<routes, lo, crashed>>,
         \/ UNCHANGED task
         \/ \E t \in Thread : \E n, m, x : Become(t, FromTop(n, m, x)) \/ Become(t, L3Recv(n, x))
  PROVE  CrashInv'
<1>1. CASE UNCHANGED task
  <2>1. RoutesSound' /\ LoSound' /\ CallsSound'
    BY <1>1 DEF CrashInv, RoutesSound, LoSound, CallsSound, CallSound
  <2>2. CrashNeedsMisconfiguration'
    BY DEF CrashInv, CrashNeedsMisconfiguration, OffLinkGateway
  <2> QED BY <2>1, <2>2 DEF CrashInv
<1>2. CASE \E t \in Thread : \E n, m, x :
              Become(t, FromTop(n, m, x)) \/ Become(t, L3Recv(n, x))
  BY <1>2, SimpleCallsSound, BecomeSound
<1> QED
  BY <1>1, <1>2

\* A route added in front of the table leaves the others where a lookup finds them.
LEMMA ConfigRouteSound ==
  ASSUME CrashInv, TypeOK', NEW c \in RouteCommands, ConfigRoute(c)
  PROVE  CrashInv'
<1> DEFINE r == StaticRoute(c.dst, c.mask, c.gw, c.oif)
<1>1. /\ c.node \in Node /\ r.oif \in Intf /\ ~r.direct
      /\ r \in Route
  BY StackAssumption, RouteTypes DEF StaticRoute
<1>2. /\ routes' = [routes EXCEPT ![c.node] = <<r>> \o @]
      /\ UNCHANGED <<lo, task, crashed>>
  BY DEF ConfigRoute
<1>3. \A n \in Node : routes[n] \in Seq(Route)
  BY DEF CrashInv, TypeOK
\* Every route that was there is there, one place further down.
<1>4. \A n \in Node : \A k \in 1..Len(routes[n]) :
        \E j \in 1..Len(routes'[n]) : routes'[n][j] = routes[n][k]
  <2> TAKE n \in Node
  <2> TAKE k \in 1..Len(routes[n])
  <2>1. CASE n # c.node
    BY <1>2, <1>3, <2>1
  <2>2. CASE n = c.node
    <3>1. routes'[n] = <<r>> \o routes[n]
      BY <1>2, <1>3, <2>2 DEF CrashInv, TypeOK
    <3> HIDE DEF r
    <3>2. k + 1 \in 1..Len(routes'[n]) /\ routes'[n][k + 1] = routes[n][k]
      BY <1>1, <1>3, <3>1
    <3> QED BY <3>2
  <2> QED BY <2>1, <2>2
<1>5. \A n \in Node : \A j \in 1..Len(routes'[n]) :
        (n = c.node /\ routes'[n][j] = r) \/ \E k \in 1..Len(routes[n]) : routes'[n][j] = routes[n][k]
  <2> TAKE n \in Node
  <2> TAKE j \in 1..Len(routes'[n])
  <2>1. CASE n # c.node
    BY <1>2, <1>3, <2>1
  <2>2. CASE n = c.node
    <3>1. routes'[n] = <<r>> \o routes[n]
      BY <1>2, <1>3, <2>2 DEF CrashInv, TypeOK
    <3> HIDE DEF r
    <3>2. CASE j = 1
      BY <1>1, <1>3, <2>2, <3>1, <3>2
    <3>3. CASE j # 1
      <4>1. j - 1 \in 1..Len(routes[n]) /\ routes'[n][j] = routes[n][j - 1]
        BY <1>1, <1>3, <3>1, <3>3
      <4> QED BY <4>1
    <3> QED BY <3>2, <3>3
  <2> QED BY <2>1, <2>2
<1>6. RoutesSound'
  <2>1. \A n \in Node : Loopback[n] # Unparsable =>
          \E k \in 1..Len(routes'[n]) : routes'[n][k] = LoopbackRoute(n)
    <3> SUFFICES ASSUME NEW n \in Node, Loopback[n] # Unparsable
                 PROVE  \E k \in 1..Len(routes'[n]) : routes'[n][k] = LoopbackRoute(n)
      OBVIOUS
    <3>1. PICK k \in 1..Len(routes[n]) : routes[n][k] = LoopbackRoute(n)
      BY DEF CrashInv, RoutesSound
    <3>2. PICK j \in 1..Len(routes'[n]) : routes'[n][j] = routes[n][k]
      BY <1>4
    <3> QED BY <3>1, <3>2
  <2>2. \A n \in Node : RouteSound(n, r)
    BY <1>1 DEF RouteSound
  <2>3. \A n \in Node : \A j \in 1..Len(routes'[n]) : RouteSound(n, routes'[n][j])
    <3> HIDE DEF r
    <3> QED BY <1>5, <2>2 DEF CrashInv, RoutesSound
  <2> QED BY <2>1, <2>3 DEF RoutesSound, RouteSound, LoopbackRoute, IntfRoute
<1>7. LoSound' /\ CallsSound'
  BY <1>2 DEF CrashInv, LoSound, CallsSound, CallSound
<1>8. CrashNeedsMisconfiguration'
  <2>1. \A n \in Node : OffLinkGateway(n) => OffLinkGateway(n)'
    BY <1>4 DEF OffLinkGateway
  <2> QED BY <1>2, <2>1 DEF CrashInv, CrashNeedsMisconfiguration
<1> QED
  BY <1>6, <1>7, <1>8 DEF CrashInv

\* A show command keeps the invariant: it only loses loopbacks.
LEMMA ShowNodesSound ==
  ASSUME CrashInv, TypeOK', NEW S \in ShowCommands, ShowNodes(S)
  PROVE  CrashInv'
<1>1. /\ \A n \in Node : lo'[n] \in {lo[n], Unparsable}
      /\ UNCHANGED <<routes, task, crashed>>
  BY DEF ShowNodes
<1>2. RoutesSound'
  BY <1>1 DEF CrashInv, RoutesSound
<1>3. LoSound'
  BY <1>1 DEF CrashInv, LoSound
<1>4. CallsSound'
  <2> SUFFICES ASSUME NEW t \in Thread PROVE CallSound(task[t])'
    BY DEF CallsSound
  <2>1. CallSound(task[t])
    BY DEF CrashInv, CallsSound
  <2>2. task[t].op = "arpWait" => task[t].node \in Node
    BY TaskFields DEF CrashInv
  <2> QED BY <1>1, <2>1, <2>2 DEF CallSound
<1>5. CrashNeedsMisconfiguration'
  BY <1>1 DEF CrashInv, CrashNeedsMisconfiguration, OffLinkGateway
<1> QED
  BY <1>2, <1>3, <1>4, <1>5 DEF CrashInv

\* The tables that a topology starts with satisfy the invariant.
LEMMA InitCrash == Init => CrashInv
<1> SUFFICES ASSUME Init PROVE CrashInv
  OBVIOUS
<1>1. TypeOK /\ LoSound /\ CallsSound /\ CrashNeedsMisconfiguration
  BY InitType, SimpleCallsSound DEF Init, LoSound, CallsSound, CrashNeedsMisconfiguration
<1>2. ASSUME NEW n \in Node
      PROVE  /\ Loopback[n] # Unparsable =>
                  \E k \in 1..Len(routes[n]) : routes[n][k] = LoopbackRoute(n)
             /\ \A k \in 1..Len(routes[n]) : RouteSound(n, routes[n][k])
  <2> DEFINE len == Len(IntfSeq[n])
  <2>1. routes[n] = InitRoutes(n) /\ len \in Nat
    BY StackAssumption DEF Init
  <2>2. \A k \in 1..len : len + 1 - k \in 1..len
    BY <2>1
  <2>3. CASE Loopback[n] = Unparsable
    <3>1. routes[n] = [k \in 1..len |-> IntfRoute(IntfSeq[n][len + 1 - k])]
      BY <2>1, <2>3 DEF InitRoutes, IntfRoute
    <3> HIDE DEF len
    <3>2. Len(routes[n]) = len
      BY <2>1, <3>1
    <3>3. \A k \in 1..len : /\ routes[n][k] = IntfRoute(IntfSeq[n][len + 1 - k])
                            /\ routes[n][k].direct
      BY <3>1 DEF IntfRoute, DirectRoute
    <3> QED BY <2>2, <2>3, <3>2, <3>3 DEF RouteSound, len
  <2>4. CASE Loopback[n] # Unparsable
    <3>1. routes[n] = [k \in 1..(len + 1) |->
                         IF k <= len THEN IntfRoute(IntfSeq[n][len + 1 - k])
                                     ELSE LoopbackRoute(n)]
      BY <2>1, <2>4 DEF InitRoutes, IntfRoute, LoopbackRoute
    <3> HIDE DEF len
    <3>2. Len(routes[n]) = len + 1
      BY <2>1, <3>1
    <3>3. \A k \in 1..len : /\ routes[n][k] = IntfRoute(IntfSeq[n][len + 1 - k])
                            /\ routes[n][k].direct
      <4>1. \A k \in 1..len : k \in 1..(len + 1) /\ k <= len
        BY <2>1
      <4>2. \A k \in 1..len : routes[n][k] = IntfRoute(IntfSeq[n][len + 1 - k])
        BY <3>1, <4>1
      <4>3. \A i : IntfRoute(i).direct
        BY DEF IntfRoute, DirectRoute
      <4> QED BY <4>2, <4>3
    <3>4. len + 1 \in 1..(len + 1) /\ routes[n][len + 1] = LoopbackRoute(n)
      BY <2>1, <3>1
    <3>5. LoopbackRoute(n).direct
      BY DEF LoopbackRoute, DirectRoute
    <3>6. \A k \in 1..(len + 1) : k \in 1..len \/ k = len + 1
      BY <2>1
    <3> QED BY <2>2, <2>4, <3>2, <3>3, <3>4, <3>5, <3>6 DEF RouteSound, len
  <2> QED BY <2>3, <2>4
<1>3. RoutesSound
  BY <1>2 DEF RoutesSound
<1> QED
  BY <1>1, <1>3 DEF CrashInv

\* Every step keeps the invariant.
LEMMA NextCrash == CrashInv /\ [Next]_vars => CrashInv'
<1> SUFFICES ASSUME CrashInv, [Next]_vars PROVE CrashInv'
  OBVIOUS
<1>0. TypeOK'
  BY NextType DEF CrashInv
<1>1. ASSUME NEW t \in Thread, Call(t) PROVE CrashInv'
  BY <1>0, <1>1, FromTopSound, ForwardSound, UpwardSound DEF Call
<1>2. CASE Receive
  <2>1. "rx" \in Thread
    BY DEF Thread
  <2>2. UNCHANGED <<routes, lo, crashed>>
    BY <1>2 DEF Receive, Select, RecvArpRequest, RecvArpReply, RecvIp, RecvDiscard
  <2>3. UNCHANGED task \/ \E n, x : Become("rx", L3Recv(n, x))
    BY <1>2 DEF Receive, Select, RecvArpRequest, RecvArpReply, RecvIp, RecvDiscard
  <2> QED BY <1>0, <2>1, <2>2, <2>3, OtherSound
<1>3. CASE PingSend \/ PingReturn
  <2>1. "cli" \in Thread
    BY DEF Thread
  <2>2. UNCHANGED <<routes, lo, crashed>>
    BY <1>3 DEF PingSend, PingReturn
  <2>3. UNCHANGED task \/ \E n, m, x : Become("cli", FromTop(n, m, x))
    BY <1>3 DEF PingSend, PingReturn
  <2> QED BY <1>0, <2>1, <2>2, <2>3, OtherSound
<1>4. CASE Command
  <2>1. ASSUME NEW c \in PingCommands, PingCommand(c[1], c[2]) PROVE CrashInv'
    BY <1>0, <2>1, OtherSound DEF PingCommand
  <2>2. ASSUME NEW c \in ArpCommands, ResolveArp(c[1], c[2]) PROVE CrashInv'
    BY <1>0, <2>2, OtherSound DEF ResolveArp
  <2> QED BY <1>0, <1>4, <2>1, <2>2, ConfigRouteSound, ShowNodesSound DEF Command
<1>5. CASE UNCHANGED vars
  BY <1>0, <1>5, OtherSound DEF vars
<1> QED
  BY <1>1, <1>2, <1>3, <1>4, <1>5 DEF Next, RxStep, CliStep, Thread

\* The process survives every interleaving and every command, unless a route goes
\* through a gateway off every subnet of its node (layer3.c:252), or a node's
\* loopback address can no longer be read (layer3.c:215-224, layer2.c:366-370).
THEOREM CrashHasACause == Spec => []CrashNeedsMisconfiguration
<1>1. CrashInv => CrashNeedsMisconfiguration
  BY DEF CrashInv
<1> QED
  BY <1>1, InitCrash, NextCrash, PTL DEF Spec
=============================================================================
