-------------------------- MODULE StackReplyProofs --------------------------
(* Who hears the answer to an echo message: module Stack's                  *)
(* RepliesReachTheAsker, where no two nodes share an address and every      *)
(* node can read its loopback address.                                      *)
EXTENDS StackEchoProofs

-----------------------------------------------------------------------------
(* The inductive invariant *)

\* The addresses that a node takes for its own
LocalAt(n, a) == Loopback[n] = a \/ \E i \in Intf : Owner[i] = n /\ IP[i] = a

\* A configuration in which an address says which node is meant, and keeps saying so
AddressesTell ==
    /\ \A m, n \in Node, a \in Addr : LocalAt(m, a) /\ LocalAt(n, a) => m = n
    /\ \A n \in Node : Loopback[n] \in Addr
    /\ ShowCommands = {}

\* An answer goes to the node that asked, about an address that has an owner.
Answers(id, a, e) == LocalAt(e[id].node, a) /\ e[id].dst \in Owned

\* An echo message bears an address of the node that asked as its source.
PacketReturns(p, e) ==
    /\ p.icmp.type = "echo" => LocalAt(e[p.icmp.id].node, p.src)
    /\ p.icmp.type = "reply" => Answers(p.icmp.id, p.dst, e)

CallReturns(x, e) ==
    /\ x.op = "fromTop" =>
          /\ x.icmp.type = "echo" => x.node = e[x.icmp.id].node
          /\ x.icmp.type = "reply" => Answers(x.icmp.id, x.dst, e)
    /\ x.op \in {"l2fwd", "arpWait", "l3recv"} => PacketReturns(x.pkt, e)

SocketsReturn(q, e) ==
    \A n \in Node : \A k \in 1..Len(q[n]) :
        q[n][k].frame.type = "ip" => PacketReturns(q[n][k].frame.pkt, e)

LinesReturn(c, e) ==
    \A l \in c : l.type = "reply" => l.node = e[l.id].node /\ e[l.id].dst \in Owned

Returning(q, h, c, e) ==
    /\ SocketsReturn(q, e) /\ LinesReturn(c, e)
    /\ \A t \in Thread : CallReturns(h[t], e)

Back == Returning(sock, task, console, echoes)

ReplyInv == EchoInv /\ lo = Loopback /\ Back

-----------------------------------------------------------------------------
(* The kinds of step *)

\* A delivery adds a packet that returns, or a frame of ARP.
LEMMA DeliverReturns ==
  ASSUME NEW q \in Sockets, NEW i \in Intf, NEW f \in Frame, NEW e,
         SocketsReturn(q, e), f.type = "ip" => PacketReturns(f.pkt, e)
  PROVE  SocketsReturn(Deliver(q, i, f), e)
  <1> DEFINE p == Deliver(q, i, f)
             d == [iif |-> Peer[i], frame |-> f]
  <1>1. \A o \in Node : /\ \A k \in 1..Len(q[o]) : p[o][k] = q[o][k]
                        /\ \A k \in 1..Len(p[o]) : k \in 1..Len(q[o]) \/ p[o][k] = d
    BY DeliverPlaces
  <1>2. d.frame = f
    OBVIOUS
  <1> HIDE DEF p, d
  <1>3. SocketsReturn(p, e)
    BY <1>1, <1>2 DEF SocketsReturn
  <1>4. QED
    BY <1>3 DEF p

\* What is taken out of a socket returns, and so does what is left.
LEMMA TakenReturns ==
  ASSUME TypeOK, NEW n \in Node, Visits(n), NEW e, SocketsReturn(sock, e)
  PROVE  /\ SocketsReturn(Taken(n), e)
         /\ LET d == Head(sock[n])
            IN  d.frame.type = "ip" => PacketReturns(d.frame.pkt, e)
  <1> DEFINE d == Head(sock[n])
             p == Taken(n)
  <1>1. \A o \in Node :
           /\ Len(sock[o]) \in Nat /\ Len(p[o]) \in Nat
           /\ o # n => p[o] = sock[o]
           /\ o = n => /\ Len(p[o]) = Len(sock[o]) - 1 /\ 1 \in 1..Len(sock[o])
                       /\ sock[o][1] = d
                       /\ \A k \in 1..Len(p[o]) : p[o][k] = sock[o][k + 1]
    BY TakenPlaces
  <1> HIDE DEF d, p
  <1>2. d.frame.type = "ip" => PacketReturns(d.frame.pkt, e)
    BY <1>1 DEF SocketsReturn
  <1>3. ASSUME NEW o \in Node, NEW k \in 1..Len(p[o]), p[o][k].frame.type = "ip"
        PROVE  PacketReturns(p[o][k].frame.pkt, e)
    <2>1. PICK j \in 1..Len(sock[o]) : p[o][k] = sock[o][j]
      <3>1. o = n => k + 1 \in 1..Len(sock[o])
        BY <1>1
      <3>2. QED
        BY <1>1, <3>1
    <2>2. QED
      BY <1>3, <2>1 DEF SocketsReturn
  <1>4. QED
    BY <1>2, <1>3 DEF SocketsReturn, d, p

\* A thread goes on with a call that returns.
LEMMA CallGoesOn ==
  ASSUME task \in Tasks, Back, NEW t \in Thread, NEW x, CallReturns(x, echoes),
         Become(t, x), SocketsReturn(sock', echoes), console' = console, echoes' = echoes
  PROVE  Back'
  <1>1. \A u \in Thread : task'[u] = IF u = t THEN x ELSE task[u]
    BY DEF Become, Tasks
  <1>2. QED
    BY <1>1 DEF Back, Returning

\* What holds of the messages that were sent does so after another one is sent.
LEMMA AskReturns ==
  ASSUME ReplyInv, NEW n \in Node, NEW a \in Addr
  PROVE  /\ Returning(sock, task, console, Append(echoes, [node |-> n, dst |-> a]))
         /\ Append(echoes, [node |-> n, dst |-> a])[Len(echoes) + 1] = [node |-> n, dst |-> a]
  <1> DEFINE e == Append(echoes, [node |-> n, dst |-> a])
  <1>1. /\ TypeOK /\ echoes \in Echoes /\ sock \in Sockets /\ task \in Tasks
        /\ console \in SUBSET ConsoleLine
        /\ Numbered(sock, task, console, echoes)
    BY EchoTypes DEF ReplyInv, SaneNow, Sane
  <1>2. /\ \A k \in 1..Len(echoes) : e[k] = echoes[k]
        /\ e[Len(echoes) + 1] = [node |-> n, dst |-> a]
    BY <1>1 DEF Echoes
  <1> HIDE DEF e
  <1>3. \A m \in Live(sock, task) \cup Lines(console) : e[m.id] = echoes[m.id]
    BY <1>1, <1>2 DEF Numbered
  <1>4. ASSUME NEW p, p.icmp \in Live(sock, task), PacketReturns(p, echoes)
        PROVE  PacketReturns(p, e)
    BY <1>3, <1>4 DEF PacketReturns, Answers
  <1>5. SocketsReturn(sock, e)
    <2> SUFFICES ASSUME NEW o \in Node, NEW k \in 1..Len(sock[o]),
                        sock[o][k].frame.type = "ip"
                 PROVE  PacketReturns(sock[o][k].frame.pkt, e)
      BY DEF SocketsReturn
    <2> DEFINE p == sock[o][k].frame.pkt
    <2>1. p.icmp \in Icmp /\ k \in Nat
      <3>1. sock[o] \in Seq(Datagram)
        BY <1>1 DEF Sockets
      <3>2. sock[o][k] \in Datagram
        BY <3>1
      <3>3. QED
        BY <3>2 DEF Datagram, ArpFrame, IpFrame, Packet
    <2>2. p.icmp \in Live(sock, task)
      BY <2>1 DEF Live, Mail, InPlace
    <2>3. PacketReturns(p, echoes)
      BY DEF ReplyInv, Back, Returning, SocketsReturn
    <2>4. QED
      BY <1>4, <2>2, <2>3
  <1>6. ASSUME NEW t \in Thread
        PROVE  CallReturns(task[t], e)
    <2>1. CallReturns(task[t], echoes) /\ task[t] \in Task
      BY <1>1 DEF ReplyInv, Back, Returning, Tasks
    <2>2. Held(task[t]) \subseteq Live(sock, task)
      BY DEF Live
    <2>3. CASE task[t].op = "fromTop"
      <3>1. task[t].icmp \in Live(sock, task)
        BY <1>1, <2>2, <2>3, TaskFields DEF Held
      <3>2. QED
        BY <1>3, <2>1, <2>3, <3>1 DEF CallReturns, Answers
    <2>4. CASE task[t].op \in {"l2fwd", "arpWait", "l3recv"}
      <3>1. task[t].pkt \in Packet
        BY <1>1, <2>4, TaskFields
      <3>2. task[t].pkt.icmp \in Live(sock, task)
        BY <2>2, <2>4, <3>1 DEF Held, Packet
      <3>3. QED
        BY <1>4, <2>1, <2>4, <3>2 DEF CallReturns
    <2>5. CASE task[t].op \notin {"fromTop", "l2fwd", "arpWait", "l3recv"}
      BY <2>5 DEF CallReturns
    <2>6. QED
      BY <2>3, <2>4, <2>5
  <1>7. LinesReturn(console, e)
    <2> SUFFICES ASSUME NEW l \in console, l.type = "reply"
                 PROVE  l.node = e[l.id].node /\ e[l.id].dst \in Owned
      BY DEF LinesReturn
    <2>1. [type |-> l.type, id |-> l.id] \in Lines(console)
      BY <1>1 DEF Lines, ConsoleLine, Icmp
    <2>2. e[l.id] = echoes[l.id]
      BY <1>3, <2>1
    <2>3. QED
      BY <2>2 DEF ReplyInv, Back, Returning, LinesReturn
  <1>8. QED
    BY <1>2, <1>5, <1>6, <1>7 DEF Returning, e

-----------------------------------------------------------------------------
(* The functions of the two layers *)

\* node_get_matching_subnet_interface returns an interface of the node.
LEMMA MatchingSubnetOwner ==
  ASSUME NEW n \in Node, NEW x \in Addr, MatchingSubnetIntf(n, x) # NoIntf
  PROVE  LocalAt(n, IP[MatchingSubnetIntf(n, x)])
  <1> DEFINE slots == {k \in 1..Len(IntfSeq[n]) : OnSubnet(IntfSeq[n][k], x)}
             first == CHOOSE k \in slots : \A j \in slots : k <= j
  <1>1. IntfSeq[n] \in Seq(Intf)
    BY StackAssumption
  <1>2. slots # {}
    BY DEF MatchingSubnetIntf
  <1>3. slots \subseteq Nat
    BY <1>1
  <1>4. \E k \in slots : \A j \in slots : k <= j
    <2> HIDE DEF slots
    <2>1. QED
      BY <1>2, <1>3, NatMinimum
  <1>5. first \in 1..Len(IntfSeq[n])
    BY <1>4
  <1>6. MatchingSubnetIntf(n, x) = IntfSeq[n][first]
    BY <1>2 DEF MatchingSubnetIntf
  <1> HIDE DEF slots, first
  <1>7. IntfSeq[n][first] \in Intf /\ Owner[IntfSeq[n][first]] = n
    BY <1>1, <1>5, StackAssumption
  <1>8. QED
    BY <1>6, <1>7 DEF LocalAt

\* is_layer3_local_delivery, for nodes that can read their loopback address
LEMMA DeliveryIsLocal ==
  ASSUME ReplyInv, NEW n \in Node, NEW a \in Addr, LocalDelivery(n, a)
  PROVE  LocalAt(n, a) /\ a \in Owned
  BY DEF ReplyInv, LocalDelivery, LocalAt, Owned

\* The process dies with what it holds.
LEMMA CrashReturns ==
  ASSUME ReplyInv, Crash
  PROVE  Back'
  BY DEF ReplyInv, Crash, Back

\* The types that the steps need
LEMMA ReplyTypes ==
  ASSUME ReplyInv
  PROVE  /\ EchoInv /\ TypeOK /\ sock \in Sockets /\ task \in Tasks /\ Back
         /\ SocketsReturn(sock, echoes)
         /\ \A t \in Thread : CallAims(task[t], echoes) /\ CallReturns(task[t], echoes)
  BY EchoTypes DEF ReplyInv, Back, Returning

\* The node that sent an echo message
LEMMA Askers ==
  ASSUME NEW e \in Echoes, NEW k \in 1..Len(e)
  PROVE  e[k].node \in Node
  <1>1. e[k] \in [node : Node, dst : Addr]
    BY ElementOfSeq DEF Echoes
  <1>2. QED
    BY <1>1

LEMMA FromTopReturns ==
  ASSUME AddressesTell, ReplyInv, NEW t \in Thread,
         NoRouteFromTop(t) \/ DirectFromTop(t) \/ GatewayFromTop(t)
  PROVE  Back'
  <1> DEFINE n == task[t].node
             d == task[t].dst
             m == task[t].icmp
             r == LongestMatch(routes[n], d)
  <1>1. /\ TypeOK /\ task \in Tasks /\ Back /\ SocketsReturn(sock, echoes)
        /\ CallReturns(task[t], echoes)
    BY ReplyTypes
  <1>2. task[t].op = "fromTop"
    BY DEF NoRouteFromTop, DirectFromTop, GatewayFromTop, Running
  <1>3. n \in Node /\ d \in Addr /\ m \in Icmp
    BY <1>1, <1>2, TaskFields
  <1>4. /\ m.type = "echo" => n = echoes[m.id].node
        /\ m.type = "reply" => Answers(m.id, d, echoes)
    BY <1>1, <1>2 DEF CallReturns
  <1>5. r.dest \in Addr /\ r.gw \in Addr
    BY <1>1, <1>3, LookupTypes
  <1>6. OnlyTask => /\ SocketsReturn(sock', echoes)
                    /\ console' = console /\ echoes' = echoes
    BY <1>1 DEF OnlyTask
  <1>7. CASE NoRouteFromTop(t)
    <2> DEFINE src == IF lo[n] = Unparsable THEN AnyAddr ELSE lo[n]
               x == FromTop(n, Unreachable(m), src)
    <2>1. CallReturns(x, echoes)
      BY DEF CallReturns, FromTop, Unreachable
    <2>2. Crash \/ (Become(t, x) /\ OnlyTask)
      BY <1>7 DEF NoRouteFromTop
    <2> HIDE DEF x
    <2>3. QED
      BY <1>1, <1>6, <2>1, <2>2, CrashReturns, CallGoesOn
  <1>8. ASSUME NEW s, LocalAt(n, s), NEW hop, NEW oif, OnlyTask,
               Become(t, L2Fwd(n, hop, oif,
                         [src |-> s, dst |-> d, ttl |-> InitTTL, icmp |-> m]))
        PROVE  Back'
    <2> DEFINE x == L2Fwd(n, hop, oif, [src |-> s, dst |-> d, ttl |-> InitTTL, icmp |-> m])
    <2>1. CallReturns(x, echoes)
      BY <1>4, <1>8 DEF CallReturns, L2Fwd, PacketReturns
    <2>2. Become(t, x)
      BY <1>8
    <2> HIDE DEF x
    <2>3. QED
      BY <1>1, <1>6, <1>8, <2>1, <2>2, CallGoesOn
  <1>9. CASE DirectFromTop(t)
    <2> DEFINE oif == MatchingSubnetIntf(n, r.dest)
               srcs == IF oif = NoIntf THEN LoopbackSource(n) ELSE {IP[oif]}
    <2>1. \A s \in srcs : LocalAt(n, s)
      <3>1. CASE oif = NoIntf
        <4>1. lo[n] = Loopback[n] /\ Loopback[n] # Unparsable
          BY <1>3, StackAssumption DEF ReplyInv, AddressesTell
        <4>2. QED
          BY <3>1, <4>1 DEF LoopbackSource, LocalAt
      <3>2. CASE oif # NoIntf
        BY <1>3, <1>5, <3>2, MatchingSubnetOwner
      <3>3. QED
        BY <3>1, <3>2
    <2>2. PICK s \in srcs :
            Become(t, L2Fwd(n, d, NoIntf,
                      [src |-> s, dst |-> d, ttl |-> InitTTL, icmp |-> m]))
      BY <1>9 DEF DirectFromTop
    <2>3. OnlyTask
      BY <1>9 DEF DirectFromTop
    <2> HIDE DEF n, m, d, srcs
    <2>4. QED
      BY <1>8, <2>1, <2>2, <2>3
  <1>10. CASE GatewayFromTop(t)
    <2> DEFINE oif == MatchingSubnetIntf(n, r.gw)
    <2>1. oif # NoIntf => LocalAt(n, IP[oif])
      BY <1>3, <1>5, MatchingSubnetOwner
    <2>2. \/ Crash
          \/ /\ oif # NoIntf /\ OnlyTask
             /\ Become(t, L2Fwd(n, r.gw, oif,
                          [src |-> IP[oif], dst |-> d, ttl |-> InitTTL, icmp |-> m]))
      BY <1>10 DEF GatewayFromTop
    <2> HIDE DEF n, m, d, oif, r
    <2>3. QED
      BY <1>8, <2>1, <2>2, CrashReturns
  <1>11. QED
    BY <1>7, <1>9, <1>10

LEMMA ForwardReturns ==
  ASSUME ReplyInv, NEW t \in Thread,
         \/ L2LocalDelivery(t) \/ L2ForwardKnown(t) \/ L2ForwardUnknown(t)
         \/ ArpResolved(t) \/ ArpTimeout(t)
  PROVE  Back'
  <1> DEFINE n == task[t].node
             hop == task[t].hop
             pkt == task[t].pkt
  <1>1. /\ TypeOK /\ task \in Tasks /\ Back /\ SocketsReturn(sock, echoes)
        /\ CallReturns(task[t], echoes) /\ sock \in Sockets
    BY ReplyTypes
  <1>2. task[t].op \in {"l2fwd", "arpWait"}
    BY DEF L2LocalDelivery, L2ForwardKnown, L2ForwardUnknown, ArpResolved, ArpTimeout,
           Forwards, Running
  <1>3. n \in Node /\ hop \in Addr /\ task[t].oif \in Intf \cup {NoIntf} /\ pkt \in Packet
    BY <1>1, <1>2, TaskFields
  <1>4. PacketReturns(pkt, echoes)
    BY <1>1, <1>2 DEF CallReturns
  <1>5. OnlyTask => /\ SocketsReturn(sock', echoes)
                    /\ console' = console /\ echoes' = echoes
    BY <1>1 DEF OnlyTask
  <1>6. OutIntf(t) \in Intf \cup {NoIntf}
    BY <1>3, MatchingSubnetType DEF OutIntf
  <1>7. /\ CallReturns(Idle, echoes) /\ CallReturns(L3Recv(n, pkt), echoes)
        /\ \A i : CallReturns(ArpWait(n, hop, i, pkt), echoes)
    BY <1>4 DEF CallReturns, Idle, L3Recv, ArpWait
  <1> HIDE DEF n, hop, pkt
  <1>8. CASE L2LocalDelivery(t)
    BY <1>1, <1>5, <1>7, <1>8, CallGoesOn DEF L2LocalDelivery, n, pkt
  <1>9. CASE ArpTimeout(t)
    BY <1>1, <1>5, <1>7, <1>9, CallGoesOn DEF ArpTimeout
  <1>10. CASE L2ForwardUnknown(t)
    <2>1. Become(t, ArpWait(n, hop, OutIntf(t), pkt))
      BY <1>10 DEF L2ForwardUnknown, n, hop, pkt
    <2>2. CASE OutIntf(t) = NoIntf
      <3>1. OnlyTask
        BY <1>10, <2>2 DEF L2ForwardUnknown
      <3>2. QED
        BY <1>1, <1>5, <1>7, <2>1, <3>1, CallGoesOn
    <2>3. CASE OutIntf(t) # NoIntf
      <3> DEFINE f == ArpRequestFrame(OutIntf(t), hop)
      <3>1. Send(OutIntf(t), f)
        BY <1>10, <2>3 DEF L2ForwardUnknown, hop
      <3>2. f \in Frame /\ f.type # "ip"
        BY <1>3, <1>6, <2>3, FrameTypes DEF ArpRequestFrame
      <3> HIDE DEF f
      <3>3. /\ sock' = Deliver(sock, OutIntf(t), f)
            /\ console' = console /\ echoes' = echoes
        BY <3>1 DEF Send
      <3>4. SocketsReturn(sock', echoes)
        BY <1>1, <1>6, <2>3, <3>2, <3>3, DeliverReturns
      <3>5. QED
        BY <1>1, <1>7, <2>1, <3>3, <3>4, CallGoesOn
    <2>4. QED
      BY <2>2, <2>3
  <1>11. ASSUME NEW oif \in Intf \cup {NoIntf}, L2Transmit(t, oif), arp[n][hop] # NoEntry
         PROVE  Back'
    <2>1. CASE oif = NoIntf
      BY <1>11, <2>1, CrashReturns DEF L2Transmit
    <2>2. CASE oif # NoIntf
      <3> DEFINE f == IpFrameOf(oif, arp[n][hop].mac, pkt)
      <3>1. arp[n][hop] \in ArpEntry
        BY <1>1, <1>3, <1>11 DEF TypeOK
      <3>2. f \in Frame /\ f.pkt = pkt
        BY <1>3, <2>2, <3>1, FrameTypes DEF ArpEntry, IpFrameOf
      <3>3. /\ Become(t, Idle) /\ sock' = Deliver(sock, oif, f)
            /\ console' = console /\ echoes' = echoes
        BY <1>11, <2>2 DEF L2Transmit, Send, n, hop, pkt
      <3> HIDE DEF f
      <3>4. SocketsReturn(sock', echoes)
        BY <1>1, <1>4, <2>2, <3>2, <3>3, DeliverReturns
      <3>5. QED
        BY <1>1, <1>7, <3>3, <3>4, CallGoesOn
    <2>3. QED
      BY <2>1, <2>2
  <1>12. CASE L2ForwardKnown(t)
    BY <1>6, <1>11, <1>12 DEF L2ForwardKnown, n, hop
  <1>13. CASE ArpResolved(t)
    BY <1>3, <1>11, <1>13 DEF ArpResolved, n, hop
  <1>14. QED
    BY <1>8, <1>9, <1>10, <1>12, <1>13

LEMMA UpwardReturns ==
  ASSUME AddressesTell, ReplyInv, NEW t \in Thread,
         NoRouteRecv(t) \/ LocalRecv(t) \/ ConnectedRecv(t) \/ ForwardRecv(t)
  PROVE  Back'
  <1> DEFINE n == task[t].node
             pkt == task[t].pkt
             m == pkt.icmp
             r == LongestMatch(routes[n], pkt.dst)
  <1>1. /\ TypeOK /\ task \in Tasks /\ Back /\ SocketsReturn(sock, echoes)
        /\ CallReturns(task[t], echoes) /\ CallAims(task[t], echoes)
    BY ReplyTypes
  <1>2. task[t].op = "l3recv"
    BY DEF NoRouteRecv, LocalRecv, ConnectedRecv, ForwardRecv, Running
  <1>3. n \in Node /\ pkt \in Packet /\ pkt.dst \in Addr /\ m \in Icmp
    BY <1>1, <1>2, TaskFields DEF Packet
  <1>4. PacketReturns(pkt, echoes) /\ PacketAims(pkt, echoes)
    BY <1>1, <1>2 DEF CallReturns, CallAims
  <1>5. OnlyTask => /\ SocketsReturn(sock', echoes)
                    /\ console' = console /\ echoes' = echoes
    BY <1>1 DEF OnlyTask
  \* an error to the source of the packet
  <1>6. ASSUME NEW l, l.type \notin {"echo", "reply"}, OnlyTask,
               Become(t, FromTop(n, l, pkt.src))
        PROVE  Back'
    <2>1. CallReturns(FromTop(n, l, pkt.src), echoes)
      BY <1>6 DEF CallReturns, FromTop
    <2> HIDE DEF n, pkt, m
    <2>2. QED
      BY <1>1, <1>5, <1>6, <2>1, CallGoesOn
  \* the packet goes on
  <1>7. ASSUME NEW hop, NEW oif, NEW p, p.icmp = m, p.src = pkt.src, p.dst = pkt.dst,
               Become(t, L2Fwd(n, hop, oif, p)), OnlyTask
        PROVE  Back'
    <2>1. CallReturns(L2Fwd(n, hop, oif, p), echoes)
      BY <1>4, <1>7 DEF CallReturns, L2Fwd, PacketReturns
    <2> HIDE DEF n, pkt, m
    <2>2. QED
      BY <1>1, <1>5, <1>7, <2>1, CallGoesOn
  <1>8. /\ Unreachable(m).type \notin {"echo", "reply"}
        /\ Exceeded(m).type \notin {"echo", "reply"}
        /\ EchoReply(m).type = "reply" /\ EchoReply(m).id = m.id
    BY DEF Unreachable, Exceeded, EchoReply
  <1>9. CASE NoRouteRecv(t)
    <2>1. Become(t, FromTop(n, Unreachable(m), pkt.src)) /\ OnlyTask
      BY <1>9 DEF NoRouteRecv
    <2>2. QED
      BY <1>6, <1>8, <2>1
  <1>10. CASE ConnectedRecv(t)
    <2>1. Become(t, L2Fwd(n, pkt.dst, NoIntf, pkt)) /\ OnlyTask
      BY <1>10 DEF ConnectedRecv
    <2>2. QED
      BY <1>7, <2>1
  <1>11. CASE ForwardRecv(t)
    <2> DEFINE fewer == [pkt EXCEPT !.ttl = @ - 1]
    <2>1. OnlyTask /\ Become(t, IF pkt.ttl = 1 THEN FromTop(n, Exceeded(m), pkt.src)
                                ELSE L2Fwd(n, r.gw, r.oif, fewer))
      BY <1>11 DEF ForwardRecv
    <2>2. CASE pkt.ttl = 1
      BY <1>6, <1>8, <2>1, <2>2
    <2>3. CASE pkt.ttl # 1
      <3>1. fewer.icmp = m /\ fewer.src = pkt.src /\ fewer.dst = pkt.dst
        BY <1>3 DEF Packet
      <3> HIDE DEF fewer, r
      <3>2. QED
        BY <1>7, <2>1, <2>3, <3>1
    <2>4. QED
      BY <2>2, <2>3
  <1>12. CASE LocalRecv(t)
    <2>1. LocalDelivery(n, pkt.dst)
      BY <1>12 DEF LocalRecv
    <2>2. LocalAt(n, pkt.dst) /\ pkt.dst \in Owned
      BY <1>3, <2>1, DeliveryIsLocal
    \* the answer goes to the source of the echo message
    <2>3. CASE m.type = "echo"
      <3> DEFINE x == FromTop(n, EchoReply(m), pkt.src)
      <3>1. Become(t, x) /\ OnlyTask
        BY <1>12, <2>3 DEF LocalRecv
      <3>2. Answers(m.id, pkt.src, echoes)
        BY <1>4, <2>2, <2>3 DEF PacketReturns, PacketAims, Answers
      <3>3. CallReturns(x, echoes)
        BY <1>8, <3>2 DEF CallReturns, FromTop
      <3> HIDE DEF x, n, pkt, m
      <3>4. QED
        BY <1>1, <1>5, <3>1, <3>3, CallGoesOn
    \* the line is printed where the address is known, by the node that asked
    <2>4. CASE m.type # "echo"
      <3> DEFINE l == [node |-> n, type |-> m.type, id |-> m.id]
      <3>1. /\ Become(t, Idle) /\ console' = console \cup {l}
            /\ sock' = sock /\ echoes' = echoes
        BY <1>12, <2>4 DEF LocalRecv, Report
      <3>2. m.type = "reply" => n = echoes[m.id].node /\ echoes[m.id].dst \in Owned
        <4> SUFFICES ASSUME m.type = "reply"
                     PROVE  n = echoes[m.id].node /\ echoes[m.id].dst \in Owned
          OBVIOUS
        <4>1. LocalAt(echoes[m.id].node, pkt.dst) /\ echoes[m.id].dst \in Owned
          BY <1>4 DEF PacketReturns, Answers
        <4>2. echoes[m.id].node \in Node
          <5>1. m \in Held(task[t])
            BY <1>2, <1>3 DEF Held
          <5>2. m \in Live(sock, task)
            BY <5>1 DEF Live
          <5>3. Numbered(sock, task, console, echoes) /\ echoes \in Echoes
            BY EchoTypes DEF ReplyInv, SaneNow, Sane
          <5>4. m.id \in 1..Len(echoes)
            BY <5>2, <5>3 DEF Numbered
          <5>5. QED
            BY <5>3, <5>4, Askers
        <4>3. QED
          BY <1>3, <2>2, <4>1, <4>2 DEF AddressesTell
      <3>3. LinesReturn(console', echoes)
        <4>1. LinesReturn(console, echoes)
          BY <1>1 DEF Back, Returning
        <4>2. l.type = m.type /\ l.id = m.id /\ l.node = n
          OBVIOUS
        <4> HIDE DEF l, n, pkt, m
        <4>3. QED
          BY <3>1, <3>2, <4>1, <4>2 DEF LinesReturn
      <3>4. \A u \in Thread : task'[u] = IF u = t THEN Idle ELSE task[u]
        BY <1>1, <3>1 DEF Become, Tasks
      <3>5. CallReturns(Idle, echoes)
        BY DEF CallReturns, Idle
      <3>6. QED
        BY <1>1, <3>1, <3>3, <3>4, <3>5 DEF Back, Returning
    <2>5. QED
      BY <2>3, <2>4
  <1>13. QED
    BY <1>9, <1>10, <1>11, <1>12

-----------------------------------------------------------------------------
(* The receiver thread and the commands *)

LEMMA ReceiveReturns ==
  ASSUME ReplyInv, Receive
  PROVE  Back'
  <1>1. /\ TypeOK /\ task \in Tasks /\ Back /\ SocketsReturn(sock, echoes)
        /\ sock \in Sockets /\ "rx" \in Thread
    BY ReplyTypes DEF Thread
  <1>2. CASE Select
    BY <1>1, <1>2 DEF Select, Back
  <1>3. ASSUME NEW n \in Node,
               RecvArpRequest(n) \/ RecvArpReply(n) \/ RecvIp(n) \/ RecvDiscard(n)
        PROVE  Back'
    <2> DEFINE d == Head(sock[n])
    <2>1. Visits(n) /\ console' = console /\ echoes' = echoes
      BY <1>3 DEF RecvArpRequest, RecvArpReply, RecvIp, RecvDiscard
    <2>2. d \in Datagram /\ Taken(n) \in Sockets
      BY <1>1, <2>1, VisitTypes
    <2>3. /\ SocketsReturn(Taken(n), echoes)
          /\ d.frame.type = "ip" => PacketReturns(d.frame.pkt, echoes)
      BY <1>1, <2>1, TakenReturns
    <2>4. CASE RecvArpRequest(n)
      <3> DEFINE f == ArpReplyFrame(d.iif, d.frame)
      <3>1. /\ d.frame.type = "arpRequest" /\ task' = task
            /\ sock' = Deliver(Taken(n), d.iif, f)
        BY <2>4 DEF RecvArpRequest
      <3>2. d.iif \in Intf /\ d.frame \in ArpFrame
        BY <2>2, <3>1 DEF Datagram, ArpFrame, IpFrame
      <3>3. f \in Frame /\ f.type # "ip"
        BY <3>2, FrameTypes DEF ArpReplyFrame
      <3> HIDE DEF f
      <3>4. SocketsReturn(sock', echoes)
        BY <2>2, <2>3, <3>1, <3>2, <3>3, DeliverReturns
      <3>5. QED
        BY <1>1, <2>1, <3>1, <3>4 DEF Back, Returning
    <2>5. CASE RecvArpReply(n) \/ RecvDiscard(n)
      <3>1. sock' = Taken(n) /\ task' = task
        BY <2>5 DEF RecvArpReply, RecvDiscard
      <3>2. QED
        BY <1>1, <2>1, <2>3, <3>1 DEF Back, Returning
    <2>6. CASE RecvIp(n)
      <3> DEFINE x == L3Recv(n, d.frame.pkt)
      <3>1. d.frame.type = "ip" /\ sock' = Taken(n) /\ Become("rx", x)
        BY <2>6 DEF RecvIp
      <3>2. CallReturns(x, echoes)
        BY <2>3, <3>1 DEF CallReturns, L3Recv
      <3> HIDE DEF x
      <3>3. QED
        BY <1>1, <2>1, <2>3, <3>1, <3>2, CallGoesOn
    <2>7. QED
      BY <1>3, <2>4, <2>5, <2>6
  <1>4. QED
    BY <1>2, <1>3 DEF Receive

LEMMA CliReturns ==
  ASSUME ReplyInv, PingSend \/ PingReturn
  PROVE  Back'
  <1>1. TypeOK /\ task \in Tasks /\ Back /\ "cli" \in Thread
    BY ReplyTypes DEF Thread
  <1>2. CASE PingSend
    <2> DEFINE m == [type |-> "echo", id |-> Len(echoes) + 1]
               n == ping.node
               a == ping.dst
               e == Append(echoes, [node |-> n, dst |-> a])
               x == FromTop(n, m, a)
    <2>1. n \in Node /\ a \in Addr
      BY <1>1, <1>2 DEF PingSend, TypeOK, Ping
    <2>2. Become("cli", x) /\ echoes' = e /\ sock' = sock /\ console' = console
      BY <1>2 DEF PingSend
    <2>3. Returning(sock, task, console, e) /\ e[Len(echoes) + 1] = [node |-> n, dst |-> a]
      BY <2>1, AskReturns
    <2>4. CallReturns(x, e)
      BY <2>3 DEF CallReturns, FromTop
    <2> HIDE DEF m, n, a, e, x
    <2>5. \A u \in Thread : task'[u] = IF u = "cli" THEN x ELSE task[u]
      BY <1>1, <2>2 DEF Become, Tasks
    <2>6. QED
      BY <2>2, <2>3, <2>4, <2>5 DEF Back, Returning
  <1>3. CASE PingReturn
    BY <1>1, <1>3 DEF PingReturn, Back
  <1>4. QED
    BY <1>2, <1>3

LEMMA CommandReturns ==
  ASSUME AddressesTell, ReplyInv, Command
  PROVE  Back'
  <1>1. Back /\ SocketsReturn(sock, echoes) /\ sock \in Sockets
    BY ReplyTypes
  <1>2. ASSUME UNCHANGED <<sock, task, console, echoes>>
        PROVE  Back'
    BY <1>1, <1>2 DEF Back
  <1>3. ASSUME NEW c \in PingCommands, PingCommand(c[1], c[2])
        PROVE  Back'
    BY <1>2, <1>3 DEF PingCommand
  <1>4. ASSUME NEW c \in RouteCommands, ConfigRoute(c)
        PROVE  Back'
    BY <1>2, <1>4 DEF ConfigRoute
  <1>5. ASSUME NEW c \in ArpCommands, ResolveArp(c[1], c[2])
        PROVE  Back'
    <2> DEFINE n == c[1]
               a == c[2]
               oif == MatchingSubnetIntf(n, a)
               f == ArpRequestFrame(oif, a)
    <2>1. n \in Node /\ a \in Addr
      BY StackAssumption
    <2>2. oif \in Intf \cup {NoIntf}
      BY <2>1, MatchingSubnetType
    <2>3. /\ sock' = IF oif = NoIntf \/ IP[oif] = a THEN sock ELSE Deliver(sock, oif, f)
          /\ task' = task /\ console' = console /\ echoes' = echoes
      BY <1>5 DEF ResolveArp
    <2> HIDE DEF n, a, oif
    <2>4. SocketsReturn(sock', echoes)
      <3>1. CASE sock' = sock
        BY <1>1, <3>1
      <3>2. CASE oif # NoIntf /\ sock' = Deliver(sock, oif, f)
        <4>1. f \in Frame /\ f.type # "ip" /\ oif \in Intf
          BY <2>1, <2>2, <3>2, FrameTypes DEF ArpRequestFrame
        <4> HIDE DEF f
        <4>2. QED
          BY <1>1, <3>2, <4>1, DeliverReturns
      <3>3. QED
        BY <2>3, <3>1, <3>2
    <2>5. QED
      BY <1>1, <2>3, <2>4 DEF Back, Returning
  <1>6. ShowCommands = {}
    BY DEF AddressesTell
  <1>7. QED
    BY <1>3, <1>4, <1>5, <1>6 DEF Command

\* No node is shown, so no loopback address changes.
LEMMA LoopbackStays ==
  ASSUME AddressesTell, [Next]_vars
  PROVE  lo' = lo
  <1>1. CASE Command
    BY <1>1 DEF Command, PingCommand, ResolveArp, ConfigRoute, AddressesTell
  <1>2. CASE Receive \/ PingSend \/ PingReturn \/ UNCHANGED vars
    BY <1>2 DEF Receive, Select, RecvArpRequest, RecvArpReply, RecvIp, RecvDiscard,
                PingSend, PingReturn, vars
  <1>3. ASSUME NEW t \in Thread, Call(t)
        PROVE  lo' = lo
    BY <1>3 DEF Call, NoRouteFromTop, DirectFromTop, GatewayFromTop, L2LocalDelivery,
       L2ForwardKnown, L2ForwardUnknown, ArpResolved, ArpTimeout, NoRouteRecv, LocalRecv,
       ConnectedRecv, ForwardRecv, L2Transmit, Crash, OnlyTask, Send
  <1>4. QED
    BY <1>1, <1>2, <1>3 DEF Next, RxStep, CliStep, Thread

LEMMA InitReplies == Init => ReplyInv
  <1> SUFFICES ASSUME Init PROVE ReplyInv
    OBVIOUS
  <1>1. /\ sock = [n \in Node |-> <<>>] /\ task = [t \in Thread |-> Idle]
        /\ console = {} /\ lo = Loopback
    BY DEF Init
  <1>2. \A n \in Node : Len(sock[n]) = 0
    BY <1>1
  <1>3. SocketsReturn(sock, echoes) /\ LinesReturn(console, echoes)
    BY <1>1, <1>2 DEF SocketsReturn, LinesReturn
  <1>4. \A t \in Thread : CallReturns(task[t], echoes)
    BY <1>1 DEF CallReturns, Idle
  <1>5. QED
    BY <1>1, <1>3, <1>4, InitEcho DEF ReplyInv, Back, Returning

LEMMA NextReplies ==
  ASSUME AddressesTell, ReplyInv, [Next]_vars
  PROVE  ReplyInv'
  <1>1. EchoInv /\ lo = Loopback /\ Back
    BY DEF ReplyInv
  <1>2. Back'
    <2>1. CASE UNCHANGED vars
      BY <1>1, <2>1 DEF vars, Back
    <2>2. ASSUME NEW t \in Thread, Call(t)
          PROVE  Back'
      BY <2>2, FromTopReturns, ForwardReturns, UpwardReturns DEF Call
    <2>3. QED
      BY <2>1, <2>2, ReceiveReturns, CliReturns, CommandReturns
         DEF Next, RxStep, CliStep, Thread
  <1>3. EchoInv' /\ lo' = lo
    BY <1>1, NextEcho, LoopbackStays
  <1>4. QED
    BY <1>1, <1>2, <1>3 DEF ReplyInv

\* Where no two nodes share an address (layer3.c:100-140), every line "bytes received"
\* (layer3.c:366-372) is printed by the node that pinged, about an address that a node
\* has, whatever other pings, errors and routes there are.
THEOREM RepliesReach ==
  ASSUME AddressesTell
  PROVE  Spec => []RepliesReachTheAsker
  <1>1. Init => ReplyInv
    BY InitReplies
  <1>2. ReplyInv /\ [Next]_vars => ReplyInv'
    BY NextReplies
  <1>3. ReplyInv => RepliesReachTheAsker
    BY DEF ReplyInv, Back, Returning, LinesReturn, Owned, RepliesReachTheAsker
  <1>4. QED
    BY <1>1, <1>2, <1>3, PTL DEF Spec
=============================================================================
