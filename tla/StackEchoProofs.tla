-------------------------- MODULE StackEchoProofs --------------------------
(* What becomes of an echo message: module Stack's EchoHasOneDescendant and *)
(* its refinement of module EchoNet, for every topology and every command.  *)
(* The definitions take what they are about as arguments: the sockets q,    *)
(* the calls h of the threads, the console c and the echo messages e.       *)
EXTENDS StackProofs

-----------------------------------------------------------------------------
(* The inductive invariant *)

\* The ICMP messages in the sockets, in the hands of a thread and on the console
InPlace(q, n, k, m) ==
    /\ k \in 1..Len(q[n])
    /\ q[n][k].frame.type = "ip" /\ q[n][k].frame.pkt.icmp = m

Mail(q) == {m \in Icmp : \E n \in Node : \E k \in Nat : InPlace(q, n, k, m)}

Held(x) == {m \in Icmp : \/ x.op = "fromTop" /\ m = x.icmp
                         \/ x.op \in {"l2fwd", "arpWait", "l3recv"} /\ m = x.pkt.icmp}

Lines(c) == {m \in Icmp : \E l \in c : l.type = m.type /\ l.id = m.id}

Live(q, h) == Mail(q) \cup UNION {Held(h[t]) : t \in Thread}

\* Two messages that descend from different echo messages
Apart(A, B) == \A a \in A, b \in B : a.id # b.id

\* No two datagrams descend from one echo message, nor two lines of the console.
OneDatagram(q) ==
    \A n, o \in Node : \A k, j \in Nat : \A l, m \in Icmp :
        InPlace(q, n, k, l) /\ InPlace(q, o, j, m) /\ l.id = m.id => n = o /\ k = j

OneLine(c) == \A l, m \in c : l.id = m.id => l = m

\* An echo message that is still one goes where it was sent to.
PacketAims(p, e) == p.icmp.type = "echo" => p.dst = e[p.icmp.id].dst

CallAims(x, e) ==
    /\ x.op = "fromTop" /\ x.icmp.type = "echo" => x.dst = e[x.icmp.id].dst
    /\ x.op \in {"l2fwd", "arpWait", "l3recv"} => PacketAims(x.pkt, e)

SocketsAim(q, e) ==
    \A n \in Node : \A k \in 1..Len(q[n]) :
        q[n][k].frame.type = "ip" => PacketAims(q[n][k].frame.pkt, e)

Room(q) == \A n \in Node : Len(q[n]) <= SockCap

MailSound(q, e) == OneDatagram(q) /\ SocketsAim(q, e) /\ Room(q)

Disjoint(q, h, c) ==
    /\ \A t \in Thread : Apart(Held(h[t]), Mail(q)) /\ Apart(Held(h[t]), Lines(c))
    /\ \A t, u \in Thread : t # u => Apart(Held(h[t]), Held(h[u]))
    /\ Apart(Mail(q), Lines(c))

\* The id of a message is that of an echo message that was sent.
Numbered(q, h, c, e) ==
    \A m \in Live(q, h) \cup Lines(c) : m.id \in 1..Len(e)

Sane(q, h, c, e) ==
    /\ MailSound(q, e) /\ \A t \in Thread : CallAims(h[t], e)
    /\ OneLine(c) /\ Disjoint(q, h, c) /\ Numbered(q, h, c, e)

LoopbackKept == \A n \in Node : lo[n] \in {Loopback[n], Unparsable}

EchoInv == TypeOK /\ Sane(sock, task, console, echoes) /\ LoopbackKept

Echoes == Seq([node : Node, dst : Addr])

-----------------------------------------------------------------------------
(* What sending and taking a datagram does to the sockets *)

\* A delivery leaves what was there in its place, and adds at most one datagram.
LEMMA DeliverPlaces ==
  ASSUME NEW q \in Sockets, NEW i \in Intf, NEW f \in Frame, NEW o \in Node
  PROVE  LET p == Deliver(q, i, f)
             d == [iif |-> Peer[i], frame |-> f]
         IN  /\ Len(q[o]) \in Nat /\ Len(p[o]) \in Nat
             /\ Len(q[o]) <= Len(p[o])
             /\ Len(p[o]) <= Len(q[o]) \/ Len(p[o]) <= SockCap
             /\ \A k \in 1..Len(q[o]) : p[o][k] = q[o][k]
             /\ \A k \in 1..Len(p[o]) :
                   k \in 1..Len(q[o])
                   \/ (o = Owner[Peer[i]] /\ k = Len(q[o]) + 1 /\ p[o][k] = d)
  <1> DEFINE far == Owner[Peer[i]]
             d == [iif |-> Peer[i], frame |-> f]
             p == Deliver(q, i, f)
  <1>1. far \in Node /\ d \in Datagram
    BY LinkTypes DEF Datagram, Frame
  <1>2. q \in [Node -> Seq(Datagram)] /\ q[o] \in Seq(Datagram) /\ Len(q[o]) \in Nat
    BY DEF Sockets
  <1>3. p = [q EXCEPT ![far] = IF Len(q[far]) < SockCap THEN Append(q[far], d) ELSE q[far]]
    BY DEF Deliver
  <1>4. SockCap \in Nat
    BY StackAssumption
  <1> HIDE DEF d, p, far
  <1>5. /\ Len(p[o]) \in Nat /\ Len(q[o]) <= Len(p[o])
        /\ Len(p[o]) <= Len(q[o]) \/ Len(p[o]) <= SockCap
        /\ \A k \in 1..Len(q[o]) : p[o][k] = q[o][k]
        /\ \A k \in 1..Len(p[o]) :
              k \in 1..Len(q[o]) \/ (o = far /\ k = Len(q[o]) + 1 /\ p[o][k] = d)
    <2>1. CASE o = far /\ Len(q[far]) < SockCap
      <3>1. p[o] = Append(q[o], d)
        BY <1>1, <1>2, <1>3, <2>1
      <3>2. /\ Len(p[o]) = Len(q[o]) + 1 /\ p[o][Len(q[o]) + 1] = d
            /\ \A k \in 1..Len(q[o]) : p[o][k] = q[o][k]
        BY <1>1, <1>2, <3>1
      <3>3. \A k \in 1..Len(p[o]) : k \in 1..Len(q[o]) \/ k = Len(q[o]) + 1
        BY <1>2, <3>2
      <3>4. QED
        BY <1>2, <1>4, <2>1, <3>2, <3>3
    <2>2. CASE ~(o = far /\ Len(q[far]) < SockCap)
      <3>1. p[o] = q[o]
        BY <1>1, <1>2, <1>3, <2>2
      <3>2. QED
        BY <1>2, <3>1
    <2>3. QED
      BY <2>1, <2>2
  <1>6. QED
    BY <1>2, <1>5 DEF d, p, far

\* A frame of ARP does not count.
LEMMA DeliverArp ==
  ASSUME NEW q \in Sockets, NEW i \in Intf, NEW f \in Frame, f.type # "ip", NEW e,
         MailSound(q, e)
  PROVE  MailSound(Deliver(q, i, f), e) /\ Mail(Deliver(q, i, f)) = Mail(q)
  <1> DEFINE p == Deliver(q, i, f)
             d == [iif |-> Peer[i], frame |-> f]
  <1>1. \A o \in Node : /\ Len(q[o]) \in Nat /\ Len(p[o]) \in Nat
                        /\ Len(q[o]) <= Len(p[o])
                        /\ Len(p[o]) <= Len(q[o]) \/ Len(p[o]) <= SockCap
                        /\ \A k \in 1..Len(q[o]) : p[o][k] = q[o][k]
                        /\ \A k \in 1..Len(p[o]) :
                              k \in 1..Len(q[o]) \/ p[o][k] = d
    BY DeliverPlaces
  <1>2. d.frame.type # "ip"
    OBVIOUS
  <1>3. SockCap \in Nat
    BY StackAssumption
  <1> HIDE DEF p, d
  <1>4. \A o \in Node : \A k \in Nat : \A m \in Icmp : InPlace(p, o, k, m) <=> InPlace(q, o, k, m)
    BY <1>1, <1>2 DEF InPlace
  <1>5. Mail(p) = Mail(q) /\ OneDatagram(p)
    BY <1>4 DEF Mail, OneDatagram, MailSound
  <1>6. SocketsAim(p, e) /\ Room(p)
    BY <1>1, <1>2, <1>3 DEF SocketsAim, Room, MailSound
  <1>7. QED
    BY <1>5, <1>6 DEF MailSound, p

\* A packet is added, or lost on a full socket.
LEMMA DeliverIp ==
  ASSUME NEW q \in Sockets, NEW i \in Intf, NEW f \in IpFrame, NEW e,
         MailSound(q, e), PacketAims(f.pkt, e), Apart({f.pkt.icmp}, Mail(q))
  PROVE  LET p == Deliver(q, i, f)
         IN  /\ MailSound(p, e)
             /\ Mail(p) = Mail(q) \/ Mail(p) = Mail(q) \cup {f.pkt.icmp}
  <1> DEFINE p == Deliver(q, i, f)
             d == [iif |-> Peer[i], frame |-> f]
             far == Owner[Peer[i]]
             m0 == f.pkt.icmp
  <1>0. f \in Frame /\ m0 \in Icmp /\ far \in Node
    BY LinkTypes DEF Frame, IpFrame, Packet
  <1>1. \A o \in Node : /\ Len(q[o]) \in Nat /\ Len(p[o]) \in Nat
                        /\ Len(q[o]) <= Len(p[o])
                        /\ Len(p[o]) <= Len(q[o]) \/ Len(p[o]) <= SockCap
                        /\ \A k \in 1..Len(q[o]) : p[o][k] = q[o][k]
                        /\ \A k \in 1..Len(p[o]) :
                              k \in 1..Len(q[o])
                              \/ (o = far /\ k = Len(q[o]) + 1 /\ p[o][k] = d)
    BY <1>0, DeliverPlaces
  <1>2. d.frame.type = "ip" /\ d.frame.pkt.icmp = m0 /\ PacketAims(d.frame.pkt, e)
    BY DEF IpFrame
  <1>3. SockCap \in Nat
    BY StackAssumption
  <1>4. Apart({m0}, Mail(q))
    OBVIOUS
  <1> HIDE DEF p, d, far, m0
  <1>5. \A o \in Node : \A k \in Nat : \A m \in Icmp :
           InPlace(p, o, k, m) => \/ InPlace(q, o, k, m)
                                  \/ o = far /\ k = Len(q[far]) + 1 /\ m = m0
    BY <1>1, <1>2 DEF InPlace
  <1>6. \A o \in Node : \A k \in Nat : \A m \in Icmp :
           InPlace(q, o, k, m) => InPlace(p, o, k, m) /\ m \in Mail(q)
    <2>1. \A o \in Node : \A k \in Nat : \A m \in Icmp : InPlace(q, o, k, m) => m \in Mail(q)
      BY DEF Mail
    <2>2. \A o \in Node : \A k \in Nat : \A m \in Icmp :
             InPlace(q, o, k, m) => InPlace(p, o, k, m)
      BY <1>1 DEF InPlace
    <2>3. QED
      BY <2>1, <2>2
  <1>7. Mail(q) \subseteq Mail(p) /\ Mail(p) \subseteq Mail(q) \cup {m0}
    BY <1>5, <1>6 DEF Mail
  <1>8. OneDatagram(p)
    <2> SUFFICES ASSUME NEW n \in Node, NEW o \in Node, NEW k \in Nat, NEW j \in Nat,
                        NEW l \in Icmp, NEW m \in Icmp,
                        InPlace(p, n, k, l), InPlace(p, o, j, m), l.id = m.id
                 PROVE  n = o /\ k = j
      BY DEF OneDatagram
    <2>1. CASE InPlace(q, n, k, l) /\ InPlace(q, o, j, m)
      BY <2>1 DEF OneDatagram, MailSound
    <2>2. CASE ~InPlace(q, n, k, l) /\ InPlace(q, o, j, m)
      BY <1>4, <1>5, <1>6, <2>2 DEF Apart
    <2>3. CASE InPlace(q, n, k, l) /\ ~InPlace(q, o, j, m)
      BY <1>4, <1>5, <1>6, <2>3 DEF Apart
    <2>4. CASE ~InPlace(q, n, k, l) /\ ~InPlace(q, o, j, m)
      BY <1>5, <2>4
    <2>5. QED
      BY <2>1, <2>2, <2>3, <2>4
  <1>9. SocketsAim(p, e) /\ Room(p)
    BY <1>1, <1>2, <1>3 DEF SocketsAim, Room, MailSound
  <1>10. QED
    BY <1>7, <1>8, <1>9 DEF MailSound, p, m0

\* Taking a datagram shifts the others.
LEMMA TakenPlaces ==
  ASSUME TypeOK, NEW n \in Node, Visits(n), NEW o \in Node
  PROVE  /\ Len(sock[o]) \in Nat /\ Len(Taken(n)[o]) \in Nat
         /\ o # n => Taken(n)[o] = sock[o]
         /\ o = n => /\ Len(Taken(n)[o]) = Len(sock[o]) - 1 /\ 1 \in 1..Len(sock[o])
                     /\ sock[o][1] = Head(sock[n])
                     /\ \A k \in 1..Len(Taken(n)[o]) : Taken(n)[o][k] = sock[o][k + 1]
  <1>1. sock \in [Node -> Seq(Datagram)] /\ sock[n] # <<>>
    BY DEF TypeOK, Visits
  <1>2. sock[n] \in Seq(Datagram) /\ sock[o] \in Seq(Datagram)
    BY <1>1
  <1>3. Taken(n)[n] = Tail(sock[n]) /\ (o # n => Taken(n)[o] = sock[o])
    BY <1>1 DEF Taken
  <1>4. QED
    BY <1>1, <1>2, <1>3

LEMMA TakenMail ==
  ASSUME TypeOK, NEW n \in Node, Visits(n), NEW e, MailSound(sock, e)
  PROVE  LET d == Head(sock[n])
         IN  /\ MailSound(Taken(n), e)
             /\ d.frame.type # "ip" => Mail(Taken(n)) = Mail(sock)
             /\ d.frame.type = "ip" =>
                   /\ d.frame.pkt \in Packet /\ d.frame.pkt.icmp \in Mail(sock)
                   /\ PacketAims(d.frame.pkt, e)
                   /\ Mail(Taken(n)) = Mail(sock) \ {d.frame.pkt.icmp}
                   /\ Apart({d.frame.pkt.icmp}, Mail(Taken(n)))
  <1> DEFINE d == Head(sock[n])
             p == Taken(n)
             m0 == d.frame.pkt.icmp
  <1>1. \A o \in Node :
           /\ Len(sock[o]) \in Nat /\ Len(p[o]) \in Nat
           /\ o # n => p[o] = sock[o]
           /\ o = n => /\ Len(p[o]) = Len(sock[o]) - 1 /\ 1 \in 1..Len(sock[o])
                       /\ sock[o][1] = d
                       /\ \A k \in 1..Len(p[o]) : p[o][k] = sock[o][k + 1]
    BY TakenPlaces
  <1>2. d.frame.type = "ip" => d.frame.pkt \in Packet /\ m0 \in Icmp
    <2>1. d \in Datagram
      BY VisitTypes
    <2>2. QED
      BY <2>1 DEF Datagram, ArpFrame, IpFrame, Packet
  <1>3. SockCap \in Nat
    BY StackAssumption
  <1> HIDE DEF d, p, m0
  <1>4. \A o \in Node : \A k \in Nat : \A m \in Icmp :
           InPlace(p, o, k, m) => InPlace(sock, o, IF o = n THEN k + 1 ELSE k, m)
    <2> SUFFICES ASSUME NEW o \in Node, NEW k \in Nat, NEW m \in Icmp, InPlace(p, o, k, m)
                 PROVE  InPlace(sock, o, IF o = n THEN k + 1 ELSE k, m)
      OBVIOUS
    <2>1. CASE o = n
      <3>1. k \in 1..Len(p[o]) /\ p[o][k] = sock[o][k + 1] /\ k + 1 \in 1..Len(sock[o])
        BY <1>1, <2>1 DEF InPlace
      <3>2. QED
        BY <2>1, <3>1 DEF InPlace
    <2>2. CASE o # n
      BY <1>1, <2>2 DEF InPlace
    <2>3. QED
      BY <2>1, <2>2
  <1>5. \A o \in Node : \A k \in Nat : \A m \in Icmp :
           InPlace(sock, o, k, m) =>
              \/ o = n /\ k = 1 /\ d.frame.type = "ip" /\ m = m0
              \/ InPlace(p, o, IF o = n THEN k - 1 ELSE k, m)
                 /\ (IF o = n THEN k - 1 ELSE k) \in Nat
    <2> SUFFICES ASSUME NEW o \in Node, NEW k \in Nat, NEW m \in Icmp, InPlace(sock, o, k, m)
                 PROVE  \/ o = n /\ k = 1 /\ d.frame.type = "ip" /\ m = m0
                        \/ InPlace(p, o, IF o = n THEN k - 1 ELSE k, m)
                           /\ (IF o = n THEN k - 1 ELSE k) \in Nat
      OBVIOUS
    <2>1. CASE o = n /\ k = 1
      BY <1>1, <2>1 DEF InPlace, m0
    <2>2. CASE o = n /\ k # 1
      <3>1. k - 1 \in 1..Len(p[n]) /\ p[n][k - 1] = sock[n][k]
        <4>1. k \in 1..Len(sock[n])
          BY <2>2 DEF InPlace
        <4>2. k - 1 \in 1..Len(p[n]) /\ (k - 1) + 1 = k
          BY <1>1, <2>2, <4>1
        <4>3. p[n][k - 1] = sock[n][(k - 1) + 1]
          BY <1>1, <4>2
        <4>4. QED
          BY <4>2, <4>3
      <3>2. InPlace(p, o, k - 1, m)
        BY <2>2, <3>1 DEF InPlace
      <3>3. QED
        BY <1>1, <2>2, <3>1, <3>2
    <2>3. CASE o # n
      BY <1>1, <2>3 DEF InPlace
    <2>4. QED
      BY <2>1, <2>2, <2>3
  <1>6. d.frame.type = "ip" => InPlace(sock, n, 1, m0)
    BY <1>1 DEF InPlace, m0
  <1>7. OneDatagram(p)
    <2> SUFFICES ASSUME NEW a \in Node, NEW o \in Node, NEW k \in Nat, NEW j \in Nat,
                        NEW l \in Icmp, NEW m \in Icmp,
                        InPlace(p, a, k, l), InPlace(p, o, j, m), l.id = m.id
                 PROVE  a = o /\ k = j
      BY DEF OneDatagram
    <2>1. /\ InPlace(sock, a, IF a = n THEN k + 1 ELSE k, l)
          /\ InPlace(sock, o, IF o = n THEN j + 1 ELSE j, m)
          /\ (IF a = n THEN k + 1 ELSE k) \in Nat /\ (IF o = n THEN j + 1 ELSE j) \in Nat
      BY <1>4
    <2>2. a = o /\ (IF a = n THEN k + 1 ELSE k) = (IF o = n THEN j + 1 ELSE j)
      BY <2>1 DEF OneDatagram, MailSound
    <2>3. QED
      BY <2>2
  <1>8. Mail(p) \subseteq Mail(sock)
    BY <1>4 DEF Mail
  <1>9. SocketsAim(p, e)
    <2> SUFFICES ASSUME NEW o \in Node, NEW k \in 1..Len(p[o]), p[o][k].frame.type = "ip"
                 PROVE  PacketAims(p[o][k].frame.pkt, e)
      BY DEF SocketsAim
    <2>1. PICK j \in 1..Len(sock[o]) : p[o][k] = sock[o][j]
      <3>1. o = n => k + 1 \in 1..Len(sock[o])
        BY <1>1
      <3>2. QED
        BY <1>1, <3>1
    <2>2. QED
      BY <2>1 DEF SocketsAim, MailSound
  <1>10. Room(p)
    BY <1>1, <1>3 DEF Room, MailSound
  <1>11. d.frame.type = "ip" => PacketAims(d.frame.pkt, e)
    BY <1>1 DEF SocketsAim, MailSound
  <1>12. MailSound(p, e)
    BY <1>7, <1>9, <1>10 DEF MailSound
  <1>13. /\ d.frame.type # "ip" => Mail(p) = Mail(sock)
         /\ d.frame.type = "ip" => /\ m0 \in Mail(sock) /\ Mail(p) = Mail(sock) \ {m0}
                                   /\ Apart({m0}, Mail(p))
    <2>1. d.frame.type = "ip" => /\ m0 \in Mail(sock) /\ Mail(sock) \subseteq Mail(p) \cup {m0}
                                 /\ \A m \in Mail(p) : m.id # m0.id
      <3> SUFFICES ASSUME d.frame.type = "ip"
                   PROVE  /\ m0 \in Mail(sock) /\ Mail(sock) \subseteq Mail(p) \cup {m0}
                          /\ \A m \in Mail(p) : m.id # m0.id
        OBVIOUS
      <3>1. Mail(sock) \subseteq Mail(p) \cup {m0}
        BY <1>5 DEF Mail
      <3>2. m0 \in Mail(sock)
        BY <1>2, <1>6 DEF Mail
      <3>3. ASSUME NEW m \in Mail(p), m.id = m0.id
            PROVE  FALSE
        <4>1. PICK o \in Node, k \in Nat :
                InPlace(p, o, k, m) /\ k \in 1..Len(p[o]) /\ m \in Icmp
          BY DEF Mail, InPlace
        <4>2. InPlace(sock, o, IF o = n THEN k + 1 ELSE k, m)
          BY <1>4, <4>1
        <4>3. o = n /\ (IF o = n THEN k + 1 ELSE k) = 1
          BY <1>2, <1>6, <3>3, <4>1, <4>2 DEF OneDatagram, MailSound
        <4>4. QED
          BY <1>1, <4>1, <4>3
      <3>4. QED
        BY <3>1, <3>2, <3>3
    <2>2. d.frame.type # "ip" => Mail(sock) \subseteq Mail(p)
      BY <1>5 DEF Mail
    <2>3. QED
      BY <1>8, <2>1, <2>2 DEF Apart
  <1>14. QED
    BY <1>2, <1>11, <1>12, <1>13 DEF d, p, m0

-----------------------------------------------------------------------------
(* The kinds of step *)

\* A call holds at most one message.
LEMMA HeldType ==
  ASSUME NEW x
  PROVE  Held(x) \subseteq Icmp /\ \A l, m \in Held(x) : l = m
  BY DEF Held

\* The messages that two threads hold
LEMMA LiveParts ==
  ASSUME NEW q, NEW h, NEW t \in Thread
  PROVE  \E u \in Thread : /\ u # t /\ Thread = {t, u}
                           /\ Live(q, h) = Mail(q) \cup Held(h[t]) \cup Held(h[u])
  <1>1. PICK u \in Thread : u # t /\ Thread = {t, u}
    BY DEF Thread
  <1>2. UNION {Held(h[v]) : v \in Thread} = Held(h[t]) \cup Held(h[u])
    BY <1>1
  <1>3. QED
    BY <1>1, <1>2 DEF Live

\* A thread goes on with a call that holds a message of the same id, or with none.
\* The sockets hold what they held, or besides the message that it has lost.
LEMMA CallStep ==
  ASSUME task \in Tasks, Sane(sock, task, console, echoes), NEW t \in Thread,
         NEW x \in Task, CallAims(x, echoes), MailSound(sock', echoes),
         NEW m \in Held(task[t]), task' = [task EXCEPT ![t] = x],
         \/ Mail(sock') = Mail(sock) /\ \A l \in Held(x) : l.id = m.id
         \/ Mail(sock') = Mail(sock) \cup {m} /\ Held(x) = {}
  PROVE  /\ Sane(sock', task', console, echoes) /\ m \in Live(sock, task)
         /\ Live(sock', task') =
             (Live(sock, task) \ {m}) \cup (Mail(sock') \ Mail(sock)) \cup Held(x)
  <1>1. PICK u \in Thread : /\ u # t /\ Thread = {t, u}
                            /\ Live(sock, task) =
                                  Mail(sock) \cup Held(task[t]) \cup Held(task[u])
    BY LiveParts
  <1>2. task'[t] = x /\ task'[u] = task[u]
    BY <1>1 DEF Tasks
  <1>3. Live(sock', task') = Mail(sock') \cup Held(x) \cup Held(task[u])
    <2>1. UNION {Held(task'[v]) : v \in Thread} = Held(x) \cup Held(task[u])
      BY <1>1, <1>2
    <2>2. QED
      BY <2>1 DEF Live
  <1>4. Held(task[t]) = {m}
    BY HeldType
  <1>5. /\ Disjoint(sock, task, console) /\ Numbered(sock, task, console, echoes)
        /\ OneLine(console)
        /\ \A v \in Thread : CallAims(task[v], echoes)
    BY DEF Sane
  <1>6. /\ \A l \in Mail(sock) \cup Held(task[u]) \cup Lines(console) : l.id # m.id
        /\ Apart(Mail(sock), Held(task[u])) /\ Apart(Mail(sock), Lines(console))
        /\ Apart(Held(task[u]), Lines(console))
    BY <1>1, <1>4, <1>5 DEF Disjoint, Apart
  <1>7. \A l \in Held(x) \cup (Mail(sock') \ Mail(sock)) : l.id = m.id
    OBVIOUS
  <1>8. Disjoint(sock', task', console)
    BY <1>1, <1>2, <1>6, <1>7 DEF Disjoint, Apart
  <1>9. Numbered(sock', task', console, echoes)
    BY <1>1, <1>3, <1>4, <1>5, <1>7 DEF Numbered
  <1>10. \A v \in Thread : CallAims(task'[v], echoes)
    BY <1>1, <1>2, <1>5
  <1>11. Sane(sock', task', console, echoes)
    BY <1>5, <1>8, <1>9, <1>10 DEF Sane
  <1>12. Live(sock', task') =
             (Live(sock, task) \ {m}) \cup (Mail(sock') \ Mail(sock)) \cup Held(x)
    BY <1>1, <1>3, <1>4, <1>6
  <1>13. QED
    BY <1>1, <1>11, <1>12

\* A thread prints a line about the message that it holds.
LEMMA PrintStep ==
  ASSUME task \in Tasks, console \in SUBSET ConsoleLine, Sane(sock, task, console, echoes),
         NEW t \in Thread, NEW m \in Held(task[t]), NEW l, l.type = m.type, l.id = m.id,
         task' = [task EXCEPT ![t] = Idle]
  PROVE  /\ Sane(sock, task', console \cup {l}, echoes) /\ m \in Live(sock, task)
         /\ Live(sock, task') = Live(sock, task) \ {m}
         /\ Lines(console \cup {l}) = Lines(console) \cup {m}
  <1> DEFINE d == console \cup {l}
  <1>1. PICK u \in Thread : /\ u # t /\ Thread = {t, u}
                            /\ Live(sock, task) =
                                  Mail(sock) \cup Held(task[t]) \cup Held(task[u])
    BY LiveParts
  <1>2. task'[t] = Idle /\ task'[u] = task[u] /\ Held(Idle) = {}
    BY <1>1 DEF Tasks, Held, Idle
  <1>3. Live(sock, task') = Mail(sock) \cup Held(task[u])
    <2>1. UNION {Held(task'[v]) : v \in Thread} = Held(task[u])
      BY <1>1, <1>2
    <2>2. QED
      BY <2>1 DEF Live
  <1>4. Held(task[t]) = {m} /\ m \in Icmp
    BY HeldType
  <1>5. /\ Disjoint(sock, task, console) /\ Numbered(sock, task, console, echoes)
        /\ OneLine(console) /\ MailSound(sock, echoes)
        /\ \A v \in Thread : CallAims(task[v], echoes)
    BY DEF Sane
  <1>6. /\ \A k \in Mail(sock) \cup Held(task[u]) \cup Lines(console) : k.id # m.id
        /\ Apart(Mail(sock), Held(task[u])) /\ Apart(Mail(sock), Lines(console))
        /\ Apart(Held(task[u]), Lines(console))
    BY <1>1, <1>4, <1>5 DEF Disjoint, Apart
  <1>7. Lines(d) = Lines(console) \cup {m}
    <2>1. \A k \in Icmp : k.type = m.type /\ k.id = m.id => k = m
      BY <1>4 DEF Icmp
    <2>2. QED
      BY <1>4, <2>1 DEF Lines
  <1>8. OneLine(d)
    <2>1. ASSUME NEW k \in console, k.id = m.id
          PROVE  k = l
      <3>1. [type |-> k.type, id |-> k.id] \in Lines(console)
        BY <2>1 DEF Lines, Icmp, ConsoleLine
      <3>2. QED
        BY <1>6, <2>1, <3>1
    <2>2. QED
      BY <1>5, <2>1 DEF OneLine
  <1> HIDE DEF d
  <1>9. Disjoint(sock, task', d)
    BY <1>1, <1>2, <1>6, <1>7 DEF Disjoint, Apart
  <1>10. Numbered(sock, task', d, echoes)
    BY <1>1, <1>3, <1>4, <1>5, <1>7 DEF Numbered
  <1>11. \A v \in Thread : CallAims(task'[v], echoes)
    BY <1>1, <1>2, <1>5 DEF CallAims, Idle
  <1>12. Sane(sock, task', d, echoes)
    BY <1>5, <1>8, <1>9, <1>10, <1>11 DEF Sane
  <1>13. Live(sock, task') = Live(sock, task) \ {m}
    BY <1>1, <1>3, <1>4, <1>6
  <1>14. QED
    BY <1>1, <1>4, <1>7, <1>12, <1>13 DEF d

\* The sockets lose a message, which the receiver may have taken in hand.
LEMMA TakeStep ==
  ASSUME task \in Tasks, Sane(sock, task, console, echoes), NEW t \in Thread,
         Held(task[t]) = {}, NEW x \in Task, CallAims(x, echoes), NEW m \in Mail(sock),
         MailSound(sock', echoes), Mail(sock') = Mail(sock) \ {m}, Apart({m}, Mail(sock')),
         Held(x) = {m} \/ x = task[t], task' = [task EXCEPT ![t] = x]
  PROVE  /\ Sane(sock', task', console, echoes) /\ m \in Live(sock, task)
         /\ Live(sock', task') = IF x = task[t] THEN Live(sock, task) \ {m} ELSE Live(sock, task)
  <1>1. PICK u \in Thread : /\ u # t /\ Thread = {t, u}
                            /\ Live(sock, task) =
                                  Mail(sock) \cup Held(task[t]) \cup Held(task[u])
    <2>1. PICK u \in Thread : u # t /\ Thread = {t, u}
      BY DEF Thread
    <2>2. UNION {Held(task[v]) : v \in Thread} = Held(task[t]) \cup Held(task[u])
      BY <2>1
    <2>3. QED
      BY <2>1, <2>2 DEF Live
  <1>2. task'[t] = x /\ task'[u] = task[u]
    BY <1>1 DEF Tasks
  <1>3. Live(sock', task') = Mail(sock') \cup Held(x) \cup Held(task[u])
    <2>1. UNION {Held(task'[v]) : v \in Thread} = Held(x) \cup Held(task[u])
      BY <1>1, <1>2
    <2>2. QED
      BY <2>1 DEF Live
  <1>4. /\ Disjoint(sock, task, console) /\ Numbered(sock, task, console, echoes)
        /\ OneLine(console)
        /\ \A v \in Thread : CallAims(task[v], echoes)
    BY DEF Sane
  <1>5. Held(x) \subseteq {m} /\ (x = task[t] => Held(x) = {}) /\ (x # task[t] => Held(x) = {m})
    OBVIOUS
  <1>6. /\ \A l \in Mail(sock') \cup Held(task[u]) \cup Lines(console) : l.id # m.id
        /\ Apart(Mail(sock'), Held(task[u])) /\ Apart(Mail(sock'), Lines(console))
        /\ Apart(Held(task[u]), Lines(console))
    BY <1>1, <1>4 DEF Disjoint, Apart
  <1>7. Disjoint(sock', task', console)
    BY <1>1, <1>2, <1>5, <1>6 DEF Disjoint, Apart
  <1>8. Numbered(sock', task', console, echoes)
    BY <1>1, <1>3, <1>4, <1>5 DEF Numbered
  <1>9. \A v \in Thread : CallAims(task'[v], echoes)
    BY <1>1, <1>2, <1>4
  <1>10. Sane(sock', task', console, echoes)
    BY <1>4, <1>7, <1>8, <1>9 DEF Sane
  <1>11. Live(sock', task') = IF x = task[t] THEN Live(sock, task) \ {m} ELSE Live(sock, task)
    BY <1>1, <1>3, <1>5, <1>6
  <1>12. QED
    BY <1>1, <1>10, <1>11

\* Nothing happens to a message.
LEMMA QuietStep ==
  ASSUME Sane(sock, task, console, echoes), task' = task,
         MailSound(sock', echoes), Mail(sock') = Mail(sock)
  PROVE  Sane(sock', task', console, echoes) /\ Live(sock', task') = Live(sock, task)
  BY DEF Sane, Disjoint, Numbered, Live

\* A new echo message
LEMMA AskStep ==
  ASSUME sock \in Sockets, task \in Tasks, console \in SUBSET ConsoleLine,
         echoes \in Echoes, Sane(sock, task, console, echoes), NEW t \in Thread, Held(task[t]) = {},
         NEW n \in Node, NEW a \in Addr,
         NEW m, m = [type |-> "echo", id |-> Len(echoes) + 1],
         task' = [task EXCEPT ![t] = FromTop(n, m, a)],
         echoes' = Append(echoes, [node |-> n, dst |-> a])
  PROVE  /\ Sane(sock, task', console, echoes')
         /\ Live(sock, task') = Live(sock, task) \cup {m}
  <1> DEFINE x == FromTop(n, m, a)
  <1>1. /\ Len(echoes) \in Nat /\ Len(echoes') = Len(echoes) + 1
        /\ echoes'[Len(echoes) + 1].dst = a
        /\ \A id \in 1..Len(echoes) : echoes'[id] = echoes[id]
    BY DEF Echoes
  <1>2. m \in Icmp /\ m.id = Len(echoes) + 1 /\ m.type = "echo"
    BY <1>1 DEF Icmp, IcmpType
  <1>3. /\ Held(x) = {m} /\ x.op = "fromTop" /\ x.icmp = m /\ x.dst = a
    BY <1>2 DEF Held, FromTop
  <1>4. PICK u \in Thread : /\ u # t /\ Thread = {t, u}
                            /\ Live(sock, task) =
                                  Mail(sock) \cup Held(task[t]) \cup Held(task[u])
    BY LiveParts
  <1>5. task'[t] = x /\ task'[u] = task[u]
    BY <1>4 DEF Tasks
  <1>6. Live(sock, task') = Mail(sock) \cup Held(x) \cup Held(task[u])
    <2>1. UNION {Held(task'[v]) : v \in Thread} = Held(x) \cup Held(task[u])
      BY <1>4, <1>5
    <2>2. QED
      BY <2>1 DEF Live
  <1> HIDE DEF x
  <1>7. /\ Disjoint(sock, task, console) /\ Numbered(sock, task, console, echoes)
        /\ OneLine(console) /\ MailSound(sock, echoes)
        /\ \A v \in Thread : CallAims(task[v], echoes)
    BY DEF Sane
  <1>8. \A l \in Live(sock, task) \cup Lines(console) :
           l.id \in 1..Len(echoes) /\ l.id # m.id
    BY <1>1, <1>2, <1>7 DEF Numbered
  <1>9. Disjoint(sock, task', console)
    BY <1>3, <1>4, <1>5, <1>7, <1>8 DEF Disjoint, Apart
  <1>10. Numbered(sock, task', console, echoes')
    BY <1>1, <1>2, <1>3, <1>4, <1>6, <1>8 DEF Numbered
  <1>11. ASSUME NEW p \in Packet, PacketAims(p, echoes), p.icmp.id \in 1..Len(echoes)
         PROVE  PacketAims(p, echoes')
    BY <1>1, <1>11 DEF PacketAims
  <1>12. SocketsAim(sock, echoes')
    <2> SUFFICES ASSUME NEW o \in Node, NEW k \in 1..Len(sock[o]), sock[o][k].frame.type = "ip"
                 PROVE  PacketAims(sock[o][k].frame.pkt, echoes')
      BY DEF SocketsAim
    <2>1. sock[o][k] \in Datagram
      BY DEF Sockets
    <2>2. sock[o][k].frame.pkt \in Packet /\ sock[o][k].frame.pkt.icmp \in Icmp
      BY <2>1 DEF Datagram, ArpFrame, IpFrame, Packet
    <2>3. k \in Nat
      BY DEF Sockets
    <2>4. sock[o][k].frame.pkt.icmp \in Mail(sock)
      BY <2>2, <2>3 DEF Mail, InPlace
    <2>5. PacketAims(sock[o][k].frame.pkt, echoes)
      BY <1>7 DEF MailSound, SocketsAim
    <2>6. QED
      BY <1>4, <1>8, <1>11, <2>2, <2>4, <2>5
  <1>13. CallAims(task[u], echoes')
    <2>1. task[u] \in Task /\ CallAims(task[u], echoes)
      BY <1>7 DEF Tasks
    <2>2. CASE task[u].op = "fromTop"
      <3>1. task[u].icmp \in Icmp
        BY <2>1, <2>2 DEF Task, Idle
      <3>2. task[u].icmp.id \in 1..Len(echoes)
        BY <1>4, <1>8, <2>2, <3>1 DEF Held
      <3>3. QED
        BY <1>1, <2>1, <2>2, <3>2 DEF CallAims
    <2>3. CASE task[u].op \in {"l2fwd", "arpWait", "l3recv"}
      <3>1. task[u].pkt \in Packet
        BY <2>1, <2>3 DEF Task, Idle
      <3>2. task[u].pkt.icmp \in Icmp
        BY <3>1 DEF Packet
      <3>3. task[u].pkt.icmp.id \in 1..Len(echoes)
        BY <1>4, <1>8, <2>3, <3>2 DEF Held
      <3>4. QED
        BY <1>11, <2>1, <2>3, <3>1, <3>3 DEF CallAims
    <2>4. QED
      BY <2>2, <2>3 DEF CallAims
  <1>14. CallAims(x, echoes')
    BY <1>1, <1>2, <1>3 DEF CallAims
  <1>15. Sane(sock, task', console, echoes')
    BY <1>4, <1>5, <1>7, <1>9, <1>10, <1>12, <1>13, <1>14 DEF Sane, MailSound
  <1>16. Live(sock, task') = Live(sock, task) \cup {m}
    BY <1>3, <1>4, <1>6
  <1>17. QED
    BY <1>15, <1>16 DEF x

-----------------------------------------------------------------------------
(* The steps of a thread. Effect says what a step does to the messages: D  *)
(* and D2 are the messages printed, before and after.                      *)

Owned == {IP[i] : i \in Intf} \cup {Loopback[n] : n \in Node}

\* What may become of a live message
Turned(m, l, e) ==
    /\ l.id = m.id
    /\ \/ l.type \in {"unreachable", "exceeded"}
       \/ l.type = "reply" /\ m.type = "echo" /\ e[m.id].dst \in Owned

Effect(L, D, e, L2, D2, e2) ==
    \/ L2 = L /\ D2 = D /\ e2 = e
    \/ \E m \in L : L2 = L \ {m} /\ D2 = D /\ e2 = e
    \/ \E m \in L, l \in Icmp : Turned(m, l, e) /\ L2 = (L \ {m}) \cup {l} /\ D2 = D /\ e2 = e
    \/ \E m \in L : m.type # "echo" /\ L2 = L \ {m} /\ D2 = D \cup {m} /\ e2 = e
    \/ \E n \in Node, a \in Addr : /\ e2 = Append(e, [node |-> n, dst |-> a]) /\ D2 = D
                                   /\ L2 = L \cup {[type |-> "echo", id |-> Len(e) + 1]}

StepEffect ==
    Effect(Live(sock, task), Lines(console), echoes,
           Live(sock', task'), Lines(console'), echoes')

SaneNow == Sane(sock, task, console, echoes)

\* The types that the steps need
LEMMA EchoTypes ==
  ASSUME EchoInv
  PROVE  /\ TypeOK /\ SaneNow /\ MailSound(sock, echoes) /\ sock \in Sockets
         /\ task \in Tasks /\ console \in SUBSET ConsoleLine /\ echoes \in Echoes
         /\ \A t \in Thread : CallAims(task[t], echoes) /\ task[t] \in Task
  BY DEF EchoInv, TypeOK, SaneNow, Sane, Sockets, Tasks, Echoes

\* What a call of each kind holds
LEMMA HeldBy1 ==
    /\ Held(Idle) = {}
    /\ \A n \in Node, m \in Icmp, x \in Addr : Held(FromTop(n, m, x)) = {m}
    /\ \A n \in Node, x \in Addr, i \in Intf \cup {NoIntf}, p \in Packet :
          Held(L2Fwd(n, x, i, p)) = {p.icmp} /\ Held(ArpWait(n, x, i, p)) = {p.icmp}
    /\ \A n \in Node, p \in Packet : Held(L3Recv(n, p)) = {p.icmp}
    /\ \A p \in Packet : p.icmp \in Icmp
  BY DEF Held, Idle, FromTop, L2Fwd, ArpWait, L3Recv, Packet

\* A call replaces another one and sends at most a frame of ARP.
LEMMA BecomeEcho ==
  ASSUME EchoInv, NEW t \in Thread, NEW x \in Task, Become(t, x), CallAims(x, echoes),
         MailSound(sock', echoes), Mail(sock') = Mail(sock),
         console' = console, echoes' = echoes, NEW m \in Held(task[t]),
         \/ Held(x) = {} \/ Held(x) = {m}
         \/ \E l \in Icmp : Held(x) = {l} /\ Turned(m, l, echoes)
  PROVE  SaneNow' /\ StepEffect
  <1>1. SaneNow /\ task \in Tasks /\ task' = [task EXCEPT ![t] = x]
    BY EchoTypes DEF Become
  <1>2. \A l \in Held(x) : l.id = m.id
    BY DEF Turned
  <1>3. /\ Sane(sock', task', console, echoes) /\ m \in Live(sock, task)
        /\ Live(sock', task') =
             (Live(sock, task) \ {m}) \cup (Mail(sock') \ Mail(sock)) \cup Held(x)
    BY <1>1, <1>2, CallStep DEF SaneNow
  <1>4. Live(sock', task') = (Live(sock, task) \ {m}) \cup Held(x)
    BY <1>3
  <1>5. StepEffect
    BY <1>3, <1>4 DEF StepEffect, Effect
  <1>6. QED
    BY <1>3, <1>5 DEF SaneNow

\* The process dies with what it holds.
LEMMA CrashEcho ==
  ASSUME EchoInv, Crash
  PROVE  SaneNow' /\ StepEffect
  BY EchoTypes DEF Crash, SaneNow, StepEffect, Effect

LEMMA FromTopEcho ==
  ASSUME EchoInv, NEW t \in Thread,
         NoRouteFromTop(t) \/ DirectFromTop(t) \/ GatewayFromTop(t)
  PROVE  SaneNow' /\ StepEffect
  <1> DEFINE n == task[t].node
             d == task[t].dst
             m == task[t].icmp
             r == LongestMatch(routes[n], d)
  <1>1. TypeOK /\ MailSound(sock, echoes) /\ CallAims(task[t], echoes) /\ task[t] \in Task
    BY EchoTypes
  <1>2. task[t].op = "fromTop"
    BY DEF NoRouteFromTop, DirectFromTop, GatewayFromTop, Running
  <1>3. n \in Node /\ d \in Addr /\ m \in Icmp
    BY <1>1, <1>2, TaskFields
  <1>4. m \in Held(task[t]) /\ (m.type = "echo" => d = echoes[m.id].dst)
    BY <1>1, <1>2, <1>3 DEF Held, CallAims
  <1>5. r.dest \in Addr /\ r.gw \in Addr
    BY <1>1, <1>3, LookupTypes
  <1>6. lo[n] # Unparsable => lo[n] \in Addr
    BY <1>1, <1>3 DEF TypeOK
  <1>7. OnlyTask => /\ MailSound(sock', echoes) /\ Mail(sock') = Mail(sock)
                    /\ console' = console /\ echoes' = echoes
    BY <1>1 DEF OnlyTask
  <1>8. CASE NoRouteFromTop(t)
    <2> DEFINE src == IF lo[n] = Unparsable THEN AnyAddr ELSE lo[n]
               x == FromTop(n, Unreachable(m), src)
    <2>1. src \in Addr /\ Unreachable(m) \in Icmp
      BY <1>3, <1>6, ConstantAddrs, IcmpTypes
    <2>2. x \in Task /\ Held(x) = {Unreachable(m)}
      BY <1>3, <2>1, TaskTypes, HeldBy1
    <2>3. Turned(m, Unreachable(m), echoes) /\ CallAims(x, echoes)
      BY DEF Turned, Unreachable, CallAims, FromTop
    <2>4. Crash \/ (Become(t, x) /\ OnlyTask)
      BY <1>8 DEF NoRouteFromTop
    <2> HIDE DEF src, n, m, d, x
    <2>5. QED
      BY <1>4, <1>7, <2>1, <2>2, <2>3, <2>4, CrashEcho, BecomeEcho
  <1>9. ASSUME NEW s \in Addr, NEW hop \in Addr, NEW oif \in Intf \cup {NoIntf},
               Become(t, L2Fwd(n, hop, oif,
                         [src |-> s, dst |-> d, ttl |-> InitTTL, icmp |-> m])), OnlyTask
        PROVE  SaneNow' /\ StepEffect
    <2> DEFINE p == [src |-> s, dst |-> d, ttl |-> InitTTL, icmp |-> m]
               x == L2Fwd(n, hop, oif, p)
    <2>1. p \in Packet
      BY <1>3, StackAssumption DEF Packet
    <2>2. CallAims(x, echoes)
      BY <1>4 DEF CallAims, L2Fwd, PacketAims
    <2>3. p.icmp = m
      OBVIOUS
    <2> HIDE DEF n, m, d, p
    <2>4. x \in Task /\ Held(x) = {m}
      BY <1>3, <2>1, <2>3, TaskTypes, HeldBy1
    <2>5. Become(t, x)
      BY <1>9 DEF p
    <2> HIDE DEF x
    <2>6. QED
      BY <1>4, <1>7, <1>9, <2>2, <2>4, <2>5, BecomeEcho
  <1>10. CASE DirectFromTop(t)
    <2> DEFINE oif == MatchingSubnetIntf(n, r.dest)
               srcs == IF oif = NoIntf THEN LoopbackSource(n) ELSE {IP[oif]}
    <2>1. oif \in Intf \cup {NoIntf}
      BY <1>3, <1>5, MatchingSubnetType
    <2>2. srcs \subseteq Addr
      BY <1>6, <2>1, LinkTypes DEF LoopbackSource
    <2>3. PICK s \in srcs :
            Become(t, L2Fwd(n, d, NoIntf,
                      [src |-> s, dst |-> d, ttl |-> InitTTL, icmp |-> m]))
      BY <1>10 DEF DirectFromTop
    <2>4. OnlyTask
      BY <1>10 DEF DirectFromTop
    <2> HIDE DEF n, m, d, srcs
    <2>5. QED
      BY <1>3, <1>9, <2>2, <2>3, <2>4
  <1>11. CASE GatewayFromTop(t)
    <2> DEFINE oif == MatchingSubnetIntf(n, r.gw)
    <2>1. oif \in Intf \cup {NoIntf} /\ (oif # NoIntf => IP[oif] \in Addr)
      BY <1>3, <1>5, MatchingSubnetType, LinkTypes
    <2>2. \/ Crash
          \/ /\ oif # NoIntf /\ OnlyTask
             /\ Become(t, L2Fwd(n, r.gw, oif,
                          [src |-> IP[oif], dst |-> d, ttl |-> InitTTL, icmp |-> m]))
      BY <1>11 DEF GatewayFromTop
    <2> HIDE DEF n, m, d, oif, r
    <2>3. QED
      BY <1>5, <1>9, <2>1, <2>2, CrashEcho
  <1>12. QED
    BY <1>8, <1>10, <1>11

LEMMA ForwardEcho ==
  ASSUME EchoInv, NEW t \in Thread,
         \/ L2LocalDelivery(t) \/ L2ForwardKnown(t) \/ L2ForwardUnknown(t)
         \/ ArpResolved(t) \/ ArpTimeout(t)
  PROVE  SaneNow' /\ StepEffect
  <1> DEFINE n == task[t].node
             hop == task[t].hop
             pkt == task[t].pkt
             m == pkt.icmp
  <1>1. /\ TypeOK /\ MailSound(sock, echoes) /\ CallAims(task[t], echoes) /\ task[t] \in Task
        /\ sock \in Sockets /\ task \in Tasks /\ SaneNow
    BY EchoTypes
  <1>2. task[t].op \in {"l2fwd", "arpWait"}
    BY DEF L2LocalDelivery, L2ForwardKnown, L2ForwardUnknown, ArpResolved, ArpTimeout,
           Forwards, Running
  <1>3. n \in Node /\ hop \in Addr /\ task[t].oif \in Intf \cup {NoIntf} /\ pkt \in Packet
    BY <1>1, <1>2, TaskFields
  <1>4. m \in Held(task[t]) /\ PacketAims(pkt, echoes) /\ m \in Icmp
    BY <1>1, <1>2, <1>3, HeldBy1 DEF Held, CallAims
  <1>5. OnlyTask => /\ MailSound(sock', echoes) /\ Mail(sock') = Mail(sock)
                    /\ console' = console /\ echoes' = echoes
    BY <1>1 DEF OnlyTask
  <1>6. OutIntf(t) \in Intf \cup {NoIntf}
    BY <1>3, MatchingSubnetType DEF OutIntf
  <1>7. /\ Idle \in Task /\ Held(Idle) = {} /\ CallAims(Idle, echoes)
        /\ L3Recv(n, pkt) \in Task /\ Held(L3Recv(n, pkt)) = {m}
        /\ CallAims(L3Recv(n, pkt), echoes)
        /\ \A i \in Intf \cup {NoIntf} :
              /\ ArpWait(n, hop, i, pkt) \in Task /\ Held(ArpWait(n, hop, i, pkt)) = {m}
              /\ CallAims(ArpWait(n, hop, i, pkt), echoes)
    <2>1. CallAims(Idle, echoes) /\ CallAims(L3Recv(n, pkt), echoes)
      BY <1>4 DEF CallAims, Idle, L3Recv
    <2>2. \A i \in Intf \cup {NoIntf} : CallAims(ArpWait(n, hop, i, pkt), echoes)
      BY <1>4 DEF CallAims, ArpWait
    <2> HIDE DEF n, hop, pkt
    <2>3. /\ L3Recv(n, pkt) \in Task /\ Held(L3Recv(n, pkt)) = {m}
          /\ Idle \in Task /\ Held(Idle) = {}
      BY <1>3, TaskTypes, HeldBy1
    <2>4. \A i \in Intf \cup {NoIntf} :
              ArpWait(n, hop, i, pkt) \in Task /\ Held(ArpWait(n, hop, i, pkt)) = {m}
      BY <1>3, TaskTypes, HeldBy1
    <2> HIDE DEF m
    <2>5. QED
      BY <2>1, <2>2, <2>3, <2>4
  <1> HIDE DEF n, hop, m, pkt
  <1>8. CASE L2LocalDelivery(t)
    BY <1>4, <1>5, <1>7, <1>8, BecomeEcho DEF L2LocalDelivery, n, pkt
  <1>9. CASE ArpTimeout(t)
    BY <1>4, <1>5, <1>7, <1>9, BecomeEcho DEF ArpTimeout
  <1>10. CASE L2ForwardUnknown(t)
    <2>1. Become(t, ArpWait(n, hop, OutIntf(t), pkt))
      BY <1>10 DEF L2ForwardUnknown, n, hop, pkt
    <2>2. CASE OutIntf(t) = NoIntf
      <3>1. OnlyTask
        BY <1>10, <2>2 DEF L2ForwardUnknown
      <3>2. QED
        BY <1>4, <1>5, <1>6, <1>7, <2>1, <3>1, BecomeEcho
    <2>3. CASE OutIntf(t) # NoIntf
      <3> DEFINE f == ArpRequestFrame(OutIntf(t), hop)
      <3>1. Send(OutIntf(t), f)
        BY <1>10, <2>3 DEF L2ForwardUnknown, hop
      <3>2. f \in Frame /\ f.type # "ip"
        BY <1>3, <1>6, <2>3, FrameTypes DEF ArpRequestFrame
      <3> HIDE DEF f
      <3>3. /\ sock' = Deliver(sock, OutIntf(t), f)
            /\ console' = console /\ echoes' = echoes
        BY <3>1 DEF Send
      <3>4. MailSound(sock', echoes) /\ Mail(sock') = Mail(sock)
        BY <1>1, <1>6, <2>3, <3>2, <3>3, DeliverArp
      <3>5. QED
        BY <1>4, <1>6, <1>7, <2>1, <3>3, <3>4, BecomeEcho
    <2>4. QED
      BY <2>2, <2>3
  <1>11. ASSUME NEW oif \in Intf \cup {NoIntf}, L2Transmit(t, oif), arp[n][hop] # NoEntry
         PROVE  SaneNow' /\ StepEffect
    <2>1. CASE oif = NoIntf
      BY <1>11, <2>1, CrashEcho DEF L2Transmit
    <2>2. CASE oif # NoIntf
      <3> DEFINE f == IpFrameOf(oif, arp[n][hop].mac, pkt)
      <3>1. arp[n][hop] \in ArpEntry
        BY <1>1, <1>3, <1>11 DEF TypeOK
      <3>2. f \in IpFrame /\ f.pkt = pkt
        BY <1>3, <2>2, <3>1 DEF ArpEntry, IpFrameOf, IpFrame
      <3>3. /\ task' = [task EXCEPT ![t] = Idle] /\ sock' = Deliver(sock, oif, f)
            /\ console' = console /\ echoes' = echoes
        BY <1>11, <2>2 DEF L2Transmit, Become, Send, n, hop, pkt
      <3>4. Apart({m}, Mail(sock))
        <4>1. Apart(Held(task[t]), Mail(sock))
          BY <1>1 DEF SaneNow, Sane, Disjoint
        <4>2. QED
          BY <1>4, <4>1 DEF Apart
      <3> HIDE DEF f
      <3>5. /\ MailSound(sock', echoes)
            /\ Mail(sock') = Mail(sock) \/ Mail(sock') = Mail(sock) \cup {m}
        BY <1>1, <1>4, <2>2, <3>2, <3>3, <3>4, DeliverIp DEF m
      <3>6. /\ Sane(sock', task', console, echoes) /\ m \in Live(sock, task)
            /\ Live(sock', task') =
                 (Live(sock, task) \ {m}) \cup (Mail(sock') \ Mail(sock)) \cup {}
        <4>1. \/ Mail(sock') = Mail(sock) /\ \A l \in Held(Idle) : l.id = m.id
              \/ Mail(sock') = Mail(sock) \cup {m} /\ Held(Idle) = {}
          BY <1>7, <3>5
        <4>2. QED
          BY <1>1, <1>4, <1>7, <3>3, <3>5, <4>1, CallStep DEF SaneNow
      <3>7. Live(sock', task') = Live(sock, task) \/ Live(sock', task') = Live(sock, task) \ {m}
        BY <3>4, <3>5, <3>6 DEF Apart
      <3>8. QED
        BY <3>3, <3>6, <3>7 DEF SaneNow, StepEffect, Effect
    <2>3. QED
      BY <2>1, <2>2
  <1>12. CASE L2ForwardKnown(t)
    BY <1>6, <1>11, <1>12 DEF L2ForwardKnown, n, hop
  <1>13. CASE ArpResolved(t)
    BY <1>3, <1>11, <1>13 DEF ArpResolved, n, hop
  <1>14. QED
    BY <1>8, <1>9, <1>10, <1>12, <1>13

LEMMA UpwardEcho ==
  ASSUME EchoInv, NEW t \in Thread,
         NoRouteRecv(t) \/ LocalRecv(t) \/ ConnectedRecv(t) \/ ForwardRecv(t)
  PROVE  SaneNow' /\ StepEffect
  <1> DEFINE n == task[t].node
             pkt == task[t].pkt
             m == pkt.icmp
             r == LongestMatch(routes[n], pkt.dst)
  <1>1. /\ TypeOK /\ MailSound(sock, echoes) /\ CallAims(task[t], echoes) /\ task[t] \in Task
        /\ task \in Tasks /\ SaneNow /\ console \in SUBSET ConsoleLine
    BY EchoTypes
  <1>2. task[t].op = "l3recv"
    BY DEF NoRouteRecv, LocalRecv, ConnectedRecv, ForwardRecv, Running
  <1>3. n \in Node /\ pkt \in Packet
    BY <1>1, <1>2, TaskFields
  <1>4. /\ m \in Held(task[t]) /\ PacketAims(pkt, echoes) /\ m \in Icmp
        /\ pkt.dst \in Addr /\ pkt.src \in Addr /\ pkt.ttl \in 1..InitTTL
    BY <1>1, <1>2, <1>3, HeldBy1 DEF Held, CallAims, Packet
  <1>5. OnlyTask => /\ MailSound(sock', echoes) /\ Mail(sock') = Mail(sock)
                    /\ console' = console /\ echoes' = echoes
    BY <1>1 DEF OnlyTask
  <1>6. r.gw \in Addr /\ r.oif \in Intf \cup {NoIntf}
    BY <1>1, <1>3, <1>4, LookupTypes
  \* an error or an answer to the source of the packet
  <1>7. ASSUME NEW l \in Icmp, Turned(m, l, echoes), l.type # "echo",
               Become(t, FromTop(n, l, pkt.src)), OnlyTask
        PROVE  SaneNow' /\ StepEffect
    <2> DEFINE x == FromTop(n, l, pkt.src)
    <2>1. x \in Task /\ Held(x) = {l} /\ CallAims(x, echoes)
      <3>1. CallAims(x, echoes)
        BY <1>7 DEF CallAims, FromTop
      <3>2. QED
        BY <1>3, <1>4, <3>1, TaskTypes, HeldBy1
    <2> HIDE DEF n, pkt, m, x
    <2>2. QED
      BY <1>4, <1>5, <1>7, <2>1, BecomeEcho DEF x
  \* the packet goes on
  <1>8. ASSUME NEW hop \in Addr, NEW oif \in Intf \cup {NoIntf}, NEW p \in Packet,
               p.icmp = m, p.dst = pkt.dst, Become(t, L2Fwd(n, hop, oif, p)), OnlyTask
        PROVE  SaneNow' /\ StepEffect
    <2> DEFINE x == L2Fwd(n, hop, oif, p)
    <2>1. x \in Task /\ Held(x) = {m}
      BY <1>3, <1>8, TaskTypes, HeldBy1
    <2>2. CallAims(x, echoes)
      BY <1>4, <1>8 DEF CallAims, L2Fwd, PacketAims
    <2> HIDE DEF n, pkt, m, x
    <2>3. QED
      BY <1>4, <1>5, <1>8, <2>1, <2>2, BecomeEcho DEF x
  <1>9. /\ Unreachable(m) \in Icmp /\ Exceeded(m) \in Icmp /\ EchoReply(m) \in Icmp
        /\ Turned(m, Unreachable(m), echoes) /\ Unreachable(m).type # "echo"
        /\ Turned(m, Exceeded(m), echoes) /\ Exceeded(m).type # "echo"
        /\ EchoReply(m).type = "reply" /\ EchoReply(m).id = m.id
    BY <1>4, IcmpTypes DEF Turned, Unreachable, Exceeded, EchoReply
  <1>10. CASE NoRouteRecv(t)
    <2>1. Become(t, FromTop(n, Unreachable(m), pkt.src)) /\ OnlyTask
      BY <1>10 DEF NoRouteRecv
    <2>2. QED
      BY <1>7, <1>9, <2>1
  <1>11. CASE ConnectedRecv(t)
    <2>1. Become(t, L2Fwd(n, pkt.dst, NoIntf, pkt)) /\ OnlyTask
      BY <1>11 DEF ConnectedRecv
    <2>2. QED
      BY <1>3, <1>4, <1>8, <2>1
  <1>12. CASE ForwardRecv(t)
    <2> DEFINE fewer == [pkt EXCEPT !.ttl = @ - 1]
    <2>1. OnlyTask /\ Become(t, IF pkt.ttl = 1 THEN FromTop(n, Exceeded(m), pkt.src)
                                ELSE L2Fwd(n, r.gw, r.oif, fewer))
      BY <1>12 DEF ForwardRecv
    <2>2. CASE pkt.ttl = 1
      BY <1>7, <1>9, <2>1, <2>2
    <2>3. CASE pkt.ttl # 1
      <3>1. pkt.ttl - 1 \in 1..InitTTL
        <4>1. pkt.ttl \in 1..InitTTL /\ InitTTL \in Nat
          BY <1>4, StackAssumption
        <4> HIDE DEF pkt
        <4>2. QED
          BY <2>3, <4>1
      <3>2. fewer \in Packet /\ fewer.icmp = m /\ fewer.dst = pkt.dst
        BY <1>3, <3>1 DEF Packet
      <3> HIDE DEF fewer, r
      <3>3. QED
        BY <1>6, <1>8, <2>1, <2>3, <3>2
    <2>4. QED
      BY <2>2, <2>3
  <1>13. CASE LocalRecv(t)
    <2>1. CASE m.type = "echo"
      <3>1. Become(t, FromTop(n, EchoReply(m), pkt.src)) /\ OnlyTask
            /\ LocalDelivery(n, pkt.dst)
        BY <1>13, <2>1 DEF LocalRecv
      <3>2. pkt.dst \in Owned /\ pkt.dst = echoes[m.id].dst
        <4>1. pkt.dst # Unparsable /\ lo[n] \in {Loopback[n], Unparsable}
          BY <1>3, <1>4, StackAssumption DEF EchoInv, LoopbackKept
        <4>2. pkt.dst \in Owned
          BY <1>3, <3>1, <4>1 DEF LocalDelivery, Owned
        <4>3. QED
          BY <1>4, <2>1, <4>2 DEF PacketAims
      <3>3. Turned(m, EchoReply(m), echoes)
        BY <1>9, <2>1, <3>2 DEF Turned
      <3>4. QED
        BY <1>7, <1>9, <3>1, <3>3
    <2>2. CASE m.type # "echo"
      <3> DEFINE l == [node |-> n, type |-> m.type, id |-> m.id]
      <3>1. /\ task' = [task EXCEPT ![t] = Idle] /\ console' = console \cup {l}
            /\ sock' = sock /\ echoes' = echoes
        BY <1>13, <2>2 DEF LocalRecv, Report, Become
      <3>2. l.type = m.type /\ l.id = m.id
        OBVIOUS
      <3> HIDE DEF l, n, pkt, m
      <3>3. /\ Sane(sock, task', console \cup {l}, echoes) /\ m \in Live(sock, task)
            /\ Live(sock, task') = Live(sock, task) \ {m}
            /\ Lines(console \cup {l}) = Lines(console) \cup {m}
        BY <1>1, <1>4, <3>1, <3>2, PrintStep DEF SaneNow
      <3>4. QED
        BY <2>2, <3>1, <3>3 DEF SaneNow, StepEffect, Effect
    <2>3. QED
      BY <2>1, <2>2
  <1>14. QED
    BY <1>10, <1>11, <1>12, <1>13

-----------------------------------------------------------------------------
(* The receiver thread and the commands *)

LEMMA ReceiveEcho ==
  ASSUME EchoInv, Receive
  PROVE  SaneNow' /\ StepEffect
  <1>1. /\ TypeOK /\ MailSound(sock, echoes) /\ task \in Tasks /\ sock \in Sockets
        /\ SaneNow /\ "rx" \in Thread
    BY EchoTypes DEF Thread
  <1>2. CASE Select
    BY <1>1, <1>2 DEF Select, SaneNow, StepEffect, Effect
  <1>3. ASSUME NEW n \in Node,
               RecvArpRequest(n) \/ RecvArpReply(n) \/ RecvIp(n) \/ RecvDiscard(n)
        PROVE  SaneNow' /\ StepEffect
    <2> DEFINE d == Head(sock[n])
               m == d.frame.pkt.icmp
    <2>1. /\ Visits(n) /\ console' = console /\ echoes' = echoes
          /\ Running("rx", "idle")
      BY <1>3 DEF RecvArpRequest, RecvArpReply, RecvIp, RecvDiscard, Visits
    <2>2. d \in Datagram /\ Taken(n) \in Sockets
      BY <1>1, <2>1, VisitTypes
    <2>3. Held(task["rx"]) = {}
      BY <2>1 DEF Running, Held
    <2>4. /\ MailSound(Taken(n), echoes)
          /\ d.frame.type # "ip" => Mail(Taken(n)) = Mail(sock)
          /\ d.frame.type = "ip" =>
                /\ d.frame.pkt \in Packet /\ m \in Mail(sock)
                /\ PacketAims(d.frame.pkt, echoes)
                /\ Mail(Taken(n)) = Mail(sock) \ {m}
                /\ Apart({m}, Mail(Taken(n)))
      BY <1>1, <2>1, TakenMail
    \* the frames of ARP
    <2>5. ASSUME task' = task, MailSound(sock', echoes), Mail(sock') = Mail(sock)
          PROVE  SaneNow' /\ StepEffect
      <3>1. /\ Sane(sock', task', console, echoes)
            /\ Live(sock', task') = Live(sock, task)
        BY <1>1, <2>5, QuietStep DEF SaneNow
      <3>2. QED
        BY <2>1, <3>1 DEF SaneNow, StepEffect, Effect
    <2>6. CASE RecvArpRequest(n)
      <3> DEFINE f == ArpReplyFrame(d.iif, d.frame)
      <3>1. /\ d.frame.type = "arpRequest" /\ task' = task
            /\ sock' = Deliver(Taken(n), d.iif, f)
        BY <2>6 DEF RecvArpRequest
      <3>2. d.iif \in Intf /\ d.frame \in ArpFrame
        BY <2>2, <3>1 DEF Datagram, ArpFrame, IpFrame
      <3>3. f \in Frame /\ f.type # "ip"
        BY <3>2, FrameTypes DEF ArpReplyFrame
      <3> HIDE DEF f
      <3>4. MailSound(sock', echoes) /\ Mail(sock') = Mail(Taken(n))
        BY <2>2, <2>4, <3>1, <3>2, <3>3, DeliverArp
      <3>5. QED
        BY <2>4, <2>5, <3>1, <3>4
    <2>7. CASE RecvArpReply(n)
      BY <2>4, <2>5, <2>7 DEF RecvArpReply
    \* a packet is taken in hand, or dropped
    <2>8. ASSUME NEW x \in Task, CallAims(x, echoes), d.frame.type = "ip",
                 Held(x) = {m} \/ x = task["rx"],
                 task' = [task EXCEPT !["rx"] = x], sock' = Taken(n)
          PROVE  SaneNow' /\ StepEffect
      <3> HIDE DEF m
      <3>1. m \in Mail(sock) /\ MailSound(sock', echoes) /\ Mail(sock') = Mail(sock) \ {m}
            /\ Apart({m}, Mail(sock'))
        BY <2>4, <2>8
      <3>2. /\ Sane(sock', task', console, echoes) /\ m \in Live(sock, task)
            /\ Live(sock', task') = IF x = task["rx"] THEN Live(sock, task) \ {m}
                                    ELSE Live(sock, task)
        BY <1>1, <2>3, <2>8, <3>1, TakeStep DEF SaneNow
      <3>3. QED
        BY <2>1, <3>2 DEF SaneNow, StepEffect, Effect
    <2>9. CASE RecvIp(n)
      <3> DEFINE x == L3Recv(n, d.frame.pkt)
      <3>1. /\ d.frame.type = "ip" /\ sock' = Taken(n)
            /\ task' = [task EXCEPT !["rx"] = x]
        BY <2>9 DEF RecvIp, Become
      <3>2. x \in Task /\ Held(x) = {m}
        BY <2>4, <3>1, TaskTypes, HeldBy1
      <3>3. CallAims(x, echoes)
        BY <2>4, <3>1 DEF CallAims, L3Recv
      <3> HIDE DEF x, m
      <3>4. QED
        BY <2>8, <3>1, <3>2, <3>3
    <2>10. CASE RecvDiscard(n)
      <3>1. sock' = Taken(n) /\ task' = task
        BY <2>10 DEF RecvDiscard
      <3>2. CASE d.frame.type = "ip"
        <4>1. /\ task' = [task EXCEPT !["rx"] = task["rx"]] /\ task["rx"] \in Task
              /\ CallAims(task["rx"], echoes)
          BY <1>1, <3>1, EchoTypes DEF Tasks
        <4>2. QED
          BY <2>8, <3>1, <3>2, <4>1
      <3>3. CASE d.frame.type # "ip"
        BY <2>4, <2>5, <3>1, <3>3
      <3>4. QED
        BY <3>2, <3>3
    <2>11. QED
      BY <1>3, <2>6, <2>7, <2>9, <2>10
  <1>4. QED
    BY <1>2, <1>3 DEF Receive

LEMMA CliEcho ==
  ASSUME EchoInv, PingSend \/ PingReturn
  PROVE  SaneNow' /\ StepEffect
  <1>1. /\ task \in Tasks /\ sock \in Sockets /\ console \in SUBSET ConsoleLine
        /\ echoes \in Echoes /\ SaneNow /\ "cli" \in Thread /\ TypeOK
    BY EchoTypes DEF Thread
  <1>2. CASE PingSend
    <2> DEFINE m == [type |-> "echo", id |-> Len(echoes) + 1]
               n == ping.node
               a == ping.dst
    <2>1. n \in Node /\ a \in Addr
      BY <1>1, <1>2 DEF PingSend, TypeOK, Ping
    <2>2. /\ task' = [task EXCEPT !["cli"] = FromTop(n, m, a)]
          /\ echoes' = Append(echoes, [node |-> n, dst |-> a])
          /\ sock' = sock /\ console' = console /\ task["cli"].op = "idle"
      BY <1>2 DEF PingSend, Become, Running
    <2>3. Held(task["cli"]) = {}
      BY <2>2 DEF Held
    <2>4. m = [type |-> "echo", id |-> Len(echoes) + 1]
      OBVIOUS
    <2> HIDE DEF m, n, a
    <2>5. /\ Sane(sock, task', console, echoes')
          /\ Live(sock, task') = Live(sock, task) \cup {m}
      BY <1>1, <2>1, <2>2, <2>3, <2>4, AskStep DEF SaneNow
    <2>6. QED
      BY <2>1, <2>2, <2>4, <2>5 DEF SaneNow, StepEffect, Effect
  <1>3. CASE PingReturn
    BY <1>1, <1>3 DEF PingReturn, SaneNow, StepEffect, Effect
  <1>4. QED
    BY <1>2, <1>3

LEMMA CommandEcho ==
  ASSUME EchoInv, Command
  PROVE  SaneNow' /\ StepEffect
  <1>1. SaneNow /\ MailSound(sock, echoes) /\ sock \in Sockets
    BY EchoTypes
  <1>2. ASSUME UNCHANGED <<sock, task, console, echoes>>
        PROVE  SaneNow' /\ StepEffect
    BY <1>1, <1>2 DEF SaneNow, StepEffect, Effect
  <1>3. ASSUME NEW c \in PingCommands, PingCommand(c[1], c[2])
        PROVE  SaneNow' /\ StepEffect
    BY <1>2, <1>3 DEF PingCommand
  <1>4. ASSUME NEW c \in RouteCommands, ConfigRoute(c)
        PROVE  SaneNow' /\ StepEffect
    BY <1>2, <1>4 DEF ConfigRoute
  <1>5. ASSUME NEW S \in ShowCommands, ShowNodes(S)
        PROVE  SaneNow' /\ StepEffect
    BY <1>2, <1>5 DEF ShowNodes
  <1>6. ASSUME NEW c \in ArpCommands, ResolveArp(c[1], c[2])
        PROVE  SaneNow' /\ StepEffect
    <2> DEFINE n == c[1]
               a == c[2]
               oif == MatchingSubnetIntf(n, a)
               f == ArpRequestFrame(oif, a)
    <2>1. n \in Node /\ a \in Addr
      BY StackAssumption
    <2>2. oif \in Intf \cup {NoIntf}
      BY <2>1, MatchingSubnetType
    <2>3. /\ sock' = IF oif = NoIntf \/ IP[oif] = a THEN sock ELSE Deliver(sock, oif, f)
          /\ task' = task /\ console' = console /\ echoes' = echoes
      BY <1>6 DEF ResolveArp
    <2> HIDE DEF n, a, oif
    <2>4. MailSound(sock', echoes) /\ Mail(sock') = Mail(sock)
      <3>1. CASE sock' = sock
        BY <1>1, <3>1
      <3>2. CASE oif # NoIntf /\ sock' = Deliver(sock, oif, f)
        <4>1. f \in Frame /\ f.type # "ip" /\ oif \in Intf
          BY <2>1, <2>2, <3>2, FrameTypes DEF ArpRequestFrame
        <4> HIDE DEF f
        <4>2. QED
          BY <1>1, <3>2, <4>1, DeliverArp
      <3>3. QED
        BY <2>3, <3>1, <3>2
    <2>5. /\ Sane(sock', task', console, echoes)
          /\ Live(sock', task') = Live(sock, task)
      BY <1>1, <2>3, <2>4, QuietStep DEF SaneNow
    <2>6. QED
      BY <2>3, <2>5 DEF SaneNow, StepEffect, Effect
  <1>7. QED
    BY <1>3, <1>4, <1>5, <1>6 DEF Command

\* Only the dump of the nodes changes a loopback address.
LEMMA LoopbackStep ==
  ASSUME TypeOK, LoopbackKept, [Next]_vars
  PROVE  LoopbackKept'
  <1>1. CASE Command
    <2>1. ASSUME NEW S \in ShowCommands, ShowNodes(S)
          PROVE  LoopbackKept'
      BY <2>1 DEF ShowNodes, LoopbackKept
    <2>2. (\A S \in ShowCommands : ~ShowNodes(S)) => lo' = lo
      BY <1>1 DEF Command, PingCommand, ResolveArp, ConfigRoute
    <2>3. QED
      BY <2>1, <2>2 DEF LoopbackKept
  <1>2. CASE Receive \/ PingSend \/ PingReturn \/ UNCHANGED vars
    <2>1. lo' = lo
      BY <1>2 DEF Receive, Select, RecvArpRequest, RecvArpReply, RecvIp, RecvDiscard,
                  PingSend, PingReturn, vars
    <2>2. QED
      BY <2>1 DEF LoopbackKept
  <1>3. ASSUME NEW t \in Thread, Call(t)
        PROVE  LoopbackKept'
    <2>1. lo' = lo
      BY <1>3 DEF Call, NoRouteFromTop, DirectFromTop, GatewayFromTop, L2LocalDelivery,
         L2ForwardKnown, L2ForwardUnknown, ArpResolved, ArpTimeout, NoRouteRecv, LocalRecv,
         ConnectedRecv, ForwardRecv, L2Transmit, Crash, OnlyTask, Send
    <2>2. QED
      BY <2>1 DEF LoopbackKept
  <1>4. QED
    BY <1>1, <1>2, <1>3 DEF Next, RxStep, CliStep, Thread

LEMMA InitEcho == Init => EchoInv
  <1> SUFFICES ASSUME Init PROVE EchoInv
    OBVIOUS
  <1>1. /\ sock = [n \in Node |-> <<>>] /\ task = [t \in Thread |-> Idle]
        /\ console = {} /\ echoes = <<>>
    BY DEF Init
  <1>2. \A n \in Node : Len(sock[n]) = 0
    BY <1>1
  <1>3. Mail(sock) = {} /\ Lines(console) = {}
    BY <1>1, <1>2 DEF Mail, InPlace, Lines
  <1>4. \A t \in Thread : task[t] = Idle /\ Held(task[t]) = {}
    BY <1>1, HeldBy1
  <1>5. Live(sock, task) = {}
    BY <1>3, <1>4 DEF Live
  <1>6. MailSound(sock, echoes)
    BY <1>2, StackAssumption DEF MailSound, OneDatagram, SocketsAim, Room, InPlace
  <1>7. \A t \in Thread : CallAims(task[t], echoes)
    BY <1>4 DEF CallAims, Idle
  <1>8. Disjoint(sock, task, console) /\ Numbered(sock, task, console, echoes)
        /\ OneLine(console)
    BY <1>1, <1>3, <1>4, <1>5 DEF Disjoint, Apart, Numbered, OneLine
  <1>9. LoopbackKept
    BY DEF Init, LoopbackKept
  <1>10. QED
    BY <1>6, <1>7, <1>8, <1>9, InitType DEF EchoInv, Sane

LEMMA NextEcho ==
  ASSUME EchoInv, [Next]_vars
  PROVE  EchoInv' /\ StepEffect
  <1>1. TypeOK /\ SaneNow /\ LoopbackKept
    BY DEF EchoInv, SaneNow
  <1>2. SaneNow' /\ StepEffect
    <2>1. CASE UNCHANGED vars
      BY <1>1, <2>1 DEF vars, SaneNow, StepEffect, Effect
    <2>2. ASSUME NEW t \in Thread, Call(t)
          PROVE  SaneNow' /\ StepEffect
      BY <2>2, FromTopEcho, ForwardEcho, UpwardEcho DEF Call
    <2>3. QED
      BY <2>1, <2>2, ReceiveEcho, CliEcho, CommandEcho DEF Next, RxStep, CliStep, Thread
  <1>3. TypeOK' /\ LoopbackKept'
    BY <1>1, NextType, LoopbackStep
  <1>4. QED
    BY <1>2, <1>3 DEF EchoInv, SaneNow

\* What is in the sockets, in hand and on the console, and where it goes
THEOREM EchoInvariance == Spec => []EchoInv
  BY InitEcho, NextEcho, PTL DEF Spec

-----------------------------------------------------------------------------
(* EchoHasOneDescendant *)

\* InHand is Held, for a call of the program.
LEMMA HandsHold ==
  ASSUME TypeOK, NEW t \in Thread
  PROVE  InHand(t) = Held(task[t])
  <1>1. CASE task[t].op = "fromTop"
    <2>1. task[t].icmp \in Icmp
      BY <1>1, TaskFields
    <2>2. QED
      BY <1>1, <2>1 DEF InHand, Held
  <1>2. CASE task[t].op \in {"l2fwd", "arpWait", "l3recv"}
    <2>1. task[t].pkt.icmp \in Icmp
      BY <1>2, TaskFields DEF Packet
    <2>2. QED
      BY <1>2, <2>1 DEF InHand, Held
  <1>3. CASE task[t].op \notin {"fromTop", "l2fwd", "arpWait", "l3recv"}
    BY <1>3 DEF InHand, Held
  <1>4. QED
    BY <1>1, <1>2, <1>3

\* A datagram of InSocket is one of InPlace.
LEMMA SocketsHold ==
  ASSUME TypeOK, NEW n \in Node, NEW k \in Nat, NEW id, InSocket(n, k, id)
  PROVE  \E m \in Mail(sock) : m.id = id /\ InPlace(sock, n, k, m)
  <1>1. /\ k \in 1..Len(sock[n]) /\ sock[n][k].frame.type = "ip"
        /\ sock[n][k].frame.pkt.icmp.id = id
    BY DEF InSocket
  <1>2. sock[n][k] \in Datagram
    BY <1>1 DEF TypeOK
  <1>3. sock[n][k].frame.pkt.icmp \in Icmp
    BY <1>1, <1>2 DEF Datagram, ArpFrame, IpFrame, Packet
  <1>4. QED
    BY <1>1, <1>3 DEF Mail, InPlace

LEMMA OneDescendant == EchoInv => EchoHasOneDescendant
  <1> SUFFICES ASSUME EchoInv, NEW id \in 1..Len(echoes),
                      NEW x \in Descendants(id), NEW y \in Descendants(id)
               PROVE  x = y
    BY DEF EchoHasOneDescendant
  <1>1. /\ TypeOK /\ OneDatagram(sock) /\ Disjoint(sock, task, console) /\ OneLine(console)
    BY DEF EchoInv, Sane, MailSound
  <1> DEFINE Places == {q \in Node \X (1..SockCap) : InSocket(q[1], q[2], id)}
             Hands == {u \in Thread : HeldBy(u, id)}
             About == {l \in console : l.id = id}
  <1>2. ASSUME NEW z \in Descendants(id)
        PROVE  \/ \E p \in Places : z = <<"socket", p>>
               \/ \E t \in Hands : z = <<"thread", t>>
               \/ \E l \in About : z = <<"line", l>>
    BY <1>2 DEF Descendants
  <1>3. ASSUME NEW p \in Places
        PROVE  /\ p[1] \in Node /\ p[2] \in Nat /\ p = <<p[1], p[2]>>
               /\ \E m \in Mail(sock) : m.id = id /\ InPlace(sock, p[1], p[2], m)
    <2>1. p[1] \in Node /\ p[2] \in Nat /\ p = <<p[1], p[2]>> /\ InSocket(p[1], p[2], id)
      BY <1>3, StackAssumption
    <2>2. QED
      BY <1>1, <2>1, SocketsHold
  <1>4. ASSUME NEW t \in Hands
        PROVE  t \in Thread /\ \E m \in Held(task[t]) : m.id = id
    BY <1>1, <1>4, HandsHold DEF HeldBy
  <1>5. ASSUME NEW l \in About
        PROVE  \E m \in Lines(console) : m.id = id
    <2>1. [type |-> l.type, id |-> l.id] \in Icmp
      BY <1>1, <1>5 DEF TypeOK, ConsoleLine, Icmp
    <2>2. QED
      BY <1>5, <2>1 DEF Lines
  <1>6. ASSUME NEW p \in Places, NEW q \in Places
        PROVE  p = q
    <2>1. p[1] = q[1] /\ p[2] = q[2]
      <3>1. PICK l \in Mail(sock) : l.id = id /\ InPlace(sock, p[1], p[2], l)
        BY <1>3
      <3>2. PICK m \in Mail(sock) : m.id = id /\ InPlace(sock, q[1], q[2], m)
        BY <1>3
      <3>3. l \in Icmp /\ m \in Icmp
        BY DEF Mail
      <3> HIDE DEF Places
      <3>4. QED
        BY <1>1, <1>3, <3>1, <3>2, <3>3 DEF OneDatagram
    <2> HIDE DEF Places
    <2>2. QED
      BY <1>3, <2>1
  <1>7. ASSUME NEW t \in Hands, NEW u \in Hands
        PROVE  t = u
    BY <1>1, <1>4 DEF Disjoint, Apart
  <1>8. ASSUME NEW l \in About, NEW m \in About
        PROVE  l = m
    BY <1>1 DEF OneLine
  <1>9. ASSUME NEW p \in Places, NEW t \in Hands PROVE FALSE
    <2> HIDE DEF Places, Hands
    <2>1. QED
      BY <1>1, <1>3, <1>4, <1>9 DEF Disjoint, Apart
  <1>10. ASSUME NEW p \in Places, NEW l \in About PROVE FALSE
    <2> HIDE DEF Places, About
    <2>1. QED
      BY <1>1, <1>3, <1>5, <1>10 DEF Disjoint, Apart
  <1>11. ASSUME NEW t \in Hands, NEW l \in About PROVE FALSE
    <2> HIDE DEF Hands, About
    <2>1. QED
      BY <1>1, <1>4, <1>5, <1>11 DEF Disjoint, Apart
  <1> HIDE DEF Places, Hands, About
  <1>12. QED
    BY <1>2, <1>6, <1>7, <1>8, <1>9, <1>10, <1>11

\* An echo message has at most one descendant, whatever answers, reports and
\* retransmissions it causes on its way (layer3.c, ping.c).
THEOREM OneDescendantAlways == Spec => []EchoHasOneDescendant
  BY EchoInvariance, OneDescendant, PTL

-----------------------------------------------------------------------------
(* The refinement of EchoNet *)

\* The fate of an echo message, from the live messages and the printed ones
FateIn(L, D, id) ==
    IF \E m \in D : m.id = id
    THEN IF \E m \in D : m.id = id /\ m.type = "reply" THEN "answered" ELSE "reported"
    ELSE IF \E m \in L : m.id = id /\ m.type = "echo" THEN "request"
    ELSE IF \E m \in L : m.id = id /\ m.type = "reply" THEN "answer"
    ELSE IF \E m \in L : m.id = id THEN "error" ELSE "lost"

Told == \A id \in 1..Len(echoes) : FateOf(id) = FateIn(Live(sock, task), Lines(console), id)

\* One message at most descends from an echo message.
Single ==
    /\ \A l, m \in Live(sock, task) : l.id = m.id => l = m
    /\ Apart(Live(sock, task), Lines(console))
    /\ \A m \in Live(sock, task) \cup Lines(console) : m \in Icmp /\ m.id \in 1..Len(echoes)
    /\ echoes \in Echoes

LEMMA TypesLive ==
  ASSUME EchoInv, NEW id
  PROVE  TypesOf(id) = {m.type : m \in {l \in Live(sock, task) : l.id = id}}
  <1>1. TypeOK /\ Room(sock)
    BY DEF EchoInv, Sane, MailSound
  <1> DEFINE H == {m \in UNION {InHand(t) : t \in Thread} : m.id = id}
             P == {q \in Node \X (1..SockCap) : InSocket(q[1], q[2], id)}
             S == {sock[p[1]][p[2]].frame.pkt.icmp.type : p \in P}
             M == {m \in Mail(sock) : m.id = id}
  <1>2. H = {m \in UNION {Held(task[t]) : t \in Thread} : m.id = id}
    BY <1>1, HandsHold
  <1>3. S \subseteq {m.type : m \in M}
    <2>1. ASSUME NEW p \in P
          PROVE  \E m \in M : m.type = sock[p[1]][p[2]].frame.pkt.icmp.type
      <3>1. p[1] \in Node /\ p[2] \in Nat /\ InSocket(p[1], p[2], id)
        BY <2>1, StackAssumption
      <3>2. PICK m \in Mail(sock) : m.id = id /\ InPlace(sock, p[1], p[2], m)
        BY <1>1, <3>1, SocketsHold
      <3>3. QED
        BY <3>2 DEF InPlace
    <2>2. QED
      BY <2>1
  <1>4. {m.type : m \in M} \subseteq S
    <2>1. ASSUME NEW m \in M
          PROVE  m.type \in S
      <3>1. PICK n \in Node, k \in Nat : InPlace(sock, n, k, m)
        BY <2>1 DEF Mail
      <3>2. k \in 1..SockCap
        <4>1. Len(sock[n]) <= SockCap /\ Len(sock[n]) \in Nat
          BY <1>1 DEF Room, TypeOK
        <4>2. QED
          BY <3>1, <4>1, StackAssumption DEF InPlace
      <3>3. <<n, k>> \in P
        BY <2>1, <3>1, <3>2 DEF InPlace, InSocket
      <3>4. m.type = sock[<<n, k>>[1]][<<n, k>>[2]].frame.pkt.icmp.type
        BY <3>1 DEF InPlace
      <3> HIDE DEF P
      <3>5. QED
        BY <3>3, <3>4
    <2>2. QED
      BY <2>1
  <1>5. TypesOf(id) = {m.type : m \in H} \cup S
    BY DEF TypesOf
  <1>6. {l \in Live(sock, task) : l.id = id} = H \cup M
    BY <1>2 DEF Live
  <1> HIDE DEF H, M, S
  <1>7. QED
    BY <1>3, <1>4, <1>5, <1>6

LEMMA Fates == EchoInv => Told /\ Single
  <1> SUFFICES ASSUME EchoInv PROVE Told /\ Single
    OBVIOUS
  <1>1. /\ TypeOK /\ OneDatagram(sock) /\ Disjoint(sock, task, console)
        /\ Numbered(sock, task, console, echoes) /\ echoes \in Echoes
    BY EchoTypes DEF EchoInv, Sane, MailSound
  <1>2. Told
    <2> SUFFICES ASSUME NEW id \in 1..Len(echoes)
                 PROVE  FateOf(id) = FateIn(Live(sock, task), Lines(console), id)
      BY DEF Told
    <2> DEFINE printed == {c.type : c \in {l \in console : l.id = id}}
               types == TypesOf(id)
    <2>1. types = {m.type : m \in {l \in Live(sock, task) : l.id = id}}
      BY TypesLive
    <2>2. printed = {m.type : m \in {l \in Lines(console) : l.id = id}}
      <3>1. ASSUME NEW l \in console
            PROVE  [type |-> l.type, id |-> l.id] \in Lines(console)
        BY <1>1 DEF Lines, TypeOK, ConsoleLine, Icmp
      <3>2. printed \subseteq {m.type : m \in {l \in Lines(console) : l.id = id}}
        <4>1. ASSUME NEW l \in console, l.id = id
              PROVE  \E m \in Lines(console) : m.id = id /\ m.type = l.type
          <5>1. [type |-> l.type, id |-> l.id] \in Lines(console)
            BY <3>1
          <5>2. QED
            BY <4>1, <5>1
        <4>2. QED
          BY <4>1
      <3>3. {m.type : m \in {l \in Lines(console) : l.id = id}} \subseteq printed
        BY DEF Lines
      <3>4. QED
        BY <3>2, <3>3
    <2>3. FateOf(id) =
            CASE printed # {} -> IF "reply" \in printed THEN "answered" ELSE "reported"
              [] printed = {} /\ types = {} -> "lost"
              [] OTHER -> IF "echo" \in types THEN "request"
                          ELSE IF "reply" \in types THEN "answer" ELSE "error"
      BY DEF FateOf
    <2> HIDE DEF printed, types
    <2>4. CASE printed # {}
      BY <2>2, <2>3, <2>4 DEF FateIn
    <2>5. CASE printed = {} /\ types = {}
      BY <2>1, <2>2, <2>3, <2>5 DEF FateIn
    <2>6. CASE printed = {} /\ types # {}
      BY <2>1, <2>2, <2>3, <2>6 DEF FateIn
    <2>7. QED
      BY <2>4, <2>5, <2>6
  <1>3. Single
    <2>1. \A l, m \in Mail(sock) : l.id = m.id => l = m
      <3> SUFFICES ASSUME NEW l \in Mail(sock), NEW m \in Mail(sock), l.id = m.id
                   PROVE  l = m
        OBVIOUS
      <3>1. PICK n \in Node, k \in Nat : InPlace(sock, n, k, l)
        BY DEF Mail
      <3>2. PICK o \in Node, j \in Nat : InPlace(sock, o, j, m)
        BY DEF Mail
      <3>3. n = o /\ k = j
        BY <1>1, <3>1, <3>2 DEF OneDatagram, Mail
      <3>4. QED
        BY <3>1, <3>2, <3>3 DEF InPlace
    <2>2. \A t, u \in Thread : \A l \in Held(task[t]), m \in Held(task[u]) :
             l.id = m.id => l = m
      BY <1>1, HeldType DEF Disjoint, Apart
    <2>3. \A l, m \in Live(sock, task) : l.id = m.id => l = m
      BY <1>1, <2>1, <2>2 DEF Live, Disjoint, Apart
    <2>4. Apart(Live(sock, task), Lines(console))
      BY <1>1 DEF Live, Disjoint, Apart
    <2>5. \A m \in Live(sock, task) \cup Lines(console) : m \in Icmp
      BY HeldType DEF Live, Mail, Lines
    <2>6. QED
      BY <1>1, <2>3, <2>4, <2>5 DEF Single, Numbered
  <1>4. QED
    BY <1>2, <1>3

LEMMA FatesNext == EchoInv' => (Told /\ Single)'
  BY Fates, PTL

\* Each step of the stacks is one of the network, or none.
LEMMA StepMaps ==
  ASSUME Told, Told', Single, Single', StepEffect
  PROVE  [Net!Next]_(Net!vars)
  <1> DEFINE L == Live(sock, task)
             L2 == Live(sock', task')
             D == Lines(console)
             D2 == Lines(console')
             N == 1..Len(echoes)
             fate == [id \in 1..Len(echoes) |-> FateOf(id)]
  <1>1. \A id \in N : fate[id] = FateIn(L, D, id)
    BY DEF Told
  <1>2. \A id \in 1..Len(echoes') : fate'[id] = FateIn(L2, D2, id)
    BY DEF Told
  <1>3. /\ \A l, m \in L : l.id = m.id => l = m
        /\ \A l \in L, m \in D : l.id # m.id
        /\ \A m \in L \cup D : m \in Icmp /\ m.id \in N
        /\ Len(echoes) \in Nat
    BY DEF Single, Apart, Echoes
  <1>4. /\ \A l \in L2, m \in D2 : l.id # m.id
        /\ \A l, m \in L2 : l.id = m.id => l = m
    BY DEF Single, Apart
  <1>5. Effect(L, D, echoes, L2, D2, echoes')
    BY DEF StepEffect
  <1>6. fate = [id \in N |-> fate[id]] /\ fate' = [id \in 1..Len(echoes') |-> fate'[id]]
    OBVIOUS
  <1> HIDE DEF L, L2, D, D2
  \* what befalls one message
  <1>7. ASSUME NEW i \in N, NEW from, NEW to, echoes' = echoes,
               FateIn(L, D, i) \in from, FateIn(L2, D2, i) = to,
               \A id \in N \ {i} : FateIn(L2, D2, id) = FateIn(L, D, id)
        PROVE  Net!Turn(i, from, to)
    <2>1. fate[i] \in from
      BY <1>1, <1>7
    <2>2. fate' = [fate EXCEPT ![i] = to]
      <3> HIDE DEF fate
      <3>1. \A id \in N : fate'[id] = IF id = i THEN to ELSE fate[id]
        BY <1>1, <1>2, <1>7
      <3>2. QED
        BY <1>6, <1>7, <3>1
    <2>3. QED
      BY <1>7, <2>1, <2>2 DEF Net!Turn
  <1>8. ASSUME echoes' = echoes, \A id \in N : FateIn(L2, D2, id) = FateIn(L, D, id)
        PROVE  UNCHANGED Net!vars
    <2>1. fate' = fate
      <3>1. \A id \in N : fate'[id] = fate[id]
        BY <1>1, <1>2, <1>8
      <3> HIDE DEF fate
      <3>2. QED
        BY <1>6, <1>8, <3>1
    <2>2. QED
      BY <1>8, <2>1 DEF Net!vars
  <1>9. ASSUME NEW i \in N PROVE i \in 1..Len(fate)
    BY <1>3
  <1>10. ASSUME NEW m \in L
         PROVE  /\ m.id \in N
                /\ FateIn(L, D, m.id) = IF m.type = "echo" THEN "request"
                                        ELSE IF m.type = "reply" THEN "answer" ELSE "error"
    BY <1>3, <1>10 DEF FateIn
  <1>11. CASE L2 = L /\ D2 = D /\ echoes' = echoes
    BY <1>8, <1>11
  <1>12. ASSUME NEW m \in L, L2 = L \ {m}, D2 = D, echoes' = echoes
         PROVE  Net!Next
    <2>1. FateIn(L2, D2, m.id) = "lost"
      BY <1>3, <1>12 DEF FateIn
    <2>2. \A id \in N \ {m.id} : FateIn(L2, D2, id) = FateIn(L, D, id)
      BY <1>12 DEF FateIn
    <2>3. FateIn(L, D, m.id) \in Net!Travelling
      BY <1>10 DEF Net!Travelling
    <2>4. Net!Lose(m.id)
      BY <1>7, <1>10, <1>12, <2>1, <2>2, <2>3 DEF Net!Lose
    <2>5. QED
      BY <1>9, <1>10, <2>4 DEF Net!Next
  <1>13. ASSUME NEW m \in L, NEW l \in Icmp, Turned(m, l, echoes),
                L2 = (L \ {m}) \cup {l}, D2 = D, echoes' = echoes
         PROVE  Net!Next \/ UNCHANGED Net!vars
    <2>1. l.id = m.id /\ l.type # "echo"
      BY <1>13 DEF Turned
    <2>2. FateIn(L2, D2, m.id) = IF l.type = "reply" THEN "answer" ELSE "error"
      BY <1>3, <1>13, <2>1 DEF FateIn
    <2>3. \A id \in N \ {m.id} : FateIn(L2, D2, id) = FateIn(L, D, id)
      BY <1>13, <2>1 DEF FateIn
    <2>4. CASE l.type = "reply"
      <3>1. m.type = "echo" /\ echoes[m.id].dst \in Owned
        BY <1>13, <2>4 DEF Turned
      <3>2. FateIn(L, D, m.id) \in {"request"}
        BY <1>10, <3>1
      <3>3. Net!Answer(m.id)
        BY <1>7, <1>10, <1>13, <2>2, <2>3, <2>4, <3>1, <3>2 DEF Net!Answer, Owned
      <3>4. QED
        BY <1>9, <1>10, <3>3 DEF Net!Next
    <2>5. CASE l.type # "reply" /\ m.type \in {"echo", "reply"}
      <3>1. FateIn(L, D, m.id) \in {"request", "answer"}
        BY <1>10, <2>5
      <3>2. Net!Fail(m.id)
        BY <1>7, <1>10, <1>13, <2>2, <2>3, <2>5, <3>1 DEF Net!Fail
      <3>3. QED
        BY <1>9, <1>10, <3>2 DEF Net!Next
    <2>6. CASE l.type # "reply" /\ m.type \notin {"echo", "reply"}
      <3>1. FateIn(L, D, m.id) = "error"
        BY <1>10, <2>6
      <3>2. QED
        BY <1>8, <1>13, <2>2, <2>3, <2>6, <3>1
    <2>7. QED
      BY <2>4, <2>5, <2>6
  <1>14. ASSUME NEW m \in L, m.type # "echo", L2 = L \ {m}, D2 = D \cup {m},
                echoes' = echoes
         PROVE  Net!Next
    <2>1. FateIn(L2, D2, m.id) = IF m.type = "reply" THEN "answered" ELSE "reported"
      BY <1>3, <1>14 DEF FateIn
    <2>2. \A id \in N \ {m.id} : FateIn(L2, D2, id) = FateIn(L, D, id)
      BY <1>14 DEF FateIn
    <2>3. FateIn(L, D, m.id) = IF m.type = "reply" THEN "answer" ELSE "error"
      BY <1>10, <1>14
    <2>4. Net!Report(m.id)
      <3>1. CASE m.type = "reply"
        <4>1. FateIn(L, D, m.id) \in {"answer"} /\ FateIn(L2, D2, m.id) = "answered"
          BY <2>1, <2>3, <3>1
        <4>2. QED
          BY <1>7, <1>10, <1>14, <2>2, <4>1 DEF Net!Report
      <3>2. CASE m.type # "reply"
        <4>1. FateIn(L, D, m.id) \in {"error"} /\ FateIn(L2, D2, m.id) = "reported"
          BY <2>1, <2>3, <3>2
        <4>2. QED
          BY <1>7, <1>10, <1>14, <2>2, <4>1 DEF Net!Report
      <3>3. QED
        BY <3>1, <3>2
    <2>5. QED
      BY <1>9, <1>10, <2>4 DEF Net!Next
  <1>15. ASSUME NEW n \in Node, NEW a \in Addr, D2 = D,
                echoes' = Append(echoes, [node |-> n, dst |-> a]),
                L2 = L \cup {[type |-> "echo", id |-> Len(echoes) + 1]}
         PROVE  Net!Next
    <2> DEFINE k == Len(echoes) + 1
               m == [type |-> "echo", id |-> k]
    <2>1. Len(echoes') = k /\ k \in Nat /\ k \notin N
      BY <1>3, <1>15 DEF Single, Echoes
    <2>2. FateIn(L2, D2, k) = "request"
      <3>1. ~ \E l \in D2 : l.id = k
        BY <1>3, <1>15, <2>1
      <3>2. m \in L2 /\ m.id = k /\ m.type = "echo"
        BY <1>15
      <3> HIDE DEF k, m
      <3>3. QED
        BY <3>1, <3>2 DEF FateIn
    <2>3. \A id \in N : FateIn(L2, D2, id) = FateIn(L, D, id)
      BY <1>15, <2>1 DEF FateIn
    <2>4. \A id \in N : fate'[id] = fate[id]
      <3>1. \A id \in N : id \in 1..Len(echoes')
        BY <1>3, <2>1
      <3> HIDE DEF fate, N
      <3>2. QED
        BY <1>1, <1>2, <2>3, <3>1
    <2>5. fate'[k] = "request"
      <3>1. k \in 1..Len(echoes')
        BY <1>3, <2>1
      <3> HIDE DEF fate, k
      <3>2. QED
        BY <1>2, <2>2, <3>1
    <2>6. fate' = Append(fate, "request")
      <3> DEFINE S == {fate[id] : id \in N} \cup {"request"}
      <3>1. fate \in [N -> S] /\ fate' \in [1..k -> S]
        <4>1. \A id \in 1..k : id \in N \/ id = k
          BY <1>3
        <4> HIDE DEF fate, k
        <4>2. \A id \in 1..k : fate'[id] \in S
          BY <2>4, <2>5, <4>1
        <4>3. QED
          BY <1>6, <2>1, <4>2
      <3>2. fate \in Seq(S) /\ Len(fate) = Len(echoes)
        <4>1. fate \in Seq(S)
          BY <1>3, <3>1
        <4>2. DOMAIN fate = N
          OBVIOUS
        <4> HIDE DEF fate
        <4>3. QED
          BY <1>3, <4>1, <4>2
      <3>3. fate' \in Seq(S) /\ Len(fate') = k
        <4>1. fate' \in Seq(S)
          BY <2>1, <3>1
        <4>2. DOMAIN fate' = 1..k
          BY <2>1
        <4> HIDE DEF fate
        <4>3. QED
          BY <2>1, <4>1, <4>2
      <3> HIDE DEF fate, S
      <3>4. "request" \in S
        BY DEF S
      <3>5. /\ Append(fate, "request") \in Seq(S) /\ Len(Append(fate, "request")) = k
            /\ \A id \in N : Append(fate, "request")[id] = fate[id]
            /\ Append(fate, "request")[k] = "request"
        BY <3>2, <3>4, AppendProperties
      <3>6. \A id \in 1..k : fate'[id] = Append(fate, "request")[id]
        BY <1>3, <2>4, <2>5, <3>5
      <3> HIDE DEF k
      <3>7. QED
        BY <3>3, <3>5, <3>6, SeqEqual
    <2>7. Net!Ask(n, a)
      BY <1>15, <2>6 DEF Net!Ask
    <2>8. QED
      BY <2>7 DEF Net!Next
  <1>16. QED
    BY <1>5, <1>11, <1>12, <1>13, <1>14, <1>15 DEF Effect

LEMMA InitMaps == Init => Net!Init
  <1> SUFFICES ASSUME Init PROVE Net!Init
    OBVIOUS
  <1>1. echoes = <<>>
    BY DEF Init
  <1>2. [id \in 1..Len(echoes) |-> FateOf(id)] = <<>>
    BY <1>1
  <1>3. QED
    BY <1>1, <1>2 DEF Net!Init

\* The stacks are a network in the sense of EchoNet: no interleaving, misrouting or
\* error about an error revives an echo message that was lost or printed, answers one
\* for an address that nobody has, or answers a reply or an error (layer3.c:366-389).
THEOREM StacksImplementEchoNet == Spec => ImplementsEchoNet
  <1>1. EchoInv /\ EchoInv' /\ [Next]_vars => [Net!Next]_(Net!vars)
    BY NextEcho, Fates, FatesNext, StepMaps
  <1>2. QED
    BY <1>1, InitMaps, EchoInvariance, PTL DEF Spec, ImplementsEchoNet, Net!Spec
=============================================================================
