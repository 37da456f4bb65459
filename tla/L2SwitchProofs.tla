--------------------------- MODULE L2SwitchProofs ---------------------------
(* Theorems about module L2Switch, for every tree of switches and hosts,   *)
(* every assignment of VLANs and every bound on the commands. The tables   *)
(* are an argument m of the definitions, for a step changes them.          *)
EXTENDS L2Switch, TLAPS

-----------------------------------------------------------------------------
(* The inductive invariant *)

\* A frame of host g that comes in on interface i came along the tree, and the
\* switch that it came from has learned g.
Came(m, i, g) ==
    /\ i \in Port => g \in Behind[i]
    /\ i \in Host => g # i
    /\ Peer[i] # g => Peer[i] \in Port /\ m[Owner[Peer[i]]][g] # NoPort

\* A frame for host g that comes in on port i has not passed g, and the switch
\* knows the way.
Knows(m, i, g) == i \in Port => m[Owner[i]][g] # NoPort /\ g \notin Behind[i]

\* Only what l2_switch_flood_pkt_out mangled has no host as its source.
Sound(m, i, f) ==
    /\ f.src \in Host => Came(m, i, f.src) /\ f.dst \in Host \cup {BroadcastMac}
    /\ f.src \notin Host => f.dst = GarbledDst
    /\ f.dst \in Host => Knows(m, i, f.dst)

QueueSound(m, q) ==
    \A n \in Node : \A k \in 1..Len(q[n]) :
        Owner[q[n][k].iif] = n /\ Sound(m, q[n][k].iif, q[n][k].frame)

\* The frame in hand; it is flooded only if it is for no host.
TaskSound(m, t) ==
    t # Idle =>
        /\ Owner[t.iif] = t.node /\ Sound(m, t.iif, t.buf)
        /\ t.op \in {"forward", "flood"} /\ t.buf.src \in Host
              => m[t.node][t.buf.src] # NoPort
        /\ t.op = "flood" => t.buf.dst \notin Host /\ t.k \in 1..Len(PortSeq[t.node])

\* What a switch has learned of a host, the next switch on the way has too.
MacChain(m) ==
    \A s \in Switch, g \in Host : m[s][g] # NoPort =>
        /\ Owner[m[s][g]] = s /\ g \in Behind[m[s][g]]
        /\ Peer[m[s][g]] # g =>
              Peer[m[s][g]] \in Port /\ m[Owner[Peer[m[s][g]]]][g] # NoPort

\* A host resolves only others, and those its switch has learned.
KnownSound(m, t) ==
    \A h \in Host : \A g \in t[h] : g # h /\ m[Owner[Peer[h]]][g] # NoPort

SentFrame == [src : Host, kind : FrameKind, to : Host \cup {Nobody}, config : Nat]

\* The types of what only commands change, and of the rest
SettingsType ==
    /\ mode \in [Port -> Mode] /\ vlans \in [Port -> [1..Slots -> Tag]]
    /\ pending \in Port \cup {NoPort}
    /\ commands \in 0..MaxCommands /\ config \in Nat
    /\ was \in [Port -> SUBSET Tag]
    /\ config + (IF pending = NoPort THEN 0 ELSE 1) <= 2 * commands

NetType ==
    /\ sock \in [Node -> Seq(Datagram)] /\ ready \subseteq Node
    /\ mac \in [Switch -> [Mac -> Port \cup {NoPort}]]
    /\ known \in [Host -> SUBSET Host]
    /\ task \in Task /\ slot \in Tag
    /\ sent \in Seq(SentFrame)
    /\ heard \in [Host -> Seq(Nat)]
    /\ strays \subseteq Nat

Soundness ==
    QueueSound(mac, sock) /\ TaskSound(mac, task) /\ MacChain(mac) /\ KnownSound(mac, known)

IInv == SettingsType /\ NetType /\ Soundness

-----------------------------------------------------------------------------
(* The wiring *)

\* Every interface is linked to another, and belongs to a node.
LEMMA Links ==
    /\ \A i \in Intf : Peer[i] \in Intf /\ Owner[i] \in Node /\ Peer[Peer[i]] = i
    /\ \A p \in Port : Owner[p] \in Switch
    /\ \A h \in Host : Owner[h] = h /\ h \notin Port /\ h \notin Switch
    /\ Host \subseteq Intf /\ Port \subseteq Intf /\ Switch \subseteq Node /\ Host \subseteq Node
  BY L2Assumption DEF Intf, Node

\* An interface of a switch is a port, and the only one of a host is the host's.
LEMMA Interfaces ==
    \A i \in Intf : /\ Owner[i] \in Switch => i \in Port
                    /\ Owner[i] \in Host => i = Owner[i]
  BY Links DEF Intf

\* The port of a host leads to that host alone.
LEMMA HostPort ==
  ASSUME NEW h \in Host
  PROVE  /\ Peer[h] \in Port /\ Peer[h] # h /\ Peer[Peer[h]] = h
         /\ Behind[Peer[h]] = {h} /\ Owner[Peer[h]] \in Switch
  <1>1. Peer[h] \in Port /\ Peer[Peer[h]] = h
    BY L2Assumption, Links
  <1>2. QED
    BY <1>1, Links, TreeAssumption

\* A port that leads to a host leads to nothing else.
LEMMA PortOfHost ==
  ASSUME NEW p \in Port, Peer[p] \in Host
  PROVE  Behind[p] = {Peer[p]}
  BY TreeAssumption

\* What one port of a switch leads to, the far end of another leads back to.
LEMMA Onward ==
  ASSUME NEW p \in Port, NEW q \in Port, p # q, Owner[p] = Owner[q],
         Peer[q] \in Port, NEW g \in Behind[p]
  PROVE  g \in Behind[Peer[q]]
  <1>1. Peer[Peer[q]] = q /\ q \notin Host
    BY Links
  <1>2. Behind[Peer[q]] = UNION {Behind[r] : r \in {x \in Port \ {q} : Owner[x] = Owner[q]}}
    BY <1>1, TreeAssumption
  <1>3. p \in {x \in Port \ {q} : Owner[x] = Owner[q]}
    OBVIOUS
  <1>4. QED
    BY <1>2, <1>3

\* What a port leads to, its far end does not lead back to.
LEMMA NotBack ==
  ASSUME NEW q \in Port, Peer[q] \in Port, NEW g \in Behind[q]
  PROVE  g \notin Behind[Peer[q]]
  <1>1. Peer[Peer[q]] = q /\ q \notin Host
    BY Links
  <1>2. Behind[Peer[q]] = UNION {Behind[r] : r \in {x \in Port \ {q} : Owner[x] = Owner[q]}}
    BY <1>1, TreeAssumption
  <1>3. \A r \in Port : Owner[r] = Owner[q] /\ r # q => g \notin Behind[r]
    BY TreeAssumption
  <1>4. QED
    BY <1>2, <1>3

\* The names of a mangled frame and of all are no host's.
LEMMA Addresses ==
    /\ BroadcastMac \notin Host /\ GarbledDst \notin Host /\ GarbledSrc \notin Host
    /\ GarbledDst # BroadcastMac
    /\ Host \subseteq Mac /\ BroadcastMac \in Mac /\ GarbledDst \in Mac /\ GarbledSrc \in Mac
    /\ NoPort \notin Port
  BY L2Assumption DEF Mac

-----------------------------------------------------------------------------
(* Frames and sockets *)

LEMMA FrameFields ==
  ASSUME NEW f \in Frame
  PROVE  /\ f.kind \in FrameKind /\ f.dst \in Mac /\ f.src \in Mac
         /\ f.to \in Host \cup {Nobody} /\ f.tag \in Tag /\ f.id \in Nat
  BY DEF Frame

\* Tagging, untagging and mangling a frame leaves a frame.
LEMMA FrameEdits ==
  ASSUME NEW f \in Frame, NEW v \in Tag
  PROVE  /\ [f EXCEPT !.tag = v] \in Frame
         /\ [f EXCEPT !.tag = v].src = f.src /\ [f EXCEPT !.tag = v].dst = f.dst
         /\ Garbled(f) \in Frame
         /\ Garbled(f).src = GarbledSrc /\ Garbled(f).dst = GarbledDst
  <1>1. 0 \in Tag
    BY DEF Tag
  <1>2. QED
    BY <1>1, Addresses DEF Frame, Garbled

\* A datagram goes to the node at the other end of the link.
LEMMA DeliverType ==
  ASSUME NEW q \in [Node -> Seq(Datagram)], NEW i \in Intf, NEW f \in Frame
  PROVE  Deliver(q, i, f) \in [Node -> Seq(Datagram)]
  <1> DEFINE d == [iif |-> Peer[i], frame |-> f]
  <1>1. d \in Datagram
    BY Links DEF Datagram
  <1>2. Peer[i] \in Intf /\ Owner[Peer[i]] \in Node
    BY Links
  <1>3. Append(q[Owner[Peer[i]]], d) \in Seq(Datagram)
    BY <1>1, <1>2
  <1> HIDE DEF d
  <1>4. Deliver(q, i, f) =
          [q EXCEPT ![Owner[Peer[i]]] =
              IF Len(q[Owner[Peer[i]]]) < SockCap THEN Append(q[Owner[Peer[i]]], d)
              ELSE q[Owner[Peer[i]]]]
    BY DEF Deliver, d
  <1>5. QED
    BY <1>2, <1>3, <1>4

LEMMA DeliverSound ==
  ASSUME NEW m, NEW q \in [Node -> Seq(Datagram)], NEW i \in Intf, NEW f \in Frame,
         QueueSound(m, q), Sound(m, Peer[i], f)
  PROVE  QueueSound(m, Deliver(q, i, f))
  <1> DEFINE d == [iif |-> Peer[i], frame |-> f]
             far == Owner[Peer[i]]
  <1>1. d \in Datagram /\ far \in Node
    BY Links DEF Datagram
  <1>2. Deliver(q, i, f) =
          [q EXCEPT ![far] = IF Len(q[far]) < SockCap THEN Append(q[far], d) ELSE q[far]]
    BY DEF Deliver
  <1>3. Owner[d.iif] = far /\ Sound(m, d.iif, d.frame)
    OBVIOUS
  <1> HIDE DEF d, far
  <1> SUFFICES ASSUME NEW n \in Node, NEW k \in 1..Len(Deliver(q, i, f)[n])
               PROVE  /\ Owner[Deliver(q, i, f)[n][k].iif] = n
                      /\ Sound(m, Deliver(q, i, f)[n][k].iif, Deliver(q, i, f)[n][k].frame)
    BY DEF QueueSound
  <1>4. CASE n = far /\ Len(q[far]) < SockCap
    <2>1. Deliver(q, i, f)[n] = Append(q[far], d)
      BY <1>1, <1>2, <1>4
    <2>2. q[far] \in Seq(Datagram)
      BY <1>1
    <2>3. Append(q[far], d)[k] = d \/ (k \in 1..Len(q[far]) /\ Append(q[far], d)[k] = q[far][k])
      BY <1>1, <2>1, <2>2
    <2>4. QED
      BY <1>1, <1>3, <1>4, <2>1, <2>3 DEF QueueSound
  <1>5. CASE ~(n = far /\ Len(q[far]) < SockCap)
    <2>1. Deliver(q, i, f)[n] = q[n]
      BY <1>1, <1>2, <1>5
    <2>2. QED
      BY <2>1 DEF QueueSound
  <1>6. QED
    BY <1>4, <1>5

\* The datagram that a visit finds, and what it leaves in the socket
LEMMA Head1 ==
  ASSUME NetType, NEW n \in Node, sock[n] # <<>>, QueueSound(mac, sock)
  PROVE  /\ Head(sock[n]) \in Datagram
         /\ Head(sock[n]).iif \in Intf /\ Head(sock[n]).frame \in Frame
         /\ Owner[Head(sock[n]).iif] = n
         /\ Sound(mac, Head(sock[n]).iif, Head(sock[n]).frame)
  <1>1. sock[n] \in Seq(Datagram)
    BY DEF NetType
  <1>2. 1 \in 1..Len(sock[n]) /\ Head(sock[n]) = sock[n][1] /\ sock[n][1] \in Datagram
    BY <1>1
  <1>3. QED
    BY <1>2 DEF QueueSound, Datagram

LEMMA TakenType ==
  ASSUME NetType, NEW n \in Node, sock[n] # <<>>
  PROVE  Taken(n) \in [Node -> Seq(Datagram)]
  <1>1. sock \in [Node -> Seq(Datagram)]
    BY DEF NetType
  <1>2. sock[n] \in Seq(Datagram)
    BY <1>1
  <1>3. Tail(sock[n]) \in Seq(Datagram)
    BY <1>2
  <1>4. QED
    BY <1>1, <1>3 DEF Taken

LEMMA TakenSound ==
  ASSUME NetType, NEW n \in Node, sock[n] # <<>>, QueueSound(mac, sock)
  PROVE  QueueSound(mac, Taken(n))
  <1>1. sock \in [Node -> Seq(Datagram)]
    BY DEF NetType
  <1>2. sock[n] \in Seq(Datagram)
    BY <1>1
  <1> SUFFICES ASSUME NEW o \in Node, NEW k \in 1..Len(Taken(n)[o])
               PROVE  /\ Owner[Taken(n)[o][k].iif] = o
                      /\ Sound(mac, Taken(n)[o][k].iif, Taken(n)[o][k].frame)
    BY DEF QueueSound
  <1>3. CASE o = n
    <2>1. Taken(n)[o] = Tail(sock[n])
      BY <1>1, <1>3 DEF Taken
    <2>2. k + 1 \in 1..Len(sock[n]) /\ Tail(sock[n])[k] = sock[n][k + 1]
      BY <1>2, <2>1
    <2>3. QED
      BY <1>3, <2>1, <2>2 DEF QueueSound
  <1>4. CASE o # n
    <2>1. Taken(n)[o] = sock[o]
      BY <1>1, <1>4 DEF Taken
    <2>2. QED
      BY <2>1 DEF QueueSound
  <1>5. QED
    BY <1>3, <1>4

\* The task of the receiver thread, and the port that it names
LEMMA TaskFields ==
  ASSUME NetType, task # Idle
  PROVE  /\ task.node \in Switch /\ task.iif \in Port /\ task.buf \in Frame
         /\ task.op \in {"admit", "forward", "flood"}
         /\ task.op = "admit" => task.mode \in Mode
         /\ task.op = "flood" => task.k \in Nat \ {0} /\ task.prev \in Tag
  <1>1. task \in Task
    BY DEF NetType
  <1>2. QED
    BY <1>1 DEF Task

LEMMA NotIdle ==
    /\ Idle \in Task /\ Idle.op = "idle"
    /\ \A s \in Switch, p \in Port, f \in Frame, m \in Mode :
          /\ Admit(s, p, f, m) \in Task /\ Admit(s, p, f, m).node = s
          /\ Admit(s, p, f, m).iif = p /\ Admit(s, p, f, m).buf = f
          /\ Admit(s, p, f, m).op = "admit"
    /\ \A s \in Switch, p \in Port, f \in Frame :
          /\ Forward(s, p, f) \in Task /\ Forward(s, p, f).node = s
          /\ Forward(s, p, f).iif = p /\ Forward(s, p, f).buf = f
          /\ Forward(s, p, f).op = "forward"
    /\ \A s \in Switch, p \in Port, f \in Frame, k \in Nat \ {0}, v \in Tag :
          /\ Flood(s, p, f, k, v) \in Task /\ Flood(s, p, f, k, v).node = s
          /\ Flood(s, p, f, k, v).iif = p /\ Flood(s, p, f, k, v).buf = f
          /\ Flood(s, p, f, k, v).op = "flood" /\ Flood(s, p, f, k, v).k = k
  <1>1. Idle \in Task /\ Idle.op = "idle"
    BY DEF Task, Idle
  <1>2. ASSUME NEW s \in Switch, NEW p \in Port, NEW f \in Frame, NEW m \in Mode
        PROVE  /\ Admit(s, p, f, m) \in Task /\ Admit(s, p, f, m).node = s
               /\ Admit(s, p, f, m).iif = p /\ Admit(s, p, f, m).buf = f
               /\ Admit(s, p, f, m).op = "admit"
    BY DEF Task, Admit
  <1>3. ASSUME NEW s \in Switch, NEW p \in Port, NEW f \in Frame
        PROVE  /\ Forward(s, p, f) \in Task /\ Forward(s, p, f).node = s
               /\ Forward(s, p, f).iif = p /\ Forward(s, p, f).buf = f
               /\ Forward(s, p, f).op = "forward"
    BY DEF Task, Forward
  <1>4. ASSUME NEW s \in Switch, NEW p \in Port, NEW f \in Frame, NEW k \in Nat \ {0},
               NEW v \in Tag
        PROVE  /\ Flood(s, p, f, k, v) \in Task /\ Flood(s, p, f, k, v).node = s
               /\ Flood(s, p, f, k, v).iif = p /\ Flood(s, p, f, k, v).buf = f
               /\ Flood(s, p, f, k, v).op = "flood" /\ Flood(s, p, f, k, v).k = k
    BY DEF Task, Flood
  <1>5. QED
    BY <1>1, <1>2, <1>3, <1>4

-----------------------------------------------------------------------------
(* One hop. A frame came in on port i and leaves on another port p of the  *)
(* switch, which has learned its source. If it is for a host, p is the     *)
(* port that the table names. What it is at the far end is sound there.    *)

LEMMA Hop ==
  ASSUME NEW m, MacChain(m), NEW i \in Port, NEW p \in Port, i # p, Owner[i] = Owner[p],
         NEW f \in Frame, Sound(m, i, f), f.src \in Host => m[Owner[i]][f.src] # NoPort,
         f.dst \in Host => p = m[Owner[i]][f.dst]
  PROVE  Sound(m, Peer[p], f)
  <1>1. Peer[p] \in Intf /\ Peer[Peer[p]] = p /\ p \notin Host /\ Owner[p] \in Switch
    BY Links
  <1>2. ASSUME f.src \in Host
        PROVE  Came(m, Peer[p], f.src)
    <2>1. f.src \in Behind[i]
      BY <1>2 DEF Sound, Came
    <2>2. Peer[p] \in Port => f.src \in Behind[Peer[p]]
      BY <2>1, Onward
    <2>3. Peer[p] \in Host => f.src # Peer[p]
      <3>1. f.src \notin Behind[p]
        BY <2>1, TreeAssumption
      <3>2. QED
        BY <3>1, PortOfHost
    <2>4. m[Owner[p]][f.src] # NoPort
      BY <1>2
    <2>5. QED
      BY <1>1, <2>2, <2>3, <2>4 DEF Came
  <1>3. ASSUME f.dst \in Host, Peer[p] \in Port
        PROVE  Knows(m, Peer[p], f.dst)
    <2>1. p = m[Owner[p]][f.dst] /\ p # NoPort
      BY <1>3, Addresses
    <2>2. f.dst \in Behind[p] /\ m[Owner[Peer[p]]][f.dst] # NoPort
      <3>1. Peer[p] # f.dst
        BY <1>3, Links
      <3>2. QED
        BY <1>1, <1>3, <2>1, <3>1 DEF MacChain
    <2>3. QED
      BY <1>3, <2>2, NotBack DEF Knows
  <1>4. QED
    BY <1>2, <1>3 DEF Sound, Knows

\* What matters of a frame on its way are its addresses.
LEMMA SameAddresses ==
  ASSUME NEW m, NEW i, NEW f, NEW g, Sound(m, i, f), g.src = f.src, g.dst = f.dst
  PROVE  Sound(m, i, g)
  BY DEF Sound

LEMMA Mangled ==
  ASSUME NEW m, NEW i, NEW f \in Frame
  PROVE  Sound(m, i, Garbled(f))
  <1>1. 0 \in Tag
    BY DEF Tag
  <1>2. Garbled(f).src = GarbledSrc /\ Garbled(f).dst = GarbledDst
    BY <1>1, FrameEdits
  <1>3. QED
    BY <1>2, Addresses DEF Sound

\* A frame that the host sends, to all or to a host that its switch has learned
LEMMA Launch ==
  ASSUME NEW m, NEW h \in Host, NEW f, f.src = h,
         f.dst = BroadcastMac
         \/ (f.dst \in Host /\ f.dst # h /\ m[Owner[Peer[h]]][f.dst] # NoPort)
  PROVE  Sound(m, Peer[h], f)
  <1>1. Came(m, Peer[h], h)
    BY HostPort, Links DEF Came
  <1>2. f.dst \in Host => Knows(m, Peer[h], f.dst)
    BY HostPort, Addresses DEF Knows
  <1>3. QED
    BY <1>1, <1>2 DEF Sound

\* An entry may move to another port, and never goes away.
Grows(m, m2) ==
    \A s \in Switch, g \in Host : m[s][g] # NoPort => m2[s][g] # NoPort

LEMMA SoundGrows ==
  ASSUME NEW m, NEW m2, Grows(m, m2), NEW i \in Intf, NEW f, Sound(m, i, f)
  PROVE  Sound(m2, i, f)
  <1>1. ASSUME NEW g \in Host, Came(m, i, g)
        PROVE  Came(m2, i, g)
    BY <1>1, Links DEF Came, Grows
  <1>2. ASSUME NEW g \in Host, Knows(m, i, g)
        PROVE  Knows(m2, i, g)
    BY <1>2, Links DEF Knows, Grows
  <1>3. QED
    BY <1>1, <1>2 DEF Sound

LEMMA QueueGrows ==
  ASSUME NEW m, NEW m2, Grows(m, m2), NEW q \in [Node -> Seq(Datagram)], QueueSound(m, q)
  PROVE  QueueSound(m2, q)
  <1> SUFFICES ASSUME NEW n \in Node, NEW k \in 1..Len(q[n])
               PROVE  Owner[q[n][k].iif] = n /\ Sound(m2, q[n][k].iif, q[n][k].frame)
    BY DEF QueueSound
  <1>1. q[n] \in Seq(Datagram)
    OBVIOUS
  <1>2. q[n][k] \in Datagram
    BY <1>1
  <1>3. q[n][k].iif \in Intf
    BY <1>2 DEF Datagram
  <1>4. Owner[q[n][k].iif] = n /\ Sound(m, q[n][k].iif, q[n][k].frame)
    BY DEF QueueSound
  <1>5. QED
    BY <1>3, <1>4, SoundGrows

-----------------------------------------------------------------------------
(* The switch *)

LEMMA AdmitFrameKeeps ==
  ASSUME IInv, NEW s \in Switch, AdmitFrame(s)
  PROVE  NetType' /\ Soundness'
  <1> DEFINE d == Head(sock[s])
  <1>1. sock[s] # <<>> /\ task' = Admit(s, d.iif, d.frame, mode[d.iif]) /\ sock' = Taken(s)
    BY DEF AdmitFrame, Visits
  <1>2. mac' = mac /\ known' = known /\ slot' = slot /\ sent' = sent /\ heard' = heard
        /\ strays' = strays /\ ready' = ready \ {s}
    BY DEF AdmitFrame, Consume
  <1>3. NetType /\ Soundness /\ SettingsType /\ s \in Node /\ QueueSound(mac, sock)
    BY Links DEF IInv, Soundness
  <1>4. d.iif \in Intf /\ d.frame \in Frame /\ Owner[d.iif] = s /\ Sound(mac, d.iif, d.frame)
    BY <1>1, <1>3, Head1
  <1>5. d.iif \in Port /\ mode[d.iif] \in Mode
    BY <1>3, <1>4, Interfaces DEF SettingsType
  <1> HIDE DEF d
  <1>6. task' \in Task /\ task'.node = s /\ task'.iif = d.iif /\ task'.buf = d.frame
        /\ task'.op = "admit"
    BY <1>1, <1>4, <1>5, NotIdle
  <1>7. NetType'
    BY <1>1, <1>2, <1>3, <1>6, TakenType DEF NetType
  <1>8. QueueSound(mac', sock')
    BY <1>1, <1>2, <1>3, TakenSound
  <1>9. TaskSound(mac', task')
    BY <1>2, <1>4, <1>6 DEF TaskSound
  <1>10. QED
    BY <1>2, <1>3, <1>7, <1>8, <1>9 DEF Soundness

\* What the branches of l2_switch_recv_frame have in common
LEMMA LearnKeeps ==
  ASSUME IInv, task # Idle, NEW v \in Tag, LearnAndForward(v), slot' \in Tag,
         strays' \subseteq Nat
  PROVE  NetType' /\ Soundness'
  <1> DEFINE s == task.node
             a == task.buf.src
             f == Tagged(task.buf, v)
  <1>1. NetType /\ MacChain(mac) /\ KnownSound(mac, known) /\ QueueSound(mac, sock)
        /\ TaskSound(mac, task)
    BY DEF IInv, Soundness
  <1>2. s \in Switch /\ task.iif \in Port /\ task.buf \in Frame /\ a \in Mac
    BY <1>1, TaskFields, FrameFields
  <1>3. Owner[task.iif] = s /\ Sound(mac, task.iif, task.buf)
    BY <1>1 DEF TaskSound
  <1>4. f \in Frame /\ f.src = a /\ f.dst = task.buf.dst
    BY <1>2, FrameEdits DEF Tagged
  <1>5. mac \in [Switch -> [Mac -> Port \cup {NoPort}]]
    BY <1>1 DEF NetType
  <1>6. mac' = [mac EXCEPT ![s][a] = task.iif] /\ task' = Forward(s, task.iif, f)
        /\ sock' = sock /\ ready' = ready /\ known' = known /\ sent' = sent /\ heard' = heard
    BY DEF LearnAndForward
  <1>7. a \in Host => Came(mac, task.iif, a)
    BY <1>3 DEF Sound
  <1> HIDE DEF s, a, f
  <1>8. /\ mac' \in [Switch -> [Mac -> Port \cup {NoPort}]]
        /\ mac'[s][a] = task.iif
        /\ \A t \in Switch, g \in Mac : mac'[t][g] = mac[t][g] \/ (t = s /\ g = a)
    BY <1>2, <1>5, <1>6
  <1>9. Grows(mac, mac')
    BY <1>2, <1>8, Addresses DEF Grows
  <1>10. task' \in Task /\ task'.node = s /\ task'.iif = task.iif /\ task'.buf = f
         /\ task'.op = "forward"
    BY <1>2, <1>4, <1>6, NotIdle
  <1>11. NetType'
    BY <1>1, <1>6, <1>8, <1>10 DEF NetType
  <1>12. QueueSound(mac', sock')
    <2>1. sock \in [Node -> Seq(Datagram)]
      BY <1>1 DEF NetType
    <2>2. QED
      BY <1>1, <1>6, <1>9, <2>1, QueueGrows
  <1>13. TaskSound(mac', task')
    <2>1. Sound(mac', task.iif, task.buf)
      BY <1>2, <1>3, <1>9, SoundGrows, Links
    <2>2. Sound(mac', task.iif, f)
      BY <1>4, <2>1, SameAddresses DEF a
    <2>3. QED
      BY <1>2, <1>3, <1>4, <1>8, <1>10, <2>2, Addresses DEF TaskSound
  <1>14. MacChain(mac')
    <2> SUFFICES ASSUME NEW t \in Switch, NEW g \in Host, mac'[t][g] # NoPort
                 PROVE  /\ Owner[mac'[t][g]] = t /\ g \in Behind[mac'[t][g]]
                        /\ Peer[mac'[t][g]] # g =>
                              Peer[mac'[t][g]] \in Port
                              /\ mac'[Owner[Peer[mac'[t][g]]]][g] # NoPort
      BY DEF MacChain
    <2>1. CASE t = s /\ g = a
      <3>1. mac'[t][g] = task.iif /\ Came(mac, task.iif, g)
        BY <1>7, <1>8, <2>1
      <3>2. QED
        BY <1>2, <1>3, <1>9, <2>1, <3>1, Links DEF Came, Grows
    <2>2. CASE ~(t = s /\ g = a)
      <3>1. mac'[t][g] = mac[t][g]
        BY <1>8, <2>2, Addresses
      <3>2. /\ Owner[mac[t][g]] = t /\ g \in Behind[mac[t][g]]
            /\ Peer[mac[t][g]] # g =>
                  Peer[mac[t][g]] \in Port /\ mac[Owner[Peer[mac[t][g]]]][g] # NoPort
        BY <1>1, <3>1 DEF MacChain
      <3>3. QED
        BY <1>9, <3>1, <3>2, Links DEF Grows
    <2>3. QED
      BY <2>1, <2>2
  <1>15. KnownSound(mac', known')
    <2> SUFFICES ASSUME NEW h \in Host, NEW g \in known[h]
                 PROVE  g # h /\ mac'[Owner[Peer[h]]][g] # NoPort
      BY <1>6 DEF KnownSound
    <2>1. g \in Host
      BY <1>1 DEF NetType
    <2>2. g # h /\ mac[Owner[Peer[h]]][g] # NoPort /\ Owner[Peer[h]] \in Switch
      BY <1>1, HostPort DEF KnownSound
    <2>3. QED
      BY <1>9, <2>1, <2>2 DEF Grows
  <1>16. QED
    BY <1>11, <1>12, <1>13, <1>14, <1>15 DEF Soundness

LEMMA AdmissionKeeps ==
  ASSUME IInv, AccessRecv \/ TrunkRecv \/ StrayRecv \/ SwitchRefuse
  PROVE  NetType' /\ Soundness'
  <1>1. NetType /\ Soundness /\ SettingsType
    BY DEF IInv
  <1>2. task # Idle
    BY NotIdle DEF AccessRecv, TrunkRecv, StrayRecv, SwitchRefuse, QualifiesAccess,
                   QualifiesTrunk, QualifiesStray
  <1>3. task.iif \in Port /\ task.buf \in Frame /\ slot \in Tag /\ strays \subseteq Nat
    BY <1>1, <1>2, TaskFields DEF NetType
  <1>4. CASE AccessRecv
    <2>1. 1 \in 1..Slots
      BY L2Assumption
    <2>2. AccessVlan(task.iif) \in Tag
      <3>1. vlans[task.iif] \in [1..Slots -> Tag] /\ 0 \in Tag
        BY <1>1, <1>3 DEF SettingsType, Tag
      <3>2. vlans[task.iif][1] \in Tag
        BY <2>1, <3>1
      <3>3. QED
        BY <3>1, <3>2 DEF AccessVlan
    <2>3. QED
      BY <1>2, <1>3, <1>4, <2>2, LearnKeeps DEF AccessRecv
  <1>5. CASE TrunkRecv
    BY <1>2, <1>3, <1>5, LearnKeeps DEF TrunkRecv
  <1>6. CASE StrayRecv
    <2>1. task.buf.id \in Nat
      BY <1>3, FrameFields
    <2>2. QED
      BY <1>2, <1>3, <1>6, <2>1, LearnKeeps DEF StrayRecv
  <1>7. CASE SwitchRefuse
    <2>1. task' = Idle /\ UNCHANGED <<sock, ready, mac, known, slot, sent, heard, strays>>
      BY <1>7 DEF SwitchRefuse
    <2>2. NetType'
      BY <1>1, <2>1, NotIdle DEF NetType
    <2>3. QED
      BY <1>1, <2>1, <2>2 DEF Soundness, TaskSound
  <1>8. QED
    BY <1>4, <1>5, <1>6, <1>7

\* What leaves on a port is the frame, perhaps without its tag.
LEMMA OutKeeps ==
  ASSUME IInv, NEW f \in Frame, NEW p \in Port, NEW v, SendOut(f, p, v),
         Sound(mac, Peer[p], f)
  PROVE  sock' \in [Node -> Seq(Datagram)] /\ QueueSound(mac, sock')
  <1>1. sock \in [Node -> Seq(Datagram)] /\ QueueSound(mac, sock)
    BY DEF IInv, Soundness, NetType
  <1>2. 0 \in Tag /\ p \in Intf
    BY Links DEF Tag
  <1>3. OutFrame(f, p) \in Frame /\ OutFrame(f, p).src = f.src /\ OutFrame(f, p).dst = f.dst
    BY <1>2, FrameEdits DEF OutFrame
  <1>4. Sound(mac, Peer[p], OutFrame(f, p))
    BY <1>3, SameAddresses
  <1>5. sock' = sock \/ sock' = Deliver(sock, p, OutFrame(f, p))
    BY DEF SendOut
  <1>6. QED
    BY <1>1, <1>2, <1>3, <1>4, <1>5, DeliverType, DeliverSound

LEMMA ForwardKeeps ==
  ASSUME IInv, ForwardKnown \/ ForwardUnknown
  PROVE  NetType' /\ Soundness'
  <1> DEFINE f == task.buf
             s == task.node
  <1>1. NetType /\ Soundness /\ MacChain(mac) /\ TaskSound(mac, task)
    BY DEF IInv, Soundness
  <1>2. task # Idle /\ task.op = "forward"
    BY NotIdle DEF ForwardKnown, ForwardUnknown
  <1>3. s \in Switch /\ task.iif \in Port /\ f \in Frame /\ f.dst \in Mac
    BY <1>1, <1>2, TaskFields, FrameFields
  <1>4. /\ Owner[task.iif] = s /\ Sound(mac, task.iif, f)
        /\ f.src \in Host => mac[s][f.src] # NoPort
    BY <1>1, <1>2 DEF TaskSound
  <1>5. mac \in [Switch -> [Mac -> Port \cup {NoPort}]]
    BY <1>1 DEF NetType
  <1>6. CASE ForwardKnown
    <2> DEFINE p == mac[s][f.dst]
    <2>1. f.dst # BroadcastMac /\ p # NoPort /\ PortFor(f) = p
      BY <1>6 DEF ForwardKnown, PortFor
    <2>2. p \in Port
      BY <1>3, <1>5, <2>1
    <2>3. Sound(mac, Peer[p], f)
      <3>1. CASE f.dst \in Host
        <4>1. Owner[p] = s /\ f.dst \in Behind[p]
          BY <1>1, <1>3, <2>1, <3>1 DEF MacChain
        <4>2. f.dst \notin Behind[task.iif]
          BY <1>3, <1>4, <3>1 DEF Sound, Knows
        <4> HIDE DEF s, f, p
        <4>3. p # task.iif
          BY <4>1, <4>2
        <4>4. QED
          BY <1>1, <1>3, <1>4, <2>2, <4>1, <4>3, Hop DEF p
      <3>2. CASE f.dst \notin Host
        BY <1>4, <2>1, <3>2 DEF Sound
      <3>3. QED
        BY <3>1, <3>2
    <2>4. SendOut(f, p, 0) /\ task' = Idle
          /\ UNCHANGED <<ready, mac, known, slot, sent, heard, strays>>
      BY <1>6, <2>1 DEF ForwardKnown
    <2> HIDE DEF s, f, p
    <2>5. sock' \in [Node -> Seq(Datagram)] /\ QueueSound(mac, sock')
      BY <1>3, <2>2, <2>3, <2>4, OutKeeps
    <2>6. NetType'
      BY <1>1, <2>4, <2>5, NotIdle DEF NetType
    <2>7. QED
      BY <1>1, <2>4, <2>5, <2>6 DEF Soundness, TaskSound
  <1>7. CASE ForwardUnknown
    <2>1. /\ UNCHANGED <<sock, ready, mac, known, slot, sent, heard, strays>>
          /\ PortFor(f) = NoPort
          /\ task' = IF PortSeq[s] = <<>> THEN Idle ELSE Flood(s, task.iif, f, 1, 0)
      BY <1>7 DEF ForwardUnknown
    <2>2. f.dst \notin Host
      <3>1. ASSUME f.dst \in Host
            PROVE  mac[s][f.dst] # NoPort
        BY <1>3, <1>4, <3>1 DEF Sound, Knows
      <3>2. QED
        BY <2>1, <3>1, Addresses DEF PortFor
    <2> HIDE DEF s, f
    <2>3. 0 \in Tag /\ PortSeq[s] \in Seq(Port)
      BY <1>3, L2Assumption DEF Tag
    <2>4. CASE PortSeq[s] = <<>>
      <3>1. task' = Idle
        BY <2>1, <2>4
      <3>2. NetType'
        BY <1>1, <2>1, <3>1, NotIdle DEF NetType
      <3>3. QED
        BY <1>1, <2>1, <3>1, <3>2 DEF Soundness, TaskSound
    <2>5. CASE PortSeq[s] # <<>>
      <3>1. task' = Flood(s, task.iif, f, 1, 0) /\ 1 \in 1..Len(PortSeq[s])
        BY <2>1, <2>3, <2>5
      <3>2. task' \in Task /\ task'.node = s /\ task'.iif = task.iif /\ task'.buf = f
            /\ task'.op = "flood" /\ task'.k = 1
        BY <1>3, <2>3, <3>1, NotIdle
      <3>3. NetType'
        BY <1>1, <2>1, <3>2 DEF NetType
      <3>4. TaskSound(mac', task')
        BY <1>4, <2>1, <2>2, <3>1, <3>2 DEF TaskSound
      <3>5. QED
        BY <1>1, <2>1, <3>3, <3>4 DEF Soundness
    <2>6. QED
      BY <2>4, <2>5
  <1>8. QED
    BY <1>6, <1>7

\* The flood goes on with the frame, or with what is left of it.
LEMMA FloodNextKeeps ==
  ASSUME IInv, task.op = "flood", NEW f \in Frame, NEW v \in Tag, FloodNext(f, v),
         f = task.buf \/ f = Garbled(task.buf)
  PROVE  task' \in Task /\ TaskSound(mac, task')
  <1> DEFINE s == task.node
  <1>1. NetType /\ TaskSound(mac, task) /\ task # Idle
    BY NotIdle DEF IInv, Soundness
  <1>2. s \in Switch /\ task.iif \in Port /\ task.buf \in Frame /\ task.k \in Nat \ {0}
    BY <1>1, TaskFields
  <1>3. /\ Owner[task.iif] = s /\ Sound(mac, task.iif, task.buf)
        /\ task.buf.src \in Host => mac[s][task.buf.src] # NoPort
        /\ task.buf.dst \notin Host /\ task.k \in 1..Len(PortSeq[s])
    BY <1>1 DEF TaskSound
  <1>4. /\ Sound(mac, task.iif, f) /\ f.dst \notin Host
        /\ f.src \in Host => mac[s][f.src] # NoPort
    <2>1. CASE f = Garbled(task.buf)
      <3>1. 0 \in Tag
        BY DEF Tag
      <3>2. Sound(mac, task.iif, f) /\ f.src = GarbledSrc /\ f.dst = GarbledDst
        BY <1>2, <2>1, <3>1, Mangled, FrameEdits
      <3>3. QED
        BY <3>2, Addresses
    <2>2. QED
      BY <1>3, <2>1
  <1>5. task' = IF task.k = Len(PortSeq[s]) THEN Idle
                ELSE Flood(s, task.iif, f, task.k + 1, v)
    BY DEF FloodNext
  <1> HIDE DEF s
  <1>6. CASE task.k = Len(PortSeq[s])
    BY <1>5, <1>6, NotIdle DEF TaskSound
  <1>7. CASE task.k # Len(PortSeq[s])
    <2>1. PortSeq[s] \in Seq(Port)
      BY <1>2, L2Assumption
    <2>2. task.k + 1 \in 1..Len(PortSeq[s]) /\ task.k + 1 \in Nat \ {0}
      BY <1>2, <1>3, <1>7, <2>1
    <2>3. task' \in Task /\ task'.node = s /\ task'.iif = task.iif /\ task'.buf = f
          /\ task'.op = "flood" /\ task'.k = task.k + 1
      BY <1>2, <1>5, <1>7, <2>2, NotIdle
    <2>4. QED
      BY <1>3, <1>4, <2>2, <2>3 DEF TaskSound
  <1>8. QED
    BY <1>6, <1>7

LEMMA FloodKeeps ==
  ASSUME IInv, FloodSend \/ FloodSkip
  PROVE  NetType' /\ Soundness'
  <1> DEFINE s == task.node
             f == task.buf
             p == PortSeq[s][task.k]
  <1>1. NetType /\ Soundness /\ MacChain(mac) /\ TaskSound(mac, task)
    BY DEF IInv, Soundness
  <1>2. task # Idle /\ task.op = "flood"
    BY NotIdle DEF FloodSend, FloodSkip
  <1>3. s \in Switch /\ task.iif \in Port /\ f \in Frame /\ f.tag \in Tag /\ task.prev \in Tag
    BY <1>1, <1>2, TaskFields, FrameFields
  <1>4. /\ Owner[task.iif] = s /\ Sound(mac, task.iif, f)
        /\ f.src \in Host => mac[s][f.src] # NoPort
        /\ f.dst \notin Host /\ task.k \in 1..Len(PortSeq[s])
    BY <1>1, <1>2 DEF TaskSound
  <1>5. p \in Port /\ Owner[p] = s
    <2>1. PortSeq[s] \in Seq(Port)
      BY <1>3, L2Assumption
    <2>2. QED
      BY <1>3, <1>4, <2>1, L2Assumption
  <1>6. CASE FloodSend
    <2> DEFINE g == LeftInBuffer(f, p, task.prev)
               v == VlanIdOf(f, task.prev)
    <2>1. /\ p # task.iif /\ SendOut(f, p, task.prev) /\ FloodNext(g, v)
          /\ UNCHANGED <<ready, mac, known, slot, sent, heard, strays>>
      BY <1>6 DEF FloodSend
    <2>2. g \in Frame /\ (g = f \/ g = Garbled(f)) /\ v \in Tag
      BY <1>3, FrameEdits DEF LeftInBuffer, VlanIdOf
    <2> HIDE DEF g, v
    <2>3. task' \in Task /\ TaskSound(mac, task')
      BY <1>2, <2>1, <2>2, FloodNextKeeps
    <2> HIDE DEF f, s, p
    <2>4. Sound(mac, Peer[p], f)
      BY <1>1, <1>3, <1>4, <1>5, <2>1, Hop
    <2>5. sock' \in [Node -> Seq(Datagram)] /\ QueueSound(mac, sock')
      BY <1>3, <1>5, <2>1, <2>4, OutKeeps
    <2>6. NetType'
      BY <1>1, <2>1, <2>3, <2>5 DEF NetType
    <2>7. QED
      BY <1>1, <2>1, <2>3, <2>5, <2>6 DEF Soundness
  <1>7. CASE FloodSkip
    <2>1. /\ FloodNext(f, task.prev)
          /\ UNCHANGED <<sock, ready, mac, known, slot, sent, heard, strays>>
      BY <1>7 DEF FloodSkip
    <2>2. task' \in Task /\ TaskSound(mac, task')
      BY <1>2, <1>3, <2>1, FloodNextKeeps
    <2>3. NetType'
      BY <1>1, <2>1, <2>2 DEF NetType
    <2>4. QED
      BY <1>1, <2>1, <2>2, <2>3 DEF Soundness
  <1>8. QED
    BY <1>6, <1>7

-----------------------------------------------------------------------------
(* The hosts *)

\* What a host sends
LEMMA TransmitKeeps ==
  ASSUME IInv, NEW q \in [Node -> Seq(Datagram)], QueueSound(mac, q), NEW h \in Host,
         NEW kind \in FrameKind, NEW dst \in Mac, NEW to \in Host \cup {Nobody},
         Transmit(q, h, kind, dst, to),
         dst = BroadcastMac
         \/ (dst \in Host /\ dst # h /\ mac[Owner[Peer[h]]][dst] # NoPort)
  PROVE  /\ sock' \in [Node -> Seq(Datagram)] /\ QueueSound(mac, sock')
         /\ sent' \in Seq(SentFrame)
  <1> DEFINE f == [kind |-> kind, dst |-> dst, src |-> h, to |-> to, tag |-> 0,
                   id |-> Len(sent) + 1]
             r == [src |-> h, kind |-> kind, to |-> to, config |-> config]
  <1>1. sent \in Seq(SentFrame) /\ config \in Nat
    BY DEF IInv, NetType, SettingsType
  <1>2. f \in Frame /\ f.src = h /\ f.dst = dst
    <2>1. Len(sent) + 1 \in Nat /\ 0 \in Tag /\ h \in Mac
      BY <1>1, Addresses DEF Tag
    <2>2. QED
      BY <2>1 DEF Frame
  <1>3. r \in SentFrame
    BY <1>1 DEF SentFrame
  <1>4. sock' = Deliver(q, h, f) /\ sent' = Append(sent, r)
    BY DEF Transmit
  <1> HIDE DEF f, r
  <1>5. Sound(mac, Peer[h], f)
    BY <1>2, Launch
  <1>6. h \in Intf
    BY Links
  <1>7. sock' \in [Node -> Seq(Datagram)]
    BY <1>2, <1>4, <1>6, DeliverType
  <1>8. QueueSound(mac, sock')
    BY <1>2, <1>4, <1>5, <1>6, DeliverSound
  <1>9. QED
    BY <1>1, <1>3, <1>4, <1>7, <1>8

\* A frame that a host accepts came from another host, which its switch has learned.
LEMMA Heard ==
  ASSUME IInv, NEW h \in Host, sock[h] # <<>>, QualifiesL3(h, Head(sock[h]).frame)
  PROVE  LET f == Head(sock[h]).frame
         IN  /\ f \in Frame /\ f.src \in Host /\ f.src # h
             /\ mac[Owner[Peer[h]]][f.src] # NoPort
  <1> DEFINE d == Head(sock[h])
  <1>1. /\ d.iif \in Intf /\ d.frame \in Frame /\ Owner[d.iif] = h
        /\ Sound(mac, d.iif, d.frame)
    BY Links, Head1 DEF IInv, Soundness
  <1>2. d.iif = h
    BY <1>1, Interfaces
  <1>3. d.frame.dst # GarbledDst
    BY Addresses DEF QualifiesL3
  <1>4. d.frame.src \in Host /\ Came(mac, h, d.frame.src)
    BY <1>1, <1>2, <1>3 DEF Sound
  <1> HIDE DEF d
  <1>5. d.frame.src # h /\ mac[Owner[Peer[h]]][d.frame.src] # NoPort
    BY <1>4, HostPort, Links DEF Came
  <1>6. QED
    BY <1>1, <1>4, <1>5 DEF d

LEMMA HearsKeeps ==
  ASSUME IInv, NEW h \in Host, NEW kind, Hears(h, kind)
  PROVE  /\ heard' \in [Host -> Seq(Nat)] /\ ready' \subseteq Node
         /\ sock[h] # <<>> /\ QualifiesL3(h, Head(sock[h]).frame)
         /\ UNCHANGED <<settings, mac, task, slot, strays>>
  <1>1. sock[h] # <<>> /\ QualifiesL3(h, Head(sock[h]).frame)
    BY DEF Hears, Visits
  <1>2. Head(sock[h]).frame.id \in Nat
    BY <1>1, Heard, FrameFields
  <1>3. heard \in [Host -> Seq(Nat)] /\ ready \subseteq Node
    BY DEF IInv, NetType
  <1>4. /\ heard' = [heard EXCEPT ![h] = Append(@, Head(sock[h]).frame.id)]
        /\ ready' = ready \ {h}
    BY DEF Hears, Consume
  <1>5. QED
    BY <1>1, <1>2, <1>3, <1>4 DEF Hears

\* What a host does with a frame that it accepts leaves the network sound, if the
\* socket it sends on, its own table and the history are.
LEMMA HostKeeps ==
  ASSUME IInv, NEW h \in Host, NEW kind, Hears(h, kind),
         sock' \in [Node -> Seq(Datagram)], QueueSound(mac, sock'),
         sent' \in Seq(SentFrame), known' \in [Host -> SUBSET Host], KnownSound(mac, known')
  PROVE  NetType' /\ Soundness'
  <1>1. /\ heard' \in [Host -> Seq(Nat)] /\ ready' \subseteq Node
        /\ UNCHANGED <<mac, task, slot, strays>>
    BY HearsKeeps
  <1>2. NetType'
    BY <1>1 DEF IInv, NetType
  <1>3. QED
    BY <1>1, <1>2 DEF IInv, Soundness

LEMMA HostStepKeeps ==
  ASSUME IInv, HostStep
  PROVE  NetType' /\ Soundness'
  <1> PICK h \in Host : \/ HostRecvRequest(h) \/ HostRecvReply(h) \/ HostRecvEcho(h)
                        \/ HostRecvEchoReply(h) \/ HostRefuse(h)
    BY DEF HostStep
  <1> DEFINE f == Head(sock[h]).frame
  <1>1. NetType /\ Soundness /\ h \in Node /\ QueueSound(mac, sock)
        /\ known \in [Host -> SUBSET Host] /\ KnownSound(mac, known)
        /\ sent \in Seq(SentFrame)
    BY Links DEF IInv, Soundness, NetType
  <1>2. ASSUME sock[h] # <<>>
        PROVE  Taken(h) \in [Node -> Seq(Datagram)] /\ QueueSound(mac, Taken(h))
    BY <1>1, <1>2, TakenType, TakenSound
  <1>3. ASSUME NEW kind, Hears(h, kind)
        PROVE  /\ f \in Frame /\ f.src \in Host /\ f.src \in Mac /\ f.src # h
               /\ mac[Owner[Peer[h]]][f.src] # NoPort /\ BroadcastMac \in Mac
               /\ Taken(h) \in [Node -> Seq(Datagram)] /\ QueueSound(mac, Taken(h))
    BY <1>2, <1>3, HearsKeeps, Heard, Addresses
  <1>4. CASE HostRecvRequest(h)
    <2>1. Hears(h, "arpRequest") /\ known' = known
      BY <1>4 DEF HostRecvRequest
    <2>2. \/ Transmit(Taken(h), h, "arpReply", f.src, f.src)
          \/ sock' = Taken(h) /\ sent' = sent
      BY <1>4 DEF HostRecvRequest
    <2>3. "arpReply" \in FrameKind
      BY DEF FrameKind
    <2> HIDE DEF f
    <2>4. sock' \in [Node -> Seq(Datagram)] /\ QueueSound(mac, sock') /\ sent' \in Seq(SentFrame)
      BY <1>1, <1>3, <2>1, <2>2, <2>3, TransmitKeeps
    <2>5. QED
      BY <1>1, <2>1, <2>4, HostKeeps
  <1>5. CASE HostRecvReply(h)
    <2>1. /\ Hears(h, "arpReply") /\ known' = [known EXCEPT ![h] = @ \cup {f.src}]
          /\ sock' = Taken(h) /\ sent' = sent
      BY <1>5 DEF HostRecvReply
    <2> HIDE DEF f
    <2>2. known' \in [Host -> SUBSET Host] /\ KnownSound(mac, known')
      BY <1>1, <1>3, <2>1 DEF KnownSound
    <2>3. QED
      BY <1>1, <1>3, <2>1, <2>2, HostKeeps
  <1>6. CASE HostRecvEcho(h)
    <2>1. Hears(h, "echo") /\ known' = known
      BY <1>6 DEF HostRecvEcho
    <2>2. \/ Transmit(Taken(h), h, "reply", f.src, f.src)
          \/ Transmit(Taken(h), h, "arpRequest", BroadcastMac, f.src)
      BY <1>6 DEF HostRecvEcho
    <2>3. "reply" \in FrameKind /\ "arpRequest" \in FrameKind
      BY DEF FrameKind
    <2> HIDE DEF f
    <2>4. sock' \in [Node -> Seq(Datagram)] /\ QueueSound(mac, sock') /\ sent' \in Seq(SentFrame)
      BY <1>1, <1>3, <2>1, <2>2, <2>3, TransmitKeeps
    <2>5. QED
      BY <1>1, <2>1, <2>4, HostKeeps
  <1>7. CASE HostRecvEchoReply(h)
    <2>1. Hears(h, "reply") /\ known' = known /\ sock' = Taken(h) /\ sent' = sent
      BY <1>7 DEF HostRecvEchoReply
    <2>2. QED
      BY <1>1, <1>3, <2>1, HostKeeps
  <1>8. CASE HostRefuse(h)
    <2>1. /\ sock[h] # <<>> /\ sock' = Taken(h) /\ ready' = ready \ {h}
          /\ UNCHANGED <<mac, known, task, slot, sent, heard, strays>>
      BY <1>8 DEF HostRefuse, Visits, Consume
    <2>2. NetType'
      BY <1>1, <1>2, <2>1 DEF NetType
    <2>3. QED
      BY <1>1, <1>2, <2>1, <2>2 DEF Soundness
  <1>9. QED
    BY <1>4, <1>5, <1>6, <1>7, <1>8

-----------------------------------------------------------------------------
(* The commands *)

LEMMA AskKeeps ==
  ASSUME IInv, \/ \E c \in ArpCommands : ResolveArp(c[1], c[2])
               \/ \E c \in PingCommands : PingHost(c[1], c[2])
  PROVE  IInv'
  <1>1. /\ NetType /\ Soundness /\ SettingsType /\ QueueSound(mac, sock)
        /\ KnownSound(mac, known) /\ sock \in [Node -> Seq(Datagram)]
        /\ known \in [Host -> SUBSET Host]
    BY DEF IInv, Soundness, NetType
  <1>2. /\ Prompt /\ UNCHANGED <<ready, mac, mode, vlans, pending, known, task, slot, config,
                                 heard, was, strays>>
    BY DEF ResolveArp, PingHost
  <1>3. sock' \in [Node -> Seq(Datagram)] /\ QueueSound(mac, sock') /\ sent' \in Seq(SentFrame)
    <2>1. CASE \E c \in ArpCommands : ResolveArp(c[1], c[2])
      <3>1. PICK c \in ArpCommands : ResolveArp(c[1], c[2])
        BY <2>1
      <3>2. c[1] \in Host /\ c[2] \in Host \cup {Nobody}
        BY L2Assumption
      <3>3. Transmit(sock, c[1], "arpRequest", BroadcastMac, c[2])
            /\ "arpRequest" \in FrameKind
        BY <3>1 DEF ResolveArp, FrameKind
      <3>4. QED
        BY <1>1, <3>2, <3>3, Addresses, TransmitKeeps
    <2>2. CASE \E c \in PingCommands : PingHost(c[1], c[2])
      <3>1. PICK c \in PingCommands : PingHost(c[1], c[2])
        BY <2>2
      <3>2. c[1] \in Host /\ c[2] \in Host /\ c[2] \in Mac /\ c[2] \in known[c[1]]
        BY <3>1, L2Assumption, Addresses DEF PingHost
      <3>3. c[2] # c[1] /\ mac[Owner[Peer[c[1]]]][c[2]] # NoPort
        BY <1>1, <3>2 DEF KnownSound
      <3>4. Transmit(sock, c[1], "echo", c[2], c[2]) /\ "echo" \in FrameKind
        BY <3>1 DEF PingHost, FrameKind
      <3>5. QED
        BY <1>1, <3>2, <3>3, <3>4, TransmitKeeps
    <2>3. QED
      BY <2>1, <2>2
  <1>4. NetType' /\ Soundness'
    BY <1>1, <1>2, <1>3 DEF NetType, Soundness
  <1>5. SettingsType'
    <2>1. commands < MaxCommands /\ commands' = commands + 1 /\ MaxCommands \in Nat
          /\ mode' = mode /\ vlans' = vlans /\ pending' = pending /\ config' = config
          /\ was' = was
      BY <1>2, L2Assumption DEF Prompt
    <2>2. QED
      BY <1>1, <2>1 DEF SettingsType
  <1>6. QED
    BY <1>4, <1>5 DEF IInv

LEMMA MemberType ==
  ASSUME NEW m \in Mode, NEW v \in [1..Slots -> Tag]
  PROVE  Member(m, v) \subseteq Tag
  <1>1. 1 \in 1..Slots
    BY L2Assumption
  <1>2. QED
    BY <1>1 DEF Member, Range1

\* One configuration step: the network is left alone, and the bound on the steps
\* is kept if the counts are as after a whole command or the first half of one.
LEMMA ConfigureKeeps ==
  ASSUME IInv, NEW p \in Port, NEW m \in Mode, NEW v \in [1..Slots -> Tag], Configure(p, m,
  v),
         pending' \in Port \cup {NoPort}, commands' \in 0..MaxCommands,
         config + 1 + (IF pending' = NoPort THEN 0 ELSE 1) <= 2 * commands'
  PROVE  IInv'
  <1>1. NetType /\ Soundness /\ SettingsType
    BY DEF IInv
  <1>2. /\ config' = config + 1 /\ mode' = [mode EXCEPT ![p] = m]
        /\ vlans' = [vlans EXCEPT ![p] = v] /\ was' = [was EXCEPT ![p] = @ \cup Member(m, v)]
        /\ UNCHANGED <<sock, ready, mac, known, task, slot, sent, heard, strays>>
    BY DEF Configure
  <1>3. NetType' /\ Soundness'
    BY <1>1, <1>2 DEF NetType, Soundness
  <1>4. SettingsType'
    <2>1. mode' \in [Port -> Mode] /\ vlans' \in [Port -> [1..Slots -> Tag]] /\ config' \in Nat
      BY <1>1, <1>2 DEF SettingsType
    <2>2. was' \in [Port -> SUBSET Tag]
      <3>1. Member(m, v) \subseteq Tag
        BY MemberType
      <3>2. was \in [Port -> SUBSET Tag]
        BY <1>1 DEF SettingsType
      <3>3. QED
        BY <1>2, <3>1, <3>2
    <2>3. config' + (IF pending' = NoPort THEN 0 ELSE 1) <= 2 * commands'
      BY <1>2
    <2>4. QED
      BY <2>1, <2>2, <2>3 DEF SettingsType
  <1>5. QED
    BY <1>3, <1>4 DEF IInv

\* The counts after a command whose first step has pending port q
LEMMA Counts ==
  ASSUME IInv, Prompt, NEW q
  PROVE  /\ commands' \in 0..MaxCommands
         /\ config + 1 + (IF q = NoPort THEN 0 ELSE 1) <= 2 * commands'
  <1>1. /\ commands \in 0..MaxCommands /\ config \in Nat /\ MaxCommands \in Nat
        /\ pending = NoPort /\ config + (IF pending = NoPort THEN 0 ELSE 1) <= 2 * commands
        /\ commands < MaxCommands /\ commands' = commands + 1
    BY L2Assumption DEF IInv, SettingsType, Prompt
  <1>2. QED
    BY <1>1

LEMMA ConfigKeeps ==
  ASSUME IInv,
         \/ \E c \in VlanCommands : SetVlan(c[1], c[2])
         \/ \E c \in RemoveCommands : RemoveVlan(c[1], c[2])
         \/ \E c \in ModeCommands : SetMode(c[1], c[2])
         \/ \E c \in ModeCommands : c[2] = "access" /\ ClearSlots(c[1])
         \/ LeaveTrunk
  PROVE  IInv'
  <1>1. /\ mode \in [Port -> Mode] /\ vlans \in [Port -> [1..Slots -> Tag]]
        /\ pending \in Port \cup {NoPort} /\ 1 \in 1..Slots /\ 0 \in Tag
    BY L2Assumption DEF IInv, SettingsType, Tag
  <1>2. CASE \E c \in VlanCommands : SetVlan(c[1], c[2])
    <2>1. PICK c \in VlanCommands : SetVlan(c[1], c[2])
      BY <1>2
    <2> DEFINE p == c[1]
               v == c[2]
               w == IF mode[p] = "access" THEN [vlans[p] EXCEPT ![1] = v]
                    ELSE IF v \in Range1(vlans[p]) \/ 0 \notin Range1(vlans[p]) THEN vlans[p]
                    ELSE [vlans[p] EXCEPT ![FirstSlot(p, 0)] = v]
    <2>2. p \in Port /\ v \in Tag
      BY L2Assumption
    <2>3. Prompt /\ pending' = pending /\ Configure(p, mode[p], w)
      BY <2>1 DEF SetVlan
    <2>4. w \in [1..Slots -> Tag] /\ mode[p] \in Mode
      BY <1>1, <2>2
    <2> HIDE DEF p, v, w
    <2>5. QED
      BY <1>1, <2>2, <2>3, <2>4, Counts, ConfigureKeeps
  <1>3. CASE \E c \in RemoveCommands : RemoveVlan(c[1], c[2])
    <2>1. PICK c \in RemoveCommands : RemoveVlan(c[1], c[2])
      BY <1>3
    <2> DEFINE p == c[1]
               v == c[2]
               w == IF v \in Range1(vlans[p]) THEN [vlans[p] EXCEPT ![FirstSlot(p, v)] = 0]
                    ELSE vlans[p]
    <2>2. p \in Port /\ v \in Tag
      BY L2Assumption
    <2>3. Prompt /\ pending' = pending /\ Configure(p, mode[p], w)
      BY <2>1 DEF RemoveVlan
    <2>4. w \in [1..Slots -> Tag] /\ mode[p] \in Mode
      BY <1>1, <2>2
    <2> HIDE DEF p, v, w
    <2>5. QED
      BY <1>1, <2>2, <2>3, <2>4, Counts, ConfigureKeeps
  <1>4. CASE \E c \in ModeCommands : SetMode(c[1], c[2])
    <2>1. PICK c \in ModeCommands : SetMode(c[1], c[2])
      BY <1>4
    <2>2. c[1] \in Port /\ c[2] \in Mode
      BY L2Assumption
    <2>3. Prompt /\ pending' = pending /\ Configure(c[1], c[2], vlans[c[1]])
      BY <2>1 DEF SetMode
    <2>4. QED
      BY <1>1, <2>2, <2>3, Counts, ConfigureKeeps
  <1>5. CASE \E c \in ModeCommands : c[2] = "access" /\ ClearSlots(c[1])
    <2>1. PICK c \in ModeCommands : ClearSlots(c[1])
      BY <1>5
    <2> DEFINE p == c[1]
               w == [s \in 1..Slots |-> IF s = 1 THEN vlans[p][1] ELSE 0]
    <2>2. p \in Port /\ "trunk" \in Mode
      BY L2Assumption DEF Mode
    <2>3. Prompt /\ pending' = p /\ Configure(p, "trunk", w)
      BY <2>1 DEF ClearSlots
    <2>4. w \in [1..Slots -> Tag]
      BY <1>1, <2>2
    <2> HIDE DEF p, w
    <2>5. QED
      BY <1>1, <2>2, <2>3, <2>4, Counts, ConfigureKeeps
  <1>6. CASE LeaveTrunk
    <2>1. /\ pending \in Port /\ pending # NoPort /\ pending' = NoPort /\ commands' = commands
          /\ Configure(pending, "access", vlans[pending]) /\ "access" \in Mode
      BY <1>1, <1>6 DEF LeaveTrunk, Mode
    <2>2. /\ commands' \in 0..MaxCommands
          /\ config + 1 + (IF pending' = NoPort THEN 0 ELSE 1) <= 2 * commands'
      <3>1. /\ commands \in 0..MaxCommands /\ config \in Nat
            /\ config + (IF pending = NoPort THEN 0 ELSE 1) <= 2 * commands
        BY DEF IInv, SettingsType
      <3>2. QED
        BY <2>1, <3>1
    <2>3. QED
      BY <1>1, <2>1, <2>2, ConfigureKeeps
  <1>7. QED
    BY <1>2, <1>3, <1>4, <1>5, <1>6

-----------------------------------------------------------------------------
(* The theorems *)

LEMMA InitHolds == Init => IInv
  <1> SUFFICES ASSUME Init PROVE IInv
    OBVIOUS
  <1>1. SettingsType
    <2>1. /\ mode = InitMode /\ vlans = InitVlans /\ pending = NoPort /\ commands = 0
          /\ config = 0 /\ was = [p \in Port |-> Member(InitMode[p], InitVlans[p])]
      BY DEF Init
    <2>2. /\ InitMode \in [Port -> Mode] /\ InitVlans \in [Port -> [1..Slots -> Tag]]
          /\ MaxCommands \in Nat
      BY L2Assumption
    <2>3. \A p \in Port : Member(InitMode[p], InitVlans[p]) \subseteq Tag
      BY <2>2, MemberType
    <2>4. QED
      BY <2>1, <2>2, <2>3 DEF SettingsType
  <1>2. NetType
    <2>1. 0 \in Tag /\ Idle \in Task
      BY NotIdle DEF Tag
    <2>2. QED
      BY <2>1 DEF Init, NetType
  <1>3. QueueSound(mac, sock) /\ TaskSound(mac, task)
    BY DEF Init, QueueSound, TaskSound
  <1>4. MacChain(mac) /\ KnownSound(mac, known)
    BY Addresses DEF Init, MacChain, KnownSound
  <1>5. QED
    BY <1>1, <1>2, <1>3, <1>4 DEF IInv, Soundness

\* Nothing but a command changes the settings.
LEMMA SettingsStay ==
  ASSUME IInv, RxStep
  PROVE  SettingsType'
  <1>1. UNCHANGED settings
    <2>1. CASE Select
      BY <2>1 DEF Select
    <2>2. CASE SwitchStep
      BY <2>2 DEF SwitchStep, AdmitFrame, AccessRecv, TrunkRecv, StrayRecv, SwitchRefuse,
                  LearnAndForward, ForwardKnown, ForwardUnknown, FloodSend, FloodSkip
    <2>3. CASE HostStep
      BY <2>3 DEF HostStep, HostRecvRequest, HostRecvReply, HostRecvEcho, HostRecvEchoReply,
                  HostRefuse, Hears
    <2>4. QED
      BY <2>1, <2>2, <2>3 DEF RxStep
  <1>2. QED
    BY <1>1 DEF IInv, SettingsType, settings

LEMMA NextKeeps == IInv /\ [Next]_vars => IInv'
  <1> SUFFICES ASSUME IInv, [Next]_vars PROVE IInv'
    OBVIOUS
  <1>1. CASE RxStep
    <2>1. NetType' /\ Soundness'
      <3>1. CASE Select
        <4>1. /\ ready' = {n \in Node : sock[n] # <<>>}
              /\ UNCHANGED <<sock, mac, known, task, slot, sent, heard, strays>>
          BY <3>1 DEF Select
        <4>2. QED
          BY <4>1 DEF IInv, NetType, Soundness
      <3>2. CASE SwitchStep
        BY <3>2, AdmitFrameKeeps, AdmissionKeeps, ForwardKeeps, FloodKeeps DEF SwitchStep
      <3>3. CASE HostStep
        BY <3>3, HostStepKeeps
      <3>4. QED
        BY <1>1, <3>1, <3>2, <3>3 DEF RxStep
    <2>2. QED
      BY <1>1, <2>1, SettingsStay DEF IInv
  <1>2. CASE Command
    BY <1>2, AskKeeps, ConfigKeeps DEF Command
  <1>3. CASE LeaveTrunk
    BY <1>3, ConfigKeeps
  <1>4. CASE UNCHANGED vars
    BY <1>4 DEF vars, settings, IInv, SettingsType, NetType, Soundness
  <1>5. QED
    BY <1>1, <1>2, <1>3, <1>4 DEF Next

\* The invariant holds in every reachable state, whatever the tree, the VLANs and
\* the commands.
THEOREM Invariance == Spec => []IInv
  <1>1. QED
    BY InitHolds, NextKeeps, PTL DEF Spec

LEMMA InvImpliesTypeOK == IInv => TypeOK
  <1> SUFFICES ASSUME IInv PROVE TypeOK
    OBVIOUS
  <1>1. config \in 0..(2 * MaxCommands)
    <2>1. /\ config \in Nat /\ commands \in 0..MaxCommands /\ MaxCommands \in Nat
          /\ config + (IF pending = NoPort THEN 0 ELSE 1) <= 2 * commands
      BY L2Assumption DEF IInv, SettingsType
    <2>2. QED
      BY <2>1
  <1>2. QED
    BY <1>1 DEF IInv, SettingsType, NetType, SentFrame, TypeOK

\* Every variable keeps its type: among others no VLAN is written past the slots of a
\* port (layer2.c:42-66), and a command takes at most two configuration steps.
THEOREM SwitchTypes == Spec => []TypeOK
  <1>1. QED
    BY Invariance, InvImpliesTypeOK, PTL

LEMMA InvImpliesMacSound == IInv => MacSound
  BY DEF IInv, Soundness, MacChain, MacSound

\* The MAC table of every switch of a tree names, for a host, the port that leads to
\* it (l2switch.c:35-60), whatever is flooded, mangled, retagged or reconfigured.
THEOREM MacTablesSound == Spec => []MacSound
  <1>1. QED
    BY Invariance, InvImpliesMacSound, PTL

-----------------------------------------------------------------------------
(* No host hears a transmission twice. A flood makes copies of a frame, and *)
(* each copy has the part of the tree before it to itself: no host has two  *)
(* copies on the way, or one on the way that it has heard already.          *)

\* The hosts that a datagram on interface i can still reach
Dest(i) ==
    IF i \in Host THEN {i}
    ELSE UNION {Behind[q] : q \in {x \in Port \ {i} : Owner[x] = Owner[i]}}

\* The hosts behind the ports that the flood has still to visit
FloodBound(t) ==
    UNION {Behind[PortSeq[t.node][j]] :
              j \in {x \in t.k..Len(PortSeq[t.node]) : PortSeq[t.node][x] # t.iif}}

\* The hosts that the frame in hand can still reach
TaskBound(t) == IF t.op = "flood" THEN FloodBound(t) ELSE Dest(t.iif)

\* No copy of transmission x that waits in the sockets q can reach a host of D.
Clear(q, x, D) ==
    \A n \in Node : \A k \in 1..Len(q[n]) :
        q[n][k].frame.id = x => Dest(q[n][k].iif) \cap D = {}

\* Two copies of a transmission in the sockets have no host before them in common.
QueueApart(q) ==
    \A n, o \in Node : \A j \in 1..Len(q[n]), k \in 1..Len(q[o]) :
        q[n][j].frame.id = q[o][k].frame.id
        => (n = o /\ j = k) \/ Dest(q[n][j].iif) \cap Dest(q[o][k].iif) = {}

TaskApart(q, t) == t # Idle => Clear(q, t.buf.id, TaskBound(t))

\* What a host has heard is not on the way to it, in a socket or in the task.
HeardApart(q, t, hd) ==
    \A g \in Host : \A k \in 1..Len(hd[g]) :
        /\ Clear(q, hd[g][k], {g})
        /\ t # Idle => hd[g][k] # t.buf.id \/ g \notin TaskBound(t)

\* A frame is one of the n transmissions so far, and none comes from the address
\* that a mangled frame is for.
Marked(f, n) == f.id <= n /\ f.src # GarbledDst

Numbered(q, t, hd, n) ==
    /\ \A o \in Node : \A k \in 1..Len(q[o]) : Marked(q[o][k].frame, n)
    /\ t # Idle => Marked(t.buf, n)
    /\ \A g \in Host : \A k \in 1..Len(hd[g]) : hd[g][k] <= n

NobodyGarbled(m) == \A s \in Switch : m[s][GarbledDst] = NoPort

Once ==
    /\ QueueApart(sock) /\ TaskApart(sock, task) /\ HeardApart(sock, task, heard)
    /\ AtMostOnce
    /\ Numbered(sock, task, heard, Len(sent)) /\ NobodyGarbled(mac)

\* A host's interface reaches the host, the far end of a port what the port leads to.
LEMMA DestOf ==
    /\ \A h \in Host : Dest(h) = {h}
    /\ \A p \in Port : Dest(Peer[p]) = Behind[p]
  <1>1. \A h \in Host : Dest(h) = {h}
    BY DEF Dest
  <1>2. ASSUME NEW p \in Port, Peer[p] \notin Host
        PROVE  Dest(Peer[p]) = Behind[p]
    BY <1>2, TreeAssumption DEF Dest
  <1>3. ASSUME NEW p \in Port, Peer[p] \in Host
        PROVE  Dest(Peer[p]) = Behind[p]
    BY <1>3, PortOfHost DEF Dest
  <1>4. QED
    BY <1>1, <1>2, <1>3

\* The place of the datagram that a delivery on interface i adds
Newest(q, i, n, k) == n = Owner[Peer[i]] /\ k = Len(q[n]) + 1

\* What a socket holds after a delivery: what it held, and perhaps the new datagram
\* at its end.
LEMMA Delivered ==
  ASSUME NEW q \in [Node -> Seq(Datagram)], NEW i \in Intf, NEW f \in Frame,
         NEW n \in Node, NEW k \in 1..Len(Deliver(q, i, f)[n])
  PROVE  /\ ~Newest(q, i, n, k) => k \in 1..Len(q[n]) /\ Deliver(q, i, f)[n][k] = q[n][k]
         /\ Newest(q, i, n, k) => Deliver(q, i, f)[n][k] = [iif |-> Peer[i], frame |-> f]
  <1> DEFINE d == [iif |-> Peer[i], frame |-> f]
             far == Owner[Peer[i]]
  <1>1. d \in Datagram /\ far \in Node
    BY Links DEF Datagram
  <1>2. Deliver(q, i, f) =
          [q EXCEPT ![far] = IF Len(q[far]) < SockCap THEN Append(q[far], d) ELSE q[far]]
    BY DEF Deliver
  <1>3. Newest(q, i, n, k) <=> n = far /\ k = Len(q[n]) + 1
    BY DEF Newest
  <1> SUFFICES /\ ~Newest(q, i, n, k) => k \in 1..Len(q[n]) /\ Deliver(q, i, f)[n][k] = q[n][k]
               /\ Newest(q, i, n, k) => Deliver(q, i, f)[n][k] = d
    OBVIOUS
  <1> HIDE DEF d, far
  <1>4. CASE n = far /\ Len(q[far]) < SockCap
    <2>1. Deliver(q, i, f)[n] = Append(q[n], d) /\ q[n] \in Seq(Datagram)
      BY <1>1, <1>2, <1>4
    <2>2. QED
      BY <1>1, <1>3, <1>4, <2>1
  <1>5. CASE ~(n = far /\ Len(q[far]) < SockCap)
    <2>1. Deliver(q, i, f)[n] = q[n] /\ q[n] \in Seq(Datagram)
      BY <1>1, <1>2, <1>5
    <2>2. QED
      BY <1>3, <2>1
  <1>6. QED
    BY <1>4, <1>5

\* What a socket holds after a visit: what it held, but for the oldest datagram
LEMMA Left ==
  ASSUME NetType, NEW n \in Node, sock[n] # <<>>, NEW o \in Node
  PROVE  LET shift == IF o = n THEN 1 ELSE 0
         IN  /\ \A k \in 1..Len(Taken(n)[o]) :
                   k + shift \in 1..Len(sock[o]) /\ Taken(n)[o][k] = sock[o][k + shift]
             /\ 1 \in 1..Len(sock[n]) /\ sock[n][1] = Head(sock[n])
  <1>1. sock \in [Node -> Seq(Datagram)] /\ sock[n] \in Seq(Datagram) /\ sock[o] \in Seq(Datagram)
    BY DEF NetType
  <1>2. 1 \in 1..Len(sock[n]) /\ sock[n][1] = Head(sock[n])
    BY <1>1
  <1>3. CASE o = n
    <2>1. Taken(n)[o] = Tail(sock[n])
      BY <1>1, <1>3 DEF Taken
    <2>2. QED
      BY <1>1, <1>2, <1>3, <2>1
  <1>4. CASE o # n
    <2>1. Taken(n)[o] = sock[o]
      BY <1>1, <1>4 DEF Taken
    <2>2. QED
      BY <1>1, <1>2, <1>4, <2>1
  <1>5. QED
    BY <1>3, <1>4

\* What is left was in the socket before.
LEMMA LeftFrom ==
  ASSUME NetType, NEW n \in Node, sock[n] # <<>>
  PROVE  \A o \in Node : \A k \in 1..Len(Taken(n)[o]) :
            \E j \in 1..Len(sock[o]) : Taken(n)[o][k] = sock[o][j]
  BY Left

LEMMA ClearLess ==
  ASSUME NEW q, NEW x, NEW D, NEW E, Clear(q, x, D), E \subseteq D
  PROVE  Clear(q, x, E)
  BY DEF Clear

LEMMA DeliverClear ==
  ASSUME NEW q \in [Node -> Seq(Datagram)], NEW i \in Intf, NEW f \in Frame, NEW x, NEW D,
         Clear(q, x, D), f.id = x => Dest(Peer[i]) \cap D = {}
  PROVE  Clear(Deliver(q, i, f), x, D)
  <1> DEFINE r == Deliver(q, i, f)
             d == [iif |-> Peer[i], frame |-> f]
  <1> SUFFICES ASSUME NEW n \in Node, NEW k \in 1..Len(r[n]), r[n][k].frame.id = x
               PROVE  Dest(r[n][k].iif) \cap D = {}
    BY DEF Clear
  <1>1. (k \in 1..Len(q[n]) /\ r[n][k] = q[n][k]) \/ r[n][k] = d
    BY Delivered
  <1>2. d.iif = Peer[i] /\ d.frame = f
    OBVIOUS
  <1> HIDE DEF r, d
  <1>3. QED
    BY <1>1, <1>2 DEF Clear

LEMMA DeliverMarked ==
  ASSUME NEW q \in [Node -> Seq(Datagram)], NEW i \in Intf, NEW f \in Frame, NEW x,
         \A n \in Node : \A k \in 1..Len(q[n]) : Marked(q[n][k].frame, x), Marked(f, x)
  PROVE  LET r == Deliver(q, i, f)
         IN  \A n \in Node : \A k \in 1..Len(r[n]) : Marked(r[n][k].frame, x)
  <1> DEFINE r == Deliver(q, i, f)
             d == [iif |-> Peer[i], frame |-> f]
  <1> SUFFICES ASSUME NEW n \in Node, NEW k \in 1..Len(r[n])
               PROVE  Marked(r[n][k].frame, x)
    OBVIOUS
  <1>1. (k \in 1..Len(q[n]) /\ r[n][k] = q[n][k]) \/ r[n][k] = d
    BY Delivered
  <1>2. d.frame = f
    OBVIOUS
  <1> HIDE DEF r, d
  <1>3. QED
    BY <1>1, <1>2

\* Two places in the sockets with the same transmission and a host in common
LEMMA SamePlace ==
  ASSUME NEW q, QueueApart(q), NEW n \in Node, NEW o \in Node,
         NEW j \in 1..Len(q[n]), NEW k \in 1..Len(q[o]),
         q[n][j].frame.id = q[o][k].frame.id
  PROVE  (n = o /\ j = k) \/ Dest(q[n][j].iif) \cap Dest(q[o][k].iif) = {}
  BY DEF QueueApart

LEMMA DeliverApart ==
  ASSUME NEW q \in [Node -> Seq(Datagram)], NEW i \in Intf, NEW f \in Frame,
         QueueApart(q), Clear(q, f.id, Dest(Peer[i]))
  PROVE  QueueApart(Deliver(q, i, f))
  <1> DEFINE r == Deliver(q, i, f)
             d == [iif |-> Peer[i], frame |-> f]
  <1>0. \A n \in Node : \A k \in 1..Len(r[n]) :
           /\ ~Newest(q, i, n, k) => k \in 1..Len(q[n]) /\ r[n][k] = q[n][k]
           /\ Newest(q, i, n, k) => r[n][k] = d
    BY Delivered
  <1>1. ASSUME NEW n \in Node, NEW k \in 1..Len(r[n]), ~Newest(q, i, n, k)
        PROVE  k \in 1..Len(q[n]) /\ r[n][k] = q[n][k]
    <2> HIDE DEF r, d
    <2>1. QED
      BY <1>0, <1>1
  <1>2. ASSUME NEW n \in Node, NEW k \in 1..Len(r[n]), Newest(q, i, n, k)
        PROVE  r[n][k] = d
    <2> HIDE DEF r, d
    <2>1. QED
      BY <1>0, <1>2
  <1>3. d.iif = Peer[i] /\ d.frame = f
    OBVIOUS
  <1> HIDE DEF r, d
  <1> SUFFICES QueueApart(r)
    BY DEF r
  <1> SUFFICES ASSUME NEW n \in Node, NEW o \in Node, NEW j \in 1..Len(r[n]),
                      NEW k \in 1..Len(r[o]), r[n][j].frame.id = r[o][k].frame.id
               PROVE  (n = o /\ j = k) \/ Dest(r[n][j].iif) \cap Dest(r[o][k].iif) = {}
    BY DEF QueueApart
  <1>4. CASE Newest(q, i, n, j) /\ Newest(q, i, o, k)
    BY <1>4 DEF Newest
  <1>5. CASE ~Newest(q, i, n, j) /\ ~Newest(q, i, o, k)
    <2>1. /\ j \in 1..Len(q[n]) /\ r[n][j] = q[n][j]
          /\ k \in 1..Len(q[o]) /\ r[o][k] = q[o][k]
      BY <1>1, <1>5
    <2>2. q[n][j].frame.id = q[o][k].frame.id
      BY <2>1
    <2>3. (n = o /\ j = k) \/ Dest(q[n][j].iif) \cap Dest(q[o][k].iif) = {}
      BY <2>1, <2>2 DEF QueueApart
    <2>4. QED
      BY <2>1, <2>3
  <1>6. CASE ~Newest(q, i, n, j) /\ Newest(q, i, o, k)
    <2>1. j \in 1..Len(q[n]) /\ r[n][j] = q[n][j] /\ r[o][k] = d
      BY <1>1, <1>2, <1>6
    <2>2. Dest(q[n][j].iif) \cap Dest(Peer[i]) = {}
      BY <1>3, <2>1 DEF Clear
    <2>3. QED
      BY <1>3, <2>1, <2>2
  <1>7. CASE Newest(q, i, n, j) /\ ~Newest(q, i, o, k)
    <2>1. k \in 1..Len(q[o]) /\ r[o][k] = q[o][k] /\ r[n][j] = d
      BY <1>1, <1>2, <1>7
    <2>2. Dest(q[o][k].iif) \cap Dest(Peer[i]) = {}
      BY <1>3, <2>1 DEF Clear
    <2>3. QED
      BY <1>3, <2>1, <2>2
  <1>8. QED
    BY <1>4, <1>5, <1>6, <1>7

LEMMA TakenClear ==
  ASSUME NetType, NEW n \in Node, sock[n] # <<>>, NEW x, NEW D, Clear(sock, x, D)
  PROVE  Clear(Taken(n), x, D)
  <1> SUFFICES ASSUME NEW o \in Node, NEW k \in 1..Len(Taken(n)[o]),
                      Taken(n)[o][k].frame.id = x
               PROVE  Dest(Taken(n)[o][k].iif) \cap D = {}
    BY DEF Clear
  <1>1. \E j \in 1..Len(sock[o]) : Taken(n)[o][k] = sock[o][j]
    BY LeftFrom
  <1>2. QED
    BY <1>1 DEF Clear

LEMMA TakenApart ==
  ASSUME NetType, NEW n \in Node, sock[n] # <<>>, QueueApart(sock)
  PROVE  /\ QueueApart(Taken(n))
         /\ Clear(Taken(n), Head(sock[n]).frame.id, Dest(Head(sock[n]).iif))
  <1> DEFINE shift(o) == IF o = n THEN 1 ELSE 0
  <1>1. \A o \in Node : \A k \in 1..Len(Taken(n)[o]) :
           k \in Nat /\ k + shift(o) \in 1..Len(sock[o])
           /\ Taken(n)[o][k] = sock[o][k + shift(o)]
    BY Left
  <1>2. 1 \in 1..Len(sock[n]) /\ sock[n][1] = Head(sock[n])
    BY Left
  <1> HIDE DEF shift
  <1>3. QueueApart(Taken(n))
    <2> DEFINE r == Taken(n)
    <2> HIDE DEF r
    <2> SUFFICES QueueApart(r)
      BY DEF r
    <2> SUFFICES ASSUME NEW a \in Node, NEW b \in Node, NEW j \in 1..Len(r[a]),
                        NEW k \in 1..Len(r[b]), r[a][j].frame.id = r[b][k].frame.id
                 PROVE  (a = b /\ j = k) \/ Dest(r[a][j].iif) \cap Dest(r[b][k].iif) = {}
      BY DEF QueueApart
    <2>1. /\ j \in Nat /\ j + shift(a) \in 1..Len(sock[a]) /\ r[a][j] = sock[a][j + shift(a)]
          /\ k \in Nat /\ k + shift(b) \in 1..Len(sock[b]) /\ r[b][k] = sock[b][k + shift(b)]
      BY <1>1 DEF r
    <2> DEFINE jj == j + shift(a)
               kk == k + shift(b)
    <2> HIDE DEF jj, kk
    <2>2. /\ jj \in 1..Len(sock[a]) /\ r[a][j] = sock[a][jj]
          /\ kk \in 1..Len(sock[b]) /\ r[b][k] = sock[b][kk]
      BY <2>1 DEF jj, kk
    <2>3. sock[a][jj].frame.id = sock[b][kk].frame.id
      BY <2>2
    <2>4. (a = b /\ jj = kk) \/ Dest(sock[a][jj].iif) \cap Dest(sock[b][kk].iif) = {}
      BY <2>2, <2>3 DEF QueueApart
    <2>5. QED
      BY <2>1, <2>2, <2>4 DEF shift, jj, kk
  <1>4. ASSUME NEW o \in Node, NEW k \in 1..Len(Taken(n)[o]),
               Taken(n)[o][k].frame.id = Head(sock[n]).frame.id
        PROVE  Dest(Taken(n)[o][k].iif) \cap Dest(Head(sock[n]).iif) = {}
    <2>1. k \in Nat /\ k + shift(o) \in 1..Len(sock[o])
          /\ Taken(n)[o][k] = sock[o][k + shift(o)]
      BY <1>1
    <2>2. ~(o = n /\ k + shift(o) = 1)
      BY <2>1 DEF shift
    <2>3. Dest(sock[o][k + shift(o)].iif) \cap Dest(sock[n][1].iif) = {}
      BY <1>2, <1>4, <2>1, <2>2, SamePlace
    <2>4. QED
      BY <1>2, <2>1, <2>3
  <1>5. QED
    BY <1>3, <1>4 DEF Clear

\* The interface of a switch that a frame came in on reaches what the others lead to.
LEMMA DestOfOthers ==
  ASSUME NEW i \in Port, NEW p \in Port, p # i, Owner[p] = Owner[i]
  PROVE  Behind[p] \subseteq Dest(i)
  <1>1. i \notin Host /\ p \in {x \in Port \ {i} : Owner[x] = Owner[i]}
    BY Links
  <1>2. QED
    BY <1>1 DEF Dest

\* The ports of a switch, and that none has two places
LEMMA Ports ==
  ASSUME NEW s \in Switch
  PROVE  /\ PortSeq[s] \in Seq(Port) /\ Len(PortSeq[s]) \in Nat
         /\ \A j \in 1..Len(PortSeq[s]) : PortSeq[s][j] \in Port /\ Owner[PortSeq[s][j]] = s
         /\ \A j, k \in 1..Len(PortSeq[s]) : PortSeq[s][j] = PortSeq[s][k] => j = k
  <1>1. PortSeq[s] \in Seq(Port)
    BY L2Assumption
  <1>2. QED
    BY <1>1, L2Assumption

\* A step that leaves a task with the same frame and no more hosts before it
LEMMA TaskLess ==
  ASSUME Once, task # Idle, task' # Idle, task'.buf.id = task.buf.id,
         TaskBound(task') \subseteq TaskBound(task)
  PROVE  TaskApart(sock, task') /\ HeardApart(sock, task', heard)
  <1>1. Clear(sock, task.buf.id, TaskBound(task)) /\ HeardApart(sock, task, heard)
    BY DEF Once, TaskApart
  <1>2. TaskApart(sock, task')
    BY <1>1, ClearLess DEF TaskApart
  <1>3. QED
    BY <1>1, <1>2 DEF HeardApart

LEMMA TaskEnds ==
  ASSUME Once, task' = Idle
  PROVE  TaskApart(sock, task') /\ HeardApart(sock, task', heard)
  BY DEF Once, TaskApart, HeardApart

LEMMA AdmitFrameOnce ==
  ASSUME IInv, Once, NEW s \in Switch, AdmitFrame(s)
  PROVE  Once'
  <1> DEFINE d == Head(sock[s])
  <1>1. sock[s] # <<>> /\ task' = Admit(s, d.iif, d.frame, mode[d.iif]) /\ sock' = Taken(s)
        /\ UNCHANGED <<mac, sent, heard>>
    BY DEF AdmitFrame, Visits
  <1>2. NetType /\ s \in Node /\ QueueSound(mac, sock) /\ SettingsType
    BY Links DEF IInv, Soundness
  <1>3. d.iif \in Intf /\ d.frame \in Frame /\ Owner[d.iif] = s
    BY <1>1, <1>2, Head1
  <1>4. d.iif \in Port /\ mode[d.iif] \in Mode
    BY <1>2, <1>3, Interfaces DEF SettingsType
  <1>5. 1 \in 1..Len(sock[s]) /\ sock[s][1] = d
    BY <1>1, <1>2, Left
  <1> HIDE DEF d
  <1>6. task'.buf = d.frame /\ TaskBound(task') = Dest(d.iif)
    BY <1>1, <1>3, <1>4, NotIdle DEF TaskBound, Admit
  <1>7. /\ QueueApart(sock) /\ HeardApart(sock, task, heard) /\ AtMostOnce
        /\ Numbered(sock, task, heard, Len(sent)) /\ NobodyGarbled(mac)
    BY DEF Once
  <1>8. QueueApart(sock') /\ Clear(sock', d.frame.id, Dest(d.iif))
    BY <1>1, <1>2, <1>7, TakenApart DEF d
  <1>9. HeardApart(sock', task', heard')
    <2> SUFFICES ASSUME NEW g \in Host, NEW k \in 1..Len(heard[g])
                 PROVE  /\ Clear(sock', heard[g][k], {g})
                        /\ heard[g][k] # d.frame.id \/ g \notin Dest(d.iif)
      BY <1>1, <1>6 DEF HeardApart
    <2>1. Clear(sock, heard[g][k], {g})
      BY <1>7 DEF HeardApart
    <2>2. Clear(sock', heard[g][k], {g})
      BY <1>1, <1>2, <2>1, TakenClear
    <2>3. heard[g][k] = sock[s][1].frame.id => Dest(sock[s][1].iif) \cap {g} = {}
      BY <1>2, <1>5, <2>1 DEF Clear
    <2>4. QED
      BY <1>5, <2>2, <2>3
  <1>10. Numbered(sock', task', heard', Len(sent'))
    <2>1. Marked(d.frame, Len(sent))
      BY <1>2, <1>5, <1>7 DEF Numbered
    <2>2. ASSUME NEW o \in Node, NEW k \in 1..Len(sock'[o])
          PROVE  Marked(sock'[o][k].frame, Len(sent))
      <3>1. \E j \in 1..Len(sock[o]) : sock'[o][k] = sock[o][j]
        BY <1>1, <1>2, LeftFrom
      <3>2. QED
        BY <1>7, <3>1 DEF Numbered
    <2>3. QED
      BY <1>1, <1>6, <1>7, <2>1, <2>2 DEF Numbered
  <1>11. TaskApart(sock', task')
    BY <1>6, <1>8 DEF TaskApart
  <1>12. AtMostOnce' /\ NobodyGarbled(mac')
    BY <1>1, <1>7 DEF AtMostOnce
  <1>13. QED
    BY <1>8, <1>9, <1>10, <1>11, <1>12 DEF Once

LEMMA AdmissionOnce ==
  ASSUME IInv, Once, AccessRecv \/ TrunkRecv \/ StrayRecv \/ SwitchRefuse
  PROVE  Once'
  <1>1. task # Idle /\ task.op = "admit" /\ NetType
    BY NotIdle DEF IInv, AccessRecv, TrunkRecv, StrayRecv, SwitchRefuse, QualifiesAccess,
                   QualifiesTrunk, QualifiesStray
  <1>2. task.node \in Switch /\ task.iif \in Port /\ task.buf \in Frame
        /\ task.buf.src \in Mac /\ slot \in Tag
    BY <1>1, TaskFields, FrameFields DEF NetType
  <1>3. /\ QueueApart(sock) /\ HeardApart(sock, task, heard) /\ AtMostOnce
        /\ Numbered(sock, task, heard, Len(sent)) /\ NobodyGarbled(mac)
    BY DEF Once
  <1>4. UNCHANGED <<sock, sent, heard>>
    BY DEF AccessRecv, TrunkRecv, StrayRecv, SwitchRefuse, LearnAndForward
  <1>5. ASSUME NEW v \in Tag, LearnAndForward(v)
        PROVE  Once'
    <2> DEFINE f == Tagged(task.buf, v)
    <2>1. f \in Frame /\ f.src = task.buf.src /\ f.id = task.buf.id
      BY <1>2, FrameEdits DEF Tagged, Frame
    <2>2. task' = Forward(task.node, task.iif, f)
          /\ mac' = [mac EXCEPT ![task.node][task.buf.src] = task.iif]
      BY <1>5 DEF LearnAndForward
    <2> HIDE DEF f
    <2>3. task' # Idle /\ task'.buf = f /\ TaskBound(task') = TaskBound(task)
      BY <1>1, <1>2, <2>1, <2>2, NotIdle DEF TaskBound
    <2>4. TaskApart(sock, task') /\ HeardApart(sock, task', heard)
      BY <1>1, <2>1, <2>3, TaskLess
    <2>5. Marked(task.buf, Len(sent)) /\ Marked(f, Len(sent))
      BY <1>1, <1>3, <2>1 DEF Numbered, Marked
    <2>6. NobodyGarbled(mac')
      <3>1. mac \in [Switch -> [Mac -> Port \cup {NoPort}]]
        BY <1>1 DEF NetType
      <3>2. task.buf.src # GarbledDst
        BY <2>5 DEF Marked
      <3>3. QED
        BY <1>2, <1>3, <2>2, <3>1, <3>2, Addresses DEF NobodyGarbled
    <2>7. Numbered(sock', task', heard', Len(sent'))
      BY <1>3, <1>4, <2>3, <2>5 DEF Numbered
    <2>8. QED
      BY <1>3, <1>4, <2>4, <2>6, <2>7 DEF Once, AtMostOnce
  <1>6. CASE SwitchRefuse
    <2>1. task' = Idle /\ mac' = mac
      BY <1>6 DEF SwitchRefuse
    <2>2. QED
      BY <1>3, <1>4, <2>1, TaskEnds DEF Once, AtMostOnce, Numbered
  <1>7. CASE AccessRecv
    <2>1. AccessVlan(task.iif) \in Tag
      <3>1. vlans \in [Port -> [1..Slots -> Tag]] /\ 1 \in 1..Slots /\ 0 \in Tag
        BY L2Assumption DEF IInv, SettingsType, Tag
      <3>2. QED
        BY <1>2, <3>1 DEF AccessVlan
    <2>2. QED
      BY <1>5, <1>7, <2>1 DEF AccessRecv
  <1>8. QED
    BY <1>2, <1>5, <1>6, <1>7 DEF TrunkRecv, StrayRecv

\* The frame in hand, or what is left of it, goes out on a port that it is still to
\* go out on, and never does again.
LEMMA SendOutOnce ==
  ASSUME IInv, Once, task # Idle, NEW f \in Frame, f.id = task.buf.id, f.src = task.buf.src,
         NEW p \in Port, NEW v, SendOut(f, p, v), Behind[p] \subseteq TaskBound(task),
         UNCHANGED <<mac, sent, heard>>,
         task' # Idle =>
            /\ task'.buf.id = task.buf.id /\ task'.buf.src # GarbledDst
            /\ TaskBound(task') \subseteq TaskBound(task) \ Behind[p]
  PROVE  Once'
  <1> DEFINE out == OutFrame(f, p)
  <1>1. /\ sock \in [Node -> Seq(Datagram)] /\ p \in Intf /\ Dest(Peer[p]) = Behind[p]
        /\ out \in Frame /\ out.id = f.id /\ out.src = f.src
    <2>1. 0 \in Tag
      BY DEF Tag
    <2>2. out \in Frame /\ out.src = f.src
      BY <2>1, FrameEdits DEF OutFrame
    <2>3. out.id = f.id
      BY DEF OutFrame, Frame
    <2>4. QED
      BY <2>2, <2>3, DestOf, Links DEF IInv, NetType
  <1>2. sock' = sock \/ sock' = Deliver(sock, p, out)
    BY DEF SendOut
  <1> HIDE DEF out
  <1>3. /\ QueueApart(sock) /\ Clear(sock, f.id, TaskBound(task)) /\ AtMostOnce
        /\ HeardApart(sock, task, heard) /\ Numbered(sock, task, heard, Len(sent))
        /\ NobodyGarbled(mac)
    BY DEF Once, TaskApart
  <1>4. QueueApart(sock')
    <2>1. Clear(sock, out.id, Dest(Peer[p]))
      BY <1>1, <1>3, ClearLess
    <2>2. QED
      BY <1>1, <1>2, <1>3, <2>1, DeliverApart
  <1>5. TaskApart(sock', task')
    <2> SUFFICES ASSUME task' # Idle
                 PROVE  Clear(sock', f.id, TaskBound(task'))
      BY DEF TaskApart
    <2>1. Clear(sock, f.id, TaskBound(task')) /\ Behind[p] \cap TaskBound(task') = {}
      BY <1>3, ClearLess
    <2>2. QED
      BY <1>1, <1>2, <2>1, DeliverClear
  <1>6. HeardApart(sock', task', heard')
    <2> SUFFICES ASSUME NEW g \in Host, NEW k \in 1..Len(heard[g])
                 PROVE  /\ Clear(sock', heard[g][k], {g})
                        /\ task' # Idle =>
                              heard[g][k] # task'.buf.id \/ g \notin TaskBound(task')
      BY DEF HeardApart
    <2>1. Clear(sock, heard[g][k], {g})
          /\ (heard[g][k] # task.buf.id \/ g \notin TaskBound(task))
      BY <1>3 DEF HeardApart
    <2>2. out.id = heard[g][k] => Dest(Peer[p]) \cap {g} = {}
      BY <1>1, <2>1
    <2>3. Clear(sock', heard[g][k], {g})
      BY <1>1, <1>2, <2>1, <2>2, DeliverClear
    <2>4. QED
      BY <2>1, <2>3
  <1>7. Numbered(sock', task', heard', Len(sent'))
    <2>1. Marked(task.buf, Len(sent)) /\ Marked(out, Len(sent))
      BY <1>1, <1>3 DEF Numbered, Marked
    <2>2. ASSUME NEW n \in Node, NEW k \in 1..Len(sock'[n])
          PROVE  Marked(sock'[n][k].frame, Len(sent))
      BY <1>1, <1>2, <1>3, <2>1, DeliverMarked DEF Numbered
    <2>3. task' # Idle => Marked(task'.buf, Len(sent))
      BY <2>1 DEF Marked
    <2>4. QED
      BY <1>3, <2>2, <2>3 DEF Numbered
  <1>8. QED
    BY <1>3, <1>4, <1>5, <1>6, <1>7 DEF Once, AtMostOnce

LEMMA ForwardOnce ==
  ASSUME IInv, Once, ForwardKnown \/ ForwardUnknown
  PROVE  Once'
  <1> DEFINE f == task.buf
             s == task.node
  <1>1. NetType /\ MacChain(mac) /\ TaskSound(mac, task)
    BY DEF IInv, Soundness
  <1>2. task # Idle /\ task.op = "forward"
    BY NotIdle DEF ForwardKnown, ForwardUnknown
  <1>3. s \in Switch /\ task.iif \in Port /\ f \in Frame /\ f.dst \in Mac
    BY <1>1, <1>2, TaskFields, FrameFields
  <1>4. Owner[task.iif] = s /\ Sound(mac, task.iif, f)
    BY <1>1, <1>2 DEF TaskSound
  <1>5. mac \in [Switch -> [Mac -> Port \cup {NoPort}]]
    BY <1>1 DEF NetType
  <1>6. TaskBound(task) = Dest(task.iif)
    BY <1>2 DEF TaskBound
  <1>7. CASE ForwardKnown
    <2> DEFINE p == mac[s][f.dst]
    <2>1. f.dst # BroadcastMac /\ p # NoPort /\ PortFor(f) = p
      BY <1>7 DEF ForwardKnown, PortFor
    <2>2. p \in Port
      BY <1>3, <1>5, <2>1
    <2>3. f.dst \in Host
      <3>1. mac[s][GarbledDst] = NoPort
        BY <1>3 DEF Once, NobodyGarbled
      <3>2. QED
        BY <1>4, <2>1, <3>1 DEF Sound
    <2>4. Owner[p] = s /\ f.dst \in Behind[p] /\ f.dst \notin Behind[task.iif]
      BY <1>1, <1>3, <1>4, <2>1, <2>3 DEF MacChain, Sound, Knows
    <2>5. SendOut(f, p, 0) /\ task' = Idle /\ UNCHANGED <<mac, sent, heard>>
      BY <1>7, <2>1 DEF ForwardKnown
    <2> HIDE DEF p, s
    <2>6. Behind[p] \subseteq TaskBound(task)
      BY <1>3, <1>4, <1>6, <2>2, <2>4, DestOfOthers
    <2>7. QED
      BY <1>2, <1>3, <2>2, <2>5, <2>6, SendOutOnce
  <1>8. CASE ForwardUnknown
    <2>1. /\ UNCHANGED <<sock, mac, sent, heard>>
          /\ task' = IF PortSeq[s] = <<>> THEN Idle ELSE Flood(s, task.iif, f, 1, 0)
      BY <1>8 DEF ForwardUnknown
    <2>2. /\ QueueApart(sock) /\ HeardApart(sock, task, heard) /\ AtMostOnce
          /\ Numbered(sock, task, heard, Len(sent)) /\ NobodyGarbled(mac)
      BY DEF Once
    <2>3. CASE PortSeq[s] = <<>>
      BY <2>1, <2>2, <2>3, TaskEnds DEF Once, AtMostOnce, Numbered
    <2>4. CASE PortSeq[s] # <<>>
      <3>1. 1 \in Nat \ {0} /\ 0 \in Tag
        BY DEF Tag
      <3> HIDE DEF s, f
      <3>2. /\ task' # Idle /\ task'.node = s /\ task'.iif = task.iif /\ task'.buf = f
            /\ task'.op = "flood" /\ task'.k = 1
        BY <1>3, <2>1, <2>4, <3>1, NotIdle
      <3>3. TaskBound(task') \subseteq TaskBound(task)
        <4>1. \A j \in 1..Len(PortSeq[s]) :
                 PortSeq[s][j] # task.iif => Behind[PortSeq[s][j]] \subseteq Dest(task.iif)
          BY <1>3, <1>4, Ports, DestOfOthers
        <4>2. TaskBound(task') = UNION {Behind[PortSeq[s][j]] :
                 j \in {x \in 1..Len(PortSeq[s]) : PortSeq[s][x] # task.iif}}
          BY <3>2 DEF TaskBound, FloodBound
        <4>3. QED
          BY <1>6, <4>1, <4>2
      <3>4. TaskApart(sock, task') /\ HeardApart(sock, task', heard)
        BY <1>2, <3>2, <3>3, TaskLess DEF f
      <3>5. Numbered(sock', task', heard', Len(sent'))
        BY <1>2, <2>1, <2>2, <3>2 DEF Numbered, f
      <3>6. QED
        BY <2>1, <2>2, <3>4, <3>5 DEF Once, AtMostOnce
    <2>5. QED
      BY <2>3, <2>4
  <1>9. QED
    BY <1>7, <1>8

\* The flood goes on: the ports before it are those behind the next place.
LEMMA FloodNextBound ==
  ASSUME IInv, task.op = "flood", NEW f \in Frame, NEW v \in Tag, FloodNext(f, v),
         task' # Idle
  PROVE  /\ task'.buf = f /\ TaskBound(task') \subseteq TaskBound(task)
         /\ PortSeq[task.node][task.k] # task.iif =>
               TaskBound(task') \cap Behind[PortSeq[task.node][task.k]] = {}
  <1> DEFINE s == task.node
  <1>1. NetType /\ TaskSound(mac, task) /\ task # Idle
    BY NotIdle DEF IInv, Soundness
  <1>2. s \in Switch /\ task.iif \in Port /\ task.k \in Nat \ {0}
    BY <1>1, TaskFields
  <1>3. task.k \in 1..Len(PortSeq[s]) /\ Owner[task.iif] = s
    BY <1>1 DEF TaskSound
  <1>4. task' = Flood(s, task.iif, f, task.k + 1, v)
    BY DEF FloodNext
  <1> HIDE DEF s
  <1>5. /\ task'.node = s /\ task'.iif = task.iif /\ task'.buf = f
        /\ task'.op = "flood" /\ task'.k = task.k + 1
    BY <1>2, <1>4, NotIdle
  <1>6. /\ TaskBound(task') = UNION {Behind[PortSeq[s][j]] :
             j \in {x \in (task.k + 1)..Len(PortSeq[s]) : PortSeq[s][x] # task.iif}}
        /\ TaskBound(task) = UNION {Behind[PortSeq[s][j]] :
             j \in {x \in task.k..Len(PortSeq[s]) : PortSeq[s][x] # task.iif}}
    BY <1>5 DEF TaskBound, FloodBound, s
  <1>7. Len(PortSeq[s]) \in Nat
    BY <1>2, Ports
  <1>8. \A j \in (task.k + 1)..Len(PortSeq[s]) :
           j \in task.k..Len(PortSeq[s]) /\ j \in 1..Len(PortSeq[s]) /\ j # task.k
    BY <1>2, <1>7
  <1>9. TaskBound(task') \subseteq TaskBound(task)
    BY <1>6, <1>8
  <1>10. ASSUME NEW j \in (task.k + 1)..Len(PortSeq[s])
         PROVE  Behind[PortSeq[s][j]] \cap Behind[PortSeq[s][task.k]] = {}
    BY <1>2, <1>3, <1>8, Ports, TreeAssumption
  <1>11. TaskBound(task') \cap Behind[PortSeq[s][task.k]] = {}
    BY <1>6, <1>10
  <1>12. QED
    BY <1>5, <1>9, <1>11 DEF s

LEMMA FloodOnce ==
  ASSUME IInv, Once, FloodSend \/ FloodSkip
  PROVE  Once'
  <1> DEFINE s == task.node
             f == task.buf
             p == PortSeq[s][task.k]
  <1>1. NetType /\ TaskSound(mac, task)
    BY DEF IInv, Soundness
  <1>2. task # Idle /\ task.op = "flood"
    BY NotIdle DEF FloodSend, FloodSkip
  <1>3. s \in Switch /\ task.iif \in Port /\ f \in Frame /\ f.tag \in Tag /\ task.prev \in Tag
    BY <1>1, <1>2, TaskFields, FrameFields
  <1>4. Owner[task.iif] = s /\ task.k \in 1..Len(PortSeq[s])
    BY <1>1, <1>2 DEF TaskSound
  <1>5. p \in Port /\ Owner[p] = s
    BY <1>3, <1>4, Ports
  <1>6. /\ QueueApart(sock) /\ HeardApart(sock, task, heard) /\ AtMostOnce
        /\ Numbered(sock, task, heard, Len(sent)) /\ NobodyGarbled(mac)
    BY DEF Once
  <1>7. CASE FloodSend
    <2> DEFINE g == LeftInBuffer(f, p, task.prev)
               v == VlanIdOf(f, task.prev)
    <2>1. /\ p # task.iif /\ SendOut(f, p, task.prev) /\ FloodNext(g, v)
          /\ UNCHANGED <<mac, sent, heard>>
      BY <1>7 DEF FloodSend
    <2>2. g \in Frame /\ v \in Tag /\ g.id = f.id /\ g.src # GarbledDst
      <3>1. f.src # GarbledDst
        BY <1>2, <1>6 DEF Numbered, Marked
      <3>2. Garbled(f).id = f.id
        BY <1>3 DEF Garbled, Frame
      <3>3. GarbledSrc # GarbledDst
        BY L2Assumption
      <3>4. QED
        BY <1>3, <3>1, <3>2, <3>3, FrameEdits DEF LeftInBuffer, VlanIdOf
    <2> HIDE DEF g, v
    <2>3. ASSUME task' # Idle
          PROVE  task'.buf = g /\ TaskBound(task') \subseteq TaskBound(task) \ Behind[p]
      BY <1>2, <2>1, <2>2, <2>3, FloodNextBound
    <2>4. Behind[p] \subseteq TaskBound(task)
      <3>1. task.k \in {x \in task.k..Len(PortSeq[s]) : PortSeq[s][x] # task.iif}
        BY <1>3, <1>4, <2>1, Ports
      <3>2. QED
        BY <1>2, <3>1 DEF TaskBound, FloodBound
    <2> HIDE DEF s, p
    <2>5. QED
      BY <1>2, <1>3, <1>5, <2>1, <2>2, <2>3, <2>4, SendOutOnce
  <1>8. CASE FloodSkip
    <2>1. FloodNext(f, task.prev) /\ UNCHANGED <<sock, mac, sent, heard>>
      BY <1>8 DEF FloodSkip
    <2>2. CASE task' = Idle
      BY <1>6, <2>1, <2>2, TaskEnds DEF Once, AtMostOnce, Numbered
    <2>3. CASE task' # Idle
      <3>1. task'.buf = f /\ TaskBound(task') \subseteq TaskBound(task)
        BY <1>2, <1>3, <2>1, <2>3, FloodNextBound
      <3>2. TaskApart(sock, task') /\ HeardApart(sock, task', heard)
        BY <1>2, <2>3, <3>1, TaskLess
      <3>3. Numbered(sock', task', heard', Len(sent'))
        BY <1>2, <1>6, <2>1, <3>1 DEF Numbered
      <3>4. QED
        BY <1>6, <2>1, <3>2, <3>3 DEF Once, AtMostOnce
    <2>4. QED
      BY <2>2, <2>3
  <1>9. QED
    BY <1>7, <1>8

\* A transmission is new: nothing on the way, in hand or heard is a copy of it.
LEMMA TransmitOnce ==
  ASSUME IInv, NEW q \in [Node -> Seq(Datagram)], NEW hd \in [Host -> Seq(Nat)],
         QueueApart(q),
         TaskApart(q, task), HeardApart(q, task, hd), Numbered(q, task, hd, Len(sent)),
         NEW h \in Host, NEW kind \in FrameKind, NEW dst \in Mac,
         NEW to \in Host \cup {Nobody}, Transmit(q, h, kind, dst, to)
  PROVE  /\ QueueApart(sock') /\ TaskApart(sock', task) /\ HeardApart(sock', task, hd)
         /\ Numbered(sock', task, hd, Len(sent'))
  <1> DEFINE f == [kind |-> kind, dst |-> dst, src |-> h, to |-> to, tag |-> 0,
                   id |-> Len(sent) + 1]
             r == [src |-> h, kind |-> kind, to |-> to, config |-> config]
  <1>1. sent \in Seq(SentFrame) /\ config \in Nat /\ Len(sent) \in Nat /\ NetType
    BY DEF IInv, NetType, SettingsType
  <1>2. f \in Frame /\ f.id = Len(sent) + 1 /\ f.src = h
    <2>1. Len(sent) + 1 \in Nat /\ 0 \in Tag /\ h \in Mac
      BY <1>1, Addresses DEF Tag
    <2>2. QED
      BY <2>1 DEF Frame
  <1>3. r \in SentFrame
    BY <1>1 DEF SentFrame
  <1>4. sock' = Deliver(q, h, f) /\ sent' = Append(sent, r) /\ h \in Intf
    BY Links DEF Transmit
  <1> HIDE DEF f, r
  <1>5. Len(sent') = Len(sent) + 1
    BY <1>1, <1>3, <1>4
  <1>6. /\ \A n \in Node : \A k \in 1..Len(q[n]) : q[n][k].frame.id # f.id
        /\ task # Idle => task.buf.id # f.id
        /\ \A g \in Host : \A k \in 1..Len(hd[g]) : hd[g][k] # f.id
    <2>1. ASSUME NEW x, x <= Len(sent), x \in Nat
          PROVE  x # f.id
      BY <1>1, <1>2, <2>1
    <2>2. ASSUME NEW n \in Node, NEW k \in 1..Len(q[n])
          PROVE  q[n][k].frame.id # f.id
      <3>1. q[n][k] \in Datagram
        <4>1. q[n] \in Seq(Datagram)
          OBVIOUS
        <4>2. QED
          BY <4>1
      <3>2. q[n][k].frame.id \in Nat
        BY <3>1, FrameFields DEF Datagram
      <3>3. q[n][k].frame.id <= Len(sent)
        BY DEF Numbered, Marked
      <3>4. QED
        BY <2>1, <3>2, <3>3
    <2>3. task # Idle => task.buf.id # f.id
      BY <1>1, <2>1, TaskFields, FrameFields DEF Numbered, Marked
    <2>4. ASSUME NEW g \in Host, NEW k \in 1..Len(hd[g])
          PROVE  hd[g][k] # f.id
      <3>1. hd[g][k] <= Len(sent)
        BY DEF Numbered
      <3>2. QED
        BY <1>1, <1>2, <3>1
    <2>5. QED
      BY <2>2, <2>3, <2>4
  <1>7. QueueApart(sock')
    <2>1. Clear(q, f.id, Dest(Peer[h]))
      BY <1>6 DEF Clear
    <2>2. QED
      BY <1>2, <1>4, <2>1, DeliverApart
  <1>8. TaskApart(sock', task)
    BY <1>2, <1>4, <1>6, DeliverClear DEF TaskApart
  <1>9. HeardApart(sock', task, hd)
    <2> SUFFICES ASSUME NEW g \in Host, NEW k \in 1..Len(hd[g])
                 PROVE  /\ Clear(sock', hd[g][k], {g})
                        /\ task # Idle => hd[g][k] # task.buf.id \/ g \notin TaskBound(task)
      BY DEF HeardApart
    <2>1. /\ Clear(q, hd[g][k], {g}) /\ f.id # hd[g][k]
          /\ task # Idle => hd[g][k] # task.buf.id \/ g \notin TaskBound(task)
      BY <1>6 DEF HeardApart
    <2>2. QED
      BY <1>2, <1>4, <2>1, DeliverClear
  <1>10. Numbered(sock', task, hd, Len(sent'))
    <2>1. Marked(f, Len(sent'))
      BY <1>2, <1>1, <1>5, Addresses DEF Marked
    <2>2. ASSUME NEW n \in Node, NEW k \in 1..Len(sock'[n])
          PROVE  Marked(sock'[n][k].frame, Len(sent'))
      <3>1. ASSUME NEW o \in Node, NEW j \in 1..Len(q[o])
            PROVE  Marked(q[o][j].frame, Len(sent'))
        <4>1. Marked(q[o][j].frame, Len(sent))
          BY DEF Numbered
        <4>2. q[o] \in Seq(Datagram)
          OBVIOUS
        <4>3. q[o][j] \in Datagram
          BY <4>2
        <4>4. q[o][j].frame.id \in Nat
          BY <4>3, FrameFields DEF Datagram
        <4>5. QED
          BY <1>1, <1>5, <4>1, <4>4 DEF Marked
      <3>2. QED
        BY <1>2, <1>4, <2>1, <3>1, DeliverMarked
    <2>3. task # Idle => Marked(task.buf, Len(sent'))
      <3>1. task # Idle => task.buf.id \in Nat
        BY <1>1, TaskFields, FrameFields
      <3>2. QED
        BY <1>1, <1>5, <3>1 DEF Numbered, Marked
    <2>4. ASSUME NEW g \in Host, NEW k \in 1..Len(hd[g])
          PROVE  hd[g][k] <= Len(sent')
      <3>1. hd[g] \in Seq(Nat)
        OBVIOUS
      <3>2. hd[g][k] <= Len(sent)
        BY DEF Numbered
      <3>3. hd[g][k] \in Nat
        BY <3>1
      <3>4. QED
        BY <1>1, <1>5, <3>2, <3>3
    <2>5. QED
      BY <2>2, <2>3, <2>4 DEF Numbered
  <1>11. QED
    BY <1>7, <1>8, <1>9, <1>10

\* A host takes the oldest datagram of its socket, and accepts it or does not.
LEMMA VisitOnce ==
  ASSUME IInv, Once, NEW h \in Host, Visits(h), NEW hd \in [Host -> Seq(Nat)],
         hd = heard \/ hd = [heard EXCEPT ![h] = Append(@, Head(sock[h]).frame.id)]
  PROVE  /\ Taken(h) \in [Node -> Seq(Datagram)] /\ QueueApart(Taken(h))
         /\ TaskApart(Taken(h), task) /\ HeardApart(Taken(h), task, hd)
         /\ Numbered(Taken(h), task, hd, Len(sent))
         /\ \A g \in Host : \A j, k \in 1..Len(hd[g]) : hd[g][j] = hd[g][k] => j = k
  <1> DEFINE d == Head(sock[h])
  <1>1. sock[h] # <<>> /\ task = Idle
    BY DEF Visits
  <1>2. NetType /\ h \in Node /\ QueueSound(mac, sock) /\ heard \in [Host -> Seq(Nat)]
    BY Links DEF IInv, Soundness, NetType
  <1>3. d.iif \in Intf /\ d.frame \in Frame /\ d.iif = h
    BY <1>1, <1>2, Head1, Interfaces
  <1>4. 1 \in 1..Len(sock[h]) /\ sock[h][1] = d /\ Dest(d.iif) = {h}
    BY <1>1, <1>2, <1>3, Left, DestOf
  <1> HIDE DEF d
  <1>5. /\ QueueApart(sock) /\ HeardApart(sock, task, heard) /\ AtMostOnce
        /\ Numbered(sock, task, heard, Len(sent))
    BY DEF Once
  <1>6. QueueApart(Taken(h)) /\ Clear(Taken(h), d.frame.id, {h})
    BY <1>1, <1>2, <1>4, <1>5, TakenApart DEF d
  <1>7. ASSUME NEW g \in Host, NEW k \in 1..Len(hd[g])
        PROVE  \/ k \in 1..Len(heard[g]) /\ hd[g][k] = heard[g][k]
               \/ g = h /\ k = Len(heard[g]) + 1 /\ hd[g][k] = d.frame.id
    <2>1. heard[g] \in Seq(Nat)
      BY <1>2
    <2>2. hd[g] = heard[g] \/ (g = h /\ hd[g] = Append(heard[g], d.frame.id))
      BY <1>2 DEF d
    <2>3. QED
      BY <2>1, <2>2
  <1>8. HeardApart(Taken(h), task, hd)
    <2> SUFFICES ASSUME NEW g \in Host, NEW k \in 1..Len(hd[g])
                 PROVE  Clear(Taken(h), hd[g][k], {g})
      BY <1>1 DEF HeardApart
    <2>1. CASE k \in 1..Len(heard[g]) /\ hd[g][k] = heard[g][k]
      <3>1. Clear(sock, heard[g][k], {g})
        BY <1>5, <2>1 DEF HeardApart
      <3>2. QED
        BY <1>1, <1>2, <2>1, <3>1, TakenClear
    <2>2. CASE g = h /\ hd[g][k] = d.frame.id
      BY <1>6, <2>2
    <2>3. QED
      BY <1>7, <2>1, <2>2
  <1>9. Numbered(Taken(h), task, hd, Len(sent))
    <2>1. d.frame.id <= Len(sent)
      BY <1>2, <1>4, <1>5 DEF Numbered, Marked
    <2>2. ASSUME NEW o \in Node, NEW k \in 1..Len(Taken(h)[o])
          PROVE  Marked(Taken(h)[o][k].frame, Len(sent))
      <3>1. \E j \in 1..Len(sock[o]) : Taken(h)[o][k] = sock[o][j]
        BY <1>1, <1>2, LeftFrom
      <3>2. QED
        BY <1>5, <3>1 DEF Numbered
    <2>3. \A g \in Host : \A k \in 1..Len(hd[g]) : hd[g][k] <= Len(sent)
      BY <1>5, <1>7, <2>1 DEF Numbered
    <2>4. QED
      BY <1>1, <2>2, <2>3 DEF Numbered
  <1>10. ASSUME NEW g \in Host, NEW j \in 1..Len(hd[g]), NEW k \in 1..Len(hd[g]),
                hd[g][j] = hd[g][k]
         PROVE  j = k
    <2>1. \A x \in 1..Len(heard[g]) : g = h => heard[g][x] # d.frame.id
      <3>1. ASSUME NEW x \in 1..Len(heard[g]), g = h
            PROVE  heard[g][x] # d.frame.id
        <4>1. Clear(sock, heard[g][x], {h})
          BY <1>5, <3>1 DEF HeardApart
        <4>2. sock[h][1].frame.id = heard[g][x] => Dest(sock[h][1].iif) \cap {h} = {}
          BY <1>2, <1>4, <4>1 DEF Clear
        <4>3. QED
          BY <1>4, <4>2
      <3>2. QED
        BY <3>1
    <2>2. \A x, y \in 1..Len(heard[g]) : heard[g][x] = heard[g][y] => x = y
      BY <1>5 DEF AtMostOnce
    <2>3. QED
      BY <1>7, <1>10, <2>1, <2>2
  <1>11. TaskApart(Taken(h), task) /\ Taken(h) \in [Node -> Seq(Datagram)]
    BY <1>1, <1>2, TakenType DEF TaskApart
  <1>12. QED
    BY <1>6, <1>8, <1>9, <1>10, <1>11

LEMMA HostOnce ==
  ASSUME IInv, Once, HostStep
  PROVE  Once'
  <1> PICK h \in Host : \/ HostRecvRequest(h) \/ HostRecvReply(h) \/ HostRecvEcho(h)
                        \/ HostRecvEchoReply(h) \/ HostRefuse(h)
    BY DEF HostStep
  <1> DEFINE f == Head(sock[h]).frame
  <1>1. /\ Visits(h) /\ UNCHANGED <<mac, task>>
        /\ heard' = heard \/ heard' = [heard EXCEPT ![h] = Append(@, f.id)]
    BY DEF HostRecvRequest, HostRecvReply, HostRecvEcho, HostRecvEchoReply, HostRefuse,
        Hears,
           settings
  <1>2. \/ sock' = Taken(h) /\ sent' = sent
        \/ /\ QualifiesL3(h, f)
           /\ \/ Transmit(Taken(h), h, "arpReply", f.src, f.src)
              \/ Transmit(Taken(h), h, "reply", f.src, f.src)
              \/ Transmit(Taken(h), h, "arpRequest", BroadcastMac, f.src)
    BY DEF HostRecvRequest, HostRecvReply, HostRecvEcho, HostRecvEchoReply, HostRefuse,
        Hears
  <1>3. heard' \in [Host -> Seq(Nat)] /\ NobodyGarbled(mac)
    <2>1. NetType'
      BY HostStepKeeps
    <2>2. QED
      BY <2>1 DEF NetType, Once
  <1>4. /\ Taken(h) \in [Node -> Seq(Datagram)] /\ QueueApart(Taken(h))
        /\ TaskApart(Taken(h), task) /\ HeardApart(Taken(h), task, heard')
        /\ Numbered(Taken(h), task, heard', Len(sent))
        /\ \A g \in Host : \A j, k \in 1..Len(heard'[g]) : heard'[g][j] = heard'[g][k] => j = k
    BY <1>1, <1>3, VisitOnce
  <1>5. AtMostOnce'
    BY <1>4 DEF AtMostOnce
  <1>6. CASE sock' = Taken(h) /\ sent' = sent
    BY <1>1, <1>3, <1>4, <1>5, <1>6 DEF Once
  <1>7. CASE /\ QualifiesL3(h, f)
             /\ \/ Transmit(Taken(h), h, "arpReply", f.src, f.src)
                \/ Transmit(Taken(h), h, "reply", f.src, f.src)
                \/ Transmit(Taken(h), h, "arpRequest", BroadcastMac, f.src)
    <2>1. /\ f.src \in Host /\ f.src \in Mac /\ BroadcastMac \in Mac
          /\ {"arpReply", "reply", "arpRequest"} \subseteq FrameKind
      BY <1>1, <1>7, Heard, Addresses DEF Visits, FrameKind
    <2> HIDE DEF f
    <2>2. /\ QueueApart(sock') /\ TaskApart(sock', task) /\ HeardApart(sock', task, heard')
          /\ Numbered(sock', task, heard', Len(sent'))
      BY <1>3, <1>4, <1>7, <2>1, TransmitOnce
    <2>3. QED
      BY <1>1, <1>3, <1>5, <2>2 DEF Once
  <1>8. QED
    BY <1>2, <1>6, <1>7

\* A command that asks makes a host send a frame.
LEMMA AskTransmits ==
  ASSUME \/ \E c \in ArpCommands : ResolveArp(c[1], c[2])
         \/ \E c \in PingCommands : PingHost(c[1], c[2])
  PROVE  \E h \in Host, kind \in FrameKind, dst \in Mac, to \in Host \cup {Nobody} :
            Transmit(sock, h, kind, dst, to)
  <1>1. CASE \E c \in ArpCommands : ResolveArp(c[1], c[2])
    <2>1. PICK c \in ArpCommands : ResolveArp(c[1], c[2])
      BY <1>1
    <2>2. c[1] \in Host /\ c[2] \in Host \cup {Nobody} /\ BroadcastMac \in Mac
          /\ "arpRequest" \in FrameKind
      BY L2Assumption, Addresses DEF FrameKind
    <2>3. QED
      BY <2>1, <2>2 DEF ResolveArp
  <1>2. CASE \E c \in PingCommands : PingHost(c[1], c[2])
    <2>1. PICK c \in PingCommands : PingHost(c[1], c[2])
      BY <1>2
    <2>2. c[1] \in Host /\ c[2] \in Host \cup {Nobody} /\ c[2] \in Mac
          /\ "echo" \in FrameKind
      BY L2Assumption, Addresses DEF FrameKind
    <2>3. QED
      BY <2>1, <2>2 DEF PingHost
  <1>3. QED
    BY <1>1, <1>2

LEMMA AskOnce ==
  ASSUME IInv, Once, \/ \E c \in ArpCommands : ResolveArp(c[1], c[2])
                     \/ \E c \in PingCommands : PingHost(c[1], c[2])
  PROVE  Once'
  <1>1. UNCHANGED <<mac, task, heard>>
    BY DEF ResolveArp, PingHost
  <1>2. \E h \in Host, kind \in FrameKind, dst \in Mac, to \in Host \cup {Nobody} :
           Transmit(sock, h, kind, dst, to)
    BY AskTransmits
  <1>3. sock \in [Node -> Seq(Datagram)] /\ heard \in [Host -> Seq(Nat)]
    BY DEF IInv, NetType
  <1>4. /\ QueueApart(sock') /\ TaskApart(sock', task) /\ HeardApart(sock', task, heard)
        /\ Numbered(sock', task, heard, Len(sent'))
    BY <1>2, <1>3, TransmitOnce DEF Once
  <1>5. QED
    BY <1>1, <1>4 DEF Once, AtMostOnce

\* A step that moves no frame
LEMMA StillOnce ==
  ASSUME Once, UNCHANGED <<sock, mac, task, sent, heard>>
  PROVE  Once'
  BY DEF Once, AtMostOnce

LEMMA InitOnce == Init => Once
  <1> SUFFICES ASSUME Init PROVE Once
    OBVIOUS
  <1>1. QueueApart(sock) /\ TaskApart(sock, task) /\ HeardApart(sock, task, heard)
        /\ AtMostOnce
    BY DEF Init, QueueApart, TaskApart, HeardApart, AtMostOnce
  <1>2. Numbered(sock, task, heard, Len(sent)) /\ NobodyGarbled(mac)
    BY Addresses DEF Init, Numbered, NobodyGarbled
  <1>3. QED
    BY <1>1, <1>2 DEF Once

LEMMA NextOnce == IInv /\ Once /\ [Next]_vars => Once'
  <1> SUFFICES ASSUME IInv, Once, [Next]_vars PROVE Once'
    OBVIOUS
  <1>1. CASE Select
    BY <1>1, StillOnce DEF Select
  <1>2. CASE SwitchStep
    BY <1>2, AdmitFrameOnce, AdmissionOnce, ForwardOnce, FloodOnce DEF SwitchStep
  <1>3. CASE HostStep
    BY <1>3, HostOnce
  <1>4. CASE Command
    <2>1. CASE \/ \E c \in ArpCommands : ResolveArp(c[1], c[2])
               \/ \E c \in PingCommands : PingHost(c[1], c[2])
      BY <2>1, AskOnce
    <2>2. CASE \/ \E c \in VlanCommands : SetVlan(c[1], c[2])
               \/ \E c \in RemoveCommands : RemoveVlan(c[1], c[2])
               \/ \E c \in ModeCommands : SetMode(c[1], c[2])
               \/ \E c \in ModeCommands : c[2] = "access" /\ ClearSlots(c[1])
      BY <2>2, StillOnce DEF SetVlan, RemoveVlan, SetMode, ClearSlots, Configure
    <2>3. QED
      BY <1>4, <2>1, <2>2 DEF Command
  <1>5. CASE LeaveTrunk
    BY <1>5, StillOnce DEF LeaveTrunk, Configure
  <1>6. CASE UNCHANGED vars
    BY <1>6, StillOnce DEF vars
  <1>7. QED
    BY <1>1, <1>2, <1>3, <1>4, <1>5, <1>6 DEF Next, RxStep

\* No host of a tree accepts a transmission twice: the flood exempts the port that a
\* frame came in on (l2switch.c:144-156), the ports that are left lead to different
\* hosts, and an entry of the table never points back where the frame came from.
THEOREM FramesHeardOnce == Spec => []AtMostOnce
  <1>1. Once => AtMostOnce
    BY DEF Once
  <1>2. QED
    BY <1>1, Invariance, InitOnce, NextOnce, PTL DEF Spec
=============================================================================
