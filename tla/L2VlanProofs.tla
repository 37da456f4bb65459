---------------------------- MODULE L2VlanProofs ----------------------------
(* Theorems about who hears whom in module L2Switch: two hosts of one      *)
(* switch that share no VLAN never, the first member of the asker's VLAN   *)
(* always; and that commands do not fill the sockets.                      *)
EXTENDS L2SwitchProofs, FiniteSetTheorems

-----------------------------------------------------------------------------
(* Strangers on one switch. The VLAN that a frame is in has been a VLAN of  *)
(* the port that it came in on, from its admission to the end of its flood. *)

\* Some VLAN has been one of the port of host h and of the port of the sender of x.
Acquainted(w, st, tx, h, x) ==
    x \in st \/ w[Peer[h]] \cap w[Peer[tx[x].src]] # {}

\* A port uses no slot but the first in access mode, nor on the way there, and what it
\* is a member of it has been a member of.
PortsClean ==
    \A p \in Port :
        /\ Member(mode[p], vlans[p]) \subseteq was[p]
        /\ mode[p] = "access" \/ pending = p => \A s \in 2..Slots : vlans[p][s] = 0

\* A frame comes to the switch untagged, from its sender, and leaves for a host that
\* its sender may be heard by.
QueueFair(w, st, tx, q) ==
    \A n \in Node : \A k \in 1..Len(q[n]) :
        LET i == q[n][k].iif
            f == q[n][k].frame
        IN  /\ f.id \in 1..Len(tx)
            /\ i \in Port => f.tag = 0 /\ tx[f.id].src = Peer[i]
            /\ i \in Host => Acquainted(w, st, tx, i, f.id)

\* The VLAN of the frame in hand has been one of the incoming port's.
TaskFair(w, st, tx, md, t) ==
    t # Idle =>
        /\ t.buf.id \in 1..Len(tx) /\ tx[t.buf.id].src = Peer[t.iif]
        /\ t.op = "admit" =>
              t.buf.tag = 0 /\ (t.mode = "access" => md[t.iif] = "access" \/ 0 \in w[t.iif])
        /\ t.op = "forward" => t.buf.id \in st \/ VlanIdOf(t.buf, 0) \in w[t.iif]
        /\ t.op = "flood" => t.buf.id \in st \/ VlanIdOf(t.buf, t.prev) \in w[t.iif]

HeardFair(w, st, tx, hd) ==
    \A h \in Host : \A k \in 1..Len(hd[h]) :
        hd[h][k] \in 1..Len(tx) /\ Acquainted(w, st, tx, h, hd[h][k])

Separate ==
    /\ SingleSwitch /\ SlotsUnused /\ PortsClean
    /\ QueueFair(was, strays, sent, sock) /\ TaskFair(was, strays, sent, mode, task)
    /\ HeardFair(was, strays, sent, heard)

\* Histories only grow.
Later(w, st, tx, w2, st2, tx2) ==
    /\ \A p \in Port : w[p] \subseteq w2[p]
    /\ st \subseteq st2
    /\ \A x \in 1..Len(tx) : x \in 1..Len(tx2) /\ tx2[x].src = tx[x].src

LEMMA StillAcquainted ==
  ASSUME NEW w, NEW st, NEW tx, NEW w2, NEW st2, NEW tx2, Later(w, st, tx, w2, st2, tx2),
         NEW h \in Host, NEW x \in 1..Len(tx), tx[x].src \in Host,
         Acquainted(w, st, tx, h, x)
  PROVE  Acquainted(w2, st2, tx2, h, x)
  <1>1. Peer[h] \in Port /\ Peer[tx[x].src] \in Port /\ tx2[x].src = tx[x].src
    BY HostPort DEF Later
  <1>2. w[Peer[h]] \subseteq w2[Peer[h]] /\ w[Peer[tx[x].src]] \subseteq w2[Peer[tx[x].src]]
    BY <1>1 DEF Later
  <1>3. x \in st => x \in st2
    BY DEF Later
  <1>4. QED
    BY <1>1, <1>2, <1>3 DEF Acquainted

\* The sender of a transmission is a host.
LEMMA Senders ==
  ASSUME NetType
  PROVE  Len(sent) \in Nat /\ \A x \in 1..Len(sent) : sent[x].src \in Host
  <1>1. sent \in Seq(SentFrame)
    BY DEF NetType
  <1>2. \A x \in 1..Len(sent) : sent[x] \in SentFrame
    BY <1>1
  <1>3. QED
    BY <1>1, <1>2 DEF SentFrame

LEMMA QueueLater ==
  ASSUME NetType, NEW w, NEW st, NEW w2, NEW st2, NEW tx2,
         Later(w, st, sent, w2, st2, tx2), NEW q, QueueFair(w, st, sent, q)
  PROVE  QueueFair(w2, st2, tx2, q)
  <1> SUFFICES ASSUME NEW n \in Node, NEW k \in 1..Len(q[n])
               PROVE  LET i == q[n][k].iif
                          f == q[n][k].frame
                      IN  /\ f.id \in 1..Len(tx2)
                          /\ i \in Port => f.tag = 0 /\ tx2[f.id].src = Peer[i]
                          /\ i \in Host => Acquainted(w2, st2, tx2, i, f.id)
    BY DEF QueueFair
  <1> DEFINE i == q[n][k].iif
             f == q[n][k].frame
  <1>1. /\ f.id \in 1..Len(sent)
        /\ i \in Port => f.tag = 0 /\ sent[f.id].src = Peer[i]
        /\ i \in Host => Acquainted(w, st, sent, i, f.id)
    BY DEF QueueFair
  <1> HIDE DEF i, f
  <1>2. f.id \in 1..Len(tx2) /\ tx2[f.id].src = sent[f.id].src
    BY <1>1 DEF Later
  <1>3. i \in Host => Acquainted(w2, st2, tx2, i, f.id)
    BY <1>1, Senders, StillAcquainted
  <1>4. QED
    BY <1>1, <1>2, <1>3 DEF i, f

LEMMA HeardLater ==
  ASSUME NetType, NEW w, NEW st, NEW w2, NEW st2, NEW tx2,
         Later(w, st, sent, w2, st2, tx2), NEW hd, HeardFair(w, st, sent, hd)
  PROVE  HeardFair(w2, st2, tx2, hd)
  <1> SUFFICES ASSUME NEW h \in Host, NEW k \in 1..Len(hd[h])
               PROVE  hd[h][k] \in 1..Len(tx2) /\ Acquainted(w2, st2, tx2, h, hd[h][k])
    BY DEF HeardFair
  <1>1. hd[h][k] \in 1..Len(sent) /\ Acquainted(w, st, sent, h, hd[h][k])
    BY DEF HeardFair
  <1>2. QED
    BY <1>1, Senders, StillAcquainted DEF Later

LEMMA TaskLater ==
  ASSUME NetType, NEW w, NEW st, NEW w2, NEW st2, NEW tx2,
         Later(w, st, sent, w2, st2, tx2), NEW m, NEW m2, TaskFair(w, st, sent, m, task),
         \A p \in Port : m[p] = "access" => m2[p] = "access" \/ 0 \in w2[p]
  PROVE  TaskFair(w2, st2, tx2, m2, task)
  <1> SUFFICES ASSUME task # Idle
               PROVE  TaskFair(w2, st2, tx2, m2, task)
    BY DEF TaskFair
  <1>1. /\ task.buf.id \in 1..Len(sent) /\ sent[task.buf.id].src = Peer[task.iif]
        /\ task.op = "admit" =>
              task.buf.tag = 0
              /\ (task.mode = "access" => m[task.iif] = "access" \/ 0 \in w[task.iif])
        /\ task.op = "forward" => task.buf.id \in st \/ VlanIdOf(task.buf, 0) \in w[task.iif]
        /\ task.op = "flood" =>
              task.buf.id \in st \/ VlanIdOf(task.buf, task.prev) \in w[task.iif]
    BY DEF TaskFair
  <1>2. task.iif \in Port /\ w[task.iif] \subseteq w2[task.iif] /\ st \subseteq st2
    BY TaskFields DEF Later
  <1>3. task.buf.id \in 1..Len(tx2) /\ tx2[task.buf.id].src = Peer[task.iif]
    BY <1>1 DEF Later
  <1>4. QED
    BY <1>1, <1>2, <1>3 DEF TaskFair

LEMMA DeliverFair ==
  ASSUME NEW w, NEW st, NEW tx, NEW q \in [Node -> Seq(Datagram)], NEW i \in Intf,
         NEW f \in Frame, QueueFair(w, st, tx, q), f.id \in 1..Len(tx),
         Peer[i] \in Port => f.tag = 0 /\ tx[f.id].src = i,
         Peer[i] \in Host => Acquainted(w, st, tx, Peer[i], f.id)
  PROVE  QueueFair(w, st, tx, Deliver(q, i, f))
  <1> DEFINE r == Deliver(q, i, f)
             d == [iif |-> Peer[i], frame |-> f]
             Ok(e) == /\ e.frame.id \in 1..Len(tx)
                      /\ e.iif \in Port => e.frame.tag = 0 /\ tx[e.frame.id].src = Peer[e.iif]
                      /\ e.iif \in Host => Acquainted(w, st, tx, e.iif, e.frame.id)
  <1>1. ASSUME NEW n \in Node, NEW k \in 1..Len(r[n])
        PROVE  (k \in 1..Len(q[n]) /\ r[n][k] = q[n][k]) \/ r[n][k] = d
    BY Delivered
  <1>2. Ok(d)
    BY Links
  <1>3. \A n \in Node : \A k \in 1..Len(q[n]) : Ok(q[n][k])
    BY DEF QueueFair
  <1> HIDE DEF r, d, Ok
  <1>4. \A n \in Node : \A k \in 1..Len(r[n]) : Ok(r[n][k])
    BY <1>1, <1>2, <1>3
  <1>5. QueueFair(w, st, tx, r)
    BY <1>4 DEF QueueFair, Ok
  <1>6. QED
    BY <1>5 DEF r

LEMMA TakenFair ==
  ASSUME NetType, NEW n \in Node, sock[n] # <<>>, QueueFair(was, strays, sent, sock)
  PROVE  /\ QueueFair(was, strays, sent, Taken(n))
         /\ LET d == Head(sock[n])
            IN  /\ d.frame.id \in 1..Len(sent)
                /\ d.iif \in Port => d.frame.tag = 0 /\ sent[d.frame.id].src = Peer[d.iif]
                /\ d.iif \in Host => Acquainted(was, strays, sent, d.iif, d.frame.id)
  <1> DEFINE Ok(e) == /\ e.frame.id \in 1..Len(sent)
                      /\ e.iif \in Port =>
                            e.frame.tag = 0 /\ sent[e.frame.id].src = Peer[e.iif]
                      /\ e.iif \in Host => Acquainted(was, strays, sent, e.iif, e.frame.id)
  <1>1. \A o \in Node : \A k \in 1..Len(sock[o]) : Ok(sock[o][k])
    BY DEF QueueFair
  <1>2. 1 \in 1..Len(sock[n]) /\ sock[n][1] = Head(sock[n])
    BY Left
  <1> HIDE DEF Ok
  <1>3. \A o \in Node : \A k \in 1..Len(Taken(n)[o]) : Ok(Taken(n)[o][k])
    BY <1>1, LeftFrom
  <1>4. Ok(Head(sock[n]))
    BY <1>1, <1>2
  <1>5. QED
    BY <1>3, <1>4 DEF QueueFair, Ok

LEMMA AdmitFrameFair ==
  ASSUME IInv, Separate, NEW s \in Switch, AdmitFrame(s)
  PROVE  Separate'
  <1> DEFINE d == Head(sock[s])
  <1>1. sock[s] # <<>> /\ task' = Admit(s, d.iif, d.frame, mode[d.iif]) /\ sock' = Taken(s)
        /\ UNCHANGED <<settings, sent, heard, strays>>
    BY DEF AdmitFrame, Visits
  <1>2. NetType /\ s \in Node /\ QueueSound(mac, sock) /\ SettingsType
    BY Links DEF IInv, Soundness
  <1>3. d.iif \in Intf /\ d.frame \in Frame /\ Owner[d.iif] = s
    BY <1>1, <1>2, Head1
  <1>4. d.iif \in Port
    BY <1>3, Interfaces
  <1>5. /\ QueueFair(was, strays, sent, sock')
        /\ d.frame.id \in 1..Len(sent) /\ d.frame.tag = 0
        /\ sent[d.frame.id].src = Peer[d.iif]
    BY <1>1, <1>2, <1>4, TakenFair DEF Separate
  <1> HIDE DEF d
  <1>6. TaskFair(was, strays, sent, mode, task')
    BY <1>1, <1>5 DEF TaskFair, Admit
  <1>7. was' = was /\ mode' = mode /\ vlans' = vlans /\ pending' = pending
    BY <1>1 DEF settings
  <1>8. QED
    BY <1>1, <1>5, <1>6, <1>7 DEF Separate, PortsClean

LEMMA AdmissionFair ==
  ASSUME IInv, Separate, AccessRecv \/ TrunkRecv \/ StrayRecv \/ SwitchRefuse
  PROVE  Separate'
  <1>1. task # Idle /\ task.op = "admit" /\ NetType /\ SettingsType
    BY NotIdle DEF IInv, AccessRecv, TrunkRecv, StrayRecv, SwitchRefuse, QualifiesAccess,
                   QualifiesTrunk, QualifiesStray
  <1>2. task.node \in Switch /\ task.iif \in Port /\ task.buf \in Frame /\ slot \in Tag
    BY <1>1, TaskFields DEF NetType
  <1>3. /\ task.buf.id \in 1..Len(sent) /\ sent[task.buf.id].src = Peer[task.iif]
        /\ task.buf.tag = 0
        /\ task.mode = "access" => mode[task.iif] = "access" \/ 0 \in was[task.iif]
    BY <1>1 DEF Separate, TaskFair
  <1>4. UNCHANGED <<settings, sock, sent, heard>>
    BY DEF AccessRecv, TrunkRecv, StrayRecv, SwitchRefuse, LearnAndForward
  <1>5. was' = was /\ mode' = mode /\ vlans' = vlans /\ pending' = pending
    BY <1>4 DEF settings
  <1>6. ASSUME strays \subseteq strays', TaskFair(was, strays', sent, mode, task')
        PROVE  Separate'
    <2>1. Later(was, strays, sent, was, strays', sent)
      BY <1>6 DEF Later
    <2>2. QueueFair(was, strays', sent, sock) /\ HeardFair(was, strays', sent, heard)
      BY <1>1, <2>1, QueueLater, HeardLater DEF Separate
    <2>3. QED
      BY <1>4, <1>5, <1>6, <2>2 DEF Separate, PortsClean
  <1>7. ASSUME NEW v \in Tag, LearnAndForward(v)
        PROVE  /\ task'.op = "forward" /\ task'.iif = task.iif /\ task' # Idle
               /\ task'.buf.id = task.buf.id /\ VlanIdOf(task'.buf, 0) = v
    <2>1. /\ Tagged(task.buf, v) \in Frame /\ Tagged(task.buf, v).id = task.buf.id
          /\ Tagged(task.buf, v).tag = v
      BY <1>2, <1>3, FrameEdits DEF Tagged, Frame
    <2>2. task' = Forward(task.node, task.iif, Tagged(task.buf, v))
      BY <1>7 DEF LearnAndForward
    <2>3. QED
      BY <1>2, <2>1, <2>2, NotIdle DEF VlanIdOf
  <1>8. CASE AccessRecv
    <2>1. AccessVlan(task.iif) \in Tag
      <3>1. vlans \in [Port -> [1..Slots -> Tag]] /\ 1 \in 1..Slots /\ 0 \in Tag
        BY <1>1, L2Assumption DEF SettingsType, Tag
      <3>2. QED
        BY <1>2, <3>1 DEF AccessVlan
    <2>2. AccessVlan(task.iif) \in was[task.iif]
      <3>1. task.mode = "access"
        BY <1>8 DEF AccessRecv, QualifiesAccess
      <3>2. Member(mode[task.iif], vlans[task.iif]) \subseteq was[task.iif]
        BY <1>2 DEF Separate, PortsClean
      <3>3. QED
        BY <1>3, <3>1, <3>2 DEF AccessVlan, Member
    <2>3. LearnAndForward(AccessVlan(task.iif)) /\ strays' = strays
      BY <1>8 DEF AccessRecv
    <2>4. TaskFair(was, strays', sent, mode, task')
      BY <1>3, <1>7, <2>1, <2>2, <2>3 DEF TaskFair
    <2>5. QED
      BY <1>6, <2>3, <2>4
  <1>9. CASE TrunkRecv
    BY <1>3, <1>9 DEF TrunkRecv, QualifiesTrunk
  <1>10. CASE StrayRecv
    <2>1. LearnAndForward(slot) /\ strays' = strays \cup {task.buf.id}
      BY <1>10 DEF StrayRecv
    <2>2. TaskFair(was, strays', sent, mode, task')
      BY <1>2, <1>3, <1>7, <2>1 DEF TaskFair
    <2>3. QED
      BY <1>6, <2>1, <2>2
  <1>11. CASE SwitchRefuse
    <2>1. task' = Idle /\ strays' = strays
      BY <1>11 DEF SwitchRefuse
    <2>2. QED
      BY <1>6, <2>1 DEF TaskFair
  <1>12. QED
    BY <1>8, <1>9, <1>10, <1>11

\* What a port of a single switch sends, a host hears that has been in the frame's VLAN.
LEMMA SendOutFair ==
  ASSUME IInv, Separate, task # Idle, NEW p \in Port, NEW v,
         SendOut(task.buf, p, v),
         task.buf.id \in strays \/ VlanIdOf(task.buf, v) \in was[task.iif]
  PROVE  QueueFair(was, strays, sent, sock')
  <1> DEFINE out == OutFrame(task.buf, p)
  <1>1. NetType /\ task.buf \in Frame /\ task.iif \in Port /\ p \in Intf
        /\ sock \in [Node -> Seq(Datagram)]
    BY TaskFields, Links DEF IInv, NetType
  <1>2. task.buf.id \in 1..Len(sent) /\ sent[task.buf.id].src = Peer[task.iif]
        /\ QueueFair(was, strays, sent, sock)
    BY DEF Separate, TaskFair
  <1>3. out \in Frame /\ out.id = task.buf.id
    <2>1. 0 \in Tag
      BY DEF Tag
    <2>2. QED
      BY <1>1, <2>1, FrameEdits DEF OutFrame, Frame
  <1>4. CASE ~SendsOn(task.buf, p, v)
    BY <1>2, <1>4 DEF SendOut
  <1>5. CASE SendsOn(task.buf, p, v)
    <2>1. sock' = Deliver(sock, p, out)
      BY <1>5 DEF SendOut
    <2>2. VlanIdOf(task.buf, v) \in was[p]
      BY <1>5 DEF SendsOn, Separate, PortsClean
    <2>3. Peer[p] \in Host /\ Peer[p] \notin Port /\ Peer[Peer[p]] = p
          /\ Peer[Peer[task.iif]] = task.iif
      BY <1>1, Links DEF Separate, SingleSwitch
    <2>4. Acquainted(was, strays, sent, Peer[p], out.id)
      BY <1>2, <1>3, <2>2, <2>3 DEF Acquainted
    <2> HIDE DEF out
    <2>5. QED
      BY <1>1, <1>2, <1>3, <2>1, <2>3, <2>4, DeliverFair
  <1>6. QED
    BY <1>4, <1>5

LEMMA ForwardFair ==
  ASSUME IInv, Separate, ForwardKnown \/ ForwardUnknown \/ FloodSend \/ FloodSkip
  PROVE  Separate'
  <1> DEFINE f == task.buf
             s == task.node
             prev == IF task.op = "flood" THEN task.prev ELSE 0
  <1>1. NetType /\ TaskSound(mac, task)
    BY DEF IInv, Soundness
  <1>2. task # Idle /\ task.op \in {"forward", "flood"}
    BY NotIdle DEF ForwardKnown, ForwardUnknown, FloodSend, FloodSkip
  <1>3. s \in Switch /\ task.iif \in Port /\ f \in Frame /\ f.dst \in Mac /\ f.tag \in Tag
        /\ prev \in Tag
    BY <1>1, <1>2, TaskFields, FrameFields DEF Tag
  <1>4. /\ f.id \in 1..Len(sent) /\ sent[f.id].src = Peer[task.iif]
        /\ f.id \in strays \/ VlanIdOf(f, prev) \in was[task.iif]
    BY <1>2 DEF Separate, TaskFair
  <1>5. UNCHANGED <<settings, sent, heard, strays>>
    BY DEF ForwardKnown, ForwardUnknown, FloodSend, FloodSkip
  <1>6. was' = was /\ mode' = mode /\ vlans' = vlans /\ pending' = pending
    BY <1>5 DEF settings
  <1>7. ASSUME NEW g \in Frame, NEW k \in Nat \ {0}, NEW v \in Tag,
               task' = Flood(s, task.iif, g, k, v),
               g.id = f.id, VlanIdOf(g, v) = VlanIdOf(f, prev)
        PROVE  TaskFair(was, strays, sent, mode, task')
    <2>1. task'.op = "flood" /\ task'.buf = g /\ task'.iif = task.iif /\ task'.prev = v
      BY <1>7 DEF Flood
    <2>2. QED
      BY <1>4, <1>7, <2>1 DEF TaskFair
  <1>8. ASSUME task' = Idle
        PROVE  TaskFair(was, strays, sent, mode, task')
    BY <1>8 DEF TaskFair
  <1>9. QueueFair(was, strays, sent, sock') /\ TaskFair(was, strays, sent, mode, task')
    <2>1. CASE ForwardKnown
      <3> DEFINE p == PortFor(f)
      <3>1. p # NoPort /\ SendOut(f, p, 0) /\ task' = Idle /\ task.op = "forward"
        BY <2>1 DEF ForwardKnown
      <3>2. p \in Port
        BY <1>1, <1>3, <3>1 DEF PortFor, NetType
      <3>3. prev = 0
        BY <3>1
      <3> HIDE DEF p, prev
      <3>4. QED
        BY <1>2, <1>4, <1>8, <3>1, <3>2, <3>3, SendOutFair
    <2>2. CASE ForwardUnknown
      <3>1. sock' = sock /\ (task' = Idle \/ task' = Flood(s, task.iif, f, 1, 0))
            /\ task.op = "forward" /\ 0 \in Tag
        BY <2>2 DEF ForwardUnknown, Tag
      <3>2. prev = 0
        BY <3>1
      <3> HIDE DEF f, s, prev
      <3>3. TaskFair(was, strays, sent, mode, task')
        BY <1>3, <1>7, <1>8, <3>1, <3>2
      <3>4. QED
        BY <3>1, <3>3 DEF Separate
    <2>3. ASSUME NEW g \in Frame, NEW v \in Tag, FloodNext(g, v), task.op = "flood",
                 g.id = f.id, VlanIdOf(g, v) = VlanIdOf(f, prev)
          PROVE  TaskFair(was, strays, sent, mode, task')
      <3>1. task.k + 1 \in Nat \ {0}
        BY <1>1, <1>2, <2>3, TaskFields
      <3>2. task' = Idle \/ task' = Flood(s, task.iif, g, task.k + 1, v)
        BY <2>3 DEF FloodNext
      <3> HIDE DEF f, s, prev
      <3>3. QED
        BY <1>7, <1>8, <2>3, <3>1, <3>2
    <2>4. CASE FloodSend
      <3> DEFINE p == PortSeq[s][task.k]
                 g == LeftInBuffer(f, p, task.prev)
                 v == VlanIdOf(f, task.prev)
      <3>1. SendOut(f, p, task.prev) /\ FloodNext(g, v) /\ task.op = "flood"
            /\ prev = task.prev
        BY <2>4 DEF FloodSend
      <3>2. task.k \in 1..Len(PortSeq[s])
        BY <1>1, <1>2, <3>1 DEF TaskSound
      <3>3. p \in Port
        BY <1>3, <3>2, Ports
      <3>4. Garbled(f).id = f.id /\ Garbled(f).tag = 0 /\ Garbled(f) \in Frame
        BY <1>3, FrameEdits DEF Garbled, Frame
      <3>5. g \in Frame /\ v \in Tag /\ g.id = f.id /\ VlanIdOf(g, v) = VlanIdOf(f, prev)
        BY <1>3, <3>1, <3>4 DEF LeftInBuffer, VlanIdOf
      <3> HIDE DEF f, s, p, g, v, prev
      <3>6. TaskFair(was, strays, sent, mode, task')
        BY <2>3, <3>1, <3>5
      <3>7. QueueFair(was, strays, sent, sock')
        BY <1>2, <1>4, <3>1, <3>3, SendOutFair DEF f
      <3>8. QED
        BY <3>6, <3>7
    <2>5. CASE FloodSkip
      <3>1. FloodNext(f, task.prev) /\ sock' = sock /\ task.op = "flood" /\ prev = task.prev
        BY <2>5 DEF FloodSkip
      <3> HIDE DEF f, prev
      <3>2. TaskFair(was, strays, sent, mode, task')
        BY <1>3, <2>3, <3>1
      <3>3. QED
        BY <3>1, <3>2 DEF Separate
    <2>6. QED
      BY <2>1, <2>2, <2>4, <2>5
  <1>10. QED
    BY <1>5, <1>6, <1>9 DEF Separate, PortsClean

\* A host's frame comes to its port untagged; what was sent before is as it was.
LEMMA TransmitFair ==
  ASSUME IInv, NEW q \in [Node -> Seq(Datagram)], QueueFair(was, strays, sent, q),
         NEW h \in Host, NEW kind \in FrameKind, NEW dst \in Mac,
         NEW to \in Host \cup {Nobody}, Transmit(q, h, kind, dst, to)
  PROVE  /\ QueueFair(was, strays, sent', sock')
         /\ Later(was, strays, sent, was, strays, sent')
  <1> DEFINE f == [kind |-> kind, dst |-> dst, src |-> h, to |-> to, tag |-> 0,
                   id |-> Len(sent) + 1]
             r == [src |-> h, kind |-> kind, to |-> to, config |-> config]
  <1>1. sent \in Seq(SentFrame) /\ config \in Nat /\ Len(sent) \in Nat /\ NetType
    BY DEF IInv, NetType, SettingsType
  <1>2. f \in Frame /\ f.id = Len(sent) + 1 /\ f.tag = 0
    <2>1. Len(sent) + 1 \in Nat /\ 0 \in Tag /\ h \in Mac
      BY <1>1, Addresses DEF Tag
    <2>2. QED
      BY <2>1 DEF Frame
  <1>3. r \in SentFrame /\ r.src = h
    BY <1>1 DEF SentFrame
  <1>4. sock' = Deliver(q, h, f) /\ sent' = Append(sent, r) /\ h \in Intf
    BY Links DEF Transmit
  <1> HIDE DEF f, r
  <1>5. /\ Len(sent') = Len(sent) + 1 /\ sent'[Len(sent) + 1] = r
        /\ \A x \in 1..Len(sent) : sent'[x] = sent[x] /\ x \in 1..Len(sent')
    BY <1>1, <1>3, <1>4
  <1>6. Later(was, strays, sent, was, strays, sent')
    BY <1>5 DEF Later
  <1>7. QueueFair(was, strays, sent', q)
    BY <1>1, <1>6, QueueLater
  <1>8. f.id \in 1..Len(sent') /\ sent'[f.id].src = h
    BY <1>1, <1>2, <1>3, <1>5
  <1>9. Peer[h] \in Port /\ Peer[h] \notin Host
    BY HostPort, Links
  <1>10. QED
    BY <1>2, <1>4, <1>6, <1>7, <1>8, <1>9, DeliverFair

LEMMA HostFair ==
  ASSUME IInv, Separate, HostStep
  PROVE  Separate'
  <1> PICK h \in Host : \/ HostRecvRequest(h) \/ HostRecvReply(h) \/ HostRecvEcho(h)
                        \/ HostRecvEchoReply(h) \/ HostRefuse(h)
    BY DEF HostStep
  <1> DEFINE d == Head(sock[h])
             f == Head(sock[h]).frame
  <1>1. /\ Visits(h) /\ UNCHANGED <<settings, task, strays>>
        /\ heard' = heard \/ heard' = [heard EXCEPT ![h] = Append(@, f.id)]
    BY DEF HostRecvRequest, HostRecvReply, HostRecvEcho, HostRecvEchoReply, HostRefuse,
        Hears,
           settings
  <1>2. \/ sock' = Taken(h) /\ sent' = sent
        \/ /\ QualifiesL3(h, f)
           /\ \/ Transmit(Taken(h), h, "arpReply", f.src, f.src)
              \/ Transmit(Taken(h), h, "reply", f.src, f.src)
              \/ Transmit(Taken(h), h, "arpRequest", BroadcastMac, f.src)
    BY DEF HostRecvRequest, HostRecvReply, HostRecvEcho, HostRecvEchoReply, HostRefuse,
        Hears
  <1>3. sock[h] # <<>> /\ task = Idle /\ was' = was /\ mode' = mode /\ vlans' = vlans
        /\ pending' = pending /\ strays' = strays /\ task' = task
    BY <1>1 DEF Visits, settings
  <1>4. NetType /\ h \in Node /\ QueueSound(mac, sock) /\ heard \in [Host -> Seq(Nat)]
    BY Links DEF IInv, Soundness, NetType
  <1>5. d.iif = h
    BY <1>3, <1>4, Head1, Interfaces
  <1>6. /\ QueueFair(was, strays, sent, Taken(h)) /\ f.id \in 1..Len(sent)
        /\ Acquainted(was, strays, sent, h, f.id)
    BY <1>3, <1>4, <1>5, TakenFair DEF Separate
  <1>7. HeardFair(was, strays, sent, heard')
    <2> SUFFICES ASSUME NEW g \in Host, NEW k \in 1..Len(heard'[g])
                 PROVE  /\ heard'[g][k] \in 1..Len(sent)
                        /\ Acquainted(was, strays, sent, g, heard'[g][k])
      BY DEF HeardFair
    <2>1. HeardFair(was, strays, sent, heard)
      BY DEF Separate
    <2> HIDE DEF f, d
    <2>2. heard[g] \in Seq(Nat)
      BY <1>4
    <2>3. heard'[g] = heard[g] \/ (g = h /\ heard'[g] = Append(heard[g], f.id))
      BY <1>1, <1>4
    <2>4. \/ k \in 1..Len(heard[g]) /\ heard'[g][k] = heard[g][k]
          \/ g = h /\ heard'[g][k] = f.id
      BY <2>2, <2>3
    <2>5. QED
      BY <1>6, <2>1, <2>4 DEF HeardFair
  <1>8. CASE sock' = Taken(h) /\ sent' = sent
    BY <1>3, <1>6, <1>7, <1>8 DEF Separate, PortsClean, TaskFair
  <1>9. CASE /\ QualifiesL3(h, f)
             /\ \/ Transmit(Taken(h), h, "arpReply", f.src, f.src)
                \/ Transmit(Taken(h), h, "reply", f.src, f.src)
                \/ Transmit(Taken(h), h, "arpRequest", BroadcastMac, f.src)
    <2>1. /\ f.src \in Host /\ f.src \in Mac /\ BroadcastMac \in Mac
          /\ {"arpReply", "reply", "arpRequest"} \subseteq FrameKind
          /\ Taken(h) \in [Node -> Seq(Datagram)]
      BY <1>3, <1>4, <1>9, Heard, Addresses, TakenType DEF FrameKind
    <2> HIDE DEF f
    <2>2. QueueFair(was, strays, sent', sock') /\ Later(was, strays, sent, was, strays, sent')
      BY <1>6, <1>9, <2>1, TransmitFair
    <2>3. HeardFair(was, strays, sent', heard')
      BY <1>4, <1>7, <2>2, HeardLater
    <2>4. TaskFair(was, strays, sent', mode, task')
      BY <1>3 DEF TaskFair
    <2>5. QED
      BY <1>3, <2>2, <2>3, <2>4 DEF Separate, PortsClean
  <1>10. QED
    BY <1>2, <1>8, <1>9

LEMMA AskFair ==
  ASSUME IInv, Separate, \/ \E c \in ArpCommands : ResolveArp(c[1], c[2])
                         \/ \E c \in PingCommands : PingHost(c[1], c[2])
  PROVE  Separate'
  <1>1. UNCHANGED <<mode, vlans, pending, was, strays, task, heard>>
    BY DEF ResolveArp, PingHost
  <1>2. \E h \in Host, kind \in FrameKind, dst \in Mac, to \in Host \cup {Nobody} :
           Transmit(sock, h, kind, dst, to)
    BY AskTransmits
  <1>3. NetType /\ sock \in [Node -> Seq(Datagram)]
    BY DEF IInv, NetType
  <1>4. QueueFair(was, strays, sent', sock') /\ Later(was, strays, sent, was, strays, sent')
    BY <1>2, <1>3, TransmitFair DEF Separate
  <1>5. TaskFair(was, strays, sent', mode, task) /\ HeardFair(was, strays, sent', heard)
    BY <1>3, <1>4, TaskLater, HeardLater DEF Separate
  <1>6. QED
    BY <1>1, <1>4, <1>5 DEF Separate, PortsClean

\* One configuration step. A port enters trunk mode with an unused slot.
LEMMA ConfigureFair ==
  ASSUME IInv, Separate, NEW p \in Port, NEW m \in Mode, NEW v \in [1..Slots -> Tag],
         Configure(p, m, v),
         m = "access" \/ pending' = p => \A s \in 2..Slots : v[s] = 0,
         mode[p] = "access" /\ m # "access" => v = vlans[p],
         pending' \in {pending, p, NoPort}
  PROVE  Separate'
  <1>1. NetType /\ SettingsType /\ Separate
    BY DEF IInv
  <1>2. /\ mode' = [mode EXCEPT ![p] = m] /\ vlans' = [vlans EXCEPT ![p] = v]
        /\ was' = [was EXCEPT ![p] = @ \cup Member(m, v)]
        /\ UNCHANGED <<sock, task, sent, heard, strays>>
    BY DEF Configure
  <1>3. /\ \A o \in Port \ {p} : mode'[o] = mode[o] /\ vlans'[o] = vlans[o] /\ was'[o] = was[o]
        /\ mode'[p] = m /\ vlans'[p] = v /\ was'[p] = was[p] \cup Member(m, v)
    BY <1>1, <1>2 DEF SettingsType
  <1>4. PortsClean'
    <2> SUFFICES ASSUME NEW o \in Port
                 PROVE  /\ Member(mode'[o], vlans'[o]) \subseteq was'[o]
                        /\ mode'[o] = "access" \/ pending' = o =>
                              \A s \in 2..Slots : vlans'[o][s] = 0
      BY DEF PortsClean
    <2>1. CASE o = p
      BY <1>3, <2>1
    <2>2. CASE o # p
      <3>1. pending' = o => pending = o
        BY <2>2, Addresses
      <3>2. QED
        BY <1>1, <1>3, <2>2, <3>1 DEF Separate, PortsClean
    <2>3. QED
      BY <2>1, <2>2
  <1>5. Later(was, strays, sent, was', strays, sent)
    BY <1>3 DEF Later
  <1>6. ASSUME NEW o \in Port, mode[o] = "access"
        PROVE  mode'[o] = "access" \/ 0 \in was'[o]
    <2>1. CASE o = p /\ m # "access"
      <3>1. v = vlans[p] /\ 2 \in 2..Slots /\ 2 \in 1..Slots
        BY <1>6, <2>1, L2Assumption DEF Separate, SlotsUnused
      <3>2. vlans[p][2] = 0
        BY <1>6, <2>1, <3>1 DEF Separate, PortsClean
      <3>3. 0 \in Member(m, v)
        BY <2>1, <3>1, <3>2 DEF Member, Range1
      <3>4. QED
        BY <1>3, <2>1, <3>3
    <2>2. CASE ~(o = p /\ m # "access")
      BY <1>3, <1>6, <2>2
    <2>3. QED
      BY <2>1, <2>2
  <1>7. /\ QueueFair(was', strays, sent, sock) /\ TaskFair(was', strays, sent, mode', task)
        /\ HeardFair(was', strays, sent, heard)
    BY <1>1, <1>5, <1>6, QueueLater, TaskLater, HeardLater DEF Separate
  <1>8. QED
    BY <1>1, <1>2, <1>4, <1>7 DEF Separate

LEMMA ConfigFair ==
  ASSUME IInv, Separate,
         \/ \E c \in VlanCommands : SetVlan(c[1], c[2])
         \/ \E c \in RemoveCommands : RemoveVlan(c[1], c[2])
         \/ \E c \in ModeCommands : SetMode(c[1], c[2])
         \/ \E c \in ModeCommands : c[2] = "access" /\ ClearSlots(c[1])
         \/ LeaveTrunk
  PROVE  Separate'
  <1>1. /\ mode \in [Port -> Mode] /\ vlans \in [Port -> [1..Slots -> Tag]]
        /\ pending \in Port \cup {NoPort} /\ 1 \in 1..Slots /\ 0 \in Tag
        /\ NoPort \notin Port
    BY L2Assumption DEF IInv, SettingsType, Tag
  <1>2. \A o \in Port : mode[o] = "access" \/ pending = o => \A s \in 2..Slots : vlans[o][s] = 0
    BY DEF Separate, PortsClean
  <1>3. CASE \E c \in VlanCommands : SetVlan(c[1], c[2])
    <2>1. PICK c \in VlanCommands : SetVlan(c[1], c[2])
      BY <1>3
    <2> DEFINE p == c[1]
               v == c[2]
               w == IF mode[p] = "access" THEN [vlans[p] EXCEPT ![1] = v]
                    ELSE IF v \in Range1(vlans[p]) \/ 0 \notin Range1(vlans[p]) THEN vlans[p]
                    ELSE [vlans[p] EXCEPT ![FirstSlot(p, 0)] = v]
    <2>2. p \in Port /\ v \in Tag
      BY L2Assumption
    <2>3. pending = NoPort /\ pending' = pending /\ Configure(p, mode[p], w)
      BY <2>1 DEF SetVlan, Prompt
    <2>4. w \in [1..Slots -> Tag] /\ mode[p] \in Mode
      BY <1>1, <2>2
    <2>5. mode[p] = "access" => \A s \in 2..Slots : w[s] = 0
      <3>1. \A s \in 2..Slots : s # 1 /\ s \in 1..Slots
        BY L2Assumption
      <3>2. QED
        BY <1>1, <1>2, <2>2, <3>1
    <2> HIDE DEF p, v, w
    <2>6. QED
      BY <1>1, <2>2, <2>3, <2>4, <2>5, ConfigureFair
  <1>4. CASE \E c \in RemoveCommands : RemoveVlan(c[1], c[2])
    <2>1. PICK c \in RemoveCommands : RemoveVlan(c[1], c[2])
      BY <1>4
    <2> DEFINE p == c[1]
               v == c[2]
               w == IF v \in Range1(vlans[p]) THEN [vlans[p] EXCEPT ![FirstSlot(p, v)] = 0]
                    ELSE vlans[p]
    <2>2. p \in Port /\ v \in Tag
      BY L2Assumption
    <2>3. pending = NoPort /\ pending' = pending /\ Configure(p, mode[p], w)
      BY <2>1 DEF RemoveVlan, Prompt
    <2>4. w \in [1..Slots -> Tag] /\ mode[p] \in Mode
      BY <1>1, <2>2
    <2>5. mode[p] = "access" => \A s \in 2..Slots : w[s] = 0
      <3>1. \A s \in 2..Slots : s \in 1..Slots
        BY L2Assumption
      <3>2. QED
        BY <1>1, <1>2, <2>2, <3>1
    <2> HIDE DEF p, v, w
    <2>6. QED
      BY <1>1, <2>2, <2>3, <2>4, <2>5, ConfigureFair
  <1>5. CASE \E c \in ModeCommands : SetMode(c[1], c[2])
    <2>1. PICK c \in ModeCommands : SetMode(c[1], c[2])
      BY <1>5
    <2>2. c[1] \in Port /\ c[2] \in Mode
      BY L2Assumption
    <2>3. /\ pending = NoPort /\ pending' = pending /\ Configure(c[1], c[2], vlans[c[1]])
          /\ ~(mode[c[1]] = "trunk" /\ c[2] = "access")
      BY <2>1 DEF SetMode, Prompt
    <2>4. c[2] = "access" => mode[c[1]] = "access"
      BY <1>1, <2>2, <2>3 DEF Mode
    <2>5. QED
      BY <1>1, <1>2, <2>2, <2>3, <2>4, ConfigureFair
  <1>6. CASE \E c \in ModeCommands : c[2] = "access" /\ ClearSlots(c[1])
    <2>1. PICK c \in ModeCommands : ClearSlots(c[1])
      BY <1>6
    <2> DEFINE p == c[1]
               w == [s \in 1..Slots |-> IF s = 1 THEN vlans[p][1] ELSE 0]
    <2>2. p \in Port /\ "trunk" \in Mode
      BY L2Assumption DEF Mode
    <2>3. pending' = p /\ Configure(p, "trunk", w) /\ mode[p] = "trunk"
      BY <2>1 DEF ClearSlots
    <2>4. w \in [1..Slots -> Tag]
      BY <1>1, <2>2
    <2>5. \A s \in 2..Slots : w[s] = 0
      BY L2Assumption
    <2> HIDE DEF p, w
    <2>6. QED
      BY <1>1, <2>2, <2>3, <2>4, <2>5, ConfigureFair
  <1>7. CASE LeaveTrunk
    <2>1. /\ pending \in Port /\ pending # NoPort /\ pending' = NoPort
          /\ Configure(pending, "access", vlans[pending]) /\ "access" \in Mode
      BY <1>1, <1>7 DEF LeaveTrunk, Mode
    <2>2. QED
      BY <1>1, <1>2, <2>1, ConfigureFair
  <1>8. QED
    BY <1>3, <1>4, <1>5, <1>6, <1>7

LEMMA InitFair == SingleSwitch /\ SlotsUnused /\ Init => Separate
  <1> SUFFICES ASSUME SingleSwitch, SlotsUnused, Init PROVE Separate
    OBVIOUS
  <1>1. PortsClean
    <2>1. /\ mode = InitMode /\ vlans = InitVlans /\ pending = NoPort
          /\ was = [p \in Port |-> Member(InitMode[p], InitVlans[p])]
      BY DEF Init
    <2>2. QED
      BY <2>1, Addresses DEF PortsClean, SlotsUnused
  <1>2. QueueFair(was, strays, sent, sock) /\ TaskFair(was, strays, sent, mode, task)
        /\ HeardFair(was, strays, sent, heard)
    BY DEF Init, QueueFair, TaskFair, HeardFair
  <1>3. QED
    BY <1>1, <1>2 DEF Separate

LEMMA NextFair == IInv /\ Separate /\ [Next]_vars => Separate'
  <1> SUFFICES ASSUME IInv, Separate, [Next]_vars PROVE Separate'
    OBVIOUS
  <1>1. CASE Select
    BY <1>1 DEF Select, settings, Separate, PortsClean
  <1>2. CASE SwitchStep
    BY <1>2, AdmitFrameFair, AdmissionFair, ForwardFair DEF SwitchStep
  <1>3. CASE HostStep
    BY <1>3, HostFair
  <1>4. CASE Command
    BY <1>4, AskFair, ConfigFair DEF Command
  <1>5. CASE LeaveTrunk
    BY <1>5, ConfigFair
  <1>6. CASE UNCHANGED vars
    BY <1>6 DEF vars, settings, Separate, PortsClean
  <1>7. QED
    BY <1>1, <1>2, <1>3, <1>4, <1>5, <1>6 DEF Next, RxStep

\* On a single switch two hosts whose ports have never had a VLAN in common never hear
\* each other, but through the admission that looks at the mode twice
\* (layer2.h:260-304), however many ports there are and whatever is reconfigured.
THEOREM StrangersStaySeparate ==
  SingleSwitch /\ SlotsUnused /\ Spec => []StrangersAreNotHeard
  <1>1. Separate => StrangersAreNotHeard
    BY DEF Separate, HeardFair, Acquainted, StrangersAreNotHeard
  <1>2. QED
    BY <1>1, Invariance, InitFair, NextFair, PTL DEF Spec

-----------------------------------------------------------------------------
(* The first member answers. A request that no command has overtaken is on  *)
(* its way to the host it asks for, or the answer is on its way back, or it *)
(* has come.                                                                *)

\* What a request of host h for host g says, and the answer to it
Request(h, g) == [kind |-> "arpRequest", dst |-> BroadcastMac, src |-> h, to |-> g]
Answer(h, g) == [kind |-> "arpReply", dst |-> h, src |-> g, to |-> h]

\* Frame f says x, with tag v.
Says(f, x, v) ==
    f.kind = x.kind /\ f.dst = x.dst /\ f.src = x.src /\ f.to = x.to /\ f.tag = v

\* A frame that says x waits, untagged, for interface i.
Waits(q, i, x) ==
    \E k \in 1..Len(q[Owner[i]]) : q[Owner[i]][k].iif = i /\ Says(q[Owner[i]][k].frame, x, 0)

\* Such a frame is in hand: before its admission, admitted in VLAN v, in a flood that
\* has not come to the port of host g.
Admitted(t, i, x) == t.op = "admit" /\ t.iif = i /\ t.mode = "access" /\ Says(t.buf, x, 0)

Forwarded(t, i, x, v) == t.op = "forward" /\ t.iif = i /\ Says(t.buf, x, v)

Flooded(t, i, x, v, g) ==
    /\ t.op = "flood" /\ t.iif = i /\ Says(t.buf, x, v) /\ (v = 0 => t.prev = 0)
    /\ \E k \in t.k..Len(PortSeq[t.node]) : PortSeq[t.node][k] = Peer[g]

Underway(q, t, kn, v, h, g) ==
    \/ Waits(q, Peer[h], Request(h, g))
    \/ Admitted(t, Peer[h], Request(h, g))
    \/ Forwarded(t, Peer[h], Request(h, g), v)
    \/ Flooded(t, Peer[h], Request(h, g), v, g)
    \/ Waits(q, g, Request(h, g))
    \/ Waits(q, Peer[g], Answer(h, g))
    \/ Admitted(t, Peer[g], Answer(h, g))
    \/ Forwarded(t, Peer[g], Answer(h, g), v)
    \/ Waits(q, h, Answer(h, g))
    \/ g \in kn[h]

\* Host g is the first member of the VLAN of h on the switch of h.
Ready(h, g) ==
    /\ h \in Host /\ g \in Host
    /\ mode[Peer[h]] = "access" /\ mode[Peer[g]] = "access" /\ FirstMember(h, g)

Answered ==
    \A x \in 1..Len(sent) :
        /\ sent[x].config <= config
        /\ sent[x].kind = "arpRequest" /\ sent[x].config = config /\ Ready(sent[x].src, sent[x].to)
           => Underway(sock, task, known, vlans[Peer[sent[x].src]][1], sent[x].src, sent[x].to)

\* A delivery leaves what waits where it is.
LEMMA Kept ==
  ASSUME NEW q \in [Node -> Seq(Datagram)], NEW i \in Intf, NEW f \in Frame,
         NEW n \in Node, NEW k \in 1..Len(q[n])
  PROVE  k \in 1..Len(Deliver(q, i, f)[n]) /\ Deliver(q, i, f)[n][k] = q[n][k]
  <1> DEFINE d == [iif |-> Peer[i], frame |-> f]
             far == Owner[Peer[i]]
  <1>1. d \in Datagram /\ far \in Node
    BY Links DEF Datagram
  <1>2. Deliver(q, i, f) =
          [q EXCEPT ![far] = IF Len(q[far]) < SockCap THEN Append(q[far], d) ELSE q[far]]
    BY DEF Deliver
  <1> HIDE DEF d, far
  <1>3. q[n] \in Seq(Datagram)
    OBVIOUS
  <1>4. Deliver(q, i, f)[n] = q[n] \/ Deliver(q, i, f)[n] = Append(q[n], d)
    BY <1>1, <1>2
  <1>5. QED
    BY <1>1, <1>3, <1>4

\* With room in the socket the datagram waits at the far end.
LEMMA WaitsNew ==
  ASSUME NEW q \in [Node -> Seq(Datagram)], NEW i \in Intf, NEW f \in Frame, NEW x,
         Says(f, x, 0), Len(q[Owner[Peer[i]]]) < SockCap
  PROVE  Waits(Deliver(q, i, f), Peer[i], x)
  <1> DEFINE d == [iif |-> Peer[i], frame |-> f]
             far == Owner[Peer[i]]
             r == Deliver(q, i, f)
  <1>1. d \in Datagram /\ far \in Node /\ d.iif = Peer[i] /\ d.frame = f
    BY Links DEF Datagram
  <1>2. r = [q EXCEPT ![far] = Append(q[far], d)]
    BY DEF Deliver
  <1> HIDE DEF d
  <1>3. r[far] = Append(q[far], d) /\ q[far] \in Seq(Datagram)
    BY <1>1, <1>2
  <1>4. Len(r[far]) \in 1..Len(r[far]) /\ r[far][Len(r[far])] = d
    BY <1>1, <1>3
  <1> HIDE DEF r
  <1>5. Waits(r, Peer[i], x)
    BY <1>1, <1>4 DEF Waits
  <1>6. QED
    BY <1>5 DEF r

LEMMA WaitsOn ==
  ASSUME NEW q \in [Node -> Seq(Datagram)], NEW i \in Intf, NEW f \in Frame,
         NEW j \in Intf, NEW x, Waits(q, j, x)
  PROVE  Waits(Deliver(q, i, f), j, x)
  <1> DEFINE n == Owner[j]
             r == Deliver(q, i, f)
  <1>1. PICK k \in 1..Len(q[n]) : q[n][k].iif = j /\ Says(q[n][k].frame, x, 0)
    BY DEF Waits
  <1>2. k \in 1..Len(r[n]) /\ r[n][k] = q[n][k]
    BY Links, Kept
  <1> HIDE DEF r
  <1>3. Waits(r, j, x)
    BY <1>1, <1>2 DEF Waits
  <1>4. QED
    BY <1>3 DEF r

\* A visit leaves what waits where it is, unless it is what the visit finds.
LEMMA WaitsOrFound ==
  ASSUME NetType, NEW n \in Node, sock[n] # <<>>, NEW j \in Intf, NEW x, Waits(sock, j, x)
  PROVE  \/ Waits(Taken(n), j, x)
         \/ Owner[j] = n /\ Head(sock[n]).iif = j /\ Says(Head(sock[n]).frame, x, 0)
  <1> DEFINE o == Owner[j]
  <1>1. o \in Node /\ sock \in [Node -> Seq(Datagram)] /\ sock[o] \in Seq(Datagram)
    BY Links DEF NetType
  <1>2. PICK k \in 1..Len(sock[o]) : sock[o][k].iif = j /\ Says(sock[o][k].frame, x, 0)
    BY DEF Waits
  <1> HIDE DEF o
  <1>3. CASE o # n
    <2>1. Taken(n)[o] = sock[o]
      BY <1>1, <1>3 DEF Taken
    <2>2. QED
      BY <1>2, <2>1 DEF Waits, o
  <1>4. CASE o = n /\ k = 1
    <2>1. sock[o][1] = Head(sock[o])
      BY <1>1, <1>2, <1>4
    <2>2. QED
      BY <1>2, <1>4, <2>1 DEF o
  <1>5. CASE o = n /\ k # 1
    <2>1. Taken(n)[o] = Tail(sock[o])
      BY <1>1, <1>5 DEF Taken
    <2>2. k - 1 \in 1..Len(Tail(sock[o])) /\ Tail(sock[o])[k - 1] = sock[o][k]
      BY <1>1, <1>2, <1>5
    <2>3. Waits(Taken(n), j, x)
      BY <1>2, <2>1, <2>2 DEF Waits, o
    <2>4. QED
      BY <2>3
  <1>6. QED
    BY <1>3, <1>4, <1>5

\* The asker, the host it asks for and the ports of the switch between them
LEMMA ReadyFacts ==
  ASSUME NetType, SettingsType, NEW h, NEW g, Ready(h, g)
  PROVE  LET s == Owner[Peer[h]]
             v == vlans[Peer[h]][1]
         IN  /\ h \in Host /\ g \in Host /\ h # g /\ s \in Switch
             /\ Peer[h] \in Port /\ Peer[g] \in Port /\ Peer[h] # Peer[g] /\ Owner[Peer[g]] = s
             /\ Peer[Peer[h]] = h /\ Peer[Peer[g]] = g
             /\ mode[Peer[h]] = "access" /\ mode[Peer[g]] = "access"
             /\ v \in Tag /\ vlans[Peer[g]][1] = v
             /\ \E k \in 1..Len(PortSeq[s]) : PortSeq[s][k] = Peer[g]
             /\ \A k \in 1..Len(PortSeq[s]) : PortSeq[s][k] = Peer[g] =>
                   \A j \in 1..(k - 1) :
                      PortSeq[s][j] = Peer[h]
                      \/ v \notin Member(mode[PortSeq[s][j]], vlans[PortSeq[s][j]])
  <1> DEFINE s == Owner[Peer[h]]
             v == vlans[Peer[h]][1]
             stranger(j) == PortSeq[s][j] = Peer[h]
                            \/ v \notin Member(mode[PortSeq[s][j]], vlans[PortSeq[s][j]])
  <1>1. h \in Host /\ g \in Host /\ mode[Peer[h]] = "access" /\ mode[Peer[g]] = "access"
    BY DEF Ready
  <1>2. /\ s \in Switch /\ Peer[h] \in Port /\ Peer[g] \in Port
        /\ Peer[Peer[h]] = h /\ Peer[Peer[g]] = g
    BY <1>1, HostPort
  <1>3. v \in Tag
    BY <1>2, L2Assumption DEF SettingsType
  <1>4. PICK k \in 1..Len(PortSeq[s]) :
           /\ PortSeq[s][k] = Peer[g] /\ Peer[g] # Peer[h]
           /\ Member(mode[Peer[g]], vlans[Peer[g]]) \cap {v} # {}
           /\ \A j \in 1..(k - 1) : stranger(j)
    BY Zenon DEF Ready, FirstMember
  <1>5. vlans[Peer[g]][1] = v
    BY <1>1, <1>4 DEF Member
  <1>6. Owner[Peer[g]] = s
    BY <1>2, <1>4, Ports
  <1>7. \A i \in 1..Len(PortSeq[s]) : PortSeq[s][i] = Peer[g] => i = k
    BY <1>2, <1>4, Ports
  <1> HIDE DEF stranger
  <1>8. \A i \in 1..Len(PortSeq[s]) : PortSeq[s][i] = Peer[g] => \A j \in 1..(i - 1) : stranger(j)
    BY <1>4, <1>7
  <1>9. QED
    BY <1>1, <1>2, <1>3, <1>4, <1>5, <1>6, <1>8 DEF stranger

\* A step that finds the receiver thread between frames, takes no such datagram and
\* only adds to the sockets and to the ARP tables
LEMMA StaysUnderway ==
  ASSUME NEW q, NEW q2, NEW kn, NEW kn2, NEW h \in Host, NEW g \in Host, NEW v,
         Underway(q, task, kn, v, h, g), task' = task, kn[h] \subseteq kn2[h],
         \A i \in Intf, x \in {Request(h, g), Answer(h, g)} : Waits(q, i, x) => Waits(q2, i, x)
  PROVE  Underway(q2, task', kn2, v, h, g)
  <1>1. h \in Intf /\ g \in Intf /\ Peer[h] \in Intf /\ Peer[g] \in Intf
    BY Links
  <1>2. QED
    BY <1>1 DEF Underway

LEMMA AdmitFrameAnswers ==
  ASSUME IInv, NEW h, NEW g, Ready(h, g), NEW s \in Switch, AdmitFrame(s),
         Underway(sock, task, known, vlans[Peer[h]][1], h, g)
  PROVE  Underway(sock', task', known', vlans[Peer[h]][1], h, g)
  <1> DEFINE d == Head(sock[s])
             v == vlans[Peer[h]][1]
  <1>1. /\ sock[s] # <<>> /\ task = Idle /\ sock' = Taken(s) /\ known' = known
        /\ task' = Admit(s, d.iif, d.frame, mode[d.iif])
    BY DEF AdmitFrame, Visits
  <1>2. NetType /\ SettingsType /\ s \in Node
    BY Links DEF IInv
  <1>3. /\ h \in Host /\ g \in Host /\ Peer[h] \in Port /\ Peer[g] \in Port
        /\ mode[Peer[h]] = "access" /\ mode[Peer[g]] = "access"
    BY <1>2, ReadyFacts
  <1>4. h \in Intf /\ g \in Intf /\ Peer[h] \in Intf /\ Peer[g] \in Intf
        /\ Owner[h] # s /\ Owner[g] # s
    BY <1>3, Links
  <1>5. /\ task'.op = "admit" /\ task'.iif = d.iif /\ task'.buf = d.frame
        /\ task'.mode = mode[d.iif]
    BY <1>1 DEF Admit
  <1>6. ASSUME NEW i \in Intf, NEW x, Waits(sock, i, x), mode[i] = "access" \/ Owner[i] # s
        PROVE  Waits(sock', i, x) \/ Admitted(task', i, x)
    <2>1. \/ Waits(Taken(s), i, x)
          \/ Owner[i] = s /\ d.iif = i /\ Says(d.frame, x, 0)
      BY <1>1, <1>2, <1>6, WaitsOrFound
    <2>2. QED
      BY <1>1, <1>5, <1>6, <2>1 DEF Admitted
  <1> HIDE DEF d, v
  <1>7. task.op = "idle"
    BY <1>1, NotIdle
  <1>8. \/ Waits(sock, Peer[h], Request(h, g)) \/ Waits(sock, g, Request(h, g))
        \/ Waits(sock, Peer[g], Answer(h, g)) \/ Waits(sock, h, Answer(h, g)) \/ g \in known[h]
    BY <1>7 DEF Underway, Admitted, Forwarded, Flooded
  <1>9. /\ Waits(sock, Peer[h], Request(h, g)) =>
              Waits(sock', Peer[h], Request(h, g)) \/ Admitted(task', Peer[h], Request(h,
              g))
        /\ Waits(sock, Peer[g], Answer(h, g)) =>
              Waits(sock', Peer[g], Answer(h, g)) \/ Admitted(task', Peer[g], Answer(h, g))
    BY <1>3, <1>4, <1>6
  <1>10. /\ Waits(sock, g, Request(h, g)) => Waits(sock', g, Request(h, g))
         /\ Waits(sock, h, Answer(h, g)) => Waits(sock', h, Answer(h, g))
    BY <1>1, <1>2, <1>4, WaitsOrFound
  <1>11. QED
    BY <1>1, <1>8, <1>9, <1>10 DEF Underway, v

LEMMA AdmissionAnswers ==
  ASSUME IInv, NEW h, NEW g, Ready(h, g),
  AccessRecv \/ TrunkRecv \/ StrayRecv \/ SwitchRefuse,
         Underway(sock, task, known, vlans[Peer[h]][1], h, g)
  PROVE  Underway(sock', task', known', vlans[Peer[h]][1], h, g)
  <1> DEFINE v == vlans[Peer[h]][1]
  <1>1. task.op = "admit" /\ task # Idle /\ NetType /\ SettingsType
        /\ UNCHANGED <<sock, known>>
    BY NotIdle DEF IInv, AccessRecv, TrunkRecv, StrayRecv, SwitchRefuse, QualifiesAccess,
                   QualifiesTrunk, QualifiesStray, LearnAndForward
  <1>2. /\ h \in Host /\ g \in Host /\ Peer[h] \in Port /\ Peer[g] \in Port
        /\ mode[Peer[h]] = "access" /\ mode[Peer[g]] = "access"
        /\ v \in Tag /\ vlans[Peer[g]][1] = v
    BY <1>1, ReadyFacts
  <1>3. task.buf \in Frame
    BY <1>1, TaskFields
  <1>4. ASSUME NEW i, NEW x, Admitted(task, i, x), mode[i] = "access", vlans[i][1] = v
        PROVE  Forwarded(task', i, x, v)
    <2>1. /\ task.iif = i /\ task.mode = "access" /\ Says(task.buf, x, 0)
          /\ AccessVlan(task.iif) = v
      BY <1>4 DEF Admitted, AccessVlan
    <2>2. QualifiesAccess /\ ~QualifiesTrunk /\ ~QualifiesStray
      BY <1>1, <2>1 DEF QualifiesAccess, QualifiesTrunk, QualifiesStray, Says
    <2>3. task' = Forward(task.node, task.iif, Tagged(task.buf, v))
      BY <2>1, <2>2 DEF AccessRecv, TrunkRecv, StrayRecv, SwitchRefuse, LearnAndForward
    <2>4. Says(Tagged(task.buf, v), x, v)
      BY <1>2, <1>3, <2>1 DEF Says, Tagged, Frame
    <2>5. QED
      BY <2>1, <2>3, <2>4 DEF Forwarded, Forward
  <1> HIDE DEF v
  <1>5. \/ Waits(sock, Peer[h], Request(h, g)) \/ Waits(sock, g, Request(h, g))
        \/ Waits(sock, Peer[g], Answer(h, g)) \/ Waits(sock, h, Answer(h, g)) \/ g \in known[h]
        \/ Admitted(task, Peer[h], Request(h, g)) \/ Admitted(task, Peer[g], Answer(h, g))
    BY <1>1 DEF Underway, Forwarded, Flooded
  <1>6. QED
    BY <1>1, <1>2, <1>4, <1>5 DEF Underway, v

\* Once a frame is in a VLAN that a port in access mode is in, it reaches the host there.
LEMMA SendOutReaches ==
  ASSUME IInv, RoomLeft, NEW f \in Frame, NEW p \in Port, NEW prev, NEW v, NEW x,
         SendOut(f, p, prev), Says(f, x, v), VlanIdOf(f, prev) = v,
         mode[p] = "access", vlans[p][1] = v
  PROVE  Waits(sock', Peer[p], x)
  <1>1. SendsOn(f, p, prev) /\ OutFrame(f, p) = [f EXCEPT !.tag = 0]
    BY DEF SendsOn, Member, OutFrame
  <1>2. 0 \in Tag /\ p \in Intf /\ sock \in [Node -> Seq(Datagram)]
    BY Links DEF Tag, IInv, NetType
  <1>3. OutFrame(f, p) \in Frame
    BY <1>1, <1>2, FrameEdits
  <1>4. Says(OutFrame(f, p), x, 0)
    BY <1>1, <1>2 DEF Says, Frame
  <1>5. sock' = Deliver(sock, p, OutFrame(f, p))
    BY <1>1 DEF SendOut
  <1>6. Len(sock[Owner[Peer[p]]]) < SockCap
    BY <1>2, Links DEF RoomLeft
  <1>7. QED
    BY <1>2, <1>3, <1>4, <1>5, <1>6, WaitsNew

\* What a switch sends leaves what waits where it is.
LEMMA SendOutWaits ==
  ASSUME IInv, NEW f \in Frame, NEW p \in Port, NEW prev, SendOut(f, p, prev),
         NEW i \in Intf, NEW x, Waits(sock, i, x)
  PROVE  Waits(sock', i, x)
  <1>1. 0 \in Tag /\ p \in Intf /\ sock \in [Node -> Seq(Datagram)]
    BY Links DEF Tag, IInv, NetType
  <1>2. OutFrame(f, p) \in Frame
    BY <1>1, FrameEdits DEF OutFrame
  <1>3. sock' = sock \/ sock' = Deliver(sock, p, OutFrame(f, p))
    BY DEF SendOut
  <1>4. QED
    BY <1>1, <1>2, <1>3, WaitsOn

LEMMA ForwardKnownAnswers ==
  ASSUME IInv, RoomLeft, NEW h, NEW g, Ready(h, g), ForwardKnown,
         Underway(sock, task, known, vlans[Peer[h]][1], h, g)
  PROVE  Underway(sock', task', known', vlans[Peer[h]][1], h, g)
  <1> DEFINE v == vlans[Peer[h]][1]
             p == PortFor(task.buf)
             s == task.node
  <1>1. /\ task.op = "forward" /\ p # NoPort /\ SendOut(task.buf, p, 0)
        /\ task' = Idle /\ known' = known
    BY DEF ForwardKnown
  <1>2. /\ NetType /\ SettingsType /\ TaskSound(mac, task) /\ MacChain(mac) /\ task # Idle
    BY <1>1, NotIdle DEF IInv, Soundness
  <1>3. /\ task.node \in Switch /\ task.buf \in Frame /\ task.buf.dst \in Mac
        /\ Owner[task.iif] = task.node
    BY <1>2, TaskFields, FrameFields DEF TaskSound
  <1>4. p \in Port
    BY <1>1, <1>2, <1>3 DEF PortFor, NetType
  <1>5. /\ h \in Host /\ g \in Host /\ Peer[h] \in Port /\ Peer[g] \in Port
        /\ mode[Peer[h]] = "access" /\ Peer[Peer[h]] = h
        /\ Owner[Peer[g]] = Owner[Peer[h]] /\ v \in Tag
    BY <1>2, ReadyFacts
  <1>6. h \in Intf /\ g \in Intf /\ Peer[h] \in Intf /\ Peer[g] \in Intf
    BY <1>5, Links
  <1> HIDE DEF p, v
  <1>7. \A i \in Intf, x \in {Request(h, g), Answer(h, g)} :
           Waits(sock, i, x) => Waits(sock', i, x)
    BY <1>1, <1>3, <1>4, SendOutWaits
  <1>8. ~Forwarded(task, Peer[h], Request(h, g), v)
    BY <1>1 DEF Forwarded, Says, Request, PortFor, p
  <1>9. ASSUME Forwarded(task, Peer[g], Answer(h, g), v)
        PROVE  Waits(sock', h, Answer(h, g))
    <2>1. /\ task.iif = Peer[g] /\ task.buf.dst = h /\ task.buf.tag = v
          /\ Says(task.buf, Answer(h, g), v)
      BY <1>9 DEF Forwarded, Says, Answer
    <2>2. p = mac[s][h] /\ s = Owner[Peer[h]]
      BY <1>3, <1>5, <2>1, Addresses DEF PortFor, p
    <2>3. Owner[p] = s /\ h \in Behind[p]
      BY <1>1, <1>2, <1>3, <1>5, <2>2 DEF MacChain
    <2>4. p = Peer[h]
      BY <1>4, <1>5, <2>2, <2>3, HostPort, TreeAssumption
    <2>5. VlanIdOf(task.buf, 0) = v
      BY <2>1 DEF VlanIdOf
    <2>6. QED
      BY <1>1, <1>3, <1>5, <2>1, <2>4, <2>5, SendOutReaches DEF v
  <1>10. \/ Waits(sock, Peer[h], Request(h, g)) \/ Waits(sock, g, Request(h, g))
         \/ Waits(sock, Peer[g], Answer(h, g)) \/ Waits(sock, h, Answer(h, g)) \/ g \in known[h]
         \/ Forwarded(task, Peer[g], Answer(h, g), v)
    BY <1>1, <1>8 DEF Underway, Admitted, Flooded, v
  <1>11. QED
    BY <1>1, <1>6, <1>7, <1>9, <1>10 DEF Underway, v

LEMMA ForwardUnknownAnswers ==
  ASSUME IInv, NEW h, NEW g, Ready(h, g), ForwardUnknown,
         Underway(sock, task, known, vlans[Peer[h]][1], h, g)
  PROVE  Underway(sock', task', known', vlans[Peer[h]][1], h, g)
  <1> DEFINE v == vlans[Peer[h]][1]
             s == task.node
  <1>1. /\ task.op = "forward" /\ PortFor(task.buf) = NoPort /\ UNCHANGED <<sock, known>>
        /\ PortSeq[s] # <<>> => task' = Flood(s, task.iif, task.buf, 1, 0)
    BY DEF ForwardUnknown
  <1>2. NetType /\ SettingsType /\ TaskSound(mac, task) /\ task # Idle
    BY <1>1, NotIdle DEF IInv, Soundness
  <1>3. s \in Switch /\ task.iif \in Port /\ Owner[task.iif] = s /\ Sound(mac, task.iif, task.buf)
    BY <1>2, TaskFields DEF TaskSound
  <1>4. /\ h \in Host /\ g \in Host
        /\ \E k \in 1..Len(PortSeq[Owner[Peer[h]]]) : PortSeq[Owner[Peer[h]]][k] = Peer[g]
    BY <1>2, ReadyFacts
  <1> HIDE DEF v
  <1>5. ~Forwarded(task, Peer[g], Answer(h, g), v)
    <2> SUFFICES ASSUME Forwarded(task, Peer[g], Answer(h, g), v) PROVE FALSE
      OBVIOUS
    <2>1. task.buf.dst = h
      BY DEF Forwarded, Says, Answer
    <2>2. mac[s][h] # NoPort
      BY <1>3, <1>4, <2>1 DEF Sound, Knows
    <2>3. QED
      BY <1>1, <1>4, <2>1, <2>2, Addresses DEF PortFor
  <1>6. ASSUME Forwarded(task, Peer[h], Request(h, g), v)
        PROVE  Flooded(task', Peer[h], Request(h, g), v, g)
    <2>1. task.iif = Peer[h] /\ Says(task.buf, Request(h, g), v)
      BY <1>6 DEF Forwarded
    <2>2. PICK k \in 1..Len(PortSeq[s]) : PortSeq[s][k] = Peer[g]
      BY <1>3, <1>4, <2>1
    <2>3. PortSeq[s] # <<>>
      BY <2>2
    <2>4. /\ task'.op = "flood" /\ task'.iif = Peer[h] /\ task'.buf = task.buf
          /\ task'.k = 1 /\ task'.prev = 0 /\ task'.node = s
      BY <1>1, <2>1, <2>3 DEF Flood
    <2>5. QED
      BY <2>1, <2>2, <2>4 DEF Flooded
  <1>7. \/ Waits(sock, Peer[h], Request(h, g)) \/ Waits(sock, g, Request(h, g))
        \/ Waits(sock, Peer[g], Answer(h, g)) \/ Waits(sock, h, Answer(h, g)) \/ g \in known[h]
        \/ Forwarded(task, Peer[h], Request(h, g), v)
    BY <1>1, <1>5 DEF Underway, Admitted, Flooded, v
  <1>8. QED
    BY <1>1, <1>6, <1>7 DEF Underway, v

LEMMA FloodAnswers ==
  ASSUME IInv, RoomLeft, NEW h, NEW g, Ready(h, g), FloodSend \/ FloodSkip,
         Underway(sock, task, known, vlans[Peer[h]][1], h, g)
  PROVE  Underway(sock', task', known', vlans[Peer[h]][1], h, g)
  <1> DEFINE v == vlans[Peer[h]][1]
             s == task.node
             f == task.buf
             p == PortSeq[s][task.k]
  <1>1. task.op = "flood" /\ known' = known
    BY DEF FloodSend, FloodSkip
  <1>2. NetType /\ SettingsType /\ TaskSound(mac, task) /\ task # Idle
    BY <1>1, NotIdle DEF IInv, Soundness
  <1>3. /\ s \in Switch /\ task.iif \in Port /\ f \in Frame /\ task.prev \in Tag
        /\ Owner[task.iif] = s /\ task.k \in 1..Len(PortSeq[s])
    BY <1>1, <1>2, TaskFields DEF TaskSound
  <1>4. p \in Port /\ Len(PortSeq[s]) \in Nat /\ p \in Intf
    BY <1>3, Ports, Links
  <1>5. /\ h \in Host /\ g \in Host /\ Peer[h] \in Port /\ Peer[g] \in Port
        /\ Peer[h] # Peer[g] /\ Peer[Peer[g]] = g
        /\ mode[Peer[g]] = "access" /\ vlans[Peer[g]][1] = v
        /\ v \in Tag
    BY <1>2, ReadyFacts
  <1>6. h \in Intf /\ g \in Intf /\ Peer[h] \in Intf /\ Peer[g] \in Intf
    BY <1>5, Links
  <1>7. s = Owner[Peer[h]] =>
           \A k \in 1..Len(PortSeq[s]) : PortSeq[s][k] = Peer[g] =>
                \A j \in 1..(k - 1) :
                   PortSeq[s][j] = Peer[h]
                   \/ v \notin Member(mode[PortSeq[s][j]], vlans[PortSeq[s][j]])
    <2> DEFINE o == Owner[Peer[h]]
    <2>1. \A k \in 1..Len(PortSeq[o]) : PortSeq[o][k] = Peer[g] =>
             \A j \in 1..(k - 1) :
                PortSeq[o][j] = Peer[h]
                \/ v \notin Member(mode[PortSeq[o][j]], vlans[PortSeq[o][j]])
      BY <1>2, ReadyFacts
    <2> HIDE DEF o, v, s
    <2>2. QED
      BY <2>1 DEF o
  <1> HIDE DEF s, f, p, v
  <1>8. \A i \in Intf, x \in {Request(h, g), Answer(h, g)} :
           Waits(sock, i, x) => Waits(sock', i, x)
    <2>1. CASE FloodSend
      <3>1. SendOut(f, p, task.prev)
        BY <2>1 DEF FloodSend, f, p, s
      <3>2. QED
        BY <1>3, <1>4, <3>1, SendOutWaits
    <2>2. CASE FloodSkip
      BY <2>2 DEF FloodSkip
    <2>3. QED
      BY <2>1, <2>2
  <1>9. ASSUME Flooded(task, Peer[h], Request(h, g), v, g)
        PROVE  \/ Waits(sock', g, Request(h, g))
               \/ Flooded(task', Peer[h], Request(h, g), v, g)
    <2>1. /\ task.iif = Peer[h] /\ Says(f, Request(h, g), v) /\ (v = 0 => task.prev = 0)
          /\ \E k \in task.k..Len(PortSeq[s]) : PortSeq[s][k] = Peer[g]
      BY <1>9 DEF Flooded, f, s
    <2>2. PICK k \in task.k..Len(PortSeq[s]) : PortSeq[s][k] = Peer[g]
      BY <2>1
    <2>3. f.tag = v /\ VlanIdOf(f, task.prev) = v
      BY <2>1 DEF Says, VlanIdOf
    <2>4. ASSUME k # task.k, FloodNext(f, task.prev) \/ FloodNext(f, v)
          PROVE  Flooded(task', Peer[h], Request(h, g), v, g)
      <3>1. task.k # Len(PortSeq[s]) /\ k \in (task.k + 1)..Len(PortSeq[s])
        BY <1>3, <1>4, <2>2, <2>4
      <3>2. PICK w \in {task.prev, v} : FloodNext(f, w)
        BY <2>4
      <3>3. task' = Flood(s, Peer[h], f, task.k + 1, w)
        BY <2>1, <3>1, <3>2 DEF FloodNext, s
      <3>4. /\ task'.op = "flood" /\ task'.iif = Peer[h] /\ task'.buf = f
            /\ task'.k = task.k + 1 /\ task'.prev = w /\ task'.node = s
        BY <3>3 DEF Flood
      <3>5. v = 0 => w = 0
        BY <2>1, <3>2
      <3>6. QED
        BY <2>1, <2>2, <3>1, <3>4, <3>5 DEF Flooded
    <2>5. CASE FloodSkip
      <3>1. p = Peer[h] /\ FloodNext(f, task.prev)
        BY <2>1, <2>5 DEF FloodSkip, f, p, s
      <3>2. k # task.k
        BY <1>5, <2>2, <3>1 DEF p
      <3>3. QED
        BY <2>4, <3>1, <3>2
    <2>6. CASE FloodSend
      <3>1. /\ p # Peer[h] /\ SendOut(f, p, task.prev)
            /\ FloodNext(LeftInBuffer(f, p, task.prev), v)
        BY <2>1, <2>3, <2>6 DEF FloodSend, f, p, s
      <3>2. CASE k = task.k
        <4>1. p = Peer[g]
          BY <2>2, <3>2 DEF p
        <4>2. QED
          BY <1>3, <1>5, <2>1, <2>3, <3>1, <4>1, SendOutReaches
      <3>3. CASE k # task.k
        <4>1. k \in 1..Len(PortSeq[s]) /\ task.k \in 1..(k - 1)
          BY <1>3, <1>4, <2>2, <3>3
        <4>2. v \notin Member(mode[p], vlans[p])
          BY <1>3, <1>7, <2>1, <2>2, <3>1, <4>1 DEF p
        <4>3. LeftInBuffer(f, p, task.prev) = f
          BY <2>3, <4>2 DEF LeftInBuffer, SendsOn
        <4>4. QED
          BY <2>4, <3>1, <3>3, <4>3
      <3>4. QED
        BY <3>2, <3>3
    <2>7. QED
      BY <2>5, <2>6
  <1>10. \/ Waits(sock, Peer[h], Request(h, g)) \/ Waits(sock, g, Request(h, g))
         \/ Waits(sock, Peer[g], Answer(h, g)) \/ Waits(sock, h, Answer(h, g)) \/ g \in known[h]
         \/ Flooded(task, Peer[h], Request(h, g), v, g)
    BY <1>1 DEF Underway, Admitted, Forwarded, v
  <1>11. QED
    BY <1>1, <1>6, <1>8, <1>9, <1>10 DEF Underway, v

\* The visit of a host: the host of a request that it takes answers it, the asker
\* enters an answer in its table, and what else waits stays.
LEMMA HostAnswers ==
  ASSUME IInv, RoomLeft, NEW h, NEW g, Ready(h, g), HostStep,
         Underway(sock, task, known, vlans[Peer[h]][1], h, g)
  PROVE  Underway(sock', task', known', vlans[Peer[h]][1], h, g)
  <1> PICK o \in Host : \/ HostRecvRequest(o) \/ HostRecvReply(o) \/ HostRecvEcho(o)
                        \/ HostRecvEchoReply(o) \/ HostRefuse(o)
    BY DEF HostStep
  <1> DEFINE v == vlans[Peer[h]][1]
             d == Head(sock[o])
             q == Taken(o)
  <1>1. Visits(o) /\ task' = task
    BY DEF HostRecvRequest, HostRecvReply, HostRecvEcho, HostRecvEchoReply, HostRefuse,
        Hears
  <1>2. /\ sock[o] # <<>> /\ task = Idle /\ task.op = "idle" /\ NetType /\ SettingsType
        /\ QueueSound(mac, sock) /\ o \in Node /\ o \in Intf
    BY <1>1, Links, NotIdle DEF Visits, IInv, Soundness
  <1>3. d.frame \in Frame
    BY <1>2, Head1
  <1>4. q \in [Node -> Seq(Datagram)]
    BY <1>2, TakenType
  <1>5. /\ h \in Host /\ g \in Host /\ Peer[h] \in Port /\ Peer[g] \in Port
        /\ Peer[Peer[g]] = g
    BY <1>2, ReadyFacts
  <1>6. /\ h \in Intf /\ g \in Intf /\ Peer[h] \in Intf /\ Peer[g] \in Intf
        /\ Owner[h] = h /\ Owner[g] = g /\ Owner[Peer[h]] # o /\ Owner[Peer[g]] # o
        /\ Owner[Peer[g]] \in Node
    BY <1>5, Links
  <1>7. \/ sock' = q
        \/ \E kind \in FrameKind, dst \in Mac, to \in Host \cup {Nobody} :
              Transmit(q, o, kind, dst, to)
    <2>1. \/ sock' = q
          \/ /\ QualifiesL3(o, d.frame)
             /\ \/ Transmit(q, o, "arpReply", d.frame.src, d.frame.src)
                \/ Transmit(q, o, "reply", d.frame.src, d.frame.src)
                \/ Transmit(q, o, "arpRequest", BroadcastMac, d.frame.src)
      BY DEF HostRecvRequest, HostRecvReply, HostRecvEcho, HostRecvEchoReply, HostRefuse,
          Hears
    <2>2. QualifiesL3(o, d.frame) => d.frame.src \in Host
      BY <1>2, Heard
    <2>3. /\ Host \subseteq Mac /\ BroadcastMac \in Mac
          /\ {"arpReply", "reply", "arpRequest"} \subseteq FrameKind
      BY Addresses DEF FrameKind
    <2> HIDE DEF q, d
    <2>4. QED
      BY <2>1, <2>2, <2>3
  <1>8. \A x : \A i \in Intf : Waits(q, i, x) => Waits(sock', i, x)
    <2> HIDE DEF q
    <2>1. CASE sock' = q
      BY <2>1
    <2>2. ASSUME NEW kind \in FrameKind, NEW dst \in Mac, NEW to \in Host \cup {Nobody},
                 Transmit(q, o, kind, dst, to)
          PROVE  \A x : \A i \in Intf : Waits(q, i, x) => Waits(sock', i, x)
      <3> DEFINE f == [kind |-> kind, dst |-> dst, src |-> o, to |-> to, tag |-> 0,
                       id |-> Len(sent) + 1]
      <3>1. f \in Frame
        <4>1. Len(sent) + 1 \in Nat /\ 0 \in Tag /\ o \in Mac
          BY <1>2, Addresses DEF NetType, Tag
        <4>2. QED
          BY <4>1 DEF Frame
      <3>2. sock' = Deliver(q, o, f)
        BY <2>2 DEF Transmit
      <3> HIDE DEF f
      <3>3. QED
        BY <1>2, <1>4, <3>1, <3>2, WaitsOn
    <2>3. QED
      BY <1>7, <2>1, <2>2
  <1>9. \A x : \A i \in Intf : Waits(sock, i, x) =>
           \/ Waits(sock', i, x)
           \/ Owner[i] = o /\ Says(d.frame, x, 0)
    <2> HIDE DEF d
    <2>1. QED
      BY <1>2, <1>8, WaitsOrFound DEF d
  <1>10. known[h] \subseteq known'[h]
    <2>1. known' = known \/ known' = [known EXCEPT ![o] = @ \cup {d.frame.src}]
      BY DEF HostRecvRequest, HostRecvReply, HostRecvEcho, HostRecvEchoReply, HostRefuse
    <2>2. known \in [Host -> SUBSET Host]
      BY <1>2 DEF NetType
    <2> HIDE DEF d
    <2>3. QED
      BY <1>5, <2>1, <2>2
  <1>11. ASSUME Owner[g] = o, Says(d.frame, Request(h, g), 0)
         PROVE  Waits(sock', Peer[g], Answer(h, g))
    <2>1. /\ o = g /\ d.frame.kind = "arpRequest" /\ d.frame.dst = BroadcastMac
          /\ d.frame.tag = 0 /\ d.frame.src = h /\ d.frame.to = g
      BY <1>6, <1>11 DEF Says, Request
    <2>2. HostRecvRequest(g)
      BY <2>1 DEF HostRecvReply, HostRecvEcho, HostRecvEchoReply, HostRefuse, Hears,
          QualifiesL3
    <2>3. Transmit(q, g, "arpReply", h, h)
      BY <2>1, <2>2 DEF HostRecvRequest
    <2> DEFINE f == [kind |-> "arpReply", dst |-> h, src |-> g, to |-> h, tag |-> 0,
                     id |-> Len(sent) + 1]
    <2>4. f \in Frame /\ Says(f, Answer(h, g), 0)
      <3>1. Len(sent) + 1 \in Nat /\ 0 \in Tag /\ g \in Mac /\ h \in Mac /\ "arpReply" \in FrameKind
        BY <1>2, <1>5, Addresses DEF NetType, Tag, FrameKind
      <3>2. QED
        BY <1>5, <3>1 DEF Frame, Says, Answer
    <2>5. sock' = Deliver(q, g, f)
      BY <2>3 DEF Transmit
    <2>6. Len(q[Owner[Peer[g]]]) < SockCap
      <3>1. q[Owner[Peer[g]]] = sock[Owner[Peer[g]]]
        BY <1>2, <1>6 DEF Taken, NetType
      <3>2. QED
        BY <1>6, <3>1 DEF RoomLeft
    <2> HIDE DEF f, q
    <2>7. QED
      BY <1>4, <1>6, <2>4, <2>5, <2>6, WaitsNew
  <1>12. ASSUME Owner[h] = o, Says(d.frame, Answer(h, g), 0)
         PROVE  g \in known'[h]
    <2>1. /\ o = h /\ d.frame.kind = "arpReply" /\ d.frame.dst = h
          /\ d.frame.tag = 0 /\ d.frame.src = g
      BY <1>6, <1>12 DEF Says, Answer
    <2>2. HostRecvReply(h)
      BY <2>1 DEF HostRecvRequest, HostRecvEcho, HostRecvEchoReply, HostRefuse, Hears,
                  QualifiesL3
    <2>3. known' = [known EXCEPT ![h] = @ \cup {g}]
      BY <2>1, <2>2 DEF HostRecvReply
    <2>4. QED
      BY <1>2, <1>5, <2>3 DEF NetType
  <1> HIDE DEF v, d, q
  <1>13. \/ Waits(sock, Peer[h], Request(h, g)) \/ Waits(sock, g, Request(h, g))
         \/ Waits(sock, Peer[g], Answer(h, g)) \/ Waits(sock, h, Answer(h, g)) \/ g \in known[h]
    BY <1>2 DEF Underway, Admitted, Forwarded, Flooded, v
  <1>14. /\ Waits(sock, Peer[h], Request(h, g)) => Waits(sock', Peer[h], Request(h, g))
         /\ Waits(sock, Peer[g], Answer(h, g)) => Waits(sock', Peer[g], Answer(h, g))
    BY <1>6, <1>9
  <1>15. /\ Waits(sock, g, Request(h, g)) =>
               Waits(sock', g, Request(h, g)) \/ Waits(sock', Peer[g], Answer(h, g))
         /\ Waits(sock, h, Answer(h, g)) =>
               Waits(sock', h, Answer(h, g)) \/ g \in known'[h]
    BY <1>6, <1>9, <1>11, <1>12
  <1>16. QED
    BY <1>10, <1>13, <1>14, <1>15 DEF Underway, v

\* A request of a host waits at the port that the host is linked to.
LEMMA RequestWaits ==
  ASSUME NetType, NEW q \in [Node -> Seq(Datagram)], NEW o \in Host,
         NEW to \in Host \cup {Nobody}, Len(q[Owner[Peer[o]]]) < SockCap,
         Transmit(q, o, "arpRequest", BroadcastMac, to)
  PROVE  Waits(sock', Peer[o], Request(o, to))
  <1> DEFINE f == [kind |-> "arpRequest", dst |-> BroadcastMac, src |-> o, to |-> to,
                   tag |-> 0, id |-> Len(sent) + 1]
  <1>1. f \in Frame /\ Says(f, Request(o, to), 0)
    <2>1. /\ Len(sent) + 1 \in Nat /\ 0 \in Tag /\ o \in Mac /\ BroadcastMac \in Mac
          /\ "arpRequest" \in FrameKind
      BY Addresses DEF NetType, Tag, FrameKind
    <2>2. QED
      BY <2>1 DEF Frame, Says, Request
  <1>2. sock' = Deliver(q, o, f) /\ o \in Intf
    BY Links DEF Transmit
  <1> HIDE DEF f
  <1>3. QED
    BY <1>1, <1>2, WaitsNew

\* A step of the network or of a host, under the same settings
LEMMA StillAnswered ==
  ASSUME IInv, Answered, mode' = mode, vlans' = vlans, config' = config,
         \A h, g : Ready(h, g) /\ Underway(sock, task, known, vlans[Peer[h]][1], h, g)
                   => Underway(sock', task', known', vlans[Peer[h]][1], h, g),
         \/ sent' = sent
         \/ \E r \in SentFrame :
               /\ sent' = Append(sent, r) /\ r.config = config
               /\ r.kind = "arpRequest" => Waits(sock', Peer[r.src], Request(r.src, r.to))
  PROVE  Answered'
  <1>1. sent \in Seq(SentFrame) /\ config \in Nat
    BY DEF IInv, NetType, SettingsType
  <1> SUFFICES ASSUME NEW x \in 1..Len(sent')
               PROVE  /\ sent'[x].config <= config
                      /\ sent'[x].kind = "arpRequest" /\ sent'[x].config = config
                            /\ Ready(sent'[x].src, sent'[x].to)
                         => Underway(sock', task', known', vlans[Peer[sent'[x].src]][1],
                                     sent'[x].src, sent'[x].to)
    BY DEF Answered, Ready, FirstMember
  <1>2. CASE x \in 1..Len(sent) /\ sent'[x] = sent[x]
    <2>1. /\ sent[x].config <= config
          /\ sent[x].kind = "arpRequest" /\ sent[x].config = config
                /\ Ready(sent[x].src, sent[x].to)
             => Underway(sock, task, known, vlans[Peer[sent[x].src]][1],
                         sent[x].src, sent[x].to)
      BY <1>2 DEF Answered
    <2>2. QED
      BY <1>2, <2>1
  <1>3. ASSUME NEW r \in SentFrame, sent' = Append(sent, r), r.config = config,
               r.kind = "arpRequest" => Waits(sock', Peer[r.src], Request(r.src, r.to)),
               sent'[x] = r
        PROVE  /\ sent'[x].config <= config
               /\ sent'[x].kind = "arpRequest"
                  => Underway(sock', task', known', vlans[Peer[sent'[x].src]][1],
                              sent'[x].src, sent'[x].to)
    BY <1>1, <1>3 DEF Underway
  <1>4. CASE sent' = sent
    BY <1>2, <1>4
  <1>5. ASSUME NEW r \in SentFrame, sent' = Append(sent, r)
        PROVE  (x \in 1..Len(sent) /\ sent'[x] = sent[x]) \/ sent'[x] = r
    BY <1>1, <1>5
  <1>6. QED
    BY <1>2, <1>3, <1>4, <1>5

\* What a host puts on its link, with room for it
LEMMA TransmitAnswered ==
  ASSUME IInv, NEW q \in [Node -> Seq(Datagram)], NEW o \in Host, NEW kind \in FrameKind,
         NEW dst, NEW to \in Host \cup {Nobody}, Transmit(q, o, kind, dst, to),
         kind = "arpRequest" => dst = BroadcastMac /\ Len(q[Owner[Peer[o]]]) < SockCap
  PROVE  \E r \in SentFrame :
            /\ sent' = Append(sent, r) /\ r.config = config
            /\ r.kind = "arpRequest" => Waits(sock', Peer[r.src], Request(r.src, r.to))
  <1> DEFINE r == [src |-> o, kind |-> kind, to |-> to, config |-> config]
  <1>1. NetType /\ config \in Nat
    BY DEF IInv, SettingsType
  <1>2. r \in SentFrame /\ r.src = o /\ r.kind = kind /\ r.to = to /\ r.config = config
    BY <1>1 DEF SentFrame
  <1>3. sent' = Append(sent, r)
    BY DEF Transmit
  <1> HIDE DEF r
  <1>4. r.kind = "arpRequest" => Waits(sock', Peer[r.src], Request(r.src, r.to))
    BY <1>1, <1>2, RequestWaits
  <1>5. QED
    BY <1>2, <1>3, <1>4

LEMMA SwitchAnswered ==
  ASSUME IInv, RoomLeft, Answered, SwitchStep
  PROVE  Answered'
  <1>1. /\ UNCHANGED <<settings, sent>>
    BY DEF SwitchStep, AdmitFrame, AccessRecv, TrunkRecv, StrayRecv, SwitchRefuse,
           LearnAndForward, ForwardKnown, ForwardUnknown, FloodSend, FloodSkip
  <1>2. mode' = mode /\ vlans' = vlans /\ config' = config
    BY <1>1 DEF settings
  <1>3. ASSUME NEW h, NEW g, Ready(h, g), Underway(sock, task, known, vlans[Peer[h]][1], h, g)
        PROVE  Underway(sock', task', known', vlans[Peer[h]][1], h, g)
    BY <1>3, AdmitFrameAnswers, AdmissionAnswers, ForwardKnownAnswers,
        ForwardUnknownAnswers,
       FloodAnswers DEF SwitchStep
  <1>4. QED
    BY <1>1, <1>2, <1>3, StillAnswered

LEMMA HostAnswered ==
  ASSUME IInv, RoomLeft, Answered, HostStep
  PROVE  Answered'
  <1> PICK o \in Host : \/ HostRecvRequest(o) \/ HostRecvReply(o) \/ HostRecvEcho(o)
                        \/ HostRecvEchoReply(o) \/ HostRefuse(o)
    BY DEF HostStep
  <1> DEFINE f == Head(sock[o]).frame
             q == Taken(o)
  <1>1. /\ Visits(o) /\ UNCHANGED settings
    BY DEF HostRecvRequest, HostRecvReply, HostRecvEcho, HostRecvEchoReply, HostRefuse,
        Hears,
           settings
  <1>2. \/ sent' = sent
        \/ /\ QualifiesL3(o, f)
           /\ \/ Transmit(q, o, "arpReply", f.src, f.src)
              \/ Transmit(q, o, "reply", f.src, f.src)
              \/ Transmit(q, o, "arpRequest", BroadcastMac, f.src)
    BY DEF HostRecvRequest, HostRecvReply, HostRecvEcho, HostRecvEchoReply, HostRefuse,
        Hears
  <1>3. mode' = mode /\ vlans' = vlans /\ config' = config /\ sock[o] # <<>> /\ NetType
        /\ o \in Node
    BY <1>1, Links DEF settings, Visits, IInv
  <1>4. q \in [Node -> Seq(Datagram)]
    BY <1>3, TakenType
  <1>5. Len(q[Owner[Peer[o]]]) < SockCap
    <2>1. Owner[Peer[o]] \in Node /\ Owner[Peer[o]] # o
      BY HostPort, Links
    <2>2. q[Owner[Peer[o]]] = sock[Owner[Peer[o]]]
      BY <1>3, <2>1 DEF Taken, NetType
    <2>3. QED
      BY <2>1, <2>2 DEF RoomLeft
  <1>6. QualifiesL3(o, f) => f.src \in Host
    BY <1>3, Heard
  <1>7. {"arpReply", "reply", "arpRequest"} \subseteq FrameKind
    BY DEF FrameKind
  <1> HIDE DEF q, f
  <1>8. \/ sent' = sent
        \/ \E r \in SentFrame :
              /\ sent' = Append(sent, r) /\ r.config = config
              /\ r.kind = "arpRequest" => Waits(sock', Peer[r.src], Request(r.src, r.to))
    BY <1>2, <1>4, <1>5, <1>6, <1>7, TransmitAnswered
  <1>9. QED
    BY <1>3, <1>8, StillAnswered, HostAnswers

LEMMA AskAnswered ==
  ASSUME IInv, RoomLeft, Answered, \/ \E c \in ArpCommands : ResolveArp(c[1], c[2])
                                   \/ \E c \in PingCommands : PingHost(c[1], c[2])
  PROVE  Answered'
  <1>1. UNCHANGED <<mode, vlans, config, task, known>>
    BY DEF ResolveArp, PingHost
  <1>2. PICK o \in Host, kind \in FrameKind, dst \in Mac, to \in Host \cup {Nobody} :
           /\ Transmit(sock, o, kind, dst, to)
           /\ kind = "arpRequest" => dst = BroadcastMac
    <2>1. CASE \E c \in ArpCommands : ResolveArp(c[1], c[2])
      <3>1. PICK c \in ArpCommands : ResolveArp(c[1], c[2])
        BY <2>1
      <3>2. c[1] \in Host /\ c[2] \in Host \cup {Nobody} /\ BroadcastMac \in Mac
            /\ "arpRequest" \in FrameKind
        BY L2Assumption, Addresses DEF FrameKind
      <3>3. QED
        BY <3>1, <3>2 DEF ResolveArp
    <2>2. CASE \E c \in PingCommands : PingHost(c[1], c[2])
      <3>1. PICK c \in PingCommands : PingHost(c[1], c[2])
        BY <2>2
      <3>2. c[1] \in Host /\ c[2] \in Host \cup {Nobody} /\ c[2] \in Mac
            /\ "echo" \in FrameKind
        BY L2Assumption, Addresses DEF FrameKind
      <3>3. QED
        BY <3>1, <3>2 DEF PingHost
    <2>3. QED
      BY <2>1, <2>2
  <1>3. sock \in [Node -> Seq(Datagram)] /\ NetType /\ o \in Intf /\ Owner[Peer[o]] \in Node
    BY Links DEF IInv, NetType
  <1>4. \E r \in SentFrame :
           /\ sent' = Append(sent, r) /\ r.config = config
           /\ r.kind = "arpRequest" => Waits(sock', Peer[r.src], Request(r.src, r.to))
    BY <1>2, <1>3, TransmitAnswered DEF RoomLeft
  <1>5. \A i \in Intf : \A x : Waits(sock, i, x) => Waits(sock', i, x)
    <2> DEFINE f == [kind |-> kind, dst |-> dst, src |-> o, to |-> to, tag |-> 0,
                     id |-> Len(sent) + 1]
    <2>1. f \in Frame
      <3>1. Len(sent) + 1 \in Nat /\ 0 \in Tag /\ o \in Mac
        BY <1>3, Addresses DEF NetType, Tag
      <3>2. QED
        BY <3>1 DEF Frame
    <2>2. sock' = Deliver(sock, o, f)
      BY <1>2 DEF Transmit
    <2> HIDE DEF f
    <2>3. QED
      BY <1>3, <2>1, <2>2, WaitsOn
  <1>6. ASSUME NEW h, NEW g, Ready(h, g), Underway(sock, task, known, vlans[Peer[h]][1], h, g)
        PROVE  Underway(sock', task', known', vlans[Peer[h]][1], h, g)
    <2>1. h \in Host /\ g \in Host
      BY <1>6 DEF Ready
    <2>2. QED
      BY <1>1, <1>5, <1>6, <2>1, StaysUnderway
  <1>7. QED
    BY <1>1, <1>4, <1>6, StillAnswered

\* What was sent before a configuration step is not of the configuration after it.
LEMMA ConfigAnswered ==
  ASSUME IInv, Answered,
         \/ \E c \in VlanCommands : SetVlan(c[1], c[2])
         \/ \E c \in RemoveCommands : RemoveVlan(c[1], c[2])
         \/ \E c \in ModeCommands : SetMode(c[1], c[2])
         \/ \E c \in ModeCommands : c[2] = "access" /\ ClearSlots(c[1])
         \/ LeaveTrunk
  PROVE  Answered'
  <1>1. config' = config + 1 /\ sent' = sent
    BY DEF SetVlan, RemoveVlan, SetMode, ClearSlots, LeaveTrunk, Configure
  <1>2. sent \in Seq(SentFrame) /\ config \in Nat
    BY DEF IInv, NetType, SettingsType
  <1>3. \A x \in 1..Len(sent) : sent[x] \in SentFrame
    BY <1>2
  <1>4. \A x \in 1..Len(sent) : sent[x].config \in Nat /\ sent[x].config <= config
    BY <1>3 DEF SentFrame, Answered
  <1>5. \A x \in 1..Len(sent') :
           sent'[x].config <= config' /\ sent'[x].config # config'
    BY <1>1, <1>2, <1>4
  <1>6. QED
    BY <1>5 DEF Answered

LEMMA InitAnswered == Init => Answered
  BY DEF Init, Answered

LEMMA NextAnswered == IInv /\ RoomLeft /\ Answered /\ [Next]_vars => Answered'
  <1> SUFFICES ASSUME IInv, RoomLeft, Answered, [Next]_vars PROVE Answered'
    OBVIOUS
  <1>1. ASSUME UNCHANGED <<mode, vlans, config, sock, task, known, sent>>
        PROVE  Answered'
    BY <1>1, StillAnswered
  <1>2. CASE Select
    BY <1>1, <1>2 DEF Select, settings
  <1>3. CASE SwitchStep
    BY <1>3, SwitchAnswered
  <1>4. CASE HostStep
    BY <1>4, HostAnswered
  <1>5. CASE Command
    BY <1>5, AskAnswered, ConfigAnswered DEF Command
  <1>6. CASE LeaveTrunk
    BY <1>6, ConfigAnswered
  <1>7. CASE UNCHANGED vars
    BY <1>1, <1>7 DEF vars, settings
  <1>8. QED
    BY <1>2, <1>3, <1>4, <1>5, <1>6, <1>7 DEF Next, RxStep

\* In silence nothing is on its way: the answer has come.
LEMMA SilenceAnswered ==
  ASSUME IInv, Answered
  PROVE  FirstMemberAnswers
  <1> SUFFICES ASSUME Quiet, NEW x \in 1..Len(sent), sent[x].kind = "arpRequest",
                      sent[x].config = config, sent[x].to \in Host,
                      mode[Peer[sent[x].src]] = "access", mode[Peer[sent[x].to]] = "access",
                      FirstMember(sent[x].src, sent[x].to)
               PROVE  sent[x].to \in known[sent[x].src]
    BY DEF FirstMemberAnswers
  <1> DEFINE h == sent[x].src
             g == sent[x].to
  <1>1. h \in Host /\ g \in Host
    BY Senders DEF IInv
  <1>2. Underway(sock, task, known, vlans[Peer[h]][1], h, g)
    BY <1>1 DEF Answered, Ready
  <1> HIDE DEF h, g
  <1>3. ASSUME NEW i \in Intf, NEW y
        PROVE  ~Waits(sock, i, y)
    <2>1. Owner[i] \in Node
      BY Links
    <2>2. sock[Owner[i]] = <<>>
      BY <2>1 DEF Quiet
    <2>3. QED
      BY <2>2 DEF Waits
  <1>4. task.op = "idle"
    BY NotIdle DEF Quiet
  <1>5. h \in Intf /\ g \in Intf /\ Peer[h] \in Intf /\ Peer[g] \in Intf
    BY <1>1, Links
  <1>6. g \in known[h]
    BY <1>2, <1>3, <1>4, <1>5 DEF Underway, Admitted, Forwarded, Flooded
  <1>7. QED
    BY <1>6 DEF h, g

\* Where no socket overflows, every request for the first member of the asker's VLAN on
\* its switch is answered by the time the network is silent, unless ports were
\* reconfigured since (l2switch.c:101-129).
THEOREM FirstMemberIsAnswered ==
  Spec /\ []RoomLeft => []FirstMemberAnswers
  <1>1. IInv /\ Answered => FirstMemberAnswers
    BY SilenceAnswered
  <1>2. QED
    BY <1>1, Invariance, InitAnswered, NextAnswered, PTL DEF Spec

-----------------------------------------------------------------------------
(* Room. A command puts one frame on the network and brings about at most   *)
(* two more, each the answer of the one host that the frame before is for;  *)
(* and no socket holds two copies of a frame: both would have come in from  *)
(* where the frame started, and go on to the same hosts.                    *)

\* What frame f that came in on interface i says is what its transmission said, but for
\* the mangled address; and it came from where the host is that transmitted it.
Genuine(i, f, tx) ==
    /\ f.id \in 1..Len(tx) /\ f.kind = tx[f.id].kind /\ f.to = tx[f.id].to
    /\ f.kind = "echo" => f.to \in Host /\ f.dst \in {f.to, GarbledDst}
    /\ i \in Port => tx[f.id].src \in Behind[i]

QueueGenuine(q, tx) ==
    \A n \in Node : \A k \in 1..Len(q[n]) : Genuine(q[n][k].iif, q[n][k].frame, tx)

AllGenuine(q, t, tx) == QueueGenuine(q, tx) /\ (t # Idle => Genuine(t.iif, t.buf, tx))

\* The host that transmission x asks something of has heard it.
Heeded(tx, hd, x) ==
    tx[x].to \in Host /\ \E k \in 1..Len(hd[tx[x].to]) : hd[tx[x].to][k] = x

\* Transmission x is the first, second or third that command c[x] brought about: no
\* two are the same of the same command, and it takes one that was heeded to bring
\* about the next.
Ledger(c, st, tx, hd, n) ==
    /\ c \in [1..Len(tx) -> 1..n] /\ st \in [1..Len(tx) -> 1..3]
    /\ \A x, y \in 1..Len(tx) : c[x] = c[y] /\ st[x] = st[y] => x = y
    /\ \A x \in 1..Len(tx) : /\ tx[x].kind = "echo" => st[x] = 1
                             /\ tx[x].kind = "arpRequest" => st[x] # 3
    /\ \A y \in 1..Len(tx) : st[y] # 1 =>
          \E x \in 1..Len(tx) : c[x] = c[y] /\ st[x] + 1 = st[y] /\ Heeded(tx, hd, x)

\* Place b of command a is free for r, and what must bring it about is there.
Free(c, st, tx, hd, n, r, a, b) ==
    /\ a \in 1..n /\ b \in 1..3
    /\ \A x \in 1..Len(tx) : ~(c[x] = a /\ st[x] = b)
    /\ r.kind = "echo" => b = 1
    /\ r.kind = "arpRequest" => b # 3
    /\ b # 1 => \E x \in 1..Len(tx) : c[x] = a /\ st[x] + 1 = b /\ Heeded(tx, hd, x)

Budget ==
    /\ AllGenuine(sock, task, sent)
    /\ \E c, st : Ledger(c, st, sent, heard, commands)

\* What a host hears later it adds to what it has heard.
LEMMA LedgerLater ==
  ASSUME NEW c, NEW st, NEW tx \in Seq(SentFrame), NEW hd, NEW hd2, NEW n \in Nat,
         NEW m \in Nat, n <= m, Ledger(c, st, tx, hd, n),
         \A h \in Host : \A k \in 1..Len(hd[h]) : k \in 1..Len(hd2[h]) /\ hd2[h][k] = hd[h][k]
  PROVE  Ledger(c, st, tx, hd2, m)
  <1>1. \A x \in 1..Len(tx) : Heeded(tx, hd, x) => Heeded(tx, hd2, x)
    BY DEF Heeded
  <1>2. c \in [1..Len(tx) -> 1..m]
    <2>1. c \in [1..Len(tx) -> 1..n] /\ 1..n \subseteq 1..m
      BY DEF Ledger
    <2>2. QED
      BY <2>1
  <1>3. \A y \in 1..Len(tx) : st[y] # 1 =>
           \E x \in 1..Len(tx) : c[x] = c[y] /\ st[x] + 1 = st[y] /\ Heeded(tx, hd2, x)
    <2> SUFFICES ASSUME NEW y \in 1..Len(tx), st[y] # 1
                 PROVE  \E x \in 1..Len(tx) :
                           c[x] = c[y] /\ st[x] + 1 = st[y] /\ Heeded(tx, hd2, x)
      OBVIOUS
    <2>1. PICK x \in 1..Len(tx) : c[x] = c[y] /\ st[x] + 1 = st[y] /\ Heeded(tx, hd, x)
      BY DEF Ledger
    <2>2. QED
      BY <1>1, <2>1
  <1>4. QED
    BY <1>2, <1>3 DEF Ledger

\* One more transmission, brought about by a command or by one that was heeded
LEMMA LedgerGrows ==
  ASSUME NEW c, NEW st, NEW tx \in Seq(SentFrame), NEW hd, NEW n \in Nat,
         Ledger(c, st, tx, hd, n), NEW r \in SentFrame, NEW a, NEW b,
         Free(c, st, tx, hd, n, r, a, b)
  PROVE  \E c2, st2 : Ledger(c2, st2, Append(tx, r), hd, n)
  <1>1. /\ a \in 1..n /\ b \in 1..3
        /\ \A x \in 1..Len(tx) : ~(c[x] = a /\ st[x] = b)
        /\ r.kind = "echo" => b = 1
        /\ r.kind = "arpRequest" => b # 3
        /\ b # 1 => \E x \in 1..Len(tx) : c[x] = a /\ st[x] + 1 = b /\ Heeded(tx, hd, x)
    BY DEF Free
  <1> DEFINE tx2 == Append(tx, r)
             last == Len(tx) + 1
             c2 == [x \in 1..Len(tx2) |-> IF x = last THEN a ELSE c[x]]
             st2 == [x \in 1..Len(tx2) |-> IF x = last THEN b ELSE st[x]]
  <1>2. /\ Len(tx) \in Nat /\ Len(tx2) = last /\ tx2[last] = r
        /\ \A x \in 1..Len(tx) : tx2[x] = tx[x]
    OBVIOUS
  <1>3. /\ c \in [1..Len(tx) -> 1..n] /\ st \in [1..Len(tx) -> 1..3]
        /\ \A x, y \in 1..Len(tx) : c[x] = c[y] /\ st[x] = st[y] => x = y
        /\ \A x \in 1..Len(tx) : /\ tx[x].kind = "echo" => st[x] = 1
                                 /\ tx[x].kind = "arpRequest" => st[x] # 3
    BY DEF Ledger
  <1>4. \A x \in 1..Len(tx2) : x = last \/ (x # last /\ x \in 1..Len(tx))
    BY <1>2
  <1>5. \A x \in 1..Len(tx) : x \in 1..Len(tx2) /\ x # last
    BY <1>2
  <1>6. last \in 1..Len(tx2)
    BY <1>2
  <1> HIDE DEF tx2, last
  <1>7. c2[last] = a /\ st2[last] = b
    BY <1>6
  <1>8. \A x \in 1..Len(tx) : c2[x] = c[x] /\ st2[x] = st[x]
    BY <1>5
  <1>9. c2 \in [1..Len(tx2) -> 1..n] /\ st2 \in [1..Len(tx2) -> 1..3]
    BY <1>1, <1>3, <1>4
  <1> HIDE DEF c2, st2
  <1>10. \A x, y \in 1..Len(tx2) : c2[x] = c2[y] /\ st2[x] = st2[y] => x = y
    BY <1>1, <1>3, <1>4, <1>7, <1>8
  <1>11. \A x \in 1..Len(tx2) : /\ tx2[x].kind = "echo" => st2[x] = 1
                                /\ tx2[x].kind = "arpRequest" => st2[x] # 3
    BY <1>1, <1>2, <1>3, <1>4, <1>7, <1>8
  <1>12. \A x \in 1..Len(tx) : Heeded(tx, hd, x) => Heeded(tx2, hd, x)
    BY <1>2 DEF Heeded
  <1>13. ASSUME NEW y \in 1..Len(tx2), st2[y] # 1
         PROVE  \E x \in 1..Len(tx2) : c2[x] = c2[y] /\ st2[x] + 1 = st2[y] /\ Heeded(tx2, hd, x)
    <2>1. PICK x \in 1..Len(tx) : c[x] = c2[y] /\ st[x] + 1 = st2[y] /\ Heeded(tx, hd, x)
      <3>1. CASE y = last
        BY <1>1, <1>7, <1>13, <3>1
      <3>2. CASE y # last
        <4>1. y \in 1..Len(tx)
          BY <1>4, <3>2
        <4>2. \E x \in 1..Len(tx) : c[x] = c[y] /\ st[x] + 1 = st[y] /\ Heeded(tx, hd, x)
          BY <1>8, <1>13, <4>1 DEF Ledger
        <4>3. QED
          BY <1>8, <4>1, <4>2
      <3>3. QED
        BY <3>1, <3>2
    <2>2. QED
      BY <1>5, <1>8, <1>12, <2>1
  <1>14. Ledger(c2, st2, tx2, hd, n)
    BY <1>9, <1>10, <1>11, <1>13 DEF Ledger
  <1>15. QED
    BY <1>14 DEF tx2

LEMMA Interval == \A m \in Nat : IsFiniteSet(1..m) /\ Cardinality(1..m) = m
  <1> SUFFICES ASSUME NEW m \in Nat PROVE IsFiniteSet(1..m) /\ Cardinality(1..m) = m
    OBVIOUS
  <1>1. 1 \in Int /\ m \in Int
    OBVIOUS
  <1>2. IsFiniteSet(1..m) /\ Cardinality(1..m) = IF 1 > m THEN 0 ELSE m - 1 + 1
    BY <1>1, FS_Interval
  <1>3. QED
    BY <1>2

\* Three transmissions to a command
LEMMA LedgerBound ==
  ASSUME NEW c, NEW st, NEW tx \in Seq(SentFrame), NEW hd, NEW n \in Nat,
         Ledger(c, st, tx, hd, n)
  PROVE  Len(tx) <= 3 * n
  <1> SUFFICES ASSUME 3 * n < Len(tx) PROVE FALSE
    OBVIOUS
  <1> DEFINE f == [x \in 1..Len(tx) |-> 3 * (c[x] - 1) + st[x]]
  <1>1. /\ c \in [1..Len(tx) -> 1..n] /\ st \in [1..Len(tx) -> 1..3] /\ Len(tx) \in Nat
        /\ \A x, y \in 1..Len(tx) : c[x] = c[y] /\ st[x] = st[y] => x = y
    BY DEF Ledger
  <1>2. f \in [1..Len(tx) -> 1..(3 * n)]
    <2>1. \A a \in 1..n : \A d \in 1..3 : 3 * (a - 1) + d \in 1..(3 * n)
      OBVIOUS
    <2>2. \A x \in 1..Len(tx) : c[x] \in 1..n /\ st[x] \in 1..3
      BY <1>1
    <2>3. \A x \in 1..Len(tx) : 3 * (c[x] - 1) + st[x] \in 1..(3 * n)
      BY <2>1, <2>2
    <2>4. QED
      BY <2>3
  <1>3. /\ IsFiniteSet(1..Len(tx)) /\ Cardinality(1..Len(tx)) = Len(tx)
        /\ IsFiniteSet(1..(3 * n)) /\ Cardinality(1..(3 * n)) = 3 * n
    <2>1. 3 * n \in Nat
      OBVIOUS
    <2>2. QED
      BY <1>1, <2>1, Interval
  <1>4. PICK x, y \in 1..Len(tx) : x # y /\ f[x] = f[y]
    <2> HIDE DEF f
    <2>1. QED
      BY <1>2, <1>3, FS_PigeonHole
  <1>5. c[x] = c[y] /\ st[x] = st[y]
    <2>1. \A a, b \in Int : \A d, e \in 1..3 :
             3 * (a - 1) + d = 3 * (b - 1) + e => a = b /\ d = e
      OBVIOUS
    <2>2. 3 * (c[x] - 1) + st[x] = 3 * (c[y] - 1) + st[y]
      BY <1>4
    <2>3. c[x] \in Int /\ c[y] \in Int /\ st[x] \in 1..3 /\ st[y] \in 1..3
      BY <1>1
    <2> HIDE DEF f
    <2>4. QED
      BY <2>1, <2>2, <2>3
  <1>6. QED
    BY <1>1, <1>4, <1>5

LEMMA DeliverGenuine ==
  ASSUME NEW q \in [Node -> Seq(Datagram)], NEW i \in Intf, NEW f \in Frame, NEW tx,
         QueueGenuine(q, tx), Genuine(Peer[i], f, tx)
  PROVE  QueueGenuine(Deliver(q, i, f), tx)
  <1> DEFINE r == Deliver(q, i, f)
             d == [iif |-> Peer[i], frame |-> f]
  <1> SUFFICES ASSUME NEW n \in Node, NEW k \in 1..Len(r[n])
               PROVE  Genuine(r[n][k].iif, r[n][k].frame, tx)
    BY DEF QueueGenuine
  <1>1. (k \in 1..Len(q[n]) /\ r[n][k] = q[n][k]) \/ r[n][k] = d
    BY Delivered
  <1>2. d.frame = f /\ d.iif = Peer[i]
    OBVIOUS
  <1> HIDE DEF r, d
  <1>3. QED
    BY <1>1, <1>2 DEF QueueGenuine

LEMMA TakenBudget ==
  ASSUME NetType, NEW n \in Node, sock[n] # <<>>, NEW tx, NEW t, AllGenuine(sock, t, tx)
  PROVE  /\ AllGenuine(Taken(n), t, tx)
         /\ Genuine(Head(sock[n]).iif, Head(sock[n]).frame, tx)
  <1>1. QueueGenuine(sock, tx)
    BY DEF AllGenuine
  <1>2. QueueGenuine(Taken(n), tx)
    <2> SUFFICES ASSUME NEW o \in Node, NEW k \in 1..Len(Taken(n)[o])
                 PROVE  Genuine(Taken(n)[o][k].iif, Taken(n)[o][k].frame, tx)
      BY DEF QueueGenuine
    <2>1. PICK j \in 1..Len(sock[o]) : Taken(n)[o][k] = sock[o][j]
      BY LeftFrom
    <2>2. QED
      BY <1>1, <2>1 DEF QueueGenuine
  <1>3. Genuine(Head(sock[n]).iif, Head(sock[n]).frame, tx)
    <2>1. 1 \in 1..Len(sock[n]) /\ sock[n][1] = Head(sock[n])
      BY Left
    <2>2. QED
      BY <1>1, <2>1 DEF QueueGenuine
  <1>4. QED
    BY <1>2, <1>3 DEF AllGenuine

LEMMA GenuineEdits ==
  ASSUME NEW i, NEW f \in Frame, NEW tx, Genuine(i, f, tx), NEW v \in Tag
  PROVE  Genuine(i, [f EXCEPT !.tag = v], tx) /\ Genuine(i, Garbled(f), tx)
  <1>1. /\ [f EXCEPT !.tag = v].id = f.id /\ [f EXCEPT !.tag = v].kind = f.kind
        /\ [f EXCEPT !.tag = v].to = f.to /\ [f EXCEPT !.tag = v].dst = f.dst
    BY DEF Frame
  <1>2. /\ Garbled(f).id = f.id /\ Garbled(f).kind = f.kind
        /\ Garbled(f).to = f.to /\ Garbled(f).dst = GarbledDst
    BY DEF Frame, Garbled
  <1>3. QED
    BY <1>1, <1>2 DEF Genuine

\* What a host has heard grows at its end.
LEMMA HeardMore ==
  ASSUME NetType, NEW o \in Host, NEW x \in Nat,
         heard' = heard \/ heard' = [heard EXCEPT ![o] = Append(@, x)]
  PROVE  \A h \in Host : \A k \in 1..Len(heard[h]) :
            k \in 1..Len(heard'[h]) /\ heard'[h][k] = heard[h][k]
  <1> SUFFICES ASSUME NEW h \in Host, NEW k \in 1..Len(heard[h])
               PROVE  k \in 1..Len(heard'[h]) /\ heard'[h][k] = heard[h][k]
    OBVIOUS
  <1>1. heard \in [Host -> Seq(Nat)] /\ heard[h] \in Seq(Nat)
    BY DEF NetType
  <1>2. heard'[h] = heard[h] \/ heard'[h] = Append(heard[h], x)
    BY <1>1
  <1>3. QED
    BY <1>1, <1>2

\* A step that transmits nothing
LEMMA SameLedger ==
  ASSUME IInv, Budget, sent' = sent, commands' \in Nat, commands <= commands',
         \A h \in Host : \A k \in 1..Len(heard[h]) :
            k \in 1..Len(heard'[h]) /\ heard'[h][k] = heard[h][k]
  PROVE  \E c, st : Ledger(c, st, sent', heard', commands')
  <1>1. PICK c, st : Ledger(c, st, sent, heard, commands)
    BY DEF Budget
  <1>2. sent \in Seq(SentFrame) /\ commands \in Nat
    BY DEF IInv, NetType, SettingsType
  <1>3. Ledger(c, st, sent, heard', commands')
    BY <1>1, <1>2, LedgerLater
  <1>4. QED
    BY <1>3

LEMMA AdmitFrameBudget ==
  ASSUME IInv, Budget, NEW s \in Switch, AdmitFrame(s)
  PROVE  Budget'
  <1> DEFINE d == Head(sock[s])
  <1>1. sock[s] # <<>> /\ task' = Admit(s, d.iif, d.frame, mode[d.iif]) /\ sock' = Taken(s)
        /\ UNCHANGED <<sent, heard, commands>>
    BY DEF AdmitFrame, Visits, settings
  <1>2. NetType /\ s \in Node /\ commands \in Nat
    BY Links DEF IInv, SettingsType
  <1>3. AllGenuine(Taken(s), task, sent) /\ Genuine(d.iif, d.frame, sent)
    BY <1>1, <1>2, TakenBudget DEF Budget
  <1> HIDE DEF d
  <1>4. AllGenuine(sock', task', sent)
    BY <1>1, <1>3 DEF AllGenuine, Admit
  <1>5. \E c, st : Ledger(c, st, sent', heard', commands')
    BY <1>1, <1>2, SameLedger
  <1>6. QED
    BY <1>1, <1>3, <1>4, <1>5 DEF Budget

LEMMA AdmissionBudget ==
  ASSUME IInv, Budget, AccessRecv \/ TrunkRecv \/ StrayRecv \/ SwitchRefuse
  PROVE  Budget'
  <1>1. /\ task # Idle /\ task.op = "admit" /\ NetType /\ SettingsType /\ commands \in Nat
        /\ UNCHANGED <<sock, sent, heard, commands>>
    BY NotIdle DEF IInv, SettingsType, AccessRecv, TrunkRecv, StrayRecv, SwitchRefuse,
                   QualifiesAccess, QualifiesTrunk, QualifiesStray, LearnAndForward, settings
  <1>2. task.buf \in Frame /\ slot \in Tag /\ task.iif \in Port
    BY <1>1, TaskFields DEF NetType
  <1>3. Genuine(task.iif, task.buf, sent) /\ QueueGenuine(sock, sent)
    BY <1>1 DEF Budget, AllGenuine
  <1>4. ASSUME NEW v \in Tag
        PROVE  Genuine(task.iif, Tagged(task.buf, v), sent)
    BY <1>2, <1>3, GenuineEdits DEF Tagged
  <1>5. AccessVlan(task.iif) \in Tag
    <2>1. vlans \in [Port -> [1..Slots -> Tag]] /\ 1 \in 1..Slots /\ 0 \in Tag
      BY <1>1, L2Assumption DEF SettingsType, Tag
    <2>2. QED
      BY <1>2, <2>1 DEF AccessVlan
  <1>6. task' = Idle \/ \E v \in Tag : task' = Forward(task.node, task.iif, Tagged(task.buf, v))
    BY <1>2, <1>5 DEF AccessRecv, TrunkRecv, StrayRecv, SwitchRefuse, LearnAndForward
  <1>7. task' # Idle => Genuine(task'.iif, task'.buf, sent)
    BY <1>4, <1>6 DEF Forward
  <1>8. \E c, st : Ledger(c, st, sent', heard', commands')
    BY <1>1, SameLedger
  <1>9. QED
    BY <1>1, <1>3, <1>7, <1>8 DEF Budget, AllGenuine

\* What leaves a switch goes on in the direction that it came in.
LEMMA ForwardBudget ==
  ASSUME IInv, Once, Budget, ForwardKnown \/ ForwardUnknown \/ FloodSend \/ FloodSkip
  PROVE  Budget'
  <1> DEFINE f == task.buf
             i == task.iif
             s == task.node
  <1>1. /\ task # Idle /\ NetType /\ MacChain(mac) /\ TaskSound(mac, task)
        /\ commands \in Nat /\ UNCHANGED <<sent, heard, commands>>
    BY NotIdle DEF IInv, Soundness, SettingsType, ForwardKnown, ForwardUnknown, FloodSend,
                   FloodSkip, settings
  <1>2. /\ s \in Switch /\ i \in Port /\ f \in Frame /\ f.dst \in Mac /\ 0 \in Tag
        /\ sock \in [Node -> Seq(Datagram)] /\ mac \in [Switch -> [Mac -> Port \cup {NoPort}]]
    BY <1>1, TaskFields, FrameFields DEF Tag, NetType
  <1>3. /\ Owner[i] = s /\ Sound(mac, i, f)
        /\ task.op = "flood" => task.k \in 1..Len(PortSeq[s])
    BY <1>1 DEF TaskSound
  <1>4. Genuine(i, f, sent) /\ QueueGenuine(sock, sent)
    BY <1>1 DEF Budget, AllGenuine
  <1>5. Genuine(i, Garbled(f), sent)
    BY <1>2, <1>4, GenuineEdits
  <1>6. task' # Idle => task'.buf \in {f, Garbled(f)} /\ task'.iif = i
    BY DEF ForwardKnown, ForwardUnknown, FloodSend, FloodSkip, FloodNext, Flood, LeftInBuffer
  <1>7. ASSUME NEW p \in Port, p # i, Owner[p] = s, NEW v, SendOut(f, p, v)
        PROVE  QueueGenuine(sock', sent)
    <2> DEFINE out == OutFrame(f, p)
    <2>1. out \in Frame /\ Genuine(i, out, sent)
      BY <1>2, <1>4, FrameEdits, GenuineEdits DEF OutFrame
    <2>2. sock' = sock \/ sock' = Deliver(sock, p, out)
      BY <1>7 DEF SendOut
    <2>3. p \in Intf
      BY Links
    <2> HIDE DEF out, f, i, s
    <2>4. Genuine(Peer[p], out, sent)
      <3>1. sent[out.id].src \in Behind[i]
        BY <1>2, <2>1 DEF Genuine
      <3>2. Peer[p] \in Port => sent[out.id].src \in Behind[Peer[p]]
        BY <1>2, <1>3, <1>7, <3>1, Onward
      <3>3. QED
        BY <2>1, <3>2 DEF Genuine
    <2>5. QED
      BY <1>2, <1>4, <2>1, <2>2, <2>3, <2>4, DeliverGenuine
  <1>8. \/ sock' = sock
        \/ \E p \in Port, v \in Nat : p # i /\ Owner[p] = s /\ SendOut(f, p, v)
    <2>1. CASE ForwardKnown
      <3> DEFINE p == mac[s][f.dst]
      <3>1. f.dst # BroadcastMac /\ p # NoPort /\ SendOut(f, p, 0)
        BY <2>1 DEF ForwardKnown, PortFor
      <3>2. p \in Port
        BY <1>2, <3>1
      <3>3. f.dst \in Host
        <4>1. mac[s][GarbledDst] = NoPort
          BY <1>2 DEF Once, NobodyGarbled
        <4>2. QED
          BY <1>3, <3>1, <4>1 DEF Sound
      <3>4. Owner[p] = s /\ f.dst \in Behind[p] /\ f.dst \notin Behind[i]
        BY <1>1, <1>2, <1>3, <3>1, <3>3 DEF MacChain, Sound, Knows
      <3> HIDE DEF f, i, s, p
      <3>5. QED
        BY <3>1, <3>2, <3>4
    <2>2. CASE FloodSend
      <3> DEFINE p == PortSeq[s][task.k]
      <3>1. SendOut(f, p, task.prev) /\ task.op = "flood" /\ p # i
        BY <2>2 DEF FloodSend
      <3>2. p \in Port /\ Owner[p] = s
        BY <1>2, <1>3, <3>1, Ports
      <3>3. task.prev \in Nat
        <4>1. task.prev \in Tag /\ Tag \subseteq Nat
          BY <1>1, <3>1, TaskFields, L2Assumption DEF Tag
        <4>2. QED
          BY <4>1
      <3> HIDE DEF f, i, s, p
      <3>4. QED
        BY <3>1, <3>2, <3>3
    <2>3. CASE ForwardUnknown \/ FloodSkip
      BY <2>3 DEF ForwardUnknown, FloodSkip
    <2>4. QED
      BY <2>1, <2>2, <2>3
  <1>9. \E c, st : Ledger(c, st, sent', heard', commands')
    BY <1>1, SameLedger
  <1> HIDE DEF f, i, s
  <1>10. QueueGenuine(sock', sent)
    BY <1>4, <1>7, <1>8
  <1>11. task' # Idle => Genuine(task'.iif, task'.buf, sent)
    BY <1>4, <1>5, <1>6
  <1>12. QED
    BY <1>1, <1>9, <1>10, <1>11 DEF Budget, AllGenuine

\* What a host transmits is what it says, and new.
LEMMA TransmitGenuine ==
  ASSUME IInv, NEW q \in [Node -> Seq(Datagram)], AllGenuine(q, task, sent),
         NEW h \in Host, NEW kind \in FrameKind, NEW dst \in Mac,
         NEW to \in Host \cup {Nobody}, Transmit(q, h, kind, dst, to),
         kind = "echo" => to \in Host /\ dst = to
  PROVE  AllGenuine(sock', task, sent')
  <1> DEFINE f == [kind |-> kind, dst |-> dst, src |-> h, to |-> to, tag |-> 0,
                   id |-> Len(sent) + 1]
             r == [src |-> h, kind |-> kind, to |-> to, config |-> config]
  <1>1. sent \in Seq(SentFrame) /\ config \in Nat /\ Len(sent) \in Nat /\ NetType
    BY DEF IInv, NetType, SettingsType
  <1>2. /\ f \in Frame /\ f.id = Len(sent) + 1 /\ f.kind = kind /\ f.to = to /\ f.dst = dst
    <2>1. Len(sent) + 1 \in Nat /\ 0 \in Tag /\ h \in Mac
      BY <1>1, Addresses DEF Tag
    <2>2. QED
      BY <2>1 DEF Frame
  <1>3. r \in SentFrame /\ r.kind = kind /\ r.to = to /\ r.src = h
    BY <1>1 DEF SentFrame
  <1>4. sock' = Deliver(q, h, f) /\ sent' = Append(sent, r) /\ h \in Intf
    BY Links DEF Transmit
  <1> HIDE DEF f, r
  <1>5. /\ Len(sent') = Len(sent) + 1 /\ sent'[Len(sent) + 1] = r
        /\ \A x \in 1..Len(sent) : sent'[x] = sent[x] /\ x \in 1..Len(sent')
    BY <1>1, <1>3, <1>4
  <1>6. \A j, g : Genuine(j, g, sent) => Genuine(j, g, sent')
    BY <1>5 DEF Genuine
  <1>7. Genuine(Peer[h], f, sent')
    <2>1. Len(sent) + 1 \in 1..Len(sent')
      BY <1>1, <1>5
    <2>2. h \in Behind[Peer[h]]
      BY HostPort
    <2>3. QED
      BY <1>2, <1>3, <1>5, <2>1, <2>2 DEF Genuine
  <1>8. QueueGenuine(sock', sent')
    <2>1. QueueGenuine(q, sent')
      BY <1>6 DEF AllGenuine, QueueGenuine
    <2>2. QED
      BY <1>2, <1>4, <1>7, <2>1, DeliverGenuine
  <1>9. QED
    BY <1>6, <1>8 DEF AllGenuine

\* A host heeds a frame once, so the ledger has room for what it transmits.
LEMMA HeededOnce ==
  ASSUME IInv, Once, Budget, NEW o \in Host, sock[o] # <<>>,
         QualifiesL3(o, Head(sock[o]).frame)
  PROVE  LET f == Head(sock[o]).frame
         IN  /\ f.id \in 1..Len(sent) /\ f.kind = sent[f.id].kind /\ f.to = sent[f.id].to
             /\ f.kind = "echo" => f.to = o
             /\ f.to = o => ~Heeded(sent, heard, f.id)
  <1> DEFINE d == Head(sock[o])
             f == d.frame
  <1>1. NetType /\ QueueSound(mac, sock) /\ o \in Node
    BY Links DEF IInv, Soundness
  <1>2. Genuine(d.iif, f, sent)
    BY <1>1, TakenBudget DEF Budget
  <1>3. d.iif = o
    BY <1>1, Head1, Interfaces
  <1>4. 1 \in 1..Len(sock[o]) /\ sock[o][1] = d
    BY <1>1, Left
  <1>5. f.kind = "echo" => f.to = o
    BY <1>2, Addresses DEF Genuine, QualifiesL3
  <1>6. ASSUME f.to = o, Heeded(sent, heard, f.id)
        PROVE  FALSE
    <2>1. PICK k \in 1..Len(heard[o]) : heard[o][k] = f.id
      BY <1>2, <1>6 DEF Genuine, Heeded
    <2>2. Clear(sock, heard[o][k], {o})
      BY <2>1 DEF Once, HeardApart
    <2>3. Dest(d.iif) \cap {o} = {}
      BY <1>1, <1>4, <2>1, <2>2 DEF Clear
    <2>4. QED
      BY <1>3, <2>3, DestOf
  <1> HIDE DEF f, d
  <1>7. QED
    BY <1>2, <1>5, <1>6 DEF Genuine, f, d

LEMMA HostBudget ==
  ASSUME IInv, Once, Budget, HostStep
  PROVE  Budget'
  <1> PICK o \in Host : \/ HostRecvRequest(o) \/ HostRecvReply(o) \/ HostRecvEcho(o)
                        \/ HostRecvEchoReply(o) \/ HostRefuse(o)
    BY DEF HostStep
  <1> DEFINE f == Head(sock[o]).frame
             q == Taken(o)
  <1>1. /\ Visits(o) /\ UNCHANGED <<settings, task>>
        /\ heard' = heard \/ heard' = [heard EXCEPT ![o] = Append(@, f.id)]
    BY DEF HostRecvRequest, HostRecvReply, HostRecvEcho, HostRecvEchoReply, HostRefuse, Hears,
           settings
  <1>2. \/ sock' = q /\ sent' = sent
        \/ /\ QualifiesL3(o, f) /\ f.kind \in {"arpRequest", "echo"}
           /\ f.kind = "arpRequest" => f.to = o
           /\ heard' = [heard EXCEPT ![o] = Append(@, f.id)]
           /\ \/ Transmit(q, o, "arpReply", f.src, f.src)
              \/ Transmit(q, o, "reply", f.src, f.src)
              \/ f.kind = "echo" /\ Transmit(q, o, "arpRequest", BroadcastMac, f.src)
    BY DEF HostRecvRequest, HostRecvReply, HostRecvEcho, HostRecvEchoReply, HostRefuse, Hears
  <1>3. /\ sock[o] # <<>> /\ task = Idle /\ task' = task /\ commands' = commands
        /\ NetType /\ o \in Node /\ commands \in Nat /\ heard \in [Host -> Seq(Nat)]
        /\ sent \in Seq(SentFrame) /\ QueueSound(mac, sock) /\ config \in Nat
    BY <1>1, Links DEF Visits, settings, IInv, SettingsType, NetType, Soundness
  <1>4. /\ AllGenuine(q, task, sent) /\ q \in [Node -> Seq(Datagram)] /\ f \in Frame
    BY <1>3, TakenBudget, TakenType, Head1 DEF Budget
  <1>5. \A h \in Host : \A k \in 1..Len(heard[h]) :
           k \in 1..Len(heard'[h]) /\ heard'[h][k] = heard[h][k]
    <2>1. f.id \in Nat
      BY <1>4, FrameFields
    <2>2. heard' = heard \/ heard' = [heard EXCEPT ![o] = Append(@, f.id)]
      BY <1>1
    <2>3. NetType
      BY <1>3
    <2> HIDE DEF f
    <2>4. QED
      BY <2>1, <2>2, <2>3, HeardMore
  <1>6. CASE sock' = q /\ sent' = sent
    <2>1. \E c, st : Ledger(c, st, sent', heard', commands')
      BY <1>3, <1>5, <1>6, SameLedger
    <2> HIDE DEF q
    <2>2. QED
      BY <1>3, <1>4, <1>6, <2>1 DEF Budget
  <1>7. ASSUME NEW kind \in {"arpReply", "reply", "arpRequest"}, NEW dst \in Mac,
               NEW to \in Host, Transmit(q, o, kind, dst, to),
               QualifiesL3(o, f), f.kind \in {"arpRequest", "echo"},
               f.kind = "arpRequest" => f.to = o, kind = "arpRequest" => f.kind = "echo",
               heard' = [heard EXCEPT ![o] = Append(@, f.id)]
        PROVE  Budget'
    <2> DEFINE x == f.id
               r == [src |-> o, kind |-> kind, to |-> to, config |-> config]
    <2>1. /\ x \in 1..Len(sent) /\ f.kind = sent[x].kind /\ sent[x].to = o
          /\ ~Heeded(sent, heard, x)
      BY <1>3, <1>7, HeededOnce
    <2>2. kind \in FrameKind /\ kind # "echo"
      BY <1>7 DEF FrameKind
    <2>3. AllGenuine(sock', task, sent')
      <3> HIDE DEF q, f
      <3>1. QED
        BY <1>4, <1>7, <2>2, TransmitGenuine
    <2>4. r \in SentFrame /\ r.kind = kind /\ sent' = Append(sent, r)
      BY <1>3, <1>7, <2>2 DEF SentFrame, Transmit
    <2>5. Heeded(sent, heard', x)
      <3>1. heard'[o] = Append(heard[o], x) /\ heard[o] \in Seq(Nat)
        BY <1>3, <1>7
      <3>2. Len(heard'[o]) \in 1..Len(heard'[o]) /\ heard'[o][Len(heard'[o])] = x
        BY <2>1, <3>1
      <3>3. QED
        BY <2>1, <3>2 DEF Heeded
    <2> HIDE DEF x, r, q
    <2>6. PICK c, st : Ledger(c, st, sent, heard, commands)
      BY DEF Budget
    <2>7. Ledger(c, st, sent, heard', commands)
      <3>1. sent \in Seq(SentFrame) /\ commands \in Nat /\ commands <= commands
        BY <1>3
      <3> HIDE DEF f
      <3>2. QED
        BY <1>5, <2>6, <3>1, LedgerLater
    <2>8. /\ c[x] \in 1..commands /\ st[x] \in 1..2 /\ st[x] + 1 \in 1..3 /\ st[x] + 1 # 1
          /\ kind = "arpRequest" => st[x] + 1 # 3
      <3>1. /\ c[x] \in 1..commands /\ st[x] \in 1..3
            /\ sent[x].kind = "echo" => st[x] = 1
            /\ sent[x].kind = "arpRequest" => st[x] # 3
        BY <2>1, <2>6 DEF Ledger
      <3>2. QED
        BY <1>7, <2>1, <3>1
    <2>9. ASSUME NEW y \in 1..Len(sent), c[y] = c[x], st[y] = st[x] + 1
          PROVE  FALSE
      <3>1. st[y] # 1
        BY <2>8, <2>9
      <3>2. PICK z \in 1..Len(sent) : c[z] = c[y] /\ st[z] + 1 = st[y] /\ Heeded(sent, heard, z)
        BY <2>6, <3>1 DEF Ledger
      <3>3. st[z] \in Nat /\ st[x] \in Nat
        <4>1. st \in [1..Len(sent) -> 1..3]
          BY <2>6 DEF Ledger
        <4>2. st[z] \in 1..3 /\ st[x] \in 1..3
          BY <2>1, <4>1
        <4>3. QED
          BY <4>2
      <3>4. c[z] = c[x] /\ st[z] = st[x]
        BY <2>9, <3>2, <3>3
      <3>5. z = x
        BY <2>1, <2>6, <3>4 DEF Ledger
      <3>6. QED
        BY <2>1, <3>2, <3>5
    <2>10. \E c2, st2 : Ledger(c2, st2, Append(sent, r), heard', commands)
      <3>1. Free(c, st, sent, heard', commands, r, c[x], st[x] + 1)
        BY <2>1, <2>2, <2>4, <2>5, <2>8, <2>9 DEF Free
      <3>2. sent \in Seq(SentFrame) /\ commands \in Nat
        BY <1>3
      <3> HIDE DEF f
      <3>3. QED
        BY <2>4, <2>7, <3>1, <3>2, LedgerGrows
    <2>11. QED
      BY <1>3, <2>3, <2>4, <2>10 DEF Budget
  <1>8. QualifiesL3(o, f) => f.src \in Host /\ f.src \in Mac /\ BroadcastMac \in Mac
    BY <1>3, Heard, Addresses
  <1> HIDE DEF f, q
  <1>9. QED
    BY <1>2, <1>6, <1>7, <1>8

LEMMA AskBudget ==
  ASSUME IInv, Budget, \/ \E c \in ArpCommands : ResolveArp(c[1], c[2])
                       \/ \E c \in PingCommands : PingHost(c[1], c[2])
  PROVE  Budget'
  <1>1. task' = task /\ heard' = heard /\ commands' = commands + 1
    BY DEF ResolveArp, PingHost, Prompt
  <1>2. PICK h \in Host, kind \in {"arpRequest", "echo"}, dst \in Mac,
             to \in Host \cup {Nobody} :
           /\ Transmit(sock, h, kind, dst, to)
           /\ kind = "echo" => to \in Host /\ dst = to
    <2>1. CASE \E c \in ArpCommands : ResolveArp(c[1], c[2])
      <3>1. PICK c \in ArpCommands : ResolveArp(c[1], c[2])
        BY <2>1
      <3>2. c[1] \in Host /\ c[2] \in Host \cup {Nobody} /\ BroadcastMac \in Mac
        BY L2Assumption, Addresses
      <3>3. QED
        BY <3>1, <3>2 DEF ResolveArp
    <2>2. CASE \E c \in PingCommands : PingHost(c[1], c[2])
      <3>1. PICK c \in PingCommands : PingHost(c[1], c[2])
        BY <2>2
      <3>2. c[1] \in Host /\ c[2] \in Host /\ c[2] \in Mac
        BY L2Assumption, Addresses
      <3>3. QED
        BY <3>1, <3>2 DEF PingHost
    <2>3. QED
      BY <2>1, <2>2
  <1>3. /\ sock \in [Node -> Seq(Datagram)] /\ sent \in Seq(SentFrame) /\ config \in Nat
        /\ commands \in Nat /\ kind \in FrameKind
    BY DEF IInv, NetType, SettingsType, FrameKind
  <1>4. AllGenuine(sock', task, sent')
    BY <1>2, <1>3, TransmitGenuine DEF Budget
  <1> DEFINE r == [src |-> h, kind |-> kind, to |-> to, config |-> config]
  <1>5. r \in SentFrame /\ r.kind = kind /\ sent' = Append(sent, r)
    BY <1>2, <1>3 DEF SentFrame, Transmit
  <1> HIDE DEF r
  <1>6. PICK c, st : Ledger(c, st, sent, heard, commands)
    BY DEF Budget
  <1>7. Ledger(c, st, sent, heard, commands + 1)
    BY <1>3, <1>6, LedgerLater
  <1>8. Free(c, st, sent, heard, commands + 1, r, commands + 1, 1)
    <2>1. c \in [1..Len(sent) -> 1..commands]
      BY <1>6 DEF Ledger
    <2>2. \A x \in 1..Len(sent) : c[x] # commands + 1
      BY <1>3, <2>1
    <2>3. QED
      BY <1>3, <2>2 DEF Free
  <1>9. \E c2, st2 : Ledger(c2, st2, Append(sent, r), heard, commands + 1)
    BY <1>3, <1>5, <1>7, <1>8, LedgerGrows
  <1>10. QED
    BY <1>1, <1>4, <1>5, <1>9 DEF Budget

LEMMA StillBudget ==
  ASSUME IInv, Budget, UNCHANGED <<sock, task, sent, heard>>, commands' \in Nat,
         commands <= commands'
  PROVE  Budget'
  <1>1. \E c, st : Ledger(c, st, sent', heard', commands')
    BY SameLedger
  <1>2. QED
    BY <1>1 DEF Budget

LEMMA InitBudget == Init => Budget
  <1> SUFFICES ASSUME Init PROVE Budget
    OBVIOUS
  <1>1. AllGenuine(sock, task, sent)
    BY DEF Init, AllGenuine, QueueGenuine
  <1>2. sent = <<>> /\ Len(sent) = 0
    BY DEF Init
  <1> DEFINE c == [x \in 1..Len(sent) |-> 1]
  <1>3. \A x \in 1..Len(sent) : FALSE
    BY <1>2
  <1>4. c \in [1..Len(sent) -> 1..commands] /\ c \in [1..Len(sent) -> 1..3]
    BY <1>3
  <1> HIDE DEF c
  <1>5. Ledger(c, c, sent, heard, commands)
    BY <1>3, <1>4 DEF Ledger
  <1>6. QED
    BY <1>1, <1>5 DEF Budget

LEMMA NextBudget == IInv /\ Once /\ Budget /\ [Next]_vars => Budget'
  <1> SUFFICES ASSUME IInv, Once, Budget, [Next]_vars PROVE Budget'
    OBVIOUS
  <1>1. commands \in Nat /\ commands + 1 \in Nat /\ commands <= commands + 1
    BY DEF IInv, SettingsType
  <1>2. CASE Select
    BY <1>1, <1>2, StillBudget DEF Select, settings
  <1>3. CASE SwitchStep
    BY <1>3, AdmitFrameBudget, AdmissionBudget, ForwardBudget DEF SwitchStep
  <1>4. CASE HostStep
    BY <1>4, HostBudget
  <1>5. CASE Command
    <2>1. CASE \/ \E c \in ArpCommands : ResolveArp(c[1], c[2])
               \/ \E c \in PingCommands : PingHost(c[1], c[2])
      BY <2>1, AskBudget
    <2>2. CASE \/ \E c \in VlanCommands : SetVlan(c[1], c[2])
               \/ \E c \in RemoveCommands : RemoveVlan(c[1], c[2])
               \/ \E c \in ModeCommands : SetMode(c[1], c[2])
               \/ \E c \in ModeCommands : c[2] = "access" /\ ClearSlots(c[1])
      <3>1. UNCHANGED <<sock, task, sent, heard>> /\ commands' = commands + 1
        BY <2>2 DEF SetVlan, RemoveVlan, SetMode, ClearSlots, Configure, Prompt
      <3>2. QED
        BY <1>1, <3>1, StillBudget
    <2>3. QED
      BY <1>5, <2>1, <2>2 DEF Command
  <1>6. CASE LeaveTrunk
    BY <1>1, <1>6, StillBudget DEF LeaveTrunk, Configure
  <1>7. CASE UNCHANGED vars
    BY <1>1, <1>7, StillBudget DEF vars, settings
  <1>8. QED
    BY <1>2, <1>3, <1>4, <1>5, <1>6, <1>7 DEF Next, RxStep

\* Two copies of a frame that come in on ports of one switch came in on the same, and
\* where there are hosts beyond it, that is one copy.
LEMMA OneCopy ==
  ASSUME IInv, Once, Budget, Populated, NEW n \in Node,
         NEW j \in 1..Len(sock[n]), NEW k \in 1..Len(sock[n]),
         sock[n][j].frame.id = sock[n][k].frame.id
  PROVE  j = k
  <1> DEFINE a == sock[n][j]
             b == sock[n][k]
  <1>1. NetType /\ QueueSound(mac, sock) /\ QueueGenuine(sock, sent)
    BY DEF IInv, Soundness, Budget, AllGenuine
  <1>2. a \in Datagram /\ b \in Datagram
    BY <1>1 DEF NetType
  <1>3. /\ a.iif \in Intf /\ Owner[a.iif] = n /\ Genuine(a.iif, a.frame, sent)
        /\ b.iif \in Intf /\ Owner[b.iif] = n /\ Genuine(b.iif, b.frame, sent)
    BY <1>1, <1>2 DEF QueueSound, QueueGenuine, Datagram
  <1>4. j = k \/ Dest(a.iif) \cap Dest(b.iif) = {}
    BY SamePlace DEF Once
  <1>5. a.frame.id = b.frame.id
    OBVIOUS
  <1> HIDE DEF a, b
  <1>6. CASE n \in Switch
    <2>1. a.iif \in Port /\ b.iif \in Port
      BY <1>3, <1>6, Interfaces
    <2>2. sent[a.frame.id].src \in Behind[a.iif] /\ sent[a.frame.id].src \in Behind[b.iif]
      BY <1>3, <1>5, <2>1 DEF Genuine
    <2>3. a.iif = b.iif
      BY <1>3, <2>1, <2>2, TreeAssumption
    <2>4. PICK p \in Port : p # a.iif /\ Owner[p] = Owner[a.iif] /\ Behind[p] # {}
      BY <2>1 DEF Populated
    <2>5. Behind[p] \subseteq Dest(a.iif)
      BY <2>1, <2>4, DestOfOthers
    <2>6. QED
      BY <1>4, <2>3, <2>4, <2>5
  <1>7. CASE n \in Host
    <2>1. a.iif = n /\ b.iif = n
      BY <1>3, <1>7, Interfaces
    <2>2. QED
      BY <1>4, <1>7, <2>1, DestOf
  <1>8. QED
    BY <1>6, <1>7 DEF Node

\* A socket holds no transmission twice, and there are not more than its capacity.
LEMMA BudgetLeavesRoom ==
  ASSUME IInv, Once, Budget, Populated, 3 * MaxCommands < SockCap
  PROVE  RoomLeft
  <1> SUFFICES ASSUME NEW n \in Node PROVE Len(sock[n]) < SockCap
    BY DEF RoomLeft
  <1>1. /\ sent \in Seq(SentFrame) /\ commands \in Nat /\ commands <= MaxCommands
        /\ MaxCommands \in Nat /\ SockCap \in Nat /\ NetType
    BY L2Assumption DEF IInv, NetType, SettingsType
  <1>2. Len(sent) <= 3 * commands
    <2>1. PICK c, st : Ledger(c, st, sent, heard, commands)
      BY DEF Budget
    <2>2. QED
      BY <1>1, <2>1, LedgerBound
  <1>3. \A j, k \in 1..Len(sock[n]) : sock[n][j].frame.id = sock[n][k].frame.id => j = k
    BY OneCopy
  <1>4. Len(sock[n]) <= Len(sent)
    <2> SUFFICES ASSUME Len(sent) < Len(sock[n]) PROVE FALSE
      <3>1. Len(sock[n]) \in Nat /\ Len(sent) \in Nat
        BY <1>1 DEF NetType
      <3>2. QED
        BY <3>1
    <2> DEFINE f == [k \in 1..Len(sock[n]) |-> sock[n][k].frame.id]
    <2>1. f \in [1..Len(sock[n]) -> 1..Len(sent)]
      BY DEF Budget, AllGenuine, QueueGenuine, Genuine
    <2>2. Len(sock[n]) \in Nat /\ Len(sent) \in Nat
      BY <1>1 DEF NetType
    <2>3. \A m \in Nat : IsFiniteSet(1..m) /\ Cardinality(1..m) = m
      BY Interval
    <2>4. \A j, k \in 1..Len(sock[n]) : f[j] = f[k] => j = k
      BY <1>3
    <2> HIDE DEF f
    <2>5. \E j, k \in 1..Len(sock[n]) : j # k /\ f[j] = f[k]
      BY <2>1, <2>2, <2>3, FS_PigeonHole
    <2>6. QED
      BY <2>4, <2>5
  <1>5. Len(sock[n]) \in Nat /\ Len(sent) \in Nat
    BY <1>1 DEF NetType
  <1>6. QED
    BY <1>1, <1>2, <1>4, <1>5

\* If a socket holds more than three times as many datagrams as there are commands, none
\* is ever lost (communications.c:150): a command brings about no more transmissions,
\* and no socket holds two copies of one.
THEOREM NoSocketOverflows ==
  Populated /\ 3 * MaxCommands < SockCap /\ Spec => []RoomLeft
  <1> SUFFICES ASSUME Populated, 3 * MaxCommands < SockCap PROVE Spec => []RoomLeft
    OBVIOUS
  <1>1. IInv /\ Once /\ Budget => RoomLeft
    BY BudgetLeavesRoom
  <1>2. IInv /\ Once /\ Budget /\ [Next]_vars => Budget'
    BY NextBudget
  <1>3. QED
    BY <1>1, <1>2, Invariance, InitOnce, NextOnce, InitBudget, PTL DEF Spec

\* Hence, there, the first member of the asker's VLAN always answers (l2switch.c:101-129).
THEOREM FirstMemberAlwaysAnswers ==
  Populated /\ 3 * MaxCommands < SockCap /\ Spec => []FirstMemberAnswers
  <1>1. QED
    BY NoSocketOverflows, FirstMemberIsAnswered, PTL
=============================================================================
