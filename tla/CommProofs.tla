----------------------------- MODULE CommProofs -----------------------------
(* Theorems about module Comm, for every topology, every number of loads   *)
(* and of packets and every capacity of the sockets.                       *)
EXTENDS Comm, TLAPS

-----------------------------------------------------------------------------
(* The inductive invariant *)

Call == [pc : {"idle", "name", "frame", "transmit"}, graph : {0} \cup Graph,
         via : Intf \cup {"none"}, source : {0} \cup Packet, meant : Content, alone : BOOLEAN]

Types ==
    /\ topology \in 0..loaded /\ loaded \in 0..MaxGraphs /\ zeroed \subseteq 1..loaded
    /\ creates \in 0..MaxCreates /\ packets \in 0..MaxPackets
    /\ sock \in [Graph -> [Node -> Seq(Datagram)]]
    /\ sendBuffer \in Content /\ recvBuffer \in Content
    /\ sending \in [Thread -> Call] /\ rx \in [Graph -> Rx]
    /\ late \in [Graph -> [Node -> Nat]]

\* A call in progress is about a loaded topology.
CallSound(t) ==
    sending[t].pc # "idle" =>
        /\ sending[t].graph \in 1..loaded /\ sending[t].via \in Intf
        /\ sending[t].source \in 0..packets

Visiting == {"clear", "recvfrom", "dispatch", "process"}

\* A receiver that was started goes on; within a scan it visits each node once, and
\* what select saw there is still there.
ScanSound(g) ==
    LET c == rx[g]
    IN  /\ c.pc = "none" <=> g > loaded
        /\ \A j, k \in 1..Len(c.todo) : c.todo[j] = c.todo[k] => j = k
        /\ \A k \in 1..Len(c.todo) : c.todo[k] \in c.ready => sock[g][c.todo[k]] # <<>>
        /\ c.pc \in Visiting => c.node \in Node /\ \A k \in 1..Len(c.todo) : c.todo[k] # c.node
        /\ c.pc \in {"clear", "recvfrom"} => sock[g][c.node] # <<>>

\* A node that the scan has yet to serve has not been served since the graph was zeroed.
LateSound(g) ==
    LET c == rx[g]
    IN  /\ g \notin zeroed => \A n \in Node : late[g][n] = 0
        /\ \A n \in Node : late[g][n] <= 1
        /\ \A k \in 1..Len(c.todo) : late[g][c.todo[k]] = 0
        /\ c.pc \in {"clear", "recvfrom"} => late[g][c.node] = 0

Room == \A g \in Graph, n \in Node : Len(sock[g][n]) <= SockCap

\* A call that no other one overlaps has written what it was given so far.
CallClean(t) ==
    LET c == sending[t]
    IN  c.pc # "idle" =>
          /\ c.meant.name = Name[Peer[c.via]]
          /\ c.alone =>
                /\ \A u \in Thread : u # t => sending[u].pc = "idle"
                /\ c.meant.frame = FrameAt(c.source)
                /\ c.pc \in {"frame", "transmit"} => sendBuffer.name = c.meant.name
                /\ c.pc = "transmit" => sendBuffer.frame = c.meant.frame

DatagramClean(n, d) ==
    /\ Owner[Peer[d.via]] = n /\ d.meant.name = Name[Peer[d.via]]
    /\ d.alone => d.content = d.meant

SocketsClean ==
    \A g \in Graph, n \in Node : \A k \in 1..Len(sock[g][n]) : DatagramClean(n, sock[g][n][k])

FrameClean(g) ==
    rx[g].pc \in {"dispatch", "process"} =>
        /\ rx[g].got \in Datagram /\ DatagramClean(rx[g].node, rx[g].got)
        /\ ~rx[g].shared => recvBuffer = rx[g].got.content

IInv ==
    /\ Types /\ Room /\ SocketsClean
    /\ \A t \in Thread : CallSound(t) /\ CallClean(t)
    /\ \A g \in Graph : ScanSound(g) /\ LateSound(g) /\ FrameClean(g)

-----------------------------------------------------------------------------
(* What follows from it *)

LEMMA Constants ==
    /\ MaxGraphs \in Nat /\ MaxPackets \in Nat /\ SockCap \in Nat /\ MaxCreates \in Nat
    /\ NodeSeq \in Seq(Node) /\ Cli \in Thread /\ Cli \notin Graph
    /\ \A g \in Graph : g \in Thread
    /\ \A i \in Intf : Peer[i] \in Intf /\ Owner[i] \in Node /\ Name[i] \in Names
  BY CommAssumption DEF Graph, Thread, Cli, Names

LEMMA InvTypeOK == IInv => TypeOK
  BY Constants DEF IInv, Types, TypeOK, Room, CallSound, ScanSound, Call, Thread, Graph, Cli

LEMMA InvArrives == IInv => ArrivesWhereSent
  <1> SUFFICES ASSUME IInv, NEW g \in Graph, rx[g].pc \in {"dispatch", "process"}, ~rx[g].shared
               PROVE  /\ recvBuffer = rx[g].got.content
                      /\ rx[g].got.alone =>
                            /\ recvBuffer = rx[g].got.meant
                            /\ Named(rx[g].node, recvBuffer.name) = {Peer[rx[g].got.via]}
    BY DEF ArrivesWhereSent
  <1> DEFINE d == rx[g].got
             n == rx[g].node
  <1>1. d \in Datagram /\ DatagramClean(n, d) /\ recvBuffer = d.content
    BY DEF IInv, FrameClean
  <1>2. d.via \in Intf
    BY <1>1 DEF Datagram
  <1>3. ASSUME d.alone PROVE Named(n, recvBuffer.name) = {Peer[d.via]}
    <2>1. recvBuffer.name = Name[Peer[d.via]] /\ Owner[Peer[d.via]] = n
      BY <1>1, <1>3 DEF DatagramClean
    <2>2. \A i \in Intf : Owner[i] = n /\ Name[i] = Name[Peer[d.via]] => i = Peer[d.via]
      <3>1. Peer[d.via] \in Intf
        BY <1>2, Constants
      <3> DEFINE j == Peer[d.via]
      <3>2. j \in Intf /\ Owner[j] = n
        BY <2>1, <3>1
      <3> HIDE DEF j
      <3>3. \A i \in Intf : Owner[i] = Owner[j] /\ Name[i] = Name[j] => i = j
        BY <3>2, CommAssumption
      <3>4. QED
        BY <3>2, <3>3 DEF j
    <2> HIDE DEF d, n
    <2>3. QED
      BY <1>2, <2>1, <2>2, Constants DEF Named
  <1>4. QED
    BY <1>1, <1>3 DEF DatagramClean

LEMMA InvRecv == IInv => RecvNeverBlocks
  BY DEF IInv, ScanSound, RecvNeverBlocks

LEMMA InvOneScan == IInv => ZeroedServesOneScan
  BY DEF IInv, LateSound, ZeroedServesOneScan

-----------------------------------------------------------------------------
(* The initial states *)

LEMMA InitInv == Init => IInv
  <1> SUFFICES ASSUME Init PROVE IInv
    OBVIOUS
  <1>1. Zeros \in Content
    BY DEF Zeros, Content
  <1>2. NoSend \in Call /\ NoRx \in Rx
    BY <1>1 DEF NoSend, Call, NoRx, Rx
  <1>3. /\ \A t \in Thread : sending[t] = NoSend
        /\ \A g \in Graph : rx[g] = NoRx
        /\ \A g \in Graph, n \in Node : sock[g][n] = <<>> /\ late[g][n] = 0
    BY DEF Init
  <1>4. Types
    BY <1>1, <1>2, Constants DEF Init, Types
  <1>5. Room /\ SocketsClean
    BY <1>3, Constants DEF Room, SocketsClean
  <1>6. ASSUME NEW t \in Thread PROVE CallSound(t) /\ CallClean(t)
    BY <1>3 DEF CallSound, CallClean, NoSend
  <1>7. ASSUME NEW g \in Graph PROVE ScanSound(g) /\ LateSound(g) /\ FrameClean(g)
    <2>1. rx[g] = NoRx /\ rx[g].pc = "none" /\ rx[g].todo = <<>> /\ loaded = 0
      BY <1>3 DEF NoRx, Init
    <2>2. g > loaded
      BY <2>1 DEF Graph
    <2>3. QED
      BY <1>3, <2>1, <2>2 DEF ScanSound, LateSound, FrameClean, Visiting
  <1>8. QED
    BY <1>4, <1>5, <1>6, <1>7 DEF IInv

-----------------------------------------------------------------------------
(* send_pkt_out *)

\* What a step that leaves the receivers alone keeps of them.
LEMMA RxKept ==
  ASSUME IInv, UNCHANGED <<loaded, zeroed, sock, recvBuffer, late>>, NEW g \in Graph,
         \A f \in {"pc", "todo", "ready", "node", "got", "shared"} : rx'[g][f] = rx[g][f]
  PROVE  ScanSound(g)' /\ LateSound(g)' /\ FrameClean(g)'
  <1>1. /\ rx'[g].pc = rx[g].pc /\ rx'[g].todo = rx[g].todo /\ rx'[g].ready = rx[g].ready
        /\ rx'[g].node = rx[g].node /\ rx'[g].got = rx[g].got /\ rx'[g].shared = rx[g].shared
    OBVIOUS
  <1>2. ScanSound(g) /\ LateSound(g) /\ FrameClean(g)
    BY DEF IInv
  <1>3. ScanSound(g)'
    BY <1>1, <1>2 DEF ScanSound
  <1>4. LateSound(g)'
    BY <1>1, <1>2 DEF LateSound
  <1>5. FrameClean(g)'
    BY <1>1, <1>2 DEF FrameClean, DatagramClean
  <1>6. QED
    BY <1>3, <1>4, <1>5

LEMMA SocketsKept == ASSUME IInv, UNCHANGED sock PROVE Room' /\ SocketsClean'
  <1>1. Room /\ SocketsClean
    BY DEF IInv
  <1>2. Room'
    BY <1>1 DEF Room
  <1>3. SocketsClean'
    <2> SUFFICES ASSUME NEW g \in Graph, NEW n \in Node, NEW k \in 1..Len(sock'[g][n])
                 PROVE  DatagramClean(n, sock'[g][n][k])
      BY DEF SocketsClean, DatagramClean
    <2>1. k \in 1..Len(sock[g][n])
      OBVIOUS
    <2>2. QED
      BY <1>1, <2>1 DEF SocketsClean
  <1>4. QED
    BY <1>2, <1>3

\* A call begins: from now on no call in progress is alone, unless it is the only one.
LEMMA BeginKeeps ==
  ASSUME IInv, NEW t \in Thread, NEW h \in 1..loaded, NEW via \in Intf,
  NEW source \in 0..packets',
         Begin(t, h, via, source), packets' \in 0..MaxPackets, packets <= packets',
         UNCHANGED <<topology, loaded, zeroed, creates, sock, recvBuffer, late>>,
         rx' \in [Graph -> Rx],
         \A g \in Graph, f \in {"pc", "todo", "ready", "node", "got", "shared"} : rx'[g][f] = rx[g][f]
  PROVE  IInv'
  <1> DEFINE c == [pc |-> "name", graph |-> h, via |-> via, source |-> source,
                   meant |-> [name |-> Name[Peer[via]], frame |-> FrameAt(source)],
                   alone |-> Senders = {}]
             e(u) == [sending[u] EXCEPT !.alone = u \notin Senders]
  <1>1. /\ sendBuffer' = Zeros /\ sending'[t] = c
        /\ \A u \in Thread : u # t => sending'[u] = e(u)
    BY DEF Begin
  <1>2. Types /\ packets \in Nat /\ packets' \in Nat /\ h \in Graph /\ loaded \in Nat
    BY Constants DEF IInv, Types, Graph
  <1>3. FrameAt(source) \in {0} \cup Packet
    <2>1. CASE source = 0
      <3>1. recvBuffer \in Content
        BY <1>2 DEF Types
      <3>2. recvBuffer.frame \in {0} \cup Packet
        BY <3>1 DEF Content
      <3>3. QED
        BY <2>1, <3>2 DEF FrameAt
    <2>2. CASE source # 0
      BY <1>2, <2>2, Constants DEF FrameAt, Packet
    <2>3. QED
      BY <2>1, <2>2
  <1> DEFINE only == Senders = {}
             calm(u) == u \notin Senders
  <1>4. c \in Call
    <2>1. only \in BOOLEAN /\ source \in {0} \cup Packet
      BY <1>2, Constants DEF Packet
    <2>2. [name |-> Name[Peer[via]], frame |-> FrameAt(source)] \in Content
      BY <1>3, Constants DEF Content
    <2> DEFINE cb(b) ==
          [pc |-> "name", graph |-> h, via |-> via, source |-> source,
           meant |-> [name |-> Name[Peer[via]], frame |-> FrameAt(source)], alone |-> b]
    <2>3. ASSUME NEW b \in BOOLEAN PROVE cb(b) \in Call
      BY <1>2, <2>1, <2>2 DEF Call
    <2>4. c = cb(only)
      OBVIOUS
    <2> HIDE DEF c, cb, only
    <2>5. QED
      BY <2>1, <2>3, <2>4
  <1>5. \A u \in Thread : e(u) \in Call
    <2>1. ASSUME NEW u \in Thread, NEW b \in BOOLEAN
          PROVE  [sending[u] EXCEPT !.alone = b] \in Call
      <3>1. sending[u] \in Call
        BY <1>2 DEF Types
      <3>2. QED
        BY <3>1 DEF Call
    <2>2. ASSUME NEW u \in Thread PROVE e(u) \in Call
      <3>1. calm(u) \in BOOLEAN
        OBVIOUS
      <3>2. e(u) = [sending[u] EXCEPT !.alone = calm(u)]
        OBVIOUS
      <3> HIDE DEF calm, e
      <3>3. QED
        BY <2>1, <3>1, <3>2
    <2>3. QED
      BY <2>2
  <1>6. sending' \in [Thread -> Call]
    BY <1>4, <1>5 DEF Begin
  <1>7. Types'
    BY <1>1, <1>2, <1>6 DEF Types, Zeros, Content
  <1>8. Room' /\ SocketsClean'
    BY SocketsKept
  <1>9. ASSUME NEW g \in Graph PROVE ScanSound(g)' /\ LateSound(g)' /\ FrameClean(g)'
    BY RxKept
  <1>10. CallSound(t)' /\ CallClean(t)'
    <2>1. FrameAt(source)' = FrameAt(source)
      BY DEF FrameAt
    <2>2. sending[t].pc = "idle" \/ t \in Senders
      BY DEF Senders
    <2>3. ASSUME Senders = {}, NEW u \in Thread, u # t PROVE sending'[u].pc = "idle"
      <3>1. sending'[u] = e(u) /\ sending[u] \in Call
        BY <1>1, <1>2, <2>3 DEF Types
      <3>2. e(u).pc = sending[u].pc
        BY <3>1 DEF Call
      <3>3. sending[u].pc = "idle"
        BY <2>3 DEF Senders
      <3>4. QED
        BY <3>1, <3>2, <3>3
    <2>4. QED
      <3>1. /\ sending'[t].pc = "name" /\ sending'[t].graph = h /\ sending'[t].via = via
            /\ sending'[t].source = source /\ sending'[t].alone = only
            /\ sending'[t].meant.name = Name[Peer[via]]
            /\ sending'[t].meant.frame = FrameAt(source)
        BY <1>1
      <3>2. CallSound(t)'
        BY <1>2, <3>1 DEF CallSound
      <3>3. CallClean(t)'
        BY <2>1, <2>3, <3>1 DEF CallClean
      <3>4. QED
        BY <3>2, <3>3
  <1>11. ASSUME NEW u \in Thread, u # t PROVE CallSound(u)' /\ CallClean(u)'
    <2>1. sending'[u] = e(u) /\ CallSound(u) /\ CallClean(u) /\ sending[u] \in Call
      BY <1>1, <1>2, <1>11 DEF IInv, Types
    <2>2. /\ e(u).pc = sending[u].pc /\ e(u).graph = sending[u].graph
          /\ e(u).via = sending[u].via /\ e(u).source = sending[u].source
          /\ e(u).meant = sending[u].meant /\ e(u).alone = (u \notin Senders)
      BY <2>1 DEF Call
    <2>3. CallSound(u)'
      BY <1>2, <2>1, <2>2 DEF CallSound
    <2>4. CallClean(u)'
      BY <2>1, <2>2 DEF CallClean, Senders
    <2>5. QED
      BY <2>3, <2>4
  <1>12. QED
    BY <1>7, <1>8, <1>9, <1>10, <1>11 DEF IInv

LEMMA PutNameKeeps == ASSUME IInv, NEW t \in Thread, PutName(t) PROVE IInv'
  <1>1. /\ sending[t].pc = "name" /\ sending' = [sending EXCEPT ![t].pc = "frame"]
        /\ sendBuffer' = [sendBuffer EXCEPT !.name = Name[Peer[sending[t].via]]]
        /\ UNCHANGED <<topology, loaded, zeroed, creates, packets, sock, recvBuffer, rx, late>>
    BY DEF PutName, GoOn
  <1>2. Types /\ sending[t] \in Call /\ CallSound(t) /\ CallClean(t)
    BY DEF IInv, Types
  <1>3. /\ sending'[t] \in Call /\ sending'[t].pc = "frame"
        /\ \A f \in {"graph", "via", "source", "meant", "alone"} : sending'[t][f] = sending[t][f]
        /\ \A u \in Thread : u # t => sending'[u] = sending[u]
    BY <1>1, <1>2 DEF Types, Call
  <1>4. Types'
    <2>1. sending[t].via \in Intf
      BY <1>1, <1>2 DEF CallSound
    <2>2. sendBuffer' \in Content
      BY <1>1, <1>2, <2>1, Constants DEF Types, Content
    <2>3. sending' \in [Thread -> Call]
      BY <1>1, <1>2 DEF Types, Call
    <2>4. QED
      BY <1>1, <1>2, <2>2, <2>3 DEF Types
  <1>5. Room' /\ SocketsClean'
    BY <1>1, SocketsKept
  <1>6. ASSUME NEW g \in Graph PROVE ScanSound(g)' /\ LateSound(g)' /\ FrameClean(g)'
    BY <1>1, RxKept
  <1>7. CallSound(t)' /\ CallClean(t)'
    <2>1. /\ sending'[t].graph = sending[t].graph /\ sending'[t].via = sending[t].via
          /\ sending'[t].source = sending[t].source /\ sending'[t].meant = sending[t].meant
          /\ sending'[t].alone = sending[t].alone
      BY <1>3
    <2>2. sendBuffer'.name = Name[Peer[sending[t].via]]
      BY <1>1, <1>2 DEF Types, Content
    <2>3. CallSound(t)'
      BY <1>1, <1>2, <1>3, <2>1 DEF CallSound
    <2>4. CallClean(t)'
      BY <1>1, <1>2, <1>3, <2>1, <2>2 DEF CallClean, FrameAt
    <2>5. QED
      BY <2>3, <2>4
  <1>8. ASSUME NEW u \in Thread, u # t PROVE CallSound(u)' /\ CallClean(u)'
    <2>1. sending'[u] = sending[u] /\ CallSound(u) /\ CallClean(u)
      BY <1>3, <1>8 DEF IInv
    <2>2. sending[u].pc # "idle" => ~sending[u].alone
      BY <1>1, <1>8, <2>1 DEF CallClean
    <2>3. QED
      BY <1>1, <2>1, <2>2 DEF CallSound, CallClean
  <1>9. QED
    BY <1>4, <1>5, <1>6, <1>7, <1>8 DEF IInv

LEMMA PutFrameKeeps == ASSUME IInv, NEW t \in Thread, PutFrame(t) PROVE IInv'
  <1>1. /\ sending[t].pc = "frame" /\ sending' = [sending EXCEPT ![t].pc = "transmit"]
        /\ sendBuffer' = [sendBuffer EXCEPT !.frame = FrameAt(sending[t].source)]
        /\ UNCHANGED <<topology, loaded, zeroed, creates, packets, sock, recvBuffer, rx, late>>
    BY DEF PutFrame, GoOn
  <1>2. Types /\ sending[t] \in Call /\ CallSound(t) /\ CallClean(t)
    BY DEF IInv, Types
  <1>3. /\ sending'[t] \in Call /\ sending'[t].pc = "transmit"
        /\ \A f \in {"graph", "via", "source", "meant", "alone"} : sending'[t][f] = sending[t][f]
        /\ \A u \in Thread : u # t => sending'[u] = sending[u]
    BY <1>1, <1>2 DEF Types, Call
  <1>4. Types'
    <2>1. FrameAt(sending[t].source) \in {0} \cup Packet
      BY <1>2 DEF Call, FrameAt, Types, Content
    <2>2. sendBuffer' \in Content
      BY <1>1, <1>2, <2>1 DEF Types, Content
    <2>3. sending' \in [Thread -> Call]
      BY <1>1, <1>2 DEF Types, Call
    <2>4. QED
      BY <1>1, <1>2, <2>2, <2>3 DEF Types
  <1>5. Room' /\ SocketsClean'
    BY <1>1, SocketsKept
  <1>6. ASSUME NEW g \in Graph PROVE ScanSound(g)' /\ LateSound(g)' /\ FrameClean(g)'
    BY <1>1, RxKept
  <1>7. CallSound(t)' /\ CallClean(t)'
    <2>1. /\ sending'[t].graph = sending[t].graph /\ sending'[t].via = sending[t].via
          /\ sending'[t].source = sending[t].source /\ sending'[t].meant = sending[t].meant
          /\ sending'[t].alone = sending[t].alone
      BY <1>3
    <2>2. /\ sendBuffer'.name = sendBuffer.name
          /\ sendBuffer'.frame = FrameAt(sending[t].source)
      BY <1>1, <1>2 DEF Types, Content
    <2>3. CallSound(t)'
      BY <1>1, <1>2, <1>3, <2>1 DEF CallSound
    <2>4. CallClean(t)'
      BY <1>1, <1>2, <1>3, <2>1, <2>2 DEF CallClean, FrameAt
    <2>5. QED
      BY <2>3, <2>4
  <1>8. ASSUME NEW u \in Thread, u # t PROVE CallSound(u)' /\ CallClean(u)'
    <2>1. sending'[u] = sending[u] /\ CallSound(u) /\ CallClean(u)
      BY <1>3, <1>8 DEF IInv
    <2>2. sending[u].pc # "idle" => ~sending[u].alone
      BY <1>1, <1>8, <2>1 DEF CallClean
    <2>3. QED
      BY <1>1, <2>1, <2>2 DEF CallSound, CallClean
  <1>9. QED
    BY <1>4, <1>5, <1>6, <1>7, <1>8 DEF IInv

LEMMA TransmitKeeps == ASSUME IInv, NEW t \in Thread, Transmit(t) PROVE IInv'
  <1> DEFINE c == sending[t]
             h == c.graph
             far == Owner[Peer[c.via]]
             d == [content |-> sendBuffer, via |-> c.via, meant |-> c.meant, alone |-> c.alone]
             s == sock[h][far]
             q == IF Len(s) < SockCap THEN Append(s, d) ELSE s
  <1>1. /\ c.pc = "transmit" /\ sending' = [sending EXCEPT ![t] = NoSend]
        /\ sock' = [sock EXCEPT ![h][far] = q]
        /\ UNCHANGED <<topology, loaded, zeroed, creates, packets, sendBuffer, recvBuffer, rx, late>>
    BY DEF Transmit
  <1>2. Types /\ c \in Call /\ CallSound(t) /\ CallClean(t) /\ Room /\ SocketsClean
    BY DEF IInv, Types
  <1>3. c.via \in Intf /\ h \in Graph /\ far \in Node
    <2>1. c.via \in Intf /\ h \in 1..loaded
      BY <1>1, <1>2 DEF CallSound
    <2>2. loaded \in 0..MaxGraphs /\ MaxGraphs \in Nat
      BY <1>2, Constants DEF Types
    <2>3. h \in Graph
      BY <2>1, <2>2 DEF Graph
    <2>4. QED
      BY <2>1, <2>3, Constants
  <1>4. d \in Datagram
    BY <1>2, <1>3 DEF Types, Call, Datagram
  <1>5. DatagramClean(far, d)
    <2>1. c.alone => c.meant = sendBuffer
      <3>1. c.meant \in Content /\ sendBuffer \in Content
        BY <1>2 DEF Types, Call
      <3>2. c.alone => c.meant.name = sendBuffer.name /\ c.meant.frame = sendBuffer.frame
        BY <1>1, <1>2 DEF CallClean
      <3> DEFINE m == c.meant
      <3> HIDE DEF m
      <3>3. m \in Content /\ (c.alone => m.name = sendBuffer.name /\ m.frame = sendBuffer.frame)
        BY <3>1, <3>2 DEF m
      <3>4. ASSUME NEW x \in Content PROVE x = [name |-> x.name, frame |-> x.frame]
        BY DEF Content
      <3>5. c.alone => m = sendBuffer
        <4>1. m = [name |-> m.name, frame |-> m.frame]
          BY <3>3, <3>4
        <4>2. sendBuffer = [name |-> sendBuffer.name, frame |-> sendBuffer.frame]
          BY <3>1, <3>4
        <4>3. QED
          BY <3>3, <4>1, <4>2
      <3>6. QED
        BY <3>5 DEF m
    <2>2. QED
      BY <1>1, <1>2, <2>1 DEF DatagramClean, CallClean
  <1>6. s \in Seq(Datagram) /\ Len(s) <= SockCap /\ SockCap \in Nat
    BY <1>2, <1>3, Constants DEF Types, Room
  <1>7. /\ q \in Seq(Datagram) /\ Len(q) <= SockCap /\ (s # <<>> => q # <<>>)
        /\ \A k \in 1..Len(q) : q[k] = d \/ (k \in 1..Len(s) /\ q[k] = s[k])
    <2> HIDE DEF d, s
    <2>1. CASE Len(s) < SockCap
      <3>1. q = Append(s, d) /\ s \in Seq(Datagram) /\ Len(s) \in Nat
        BY <1>6, <2>1
      <3>2. Append(s, d) \in Seq(Datagram) /\ Len(Append(s, d)) = Len(s) + 1
        BY <1>4, <1>6
      <3>3. \A k \in 1..Len(Append(s, d)) :
               Append(s, d)[k] = d \/ (k \in 1..Len(s) /\ Append(s, d)[k] = s[k])
        BY <1>4, <1>6
      <3> HIDE DEF q
      <3>4. q # <<>>
        BY <3>1, <3>2
      <3>5. QED
        BY <1>6, <2>1, <3>1, <3>2, <3>3, <3>4
    <2>2. CASE ~(Len(s) < SockCap)
      BY <1>6, <2>2
    <2>3. QED
      BY <2>1, <2>2
  <1>8. /\ sock'[h][far] = q
        /\ \A g \in Graph, n \in Node : <<g, n>> # <<h, far>> => sock'[g][n] = sock[g][n]
        /\ sock' \in [Graph -> [Node -> Seq(Datagram)]]
    <2> HIDE DEF d, s, q, far, h
    <2>1. QED
      BY <1>1, <1>2, <1>3, <1>7 DEF Types
  <1>9. /\ sending'[t] = NoSend /\ NoSend \in Call /\ sending' \in [Thread -> Call]
        /\ \A u \in Thread : u # t => sending'[u] = sending[u]
    BY <1>1, <1>2 DEF Types, NoSend, Call, Zeros, Content
  <1> HIDE DEF q, s, d, far, h, c
  <1>10. Types'
    BY <1>1, <1>2, <1>8, <1>9 DEF Types
  <1>11. Room'
    BY <1>2, <1>7, <1>8 DEF Room
  <1>12. SocketsClean'
    <2> SUFFICES ASSUME NEW g \in Graph, NEW n \in Node, NEW k \in 1..Len(sock'[g][n])
                 PROVE  DatagramClean(n, sock'[g][n][k])
      BY DEF SocketsClean, DatagramClean
    <2>1. CASE <<g, n>> = <<h, far>>
      BY <1>2, <1>3, <1>5, <1>7, <1>8, <2>1 DEF SocketsClean, s
    <2>2. CASE <<g, n>> # <<h, far>>
      BY <1>2, <1>8, <2>2 DEF SocketsClean
    <2>3. QED
      BY <2>1, <2>2
  <1>13. ASSUME NEW g \in Graph PROVE ScanSound(g)' /\ LateSound(g)' /\ FrameClean(g)'
    <2>1. ScanSound(g) /\ LateSound(g) /\ FrameClean(g) /\ rx[g] \in Rx
      BY <1>2 DEF IInv, Types
    <2>2. \A n \in Node : sock[g][n] # <<>> => sock'[g][n] # <<>>
      BY <1>7, <1>8 DEF s
    <2>3. \A k \in 1..Len(rx[g].todo) : rx[g].todo[k] \in Node
      BY <2>1 DEF Rx
    <2>4. rx[g].pc \in Visiting => rx[g].node \in Node
      BY <2>1 DEF ScanSound
    <2>5. ScanSound(g)'
      BY <1>1, <2>1, <2>2, <2>3, <2>4 DEF ScanSound, Visiting
    <2>6. LateSound(g)' /\ FrameClean(g)'
      BY <1>1, <2>1 DEF LateSound, FrameClean, DatagramClean
    <2>7. QED
      BY <2>5, <2>6
  <1>14. ASSUME NEW u \in Thread PROVE CallSound(u)' /\ CallClean(u)'
    <2>1. CASE u = t
      BY <1>9, <2>1 DEF CallSound, CallClean, NoSend
    <2>2. CASE u # t
      <3>1. sending'[u] = sending[u] /\ CallSound(u) /\ CallClean(u)
        BY <1>9, <2>2 DEF IInv
      <3>2. CallSound(u)'
        BY <1>1, <3>1 DEF CallSound
      <3>3. \A v \in Thread : sending[v].pc = "idle" => sending'[v].pc = "idle"
        BY <1>9 DEF NoSend
      <3>4. CallClean(u)'
        BY <1>1, <3>1, <3>3 DEF CallClean, FrameAt
      <3>5. QED
        BY <3>2, <3>4
    <2>3. QED
      BY <2>1, <2>2
  <1>15. QED
    BY <1>10, <1>11, <1>12, <1>13, <1>14 DEF IInv

-----------------------------------------------------------------------------
(* The receiver threads *)

\* One receiver goes on, in the state c.
LEMMA RxMoves ==
  ASSUME IInv, NEW g \in Graph, NEW c \in Rx, rx' = [rx EXCEPT ![g] = c],
         UNCHANGED <<topology, loaded, zeroed, creates, packets, sock, sendBuffer,
         recvBuffer,
                     sending, late>>,
         rx'[g] = c => ScanSound(g)' /\ LateSound(g)' /\ FrameClean(g)'
  PROVE  IInv'
  <1>1. Types
    BY DEF IInv
  <1>2. rx'[g] = c /\ \A h \in Graph : h # g => rx'[h] = rx[h]
    BY <1>1 DEF Types
  <1>3. Types'
    BY <1>1 DEF Types
  <1>4. Room' /\ SocketsClean'
    BY SocketsKept
  <1>5. ASSUME NEW h \in Graph PROVE ScanSound(h)' /\ LateSound(h)' /\ FrameClean(h)'
    <2>1. CASE h = g
      BY <1>2, <2>1
    <2>2. CASE h # g
      BY <1>2, <2>2, RxKept
    <2>3. QED
      BY <2>1, <2>2
  <1>6. ASSUME NEW t \in Thread PROVE CallSound(t)' /\ CallClean(t)'
    BY DEF IInv, CallSound, CallClean, FrameAt
  <1>7. QED
    BY <1>3, <1>4, <1>5, <1>6 DEF IInv

LEMMA NoRxFields ==
    /\ NoRx \in Rx /\ NoRx.todo = <<>> /\ NoRx.ready = {} /\ NoRx.node = "none"
  BY DEF NoRx, Rx

\* A scan starts with every node to be visited, each once.
LEMMA SelectKeeps == ASSUME IInv, NEW g \in Graph, Select(g) PROVE IInv'
  <1> DEFINE seen == {n \in Node : sock[g][n] # <<>>}
             c == [NoRx EXCEPT !.pc = "scan", !.todo = NodeSeq, !.ready = seen]
  <1>1. /\ rx[g].pc = "select" /\ g \notin zeroed /\ rx' = [rx EXCEPT ![g] = c]
        /\ UNCHANGED <<topology, loaded, zeroed, creates, packets, sock, sendBuffer, recvBuffer,
                       sending, late>>
    BY DEF Select
  <1>2. /\ c \in Rx /\ c.pc = "scan" /\ c.todo = NodeSeq /\ c.ready = seen
    BY Constants DEF NoRx, Rx
  <1>3. ScanSound(g) /\ LateSound(g)
    BY DEF IInv
  <1> HIDE DEF c
  <1>4. ASSUME rx'[g] = c PROVE ScanSound(g)' /\ LateSound(g)' /\ FrameClean(g)'
    <2>1. \A k \in 1..Len(NodeSeq) : NodeSeq[k] \in Node
      BY Constants
    <2>2. ScanSound(g)'
      <3>1. \A j, k \in 1..Len(NodeSeq) : NodeSeq[j] = NodeSeq[k] => j = k
        BY CommAssumption
      <3>2. \A k \in 1..Len(NodeSeq) : NodeSeq[k] \in seen => sock'[g][NodeSeq[k]] # <<>>
        BY <1>1
      <3>3. ~(g > loaded) /\ loaded' = loaded
        BY <1>1, <1>3 DEF ScanSound
      <3> HIDE DEF seen
      <3>4. QED
        BY <1>2, <1>4, <3>1, <3>2, <3>3 DEF ScanSound, Visiting
    <2>3. LateSound(g)'
      BY <1>1, <1>2, <1>3, <1>4, <2>1 DEF LateSound
    <2>4. FrameClean(g)'
      BY <1>2, <1>4 DEF FrameClean
    <2>5. QED
      BY <2>2, <2>3, <2>4
  <1>5. QED
    BY <1>1, <1>2, <1>4, RxMoves

LEMMA ScanKeeps == ASSUME IInv, NEW g \in Graph, Scan(g) PROVE IInv'
  <1> DEFINE todo == rx[g].todo
             n == Head(todo)
             rest == [rx[g] EXCEPT !.todo = Tail(todo)]
             c == IF n \in rx[g].ready THEN [rest EXCEPT !.node = n, !.pc = "clear"] ELSE rest
  <1>1. /\ rx[g].pc = "scan" /\ todo # <<>> /\ rx' = [rx EXCEPT ![g] = c]
        /\ UNCHANGED <<topology, loaded, zeroed, creates, packets, sock, sendBuffer, recvBuffer,
                       sending, late>>
    BY DEF Scan
  <1>2. ScanSound(g) /\ LateSound(g) /\ rx[g] \in Rx /\ todo \in Seq(Node)
    BY DEF IInv, Types, Rx
  <1> DEFINE tail == Tail(todo)
  <1>3. /\ n \in Node /\ tail \in Seq(Node) /\ n = todo[1] /\ 1 \in 1..Len(todo)
        /\ \A k \in 1..Len(tail) : tail[k] = todo[k+1] /\ k + 1 \in 1..Len(todo) /\ k + 1 # 1
    <2> HIDE DEF todo
    <2>1. QED
      BY <1>1, <1>2
  <1>4. /\ c \in Rx /\ c.todo = tail /\ c.ready = rx[g].ready
        /\ IF n \in rx[g].ready THEN c.pc = "clear" /\ c.node = n
                                ELSE c.pc = "scan" /\ c.node = rx[g].node
    <2> HIDE DEF n, tail
    <2>1. QED
      BY <1>1, <1>2, <1>3 DEF Rx, tail
  <1>5. /\ \A j, k \in 1..Len(tail) : tail[j] = tail[k] => j = k
        /\ \A k \in 1..Len(tail) : tail[k] # n /\ late[g][tail[k]] = 0
        /\ \A k \in 1..Len(tail) : tail[k] \in rx[g].ready => sock[g][tail[k]] # <<>>
        /\ n \in rx[g].ready => sock[g][n] # <<>>
        /\ late[g][n] = 0 /\ (rx[g].pc = "none" <=> g > loaded)
    <2>1. /\ \A j, k \in 1..Len(todo) : todo[j] = todo[k] => j = k
          /\ \A k \in 1..Len(todo) : todo[k] \in rx[g].ready => sock[g][todo[k]] # <<>>
          /\ \A k \in 1..Len(todo) : late[g][todo[k]] = 0
          /\ (rx[g].pc = "none" <=> g > loaded)
      BY <1>2 DEF ScanSound, LateSound
    <2> HIDE DEF todo, n, tail
    <2>2. QED
      BY <1>3, <2>1
  <1> HIDE DEF c, n, tail, todo
  <1>6. ASSUME rx'[g] = c PROVE ScanSound(g)' /\ LateSound(g)' /\ FrameClean(g)'
    <2>1. ScanSound(g)'
      BY <1>1, <1>3, <1>4, <1>5, <1>6 DEF ScanSound, Visiting
    <2>2. LateSound(g)'
      BY <1>1, <1>2, <1>3, <1>4, <1>5, <1>6 DEF LateSound
    <2>3. FrameClean(g)'
      BY <1>4, <1>6 DEF FrameClean
    <2>4. QED
      BY <2>1, <2>2, <2>3
  <1>7. QED
    BY <1>1, <1>4, <1>6, RxMoves

LEMMA ScanDoneKeeps == ASSUME IInv, NEW g \in Graph, ScanDone(g) PROVE IInv'
  <1> DEFINE c == [NoRx EXCEPT !.pc = "select"]
  <1>1. /\ rx[g].pc = "scan" /\ rx' = [rx EXCEPT ![g] = c]
        /\ UNCHANGED <<topology, loaded, zeroed, creates, packets, sock, sendBuffer, recvBuffer,
                       sending, late>>
    BY DEF ScanDone
  <1>2. c \in Rx /\ c.pc = "select" /\ c.todo = <<>>
    BY NoRxFields DEF NoRx, Rx
  <1>3. ScanSound(g) /\ LateSound(g)
    BY DEF IInv
  <1> HIDE DEF c
  <1>4. ASSUME rx'[g] = c PROVE ScanSound(g)' /\ LateSound(g)' /\ FrameClean(g)'
    BY <1>1, <1>2, <1>3, <1>4 DEF ScanSound, LateSound, FrameClean, Visiting
  <1>5. QED
    BY <1>1, <1>2, <1>4, RxMoves

\* The receiver has done with a node, and goes on with the others.
LEMMA NextNodeKeeps ==
  ASSUME IInv, NEW g \in Graph, rx[g].pc \in Visiting,
         rx' = [rx EXCEPT ![g] = NextNode(rx[g])],
         UNCHANGED <<topology, loaded, zeroed, creates, packets, sock, sendBuffer,
         recvBuffer,
                     sending, late>>
  PROVE  IInv'
  <1> DEFINE c == NextNode(rx[g])
  <1>1. ScanSound(g) /\ LateSound(g) /\ rx[g] \in Rx
    BY DEF IInv, Types
  <1>2. c \in Rx /\ c.pc = "scan" /\ c.todo = rx[g].todo /\ c.ready = rx[g].ready
    BY <1>1 DEF NextNode, NoRx, Rx
  <1> HIDE DEF c
  <1>3. ASSUME rx'[g] = c PROVE ScanSound(g)' /\ LateSound(g)' /\ FrameClean(g)'
    BY <1>1, <1>2, <1>3 DEF ScanSound, LateSound, FrameClean, Visiting
  <1>4. QED
    BY <1>2, <1>3, RxMoves DEF c

LEMMA DispatchKeeps == ASSUME IInv, NEW g \in Graph, Dispatch(g) PROVE IInv'
  <1>1. PICK outs \in SUBSET Intf :
          rx' = [rx EXCEPT ![g].pc = "process", ![g].outs = outs]
    BY DEF Dispatch
  <1>2. /\ rx[g].pc = "dispatch"
        /\ UNCHANGED <<topology, loaded, zeroed, creates, packets, sock, sendBuffer, recvBuffer,
                       sending, late>>
    BY DEF Dispatch
  <1> DEFINE c == [rx[g] EXCEPT !.pc = "process", !.outs = outs]
  <1>3. rx[g] \in Rx /\ ScanSound(g) /\ LateSound(g) /\ FrameClean(g) /\ Types
    BY DEF IInv, Types
  <1>4. /\ c \in Rx /\ c.pc = "process"
        /\ c.todo = rx[g].todo /\ c.ready = rx[g].ready /\ c.node = rx[g].node
        /\ c.got = rx[g].got /\ c.shared = rx[g].shared
    BY <1>3 DEF Rx
  <1>5. rx' = [rx EXCEPT ![g] = c]
    BY <1>1, <1>3 DEF Types
  <1> HIDE DEF c
  <1>6. ASSUME rx'[g] = c PROVE ScanSound(g)' /\ LateSound(g)' /\ FrameClean(g)'
    <2>1. ScanSound(g)'
      BY <1>2, <1>3, <1>4, <1>6 DEF ScanSound, Visiting
    <2>2. LateSound(g)'
      BY <1>2, <1>3, <1>4, <1>6 DEF LateSound
    <2>3. FrameClean(g)'
      BY <1>2, <1>3, <1>4, <1>6 DEF FrameClean, DatagramClean
    <2>4. QED
      BY <2>1, <2>2, <2>3
  <1>7. QED
    BY <1>2, <1>4, <1>5, <1>6, RxMoves

\* recv_buffer changes: no call that is still alone sends from it.
LEMMA OverwriteKeeps ==
  ASSUME IInv, NEW g \in Graph, NEW content \in Content, Overwrite(g, content),
         UNCHANGED <<loaded, packets, sendBuffer>>, NEW t \in Thread
  PROVE  /\ recvBuffer' \in Content /\ sending' \in [Thread -> Call]
         /\ CallSound(t)' /\ CallClean(t)'
  <1> DEFINE still(u) == sending[u].alone /\ (u \in Senders => sending[u].source # 0)
             e(u) == [sending[u] EXCEPT !.alone = still(u)]
  <1>1. /\ recvBuffer' = content /\ sending' = [u \in Thread |-> e(u)]
        /\ sending \in [Thread -> Call]
    BY DEF Overwrite, IInv, Types
  <1>2. ASSUME NEW u \in Thread
        PROVE  /\ e(u) \in Call /\ e(u).pc = sending[u].pc /\ e(u).graph = sending[u].graph
               /\ e(u).via = sending[u].via /\ e(u).source = sending[u].source
               /\ e(u).meant = sending[u].meant /\ e(u).alone = still(u)
    <2>1. ASSUME NEW b \in BOOLEAN, NEW x \in Call
          PROVE  /\ [x EXCEPT !.alone = b] \in Call /\ [x EXCEPT !.alone = b].alone = b
                 /\ \A f \in {"pc", "graph", "via", "source", "meant"} :
                       [x EXCEPT !.alone = b][f] = x[f]
      BY DEF Call
    <2>2. still(u) \in BOOLEAN /\ sending[u] \in Call
      BY <1>1
    <2>3. e(u) = [sending[u] EXCEPT !.alone = still(u)]
      OBVIOUS
    <2> HIDE DEF still, e
    <2>4. QED
      BY <2>1, <2>2, <2>3
  <1>3. \A u \in Thread : sending'[u] = e(u)
    BY <1>1
  <1>4. CallSound(t) /\ CallClean(t)
    BY DEF IInv
  <1>5. e(t).alone => sending[t].alone /\ (sending[t].pc # "idle" => sending[t].source # 0)
    BY <1>2 DEF Senders
  <1> HIDE DEF e
  <1>6. CallSound(t)'
    BY <1>2, <1>3, <1>4 DEF CallSound
  <1>7. CallClean(t)'
    BY <1>2, <1>3, <1>4, <1>5 DEF CallClean, FrameAt
  <1>8. QED
    BY <1>1, <1>2, <1>6, <1>7

\* ... and what the other receivers are handling counts as shared.
LEMMA DisturbKeeps ==
  ASSUME IInv, NEW g \in Graph, NEW c \in Rx, Disturb(g, c),
         \A h \in Graph \ {g} : sock'[h] = sock[h] /\ late'[h] = late[h],
         UNCHANGED <<loaded, zeroed>>
  PROVE  /\ rx' \in [Graph -> Rx] /\ rx'[g] = c
         /\ \A h \in Graph \ {g} : ScanSound(h)' /\ LateSound(h)' /\ FrameClean(h)'
  <1> DEFINE mixed(h) == rx[h].shared \/ rx[h].pc \in {"dispatch", "process"}
             e(h) == [rx[h] EXCEPT !.shared = mixed(h)]
  <1>1. rx' = [h \in Graph |-> IF h = g THEN c ELSE e(h)] /\ rx \in [Graph -> Rx]
    BY DEF Disturb, IInv, Types
  <1>2. ASSUME NEW h \in Graph
        PROVE  /\ e(h) \in Rx /\ e(h).pc = rx[h].pc /\ e(h).todo = rx[h].todo
               /\ e(h).ready = rx[h].ready /\ e(h).node = rx[h].node
               /\ e(h).got = rx[h].got /\ e(h).shared = mixed(h)
    <2>1. ASSUME NEW b \in BOOLEAN, NEW x \in Rx
          PROVE  /\ [x EXCEPT !.shared = b] \in Rx /\ [x EXCEPT !.shared = b].shared = b
                 /\ \A f \in {"pc", "todo", "ready", "node", "got"} :
                       [x EXCEPT !.shared = b][f] = x[f]
      BY DEF Rx
    <2>2. mixed(h) \in BOOLEAN /\ rx[h] \in Rx
      BY <1>1
    <2>3. e(h) = [rx[h] EXCEPT !.shared = mixed(h)]
      OBVIOUS
    <2> HIDE DEF mixed, e
    <2>4. QED
      BY <2>1, <2>2, <2>3
  <1>3. rx'[g] = c /\ \A h \in Graph \ {g} : rx'[h] = e(h)
    BY <1>1
  <1>4. rx' \in [Graph -> Rx]
    <2> HIDE DEF e
    <2>1. QED
      BY <1>1, <1>2
  <1>5. ASSUME NEW h \in Graph \ {g} PROVE ScanSound(h)' /\ LateSound(h)' /\ FrameClean(h)'
    <2>1. ScanSound(h) /\ LateSound(h) /\ FrameClean(h)
      BY DEF IInv
    <2>2. e(h).pc \in {"dispatch", "process"} => e(h).shared
      BY <1>2
    <2>3. /\ rx'[h].pc = rx[h].pc /\ rx'[h].todo = rx[h].todo /\ rx'[h].ready = rx[h].ready
          /\ rx'[h].node = rx[h].node /\ sock'[h] = sock[h] /\ late'[h] = late[h]
      <3> HIDE DEF e
      <3>1. QED
        BY <1>2, <1>3
    <2> HIDE DEF e
    <2>4. ScanSound(h)' /\ LateSound(h)'
      <3>1. ScanSound(h)'
        BY <2>1, <2>3 DEF ScanSound
      <3>2. LateSound(h)'
        BY <2>1, <2>3 DEF LateSound
      <3>3. QED
        BY <3>1, <3>2
    <2>5. FrameClean(h)'
      BY <1>2, <1>3, <2>1, <2>2 DEF FrameClean, DatagramClean
    <2>6. QED
      BY <2>4, <2>5
  <1>6. QED
    BY <1>3, <1>4, <1>5

LEMMA ClearRecvBufferKeeps == ASSUME IInv, NEW g \in Graph, ClearRecvBuffer(g) PROVE IInv'
  <1> DEFINE c == [rx[g] EXCEPT !.pc = "recvfrom"]
  <1>1. /\ rx[g].pc = "clear" /\ Overwrite(g, Zeros) /\ Disturb(g, c)
        /\ UNCHANGED <<topology, loaded, zeroed, creates, packets, sock, sendBuffer, late>>
    BY DEF ClearRecvBuffer
  <1>2. ScanSound(g) /\ LateSound(g) /\ rx[g] \in Rx /\ Types
    BY DEF IInv, Types
  <1>3. /\ c \in Rx /\ c.pc = "recvfrom" /\ c.todo = rx[g].todo /\ c.ready = rx[g].ready
        /\ c.node = rx[g].node
    BY <1>2 DEF Rx
  <1>4. Zeros \in Content
    BY DEF Zeros, Content
  <1> HIDE DEF c
  <1>5. /\ recvBuffer' \in Content /\ sending' \in [Thread -> Call]
        /\ \A t \in Thread : CallSound(t)' /\ CallClean(t)'
    BY <1>1, <1>4, Constants, OverwriteKeeps
  <1>6. /\ rx' \in [Graph -> Rx] /\ rx'[g] = c
        /\ \A h \in Graph \ {g} : ScanSound(h)' /\ LateSound(h)' /\ FrameClean(h)'
    BY <1>1, <1>3, DisturbKeeps
  <1>7. ScanSound(g)' /\ LateSound(g)' /\ FrameClean(g)'
    <2>1. ScanSound(g)'
      BY <1>1, <1>2, <1>3, <1>6 DEF ScanSound, Visiting
    <2>2. LateSound(g)'
      BY <1>1, <1>2, <1>3, <1>6 DEF LateSound
    <2>3. FrameClean(g)'
      BY <1>3, <1>6 DEF FrameClean
    <2>4. QED
      BY <2>1, <2>2, <2>3
  <1>8. Types'
    BY <1>1, <1>2, <1>5, <1>6 DEF Types
  <1>9. Room' /\ SocketsClean'
    BY <1>1, SocketsKept
  <1>10. QED
    BY <1>5, <1>6, <1>7, <1>8, <1>9 DEF IInv

LEMMA RecvFromKeeps == ASSUME IInv, NEW g \in Graph, RecvFrom(g) PROVE IInv'
  <1> DEFINE n == rx[g].node
             s == sock[g][n]
             d == Head(s)
             c == [rx[g] EXCEPT !.pc = "dispatch", !.got = d, !.shared = FALSE]
  <1>1. /\ rx[g].pc = "recvfrom" /\ Overwrite(g, d.content) /\ Disturb(g, c)
        /\ sock' = [sock EXCEPT ![g][n] = Tail(s)]
        /\ late' = IF g \in zeroed THEN [late EXCEPT ![g][n] = late[g][n] + 1] ELSE late
        /\ UNCHANGED <<topology, loaded, zeroed, creates, packets, sendBuffer>>
    BY DEF RecvFrom
  <1>2. ScanSound(g) /\ LateSound(g) /\ rx[g] \in Rx /\ Types /\ Room /\ SocketsClean
    BY DEF IInv, Types
  <1>3. n \in Node /\ s \in Seq(Datagram) /\ s # <<>> /\ late[g][n] = 0 /\ Len(s) <= SockCap
    <2>1. n \in Node /\ s # <<>>
      BY <1>1, <1>2 DEF ScanSound, Visiting
    <2>2. late[g][n] = 0
      BY <1>1, <1>2 DEF LateSound
    <2>3. s \in Seq(Datagram) /\ Len(s) <= SockCap
      BY <1>2, <2>1 DEF Types, Room
    <2>4. QED
      BY <2>1, <2>2, <2>3
  <1> DEFINE tail == Tail(s)
  <1>4. /\ d \in Datagram /\ d = s[1] /\ 1 \in 1..Len(s)
        /\ tail \in Seq(Datagram) /\ Len(tail) <= SockCap
        /\ \A k \in 1..Len(tail) : tail[k] = s[k+1] /\ k + 1 \in 1..Len(s)
    <2> HIDE DEF s
    <2>1. QED
      BY <1>3, Constants
  <1>5. DatagramClean(n, d) /\ \A k \in 1..Len(tail) : DatagramClean(n, tail[k])
    <2>1. \A k \in 1..Len(s) : DatagramClean(n, s[k])
      BY <1>2, <1>3 DEF SocketsClean
    <2> HIDE DEF d, s, tail
    <2>2. QED
      BY <1>4, <2>1
  <1>6. /\ c \in Rx /\ c.pc = "dispatch" /\ c.todo = rx[g].todo /\ c.ready = rx[g].ready
        /\ c.node = n /\ c.got = d /\ c.shared = FALSE
    <2> HIDE DEF d
    <2>1. QED
      BY <1>2, <1>4 DEF Rx
  <1>7. d.content \in Content
    BY <1>4 DEF Datagram
  <1> HIDE DEF c, d, s, tail, n
  <1>8. /\ sock'[g][n] = tail /\ \A m \in Node : m # n => sock'[g][m] = sock[g][m]
        /\ \A h \in Graph \ {g} : sock'[h] = sock[h]
        /\ sock' \in [Graph -> [Node -> Seq(Datagram)]]
    BY <1>1, <1>2, <1>3, <1>4 DEF Types, tail
  <1>9. /\ late'[g][n] <= 1 /\ (g \notin zeroed => late'[g][n] = 0)
        /\ \A m \in Node : m # n => late'[g][m] = late[g][m]
        /\ \A h \in Graph \ {g} : late'[h] = late[h]
        /\ late' \in [Graph -> [Node -> Nat]]
    <2>1. CASE g \in zeroed
      BY <1>1, <1>2, <1>3, <2>1 DEF Types
    <2>2. CASE g \notin zeroed
      BY <1>1, <1>2, <1>3, <2>2 DEF Types
    <2>3. QED
      BY <2>1, <2>2
  <1>10. /\ recvBuffer' \in Content /\ sending' \in [Thread -> Call]
         /\ \A t \in Thread : CallSound(t)' /\ CallClean(t)'
    BY <1>1, <1>7, Constants, OverwriteKeeps
  <1>11. recvBuffer' = d.content
    BY <1>1 DEF Overwrite
  <1>12. /\ rx' \in [Graph -> Rx] /\ rx'[g] = c
         /\ \A h \in Graph \ {g} : ScanSound(h)' /\ LateSound(h)' /\ FrameClean(h)'
    BY <1>1, <1>6, <1>8, <1>9, DisturbKeeps
  <1>13. ScanSound(g)' /\ LateSound(g)' /\ FrameClean(g)'
    <2>1. \A k \in 1..Len(rx[g].todo) : rx[g].todo[k] \in Node /\ rx[g].todo[k] # n
      BY <1>1, <1>2 DEF ScanSound, Visiting, Rx, n
    <2>2. ScanSound(g)'
      BY <1>1, <1>2, <1>3, <1>6, <1>8, <1>12, <2>1 DEF ScanSound, Visiting
    <2>3. LateSound(g)'
      BY <1>1, <1>2, <1>6, <1>9, <1>12, <2>1 DEF LateSound
    <2>4. FrameClean(g)'
      BY <1>4, <1>5, <1>6, <1>11, <1>12 DEF FrameClean, DatagramClean
    <2>5. QED
      BY <2>2, <2>3, <2>4
  <1>14. Types'
    BY <1>1, <1>2, <1>8, <1>9, <1>10, <1>12 DEF Types
  <1>15. Room'
    BY <1>2, <1>4, <1>8 DEF Room
  <1>16. SocketsClean'
    <2> SUFFICES ASSUME NEW h \in Graph, NEW m \in Node, NEW k \in 1..Len(sock'[h][m])
                 PROVE  DatagramClean(m, sock'[h][m][k])
      BY DEF SocketsClean, DatagramClean
    <2>1. CASE h = g /\ m = n
      BY <1>5, <1>8, <2>1
    <2>2. CASE ~(h = g /\ m = n)
      BY <1>2, <1>8, <2>2 DEF SocketsClean
    <2>3. QED
      BY <2>1, <2>2
  <1>17. QED
    BY <1>10, <1>12, <1>13, <1>14, <1>15, <1>16 DEF IInv

LEMMA ForwardInPlaceKeeps == ASSUME IInv, NEW g \in Graph, ForwardInPlace(g) PROVE IInv'
  <1>1. /\ rx[g].pc = "process"
        /\ UNCHANGED <<topology, loaded, zeroed, creates, packets, sock, recvBuffer, late>>
    BY DEF ForwardInPlace
  <1>2. PICK via \in rx[g].outs :
          /\ Begin(g, g, via, 0)
          /\ rx' = [rx EXCEPT ![g].outs = rx[g].outs \ {via}]
    BY DEF ForwardInPlace
  <1>3. Types /\ rx[g] \in Rx /\ ScanSound(g)
    BY DEF IInv, Types
  <1>4. /\ g \in Thread /\ via \in Intf /\ packets \in 0..MaxPackets /\ 0 \in 0..packets'
        /\ packets <= packets'
    BY <1>1, <1>3, Constants DEF Rx, Types
  <1>5. g \in 1..loaded
    BY <1>1, <1>3, Constants DEF ScanSound, Graph, Types
  <1>6. /\ rx' \in [Graph -> Rx]
        /\ \A h \in Graph, f \in {"pc", "todo", "ready", "node", "got", "shared"} :
              rx'[h][f] = rx[h][f]
    BY <1>2, <1>3 DEF Types, Rx
  <1>7. QED
    BY <1>1, <1>2, <1>4, <1>5, <1>6, BeginKeeps

LEMMA OriginateKeeps == ASSUME IInv, NEW g \in Graph, Originate(g) PROVE IInv'
  <1>1. /\ rx[g].pc = "process" /\ packets < MaxPackets /\ packets' = packets + 1
        /\ UNCHANGED <<topology, loaded, zeroed, creates, sock, recvBuffer, rx, late>>
    BY DEF Originate
  <1>2. PICK via \in Intf : Begin(g, g, via, packets + 1)
    BY DEF Originate
  <1>3. Types /\ ScanSound(g)
    BY DEF IInv
  <1>4. /\ g \in Thread /\ packets' \in 0..MaxPackets /\ packets + 1 \in 0..packets'
        /\ packets <= packets'
    BY <1>1, <1>3, Constants DEF Types
  <1>5. g \in 1..loaded
    BY <1>1, <1>3, Constants DEF ScanSound, Graph, Types
  <1>6. /\ rx' \in [Graph -> Rx]
        /\ \A h \in Graph, f \in {"pc", "todo", "ready", "node", "got", "shared"} :
              rx'[h][f] = rx[h][f]
    BY <1>1, <1>3 DEF Types
  <1>7. QED
    BY <1>1, <1>2, <1>4, <1>5, <1>6, BeginKeeps

-----------------------------------------------------------------------------
(* Commands *)

LEMMA SendKeeps == ASSUME IInv, Send PROVE IInv'
  <1>1. /\ topology # 0 /\ packets < MaxPackets /\ packets' = packets + 1
        /\ UNCHANGED <<topology, loaded, zeroed, creates, sock, recvBuffer, rx, late>>
    BY DEF Send
  <1>2. PICK via \in Intf : Begin(Cli, topology, via, packets + 1)
    BY DEF Send
  <1>3. Types
    BY DEF IInv
  <1>4. /\ packets' \in 0..MaxPackets /\ packets + 1 \in 0..packets' /\ packets <= packets'
        /\ topology \in 1..loaded
    BY <1>1, <1>3, Constants DEF Types
  <1>5. /\ rx' \in [Graph -> Rx]
        /\ \A h \in Graph, f \in {"pc", "todo", "ready", "node", "got", "shared"} :
              rx'[h][f] = rx[h][f]
    BY <1>1, <1>3 DEF Types
  <1>6. QED
    BY <1>1, <1>2, <1>4, <1>5, Constants, BeginKeeps

\* Only the receiver of the new topology changes; it was not there before.
LEMMA LoadKeeps == ASSUME IInv, Load PROVE IInv'
  <1>1. /\ loaded < MaxGraphs /\ loaded' = loaded + 1 /\ topology' = loaded + 1
        /\ rx' = [rx EXCEPT ![loaded + 1].pc = "select"]
        /\ UNCHANGED <<zeroed, creates, packets, sock, sendBuffer, recvBuffer, sending, late>>
    BY DEF Load
  <1>2. Types /\ loaded \in Nat /\ loaded + 1 \in Graph /\ MaxGraphs \in Nat
    BY <1>1, Constants DEF IInv, Types, Graph
  <1> DEFINE new == loaded + 1
  <1>3. /\ rx' \in [Graph -> Rx] /\ rx'[new].pc = "select"
        /\ rx'[new].todo = rx[new].todo /\ rx'[new].ready = rx[new].ready
        /\ \A g \in Graph : g # new => rx'[g] = rx[g]
    <2>1. rx \in [Graph -> Rx] /\ rx[new] \in Rx
      BY <1>2 DEF Types
    <2>2. [rx[new] EXCEPT !.pc = "select"] \in Rx
      BY <2>1 DEF Rx
    <2>3. rx' = [rx EXCEPT ![new] = [rx[new] EXCEPT !.pc = "select"]]
      BY <1>1
    <2>4. /\ rx' \in [Graph -> Rx] /\ rx'[new] = [rx[new] EXCEPT !.pc = "select"]
          /\ \A g \in Graph : g # new => rx'[g] = rx[g]
      BY <1>2, <2>1, <2>2, <2>3
    <2>5. QED
      BY <2>1, <2>4 DEF Rx
  <1>4. Types'
    BY <1>1, <1>2, <1>3, Constants DEF Types
  <1>5. Room' /\ SocketsClean'
    BY <1>1, SocketsKept
  <1>6. ASSUME NEW t \in Thread PROVE CallSound(t)' /\ CallClean(t)'
    BY <1>1, <1>2 DEF IInv, CallSound, CallClean, FrameAt
  <1>7. ASSUME NEW g \in Graph PROVE ScanSound(g)' /\ LateSound(g)' /\ FrameClean(g)'
    <2>1. ScanSound(g) /\ LateSound(g) /\ FrameClean(g)
      BY DEF IInv
    <2>2. CASE g = new
      BY <1>1, <1>2, <1>3, <2>1, <2>2 DEF ScanSound, LateSound, FrameClean, Visiting
    <2>3. CASE g # new
      <3>1. rx'[g] = rx[g] /\ (g > loaded' <=> g > loaded)
        BY <1>1, <1>2, <1>3, <2>3 DEF Graph
      <3>2. /\ UNCHANGED <<sock, recvBuffer, late>> /\ zeroed' = zeroed
        BY <1>1
      <3>3. ScanSound(g)'
        BY <2>1, <3>1, <3>2 DEF ScanSound
      <3>4. LateSound(g)'
        BY <2>1, <3>1, <3>2 DEF LateSound
      <3>5. FrameClean(g)'
        BY <2>1, <3>1, <3>2 DEF FrameClean, DatagramClean
      <3>6. QED
        BY <3>3, <3>4, <3>5
    <2>4. QED
      BY <2>2, <2>3
  <1>8. QED
    BY <1>4, <1>5, <1>6, <1>7 DEF IInv

\* Every scan in progress goes on as it was.
LEMMA CreateKeeps == ASSUME IInv, Create PROVE IInv'
  <1>1. /\ creates < MaxCreates /\ creates' = creates + 1
        /\ zeroed' = zeroed \cup ({topology} \ {0}) /\ topology' = 0
        /\ UNCHANGED <<loaded, packets, sock, sendBuffer, recvBuffer, sending, rx, late>>
    BY DEF Create
  <1>2. Types'
    <2>1. Types /\ loaded \in Nat
      BY Constants DEF IInv, Types
    <2>2. topology' \in 0..loaded /\ zeroed' \subseteq 1..loaded /\ creates' \in 0..MaxCreates
      BY <1>1, <2>1, Constants DEF Types
    <2>3. QED
      BY <1>1, <2>1, <2>2 DEF Types
  <1>3. Room' /\ SocketsClean'
    BY <1>1, SocketsKept
  <1>4. ASSUME NEW t \in Thread PROVE CallSound(t)' /\ CallClean(t)'
    BY <1>1 DEF IInv, CallSound, CallClean, FrameAt
  <1>5. ASSUME NEW g \in Graph PROVE ScanSound(g)' /\ LateSound(g)' /\ FrameClean(g)'
    <2>1. ScanSound(g) /\ LateSound(g) /\ FrameClean(g)
      BY DEF IInv
    <2>2. QED
      BY <1>1, <2>1 DEF ScanSound, LateSound, FrameClean, DatagramClean
  <1>6. QED
    BY <1>2, <1>3, <1>4, <1>5 DEF IInv

-----------------------------------------------------------------------------
(* Every step *)

LEMMA SendStepKeeps == ASSUME IInv, NEW t \in Thread, SendStep(t) PROVE IInv'
  BY PutNameKeeps, PutFrameKeeps, TransmitKeeps DEF SendStep

LEMMA RxStepKeeps == ASSUME IInv, NEW g \in Graph, RxStep(g) PROVE IInv'
  <1>1. CASE Select(g)
    BY <1>1, SelectKeeps
  <1>2. CASE Scan(g)
    BY <1>2, ScanKeeps
  <1>3. CASE ScanDone(g)
    BY <1>3, ScanDoneKeeps
  <1>4. CASE ClearRecvBuffer(g)
    BY <1>4, ClearRecvBufferKeeps
  <1>5. CASE RecvFrom(g)
    BY <1>5, RecvFromKeeps
  <1>6. CASE Discard(g)
    BY <1>6, NextNodeKeeps DEF Discard, Visiting
  <1>7. CASE Dispatch(g)
    BY <1>7, DispatchKeeps
  <1>8. CASE ForwardInPlace(g)
    BY <1>8, ForwardInPlaceKeeps
  <1>9. CASE Originate(g)
    BY <1>9, OriginateKeeps
  <1>10. CASE ProcessDone(g)
    BY <1>10, NextNodeKeeps DEF ProcessDone, Visiting
  <1>11. CASE SendStep(g)
    BY <1>11, SendStepKeeps, Constants
  <1>12. QED
    BY <1>1, <1>2, <1>3, <1>4, <1>5, <1>6, <1>7, <1>8, <1>9, <1>10, <1>11 DEF RxStep

LEMMA StutterKeeps == ASSUME IInv, UNCHANGED vars PROVE IInv'
  <1>1. UNCHANGED <<topology, loaded, zeroed, creates, packets, sock, sendBuffer, recvBuffer,
                    sending, rx, late>>
    BY DEF vars
  <1>2. Types'
    BY <1>1 DEF IInv, Types
  <1>3. Room' /\ SocketsClean'
    BY <1>1, SocketsKept
  <1>4. ASSUME NEW t \in Thread PROVE CallSound(t)' /\ CallClean(t)'
    BY <1>1 DEF IInv, CallSound, CallClean, FrameAt
  <1>5. ASSUME NEW g \in Graph PROVE ScanSound(g)' /\ LateSound(g)' /\ FrameClean(g)'
    BY <1>1, RxKept
  <1>6. QED
    BY <1>2, <1>3, <1>4, <1>5 DEF IInv

LEMMA NextKeeps == ASSUME IInv, Next PROVE IInv'
  <1>1. CASE Load
    BY <1>1, LoadKeeps
  <1>2. CASE Create
    BY <1>2, CreateKeeps
  <1>3. CASE Send
    BY <1>3, SendKeeps
  <1>4. CASE SendStep(Cli)
    BY <1>4, SendStepKeeps, Constants
  <1>5. CASE \E g \in Graph : RxStep(g)
    BY <1>5, RxStepKeeps
  <1>6. QED
    BY <1>1, <1>2, <1>3, <1>4, <1>5 DEF Next

\* The inductive invariant holds in every state that commands and threads reach.
THEOREM CommInvariance == Spec => []IInv
  <1>1. Init => IInv
    BY InitInv
  <1>2. IInv /\ [Next]_vars => IInv'
    BY NextKeeps, StutterKeeps
  <1>3. QED
    BY <1>1, <1>2, PTL DEF Spec

\* The variables have their types, and no socket holds more than the kernel lets it,
\* whichever threads send to it.
THEOREM CommTyped == Spec => []TypeOK
  BY CommInvariance, InvTypeOK, PTL

\* A datagram whose send no other one overlapped is handled at the interface at the far
\* end of the link, as it was sent, though every thread builds its datagrams in the same
\* send_buffer and every receiver takes them into the same recv_buffer.
THEOREM AloneArrivesWhereSent == Spec => []ArrivesWhereSent
  BY CommInvariance, InvArrives, PTL

\* The recvfrom of a receiver thread finds the datagram that select saw.
THEOREM NeverBlocksInRecvfrom == Spec => []RecvNeverBlocks
  BY CommInvariance, InvRecv, PTL

\* After create has zeroed a graph its receiver takes at most one datagram per node.
THEOREM AtMostOneScanAfterCreate == Spec => []ZeroedServesOneScan
  BY CommInvariance, InvOneScan, PTL
=============================================================================
