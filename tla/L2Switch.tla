------------------------------ MODULE L2Switch ------------------------------
(***************************************************************************)
(* The layer 2 switch: the path of a frame from the socket of a switch     *)
(* through VLAN admission, MAC learning and forwarding, one port at a time,*)
(* and the commands that reconfigure a port meanwhile.                     *)
(*                                                                         *)
(* Hosts have one interface in L3 mode, and ask and answer with the frames *)
(* that module Stack describes in full. A host stands for its interface,   *)
(* its MAC address and its IP address.                                     *)
(*                                                                         *)
(* Two local variables of the C code are read before they are written. The *)
(* project is built without optimisation, and there they hold what the     *)
(* previous call of the same function left on the stack: see slot and prev.*)
(***************************************************************************)
EXTENDS Naturals, Sequences, FiniteSets

CONSTANTS
    Switch, Host,   \* the nodes
    Rank,           \* a node's place in topology->node_list
    Port,           \* the interfaces of the switches
    PortSeq,        \* node->intf[] of a switch
    Owner,          \* intf->att_node
    Peer,           \* the other end of intf->link
    Behind,         \* the hosts that a port leads to
    Vlan,           \* VLAN ids in use; 0 is "no VLAN"
    Slots,          \* MAX_VLAN_MEMBERSHIP
    InitMode, InitVlans,
    BroadcastMac, GarbledDst, GarbledSrc,
    Nobody,         \* an address that no host has
    NoPort,         \* mac_table_entry_lookup's NULL
    SockCap,        \* datagrams the kernel holds for one socket
    MaxCommands,    \* bound on the commands of one behaviour
    ArpCommands,    \* <<host, address>> the user may resolve
    PingCommands,   \* <<host, host>> the user may ping
    VlanCommands, RemoveCommands,   \* <<port, VLAN id>>
    ModeCommands    \* <<port, mode>>

Node == Switch \cup Host
Intf == Port \cup Host
Mode == {"access", "trunk"}
Tag == Vlan \cup {0}
Mac == Host \cup {BroadcastMac, GarbledDst, GarbledSrc}

ASSUME L2Assumption ==
    /\ Switch \cap Host = {} /\ IsFiniteSet(Node)
    /\ Port \cap Host = {}
    /\ Rank \in [Node -> Nat]
    /\ \A m, n \in Node : Rank[m] = Rank[n] => m = n
    /\ Owner \in [Intf -> Node]
    /\ \A p \in Port : Owner[p] \in Switch
    /\ \A h \in Host : Owner[h] = h
    /\ Peer \in [Intf -> Intf]
    /\ \A i \in Intf : Peer[i] # i /\ Peer[Peer[i]] = i
    /\ \A h \in Host : Peer[h] \in Port
    /\ PortSeq \in [Switch -> Seq(Port)]
    /\ \A s \in Switch : \A k \in 1..Len(PortSeq[s]) : Owner[PortSeq[s][k]] = s
    /\ \A s \in Switch : \A j, k \in 1..Len(PortSeq[s]) :
          PortSeq[s][j] = PortSeq[s][k] => j = k
    /\ Vlan \subseteq Nat \ {0} /\ Slots \in Nat \ {0}
    /\ InitMode \in [Port -> Mode]
    /\ InitVlans \in [Port -> [1..Slots -> Tag]]
    /\ {BroadcastMac, GarbledDst, GarbledSrc, Nobody} \cap Host = {}
    /\ BroadcastMac # GarbledDst /\ BroadcastMac # GarbledSrc /\ GarbledDst # GarbledSrc
    /\ NoPort \notin Port
    /\ SockCap \in Nat /\ MaxCommands \in Nat
    /\ ArpCommands \subseteq Host \X (Host \cup {Nobody})
    /\ PingCommands \subseteq Host \X Host
    /\ VlanCommands \subseteq Port \X Tag /\ RemoveCommands \subseteq Port \X Tag
    /\ ModeCommands \subseteq Port \X Mode

\* The switches and hosts form a tree: a port leads to what the other ports of
\* the neighbour lead to, and two ports of a switch lead to different hosts.
ASSUME TreeAssumption ==
    /\ Behind \in [Port -> SUBSET Host]
    /\ \A p \in Port :
          Behind[p] = IF Peer[p] \in Host THEN {Peer[p]}
                      ELSE UNION {Behind[q] : q \in {x \in Port \ {Peer[p]} :
                                                        Owner[x] = Owner[Peer[p]]}}
    /\ \A p, q \in Port : Owner[p] = Owner[q] /\ p # q => Behind[p] \cap Behind[q] = {}

VARIABLES
    sock,      \* node -> datagrams waiting in its UDP socket, oldest first
    ready,     \* nodes that the last select found readable, not yet visited
    mac,       \* switch -> MAC -> the port that the table names
    mode,      \* port -> intf_l2_mode
    vlans,     \* port -> vlans[]
    pending,   \* the port that the cli thread is taking out of trunk mode, or NoPort
    known,     \* host -> hosts that its ARP table resolves
    task,      \* the receiver thread, within a frame
    slot,      \* what uninitialised vlan_to_tag holds on the receiver's stack
    commands,  \* commands issued so far (bounds the behaviour)
    config,    \* history: configuration steps so far
    sent,      \* history: the frames that hosts have sent
    heard,     \* history: host -> the frames it has accepted
    strays,    \* history: frames that a change of mode let in
    was        \* history: port -> VLANs it has ever been a member of

\* What only commands change.
settings == <<mode, vlans, pending, commands, config, was>>
vars == <<settings, sock, ready, mac, known, task, slot, sent, heard, strays>>

FrameKind == {"arpRequest", "arpReply", "echo", "reply"}
\* tag 0 is an untagged frame. id is history: it names the transmission by a host.
Frame == [kind : FrameKind, dst : Mac, src : Mac, to : Host \cup {Nobody}, tag : Tag, id : Nat]
Datagram == [iif : Intf, frame : Frame]

Idle == [op |-> "idle"]
\* l2_frame_recv_qualify_on_interface has read the mode for the first time
Admit(s, p, f, m) == [op |-> "admit", node |-> s, iif |-> p, buf |-> f, mode |-> m]
\* l2_switch_forward_frame(node, intf, pkt)
Forward(s, p, f) == [op |-> "forward", node |-> s, iif |-> p, buf |-> f]
\* l2_switch_flood_pkt_out about to send on port k. prev is what the uninitialised
\* vlan_id of l2_switch_send_pkt_out holds: 0 at first, later the last port's.
Flood(s, p, f, k, prev) ==
    [op |-> "flood", node |-> s, iif |-> p, buf |-> f, k |-> k, prev |-> prev]

Task ==
    {Idle}
    \cup [op : {"admit"}, node : Switch, iif : Port, buf : Frame, mode : Mode]
    \cup [op : {"forward"}, node : Switch, iif : Port, buf : Frame]
    \cup [op : {"flood"}, node : Switch, iif : Port, buf : Frame, k : Nat \ {0}, prev : Tag]

Range1(f) == {f[s] : s \in 1..Slots}
\* The VLANs of a port: vlans[0] in access mode, every slot in trunk mode.
Member(m, v) == IF m = "access" THEN {v[1]} ELSE Range1(v)

Init ==
    /\ sock = [n \in Node |-> <<>>]
    /\ ready = {}
    /\ mac = [s \in Switch |-> [a \in Mac |-> NoPort]]
    /\ mode = InitMode
    /\ vlans = InitVlans
    /\ pending = NoPort
    /\ known = [h \in Host |-> {}]
    /\ task = Idle
    /\ slot = 0
    /\ commands = 0 /\ config = 0
    /\ sent = <<>>
    /\ heard = [h \in Host |-> <<>>]
    /\ strays = {}
    /\ was = [p \in Port |-> Member(InitMode[p], InitVlans[p])]

-----------------------------------------------------------------------------
(* Sending *)

\* send_pkt_out and the loopback network: a datagram for a full socket is lost.
Deliver(q, i, f) ==
    LET far == Peer[i]
    IN  [q EXCEPT ![Owner[far]] =
            IF Len(@) < SockCap THEN Append(@, [iif |-> far, frame |-> f]) ELSE @]

\* A host puts a frame of its own on its link.
Transmit(q, h, kind, dst, to) ==
    /\ sock' = Deliver(q, h, [kind |-> kind, dst |-> dst, src |-> h, to |-> to,
                              tag |-> 0, id |-> Len(sent) + 1])
    /\ sent' = Append(sent, [src |-> h, kind |-> kind, to |-> to, config |-> config])

\* untag_pkt_with_vlan_id works in place: the frame goes out from four bytes
\* further on, and what the caller's pointer still names begins with four zero
\* bytes. Later ports are handed that.
Garbled(f) == [f EXCEPT !.dst = GarbledDst, !.src = GarbledSrc, !.tag = 0]

VlanIdOf(f, prev) == IF f.tag = 0 THEN prev ELSE f.tag

\* Mutant: the port's VLAN is not compared.
SendsOnAnyPort(f, p, prev) == TRUE

\* l2_switch_send_pkt_out: is the port a member; what leaves; what it does to the buffer
SendsOn(f, p, prev) == VlanIdOf(f, prev) \in Member(mode[p], vlans[p])
OutFrame(f, p) == IF mode[p] = "access" THEN [f EXCEPT !.tag = 0] ELSE f
LeftInBuffer(f, p, prev) ==
    IF SendsOn(f, p, prev) /\ mode[p] = "access" /\ f.tag # 0 THEN Garbled(f) ELSE f
SendOut(f, p, prev) ==
    sock' = IF SendsOn(f, p, prev) THEN Deliver(sock, p, OutFrame(f, p)) ELSE sock

-----------------------------------------------------------------------------
(* The receiver thread *)

\* select blocks until some socket is readable, and its answer is a snapshot.
Select ==
    /\ task = Idle /\ ready = {}
    /\ \E n \in Node : sock[n] # <<>>
    /\ ready' = {n \in Node : sock[n] # <<>>}
    /\ UNCHANGED <<settings, sock, mac, known, task, slot, sent, heard, strays>>

\* The scan visits the readable nodes in list order and takes one datagram each.
Visits(n) ==
    /\ task = Idle
    /\ n \in ready /\ sock[n] # <<>>
    /\ \A m \in ready : Rank[n] <= Rank[m]

Consume(n) == ready' = ready \ {n}
Taken(n) == [sock EXCEPT ![n] = Tail(@)]

\* l2_frame_recv_qualify_on_interface on an interface in L3 mode
QualifiesL3(h, f) == f.tag = 0 /\ f.dst \in {h, BroadcastMac}

\* tag_pkt_with_vlan_id, called with any vlan_to_tag but 0, replaces a tag
Tagged(f, v) == IF v = 0 THEN f ELSE [f EXCEPT !.tag = v]

\* Mutant: the datagram stays in the socket.
AdmitPeeks(s) ==
    /\ Visits(s)
    /\ LET d == Head(sock[s]) IN task' = Admit(s, d.iif, d.frame, mode[d.iif])
    /\ Consume(s)
    /\ UNCHANGED <<settings, sock, mac, known, slot, sent, heard, strays>>

\* recvfrom and the way to the first look at the mode
AdmitFrame(s) ==
    /\ Visits(s)
    /\ LET d == Head(sock[s]) IN task' = Admit(s, d.iif, d.frame, mode[d.iif])
    /\ sock' = Taken(s)
    /\ Consume(s)
    /\ UNCHANGED <<settings, mac, known, slot, sent, heard, strays>>

\* The interface was in access mode. get_access_intf_operating_vlan_id looks again,
\* and returns 0 if it no longer is.
AccessVlan(p) == IF mode[p] = "access" THEN vlans[p][1] ELSE 0
QualifiesAccess ==
    task.op = "admit" /\ task.mode = "access" /\ task.buf.tag \in {0, AccessVlan(task.iif)}

\* It was not, and at the second look is in trunk mode.
QualifiesTrunk ==
    /\ task.op = "admit" /\ task.mode = "trunk" /\ mode[task.iif] = "trunk"
    /\ task.buf.tag # 0 /\ task.buf.tag \in Range1(vlans[task.iif])

\* It was in trunk mode and is no longer: what then follows are the tests of an
\* interface in L3 mode. No frame is for the MAC address of a port.
QualifiesStray ==
    /\ task.op = "admit" /\ task.mode = "trunk" /\ mode[task.iif] = "access"
    /\ task.buf.dst = BroadcastMac

\* l2_switch_perform_mac_learning, whatever the VLAN, and the call of
\* l2_switch_forward_frame with the frame tagged.
LearnAndForward(v) ==
    /\ mac' = [mac EXCEPT ![task.node][task.buf.src] = task.iif]
    /\ task' = Forward(task.node, task.iif, Tagged(task.buf, v))
    /\ UNCHANGED <<settings, sock, ready, known, sent, heard>>

AccessRecv ==
    /\ QualifiesAccess
    /\ slot' = AccessVlan(task.iif)
    /\ LearnAndForward(AccessVlan(task.iif))
    /\ UNCHANGED strays

\* A trunk port does not set vlan_to_tag: the frame gets the tag of the frame that
\* an access port of any switch accepted last.
TrunkRecv == QualifiesTrunk /\ LearnAndForward(slot) /\ UNCHANGED <<slot, strays>>

StrayRecv ==
    /\ QualifiesStray
    /\ LearnAndForward(slot)
    /\ strays' = strays \cup {task.buf.id}
    /\ UNCHANGED slot

SwitchRefuse ==
    /\ task.op = "admit"
    /\ ~QualifiesAccess /\ ~QualifiesTrunk /\ ~QualifiesStray
    /\ task' = Idle
    /\ UNCHANGED <<settings, sock, ready, mac, known, slot, sent, heard, strays>>

\* l2_switch_forward_frame
PortFor(f) == IF f.dst = BroadcastMac THEN NoPort ELSE mac[task.node][f.dst]

\* The entry's port, even where the frame came in.
ForwardKnown ==
    /\ task.op = "forward"
    /\ PortFor(task.buf) # NoPort
    /\ SendOut(task.buf, PortFor(task.buf), 0)
    /\ task' = Idle
    /\ UNCHANGED <<settings, ready, mac, known, slot, sent, heard, strays>>

ForwardUnknown ==
    /\ task.op = "forward"
    /\ PortFor(task.buf) = NoPort
    /\ task' = IF PortSeq[task.node] = <<>> THEN Idle
               ELSE Flood(task.node, task.iif, task.buf, 1, 0)
    /\ UNCHANGED <<settings, sock, ready, mac, known, slot, sent, heard, strays>>

\* l2_switch_flood_pkt_out, one port of the loop. The port is not sent to when it is
\* the one the frame came in on.
FloodNext(f, prev) ==
    task' = IF task.k = Len(PortSeq[task.node]) THEN Idle
            ELSE Flood(task.node, task.iif, f, task.k + 1, prev)

\* Mutant: the incoming port is not exempted.
FloodSendsBack ==
    /\ task.op = "flood"
    /\ LET p == PortSeq[task.node][task.k]
       IN  /\ SendOut(task.buf, p, task.prev)
           /\ FloodNext(LeftInBuffer(task.buf, p, task.prev), VlanIdOf(task.buf, task.prev))
    /\ UNCHANGED <<settings, ready, mac, known, slot, sent, heard, strays>>

\* Mutant: a port that is no member ends the loop.
FloodStopsAtStranger ==
    /\ task.op = "flood"
    /\ PortSeq[task.node][task.k] # task.iif
    /\ LET p == PortSeq[task.node][task.k]
       IN  /\ SendOut(task.buf, p, task.prev)
           /\ IF SendsOn(task.buf, p, task.prev)
              THEN FloodNext(LeftInBuffer(task.buf, p, task.prev), VlanIdOf(task.buf,
              task.prev))
              ELSE task' = Idle
    /\ UNCHANGED <<settings, ready, mac, known, slot, sent, heard, strays>>

FloodSend ==
    /\ task.op = "flood"
    /\ PortSeq[task.node][task.k] # task.iif
    /\ LET p == PortSeq[task.node][task.k]
       IN  /\ SendOut(task.buf, p, task.prev)
           /\ FloodNext(LeftInBuffer(task.buf, p, task.prev), VlanIdOf(task.buf, task.prev))
    /\ UNCHANGED <<settings, ready, mac, known, slot, sent, heard, strays>>

FloodSkip ==
    /\ task.op = "flood"
    /\ PortSeq[task.node][task.k] = task.iif
    /\ FloodNext(task.buf, task.prev)
    /\ UNCHANGED <<settings, sock, ready, mac, known, slot, sent, heard, strays>>

-----------------------------------------------------------------------------
(* Hosts, on the receiver thread. A host accepts untagged frames for its   *)
(* own MAC and for all.                                                    *)

Hears(h, kind) ==
    /\ Visits(h)
    /\ LET f == Head(sock[h]).frame
       IN  /\ QualifiesL3(h, f) /\ f.kind = kind
           /\ heard' = [heard EXCEPT ![h] = Append(@, f.id)]
    /\ Consume(h)
    /\ UNCHANGED <<settings, mac, task, slot, strays>>

HostRecvRequest(h) ==
    /\ Hears(h, "arpRequest")
    /\ LET f == Head(sock[h]).frame
       IN  IF f.to = h THEN Transmit(Taken(h), h, "arpReply", f.src, f.src)
           ELSE sock' = Taken(h) /\ UNCHANGED sent
    /\ UNCHANGED known

HostRecvReply(h) ==
    /\ Hears(h, "arpReply")
    /\ known' = [known EXCEPT ![h] = @ \cup {Head(sock[h]).frame.src}]
    /\ sock' = Taken(h)
    /\ UNCHANGED sent

\* An echo message is answered if the table resolves the asker; otherwise a request
\* is sent, and the answer is lost while the receiver thread sleeps for the reply.
HostRecvEcho(h) ==
    /\ Hears(h, "echo")
    /\ LET f == Head(sock[h]).frame
       IN  IF f.src \in known[h] THEN Transmit(Taken(h), h, "reply", f.src, f.src)
           ELSE Transmit(Taken(h), h, "arpRequest", BroadcastMac, f.src)
    /\ UNCHANGED known

HostRecvEchoReply(h) ==
    /\ Hears(h, "reply")
    /\ sock' = Taken(h)
    /\ UNCHANGED <<known, sent>>

HostRefuse(h) ==
    /\ Visits(h)
    /\ ~QualifiesL3(h, Head(sock[h]).frame)
    /\ sock' = Taken(h)
    /\ Consume(h)
    /\ UNCHANGED <<settings, mac, known, task, slot, sent, heard, strays>>

-----------------------------------------------------------------------------
(* The commands, on the other thread *)

Prompt ==
    /\ pending = NoPort
    /\ commands < MaxCommands
    /\ commands' = commands + 1

\* resolve_arp_handler
ResolveArp(h, a) ==
    /\ Prompt
    /\ Transmit(sock, h, "arpRequest", BroadcastMac, a)
    /\ UNCHANGED <<ready, mac, mode, vlans, pending, known, task, slot, config, heard, was, strays>>

\* ping_handler with an address that the table resolves; else it begins as ResolveArp
PingHost(h, g) ==
    /\ g \in known[h]
    /\ Prompt
    /\ Transmit(sock, h, "echo", g, g)
    /\ UNCHANGED <<ready, mac, mode, vlans, pending, known, task, slot, config, heard, was, strays>>

\* One configuration step on a port
Configure(p, m, v) ==
    /\ config' = config + 1
    /\ mode' = [mode EXCEPT ![p] = m]
    /\ vlans' = [vlans EXCEPT ![p] = v]
    /\ was' = [was EXCEPT ![p] = @ \cup Member(m, v)]
    /\ UNCHANGED <<sock, ready, mac, known, task, slot, sent, heard, strays>>

FirstSlot(p, v) ==
    CHOOSE s \in 1..Slots : vlans[p][s] = v /\ \A r \in 1..(s - 1) : vlans[p][r] # v

\* mode_set_handler and node_set_intf_l2_mode, but from trunk to access
SetMode(p, m) ==
    /\ Prompt /\ UNCHANGED pending
    /\ ~(mode[p] = "trunk" /\ m = "access")
    /\ Configure(p, m, vlans[p])

\* From trunk to access: every slot but the first is zeroed, and only then ...
ClearSlots(p) ==
    /\ Prompt /\ pending' = p
    /\ mode[p] = "trunk"
    /\ Configure(p, "trunk", [s \in 1..Slots |-> IF s = 1 THEN vlans[p][1] ELSE 0])

\* ... the mode is set.
LeaveTrunk ==
    /\ pending # NoPort /\ pending' = NoPort
    /\ UNCHANGED commands
    /\ Configure(pending, "access", vlans[pending])

\* Mutant: a full table is written past its end.
SetVlanPastEnd(p, v) ==
    /\ Prompt /\ UNCHANGED pending
    /\ Configure(p, mode[p],
           IF mode[p] = "access" THEN [vlans[p] EXCEPT ![1] = v]
           ELSE IF v \in Range1(vlans[p]) THEN vlans[p]
           ELSE IF 0 \notin Range1(vlans[p])
                THEN [s \in 1..(Slots + 1) |-> IF s <= Slots THEN vlans[p][s] ELSE v]
           ELSE [vlans[p] EXCEPT ![FirstSlot(p, 0)] = v])

\* add_vlan_handler, interface_set_vlan and add_vlan_to_trunk_membership
SetVlan(p, v) ==
    /\ Prompt /\ UNCHANGED pending
    /\ Configure(p, mode[p],
           IF mode[p] = "access" THEN [vlans[p] EXCEPT ![1] = v]
           ELSE IF v \in Range1(vlans[p]) \/ 0 \notin Range1(vlans[p]) THEN vlans[p]
           ELSE [vlans[p] EXCEPT ![FirstSlot(p, 0)] = v])

\* remove_vlan_handler and node_remove_vlan_membership
RemoveVlan(p, v) ==
    /\ Prompt /\ UNCHANGED pending
    /\ Configure(p, mode[p],
           IF v \in Range1(vlans[p]) THEN [vlans[p] EXCEPT ![FirstSlot(p, v)] = 0]
           ELSE vlans[p])

-----------------------------------------------------------------------------
SwitchStep ==
    \/ \E s \in Switch : AdmitFrame(s)
    \/ AccessRecv \/ TrunkRecv \/ StrayRecv \/ SwitchRefuse
    \/ ForwardKnown \/ ForwardUnknown \/ FloodSend \/ FloodSkip

HostStep ==
    \E h \in Host :
        \/ HostRecvRequest(h) \/ HostRecvReply(h) \/ HostRecvEcho(h) \/ HostRecvEchoReply(h)
        \/ HostRefuse(h)

RxStep == Select \/ SwitchStep \/ HostStep

Command ==
    \/ \E c \in ArpCommands : ResolveArp(c[1], c[2])
    \/ \E c \in PingCommands : PingHost(c[1], c[2])
    \/ \E c \in VlanCommands : SetVlan(c[1], c[2])
    \/ \E c \in RemoveCommands : RemoveVlan(c[1], c[2])
    \/ \E c \in ModeCommands : SetMode(c[1], c[2])
    \/ \E c \in ModeCommands : c[2] = "access" /\ ClearSlots(c[1])

Next == RxStep \/ Command \/ LeaveTrunk

Spec == Init /\ [][Next]_vars

\* The receiver thread is scheduled; nobody has to type a command.
FairSpec == Spec /\ WF_vars(RxStep)

-----------------------------------------------------------------------------
(* Correctness *)

\* The type of every variable.
TypeOK ==
    /\ sock \in [Node -> Seq(Datagram)]
    /\ ready \subseteq Node
    /\ mac \in [Switch -> [Mac -> Port \cup {NoPort}]]
    /\ mode \in [Port -> Mode]
    /\ vlans \in [Port -> [1..Slots -> Tag]]
    /\ pending \in Port \cup {NoPort}
    /\ known \in [Host -> SUBSET Host]
    /\ task \in Task
    /\ slot \in Tag
    /\ commands \in 0..MaxCommands /\ config \in 0..(2 * MaxCommands)
    /\ sent \in Seq([src : Host, kind : FrameKind, to : Host \cup {Nobody}, config : Nat])
    /\ heard \in [Host -> Seq(Nat)]
    /\ was \in [Port -> SUBSET Tag]
    /\ strays \subseteq Nat

\* The MAC table of a switch names, for a host, the port that leads to it, although
\* frames are flooded, mangled on the way (layer2.c:486-520) and retagged, and the
\* table is fed by every VLAN and by frames that are then sent nowhere.
MacSound ==
    \A s \in Switch, h \in Host :
        mac[s][h] # NoPort => Owner[mac[s][h]] = s /\ h \in Behind[mac[s][h]]

\* A host accepts one transmission at most once: no frame is echoed to a port that
\* another copy of it has left on, by a flood or by a table that points back.
AtMostOnce ==
    \A h \in Host : \A j, k \in 1..Len(heard[h]) : heard[h][j] = heard[h][k] => j = k

\* On a single switch, two hosts whose ports have never had a VLAN in common never
\* hear each other, whatever is reconfigured while frames wait in sockets, a frame is
\* admitted or a flood is between two ports (l2switch.c:101-120), unless a port
\* leaves trunk mode between two looks at its mode (layer2.h:260-304).
StrangersAreNotHeard ==
    \A h \in Host : \A k \in 1..Len(heard[h]) :
        heard[h][k] \in strays
        \/ was[Peer[h]] \cap was[Peer[sent[heard[h][k]].src]] # {}

\* A switch that no other switch is joined to
SingleSwitch == \A p \in Port : Peer[p] \in Host

\* A frame that comes in on a port of a switch has a host to go on to.
Populated == \A p \in Port : \E q \in Port \ {p} : Owner[q] = Owner[p] /\ Behind[q] # {}

\* Where a port begins in access mode, its slots after the first are unused, and there
\* are such slots.
SlotsUnused ==
    /\ Slots > 1
    /\ \A p \in Port : InitMode[p] = "access" => \A s \in 2..Slots : InitVlans[p][s] = 0

\* No frame is in flight and the receiver thread waits in select.
Quiet == task = Idle /\ \A n \in Node : sock[n] = <<>>

\* No socket is full, so that nothing sent is lost.
RoomLeft == \A n \in Node : Len(sock[n]) < SockCap

\* A request for the host on the first port of the asker's VLAN, on the same switch,
\* resolves it, unless ports were reconfigured since.
FirstMember(h, g) ==
    LET seq == PortSeq[Owner[Peer[h]]]
        member(k) == seq[k] # Peer[h] /\ Member(mode[seq[k]], vlans[seq[k]])
                                          \cap {vlans[Peer[h]][1]} # {}
    IN  \E k \in 1..Len(seq) : seq[k] = Peer[g] /\ member(k) /\ \A j \in 1..(k - 1) : ~member(j)

FirstMemberAnswers ==
    Quiet => \A id \in 1..Len(sent) :
        LET r == sent[id]
        IN  r.kind = "arpRequest" /\ r.config = config /\ r.to \in Host
            /\ mode[Peer[r.src]] = "access" /\ mode[Peer[r.to]] = "access"
            /\ FirstMember(r.src, r.to)
            => r.to \in known[r.src]

\* The network falls silent: no frame circulates between two switches.
Quiesces == <>[]Quiet

-----------------------------------------------------------------------------
(* What the repository says and the code does not do *)

\* "accept tagged frame with vlan id" (layer2.h:286): a frame that a trunk port
\* accepts is forwarded in the VLAN that it came with.
TrunkKeepsVlan ==
    [][QualifiesTrunk /\ task'.op = "forward" => task'.buf.tag = task.buf.tag]_vars

\* "Broadcast Frame received .. will flood frame" (l2switch.c:140) and "is a member
\* of VLAN, Will Untag Pakcet and Forwarded on IF" (l2switch.c:115): every host on an
\* access port of the asker's VLAN, on the same switch, hears the request.
FloodReachesMembers ==
    Quiet => \A id \in 1..Len(sent), h \in Host :
        LET r == sent[id]
        IN  r.kind = "arpRequest" /\ r.config = config
            /\ h # r.src /\ Owner[Peer[h]] = Owner[Peer[r.src]]
            /\ mode[Peer[h]] = "access" /\ mode[Peer[r.src]] = "access"
            /\ vlans[Peer[h]][1] = vlans[Peer[r.src]][1]
            => \E k \in 1..Len(heard[h]) : heard[h][k] = id
=============================================================================
