-------------------------------- MODULE Comm --------------------------------
(***************************************************************************)
(* communications.c under several threads: the command thread and, for     *)
(* every topology that was ever loaded, a receiver thread that nothing     *)
(* stops. All of them send through one static send_buffer, and all         *)
(* receivers receive into one static recv_buffer, in which a frame is also *)
(* forwarded in place.                                                     *)
(*                                                                         *)
(* Layers 2 and 3 are a choice here: a node that gets a frame consumes it, *)
(* forwards it on some of its other interfaces, or sends packets of its    *)
(* own.                                                                    *)
(***************************************************************************)
EXTENDS Naturals, Sequences, FiniteSets

CONSTANTS
    Node, Intf,     \* of one topology; every load makes new ones
    NodeSeq,        \* node_list, newest first
    Owner, Peer,    \* att_node and the other end of the link
    Name,           \* if_name: unique at a node only
    MaxGraphs,      \* bound on load commands
    MaxCreates,     \* bound on create commands
    MaxPackets,     \* bound on packets originated
    SockCap         \* datagrams the kernel holds for one socket

ASSUME CommAssumption ==
    /\ NodeSeq \in Seq(Node)
    /\ \A n \in Node : \E k \in 1..Len(NodeSeq) : NodeSeq[k] = n
    /\ \A j, k \in 1..Len(NodeSeq) : NodeSeq[j] = NodeSeq[k] => j = k
    /\ Owner \in [Intf -> Node] /\ Peer \in [Intf -> Intf]
    /\ \A i \in Intf : Peer[i] # i /\ Peer[Peer[i]] = i
    /\ DOMAIN Name = Intf
    /\ \A i, j \in Intf : Owner[i] = Owner[j] /\ Name[i] = Name[j] => i = j
    /\ MaxGraphs \in Nat /\ MaxCreates \in Nat /\ MaxPackets \in Nat /\ SockCap \in Nat

VARIABLES
    topology,   \* the graph that commands see; 0 if it is empty or none
    loaded,     \* the graphs with a receiver thread are 1..loaded
    zeroed,     \* graphs whose graph_t was zeroed by create
    creates,    \* create commands so far
    packets,    \* packets originated so far, each named by its number
    sock,       \* graph -> node -> datagrams in its socket
    sendBuffer, recvBuffer,
    sending,    \* thread -> its call of send_pkt_out
    rx,         \* graph -> its receiver thread
    late        \* history: graph -> node -> datagrams taken after the zeroing

vars == <<topology, loaded, zeroed, creates, packets, sock, sendBuffer, recvBuffer,
          sending, rx, late>>

Graph == 1..MaxGraphs
Cli == 0
Thread == {Cli} \cup Graph      \* the receiver of graph g is thread g

-----------------------------------------------------------------------------
\* What a buffer holds: an interface name and a frame; "" and 0 where it was zeroed.
Names == {Name[i] : i \in Intf}
Packet == 1..MaxPackets
Content == [name : Names \cup {""}, frame : {0} \cup Packet]
Zeros == [name |-> "", frame |-> 0]

\* A call of send_pkt_out. source is the caller's packet, or 0 if the caller
\* passes a pointer into recv_buffer. History: what the caller meant to send, and
\* whether no other call has overlapped and the caller's frame has stayed as it was.
NoSend == [pc |-> "idle", graph |-> 0, via |-> "none", source |-> 0, meant |-> Zeros,
           alone |-> TRUE]

\* A datagram, with the history of the call that sent it.
Datagram == [content : Content, via : Intf, meant : Content, alone : BOOLEAN]
NoDatagram == [content |-> Zeros, via |-> "none", meant |-> Zeros, alone |-> FALSE]

\* todo: the nodes still to be visited in the scan; outs: the interfaces that the
\* node will send on. History: the datagram received last, and whether another
\* receiver has touched recv_buffer since.
NoRx == [pc |-> "none", ready |-> {}, todo |-> <<>>, node |-> "none", outs |-> {},
         got |-> NoDatagram, shared |-> FALSE]

Init ==
    /\ topology = 0 /\ loaded = 0 /\ zeroed = {} /\ creates = 0 /\ packets = 0
    /\ sock = [g \in Graph |-> [n \in Node |-> <<>>]]
    /\ sendBuffer = Zeros /\ recvBuffer = Zeros
    /\ sending = [t \in Thread |-> NoSend]
    /\ rx = [g \in Graph |-> NoRx]
    /\ late = [g \in Graph |-> [n \in Node |-> 0]]

-----------------------------------------------------------------------------
(* send_pkt_out *)

Senders == {t \in Thread : sending[t].pc # "idle"}

\* The frame that a caller passes.
FrameAt(source) == IF source = 0 THEN recvBuffer.frame ELSE source

\* memset of send_buffer, by thread t for interface via of graph g.
Begin(t, g, via, source) ==
    /\ sendBuffer' = Zeros
    /\ sending' = [u \in Thread |->
          IF u = t
          THEN [pc |-> "name", graph |-> g, via |-> via, source |-> source,
                meant |-> [name |-> Name[Peer[via]], frame |-> FrameAt(source)],
                alone |-> Senders = {}]
          ELSE [sending[u] EXCEPT !.alone = u \notin Senders]]

GoOn(t, pc) == sending' = [sending EXCEPT ![t].pc = pc]

\* Mutant: the name of the local interface.
PutNameLocal(t) ==
    /\ sending[t].pc = "name"
    /\ sendBuffer' = [sendBuffer EXCEPT !.name = Name[sending[t].via]]
    /\ GoOn(t, "frame")
    /\ UNCHANGED <<topology, loaded, zeroed, creates, packets, sock, recvBuffer, rx, late>>

\* strcpy of the remote interface's name
PutName(t) ==
    /\ sending[t].pc = "name"
    /\ sendBuffer' = [sendBuffer EXCEPT !.name = Name[Peer[sending[t].via]]]
    /\ GoOn(t, "frame")
    /\ UNCHANGED <<topology, loaded, zeroed, creates, packets, sock, recvBuffer, rx, late>>

\* memcpy of the frame, taken as one step
PutFrame(t) ==
    /\ sending[t].pc = "frame"
    /\ sendBuffer' = [sendBuffer EXCEPT !.frame = FrameAt(sending[t].source)]
    /\ GoOn(t, "transmit")
    /\ UNCHANGED <<topology, loaded, zeroed, creates, packets, sock, recvBuffer, rx, late>>

\* sendto, to the port that was looked up when the call began
Transmit(t) ==
    LET c == sending[t]
        far == Owner[Peer[c.via]]
        d == [content |-> sendBuffer, via |-> c.via, meant |-> c.meant, alone |-> c.alone]
    IN  /\ c.pc = "transmit"
        /\ sock' = [sock EXCEPT ![c.graph][far] =
                       IF Len(@) < SockCap THEN Append(@, d) ELSE @]
        /\ sending' = [sending EXCEPT ![t] = NoSend]
        /\ UNCHANGED <<topology, loaded, zeroed, creates, packets, sendBuffer, recvBuffer, rx, late>>

SendStep(t) == PutName(t) \/ PutFrame(t) \/ Transmit(t)

-----------------------------------------------------------------------------
(* _network_start_pkt_receiver_thread for graph g *)

\* Mutant: the first argument of select is one too small.
SelectMissesLast(g) ==
    /\ rx[g].pc = "select"
    /\ \E n \in Node : sock[g][n] # <<>>
    /\ g \notin zeroed
    /\ rx' = [rx EXCEPT ![g] = [NoRx EXCEPT !.pc = "scan", !.todo = NodeSeq,
                                   !.ready = {n \in Node : sock[g][n] # <<>> /\ n # NodeSeq[1]}]]
    /\ UNCHANGED <<topology, loaded, zeroed, creates, packets, sock, sendBuffer, recvBuffer,
                   sending, late>>

\* Mutant: the thread iterates a list of its own.
SelectOnCopy(g) ==
    /\ rx[g].pc = "select"
    /\ \E n \in Node : sock[g][n] # <<>>
    /\ rx' = [rx EXCEPT ![g] = [NoRx EXCEPT !.pc = "scan", !.todo = NodeSeq,
                                   !.ready = {n \in Node : sock[g][n] # <<>>}]]
    /\ UNCHANGED <<topology, loaded, zeroed, creates, packets, sock, sendBuffer, recvBuffer,
                   sending, late>>

\* select returns; the list is empty once the graph has been zeroed, and the loop
\* then spins.
Select(g) ==
    /\ rx[g].pc = "select"
    /\ \E n \in Node : sock[g][n] # <<>>
    /\ g \notin zeroed
    /\ rx' = [rx EXCEPT ![g] = [NoRx EXCEPT !.pc = "scan", !.todo = NodeSeq,
                                   !.ready = {n \in Node : sock[g][n] # <<>>}]]
    /\ UNCHANGED <<topology, loaded, zeroed, creates, packets, sock, sendBuffer, recvBuffer,
                   sending, late>>

\* The loop goes on with the nodes that it has yet to visit.
NextNode(c) == [NoRx EXCEPT !.pc = "scan", !.ready = c.ready, !.todo = c.todo]

\* ITERATE_GLTHREAD: the links of the nodes outlive the zeroed base, so that a
\* scan in progress goes on.
Scan(g) ==
    /\ rx[g].pc = "scan" /\ rx[g].todo # <<>>
    /\ LET n == Head(rx[g].todo)
           rest == [rx[g] EXCEPT !.todo = Tail(@)]
       IN  rx' = [rx EXCEPT ![g] = IF n \in rx[g].ready
                                   THEN [rest EXCEPT !.node = n, !.pc = "clear"] ELSE rest]
    /\ UNCHANGED <<topology, loaded, zeroed, creates, packets, sock, sendBuffer, recvBuffer,
                   sending, late>>

\* Mutant: select is asked once for all.
ScanStartsOver(g) ==
    /\ rx[g].pc = "scan" /\ rx[g].todo = <<>>
    /\ rx' = [rx EXCEPT ![g].todo = NodeSeq]
    /\ UNCHANGED <<topology, loaded, zeroed, creates, packets, sock, sendBuffer, recvBuffer,
                   sending, late>>

ScanDone(g) ==
    /\ rx[g].pc = "scan" /\ rx[g].todo = <<>>
    /\ rx' = [rx EXCEPT ![g] = [NoRx EXCEPT !.pc = "select"]]
    /\ UNCHANGED <<topology, loaded, zeroed, creates, packets, sock, sendBuffer, recvBuffer,
                   sending, late>>

\* recv_buffer changes under the calls that send from it in place ...
Overwrite(g, c) ==
    /\ recvBuffer' = c
    /\ sending' = [t \in Thread |->
          [sending[t] EXCEPT !.alone = @ /\ (t \in Senders => sending[t].source # 0)]]

\* ... and under the other receivers that are handling a frame.
Disturb(g, mine) ==
    rx' = [h \in Graph |->
              IF h = g THEN mine
              ELSE [rx[h] EXCEPT !.shared = @ \/ rx[h].pc \in {"dispatch", "process"}]]

ClearRecvBuffer(g) ==
    /\ rx[g].pc = "clear"
    /\ Overwrite(g, Zeros)
    /\ Disturb(g, [rx[g] EXCEPT !.pc = "recvfrom"])
    /\ UNCHANGED <<topology, loaded, zeroed, creates, packets, sock, sendBuffer, late>>

RecvFrom(g) ==
    LET d == Head(sock[g][rx[g].node])
    IN  /\ rx[g].pc = "recvfrom"
        /\ Overwrite(g, d.content)
        /\ sock' = [sock EXCEPT ![g][rx[g].node] = Tail(@)]
        /\ Disturb(g, [rx[g] EXCEPT !.pc = "dispatch", !.got = d, !.shared = FALSE])
        /\ late' = IF g \in zeroed THEN [late EXCEPT ![g][rx[g].node] = @ + 1] ELSE late
        /\ UNCHANGED <<topology, loaded, zeroed, creates, packets, sendBuffer>>

\* get_node_if_by_name in _pkt_receive
Named(n, name) == {i \in Intf : Owner[i] = n /\ Name[i] = name}

\* A name that no interface of the node bears: the datagram is dropped.
Discard(g) ==
    /\ rx[g].pc = "dispatch" /\ Named(rx[g].node, recvBuffer.name) = {}
    /\ rx' = [rx EXCEPT ![g] = NextNode(@)]
    /\ UNCHANGED <<topology, loaded, zeroed, creates, packets, sock, sendBuffer, recvBuffer,
                   sending, late>>

\* pkt_receive: the stack decides where the frame goes on; in place of a reply
\* or an ARP request the node may also send a packet of its own (Originate).
Dispatch(g) ==
    /\ rx[g].pc = "dispatch"
    /\ \E iif \in Named(rx[g].node, recvBuffer.name) :
       \E outs \in SUBSET {i \in Intf : Owner[i] = rx[g].node /\ i # iif} :
           rx' = [rx EXCEPT ![g].pc = "process", ![g].outs = outs]
    /\ UNCHANGED <<topology, loaded, zeroed, creates, packets, sock, sendBuffer, recvBuffer,
                   sending, late>>

\* send_pkt_out of the frame where it lies
ForwardInPlace(g) ==
    /\ rx[g].pc = "process" /\ sending[g].pc = "idle"
    /\ \E via \in rx[g].outs :
          /\ Begin(g, g, via, 0)
          /\ rx' = [rx EXCEPT ![g].outs = @ \ {via}]
    /\ UNCHANGED <<topology, loaded, zeroed, creates, packets, sock, recvBuffer, late>>

\* A reply, an error or an ARP request, in memory of its own
Originate(g) ==
    /\ rx[g].pc = "process" /\ sending[g].pc = "idle" /\ rx[g].outs = {}
    /\ packets < MaxPackets
    /\ packets' = packets + 1
    /\ \E via \in Intf : Owner[via] = rx[g].node /\ Begin(g, g, via, packets + 1)
    /\ UNCHANGED <<topology, loaded, zeroed, creates, sock, recvBuffer, rx, late>>

ProcessDone(g) ==
    /\ rx[g].pc = "process" /\ sending[g].pc = "idle" /\ rx[g].outs = {}
    /\ rx' = [rx EXCEPT ![g] = NextNode(@)]
    /\ UNCHANGED <<topology, loaded, zeroed, creates, packets, sock, sendBuffer, recvBuffer,
                   sending, late>>

RxStep(g) ==
    \/ Select(g) \/ Scan(g) \/ ScanDone(g)
    \/ ClearRecvBuffer(g) \/ RecvFrom(g) \/ Discard(g) \/ Dispatch(g)
    \/ ForwardInPlace(g) \/ Originate(g) \/ ProcessDone(g)
    \/ SendStep(g)

-----------------------------------------------------------------------------
(* Commands *)

\* Mutant: no receiver thread is started.
LoadWithoutThread ==
    /\ sending[Cli].pc = "idle" /\ loaded < MaxGraphs
    /\ loaded' = loaded + 1
    /\ topology' = loaded + 1
    /\ UNCHANGED <<zeroed, creates, packets, sock, sendBuffer, recvBuffer, sending, rx, late>>

\* load_topology_handler: whatever was loaded before goes on as it was.
Load ==
    /\ sending[Cli].pc = "idle" /\ loaded < MaxGraphs
    /\ loaded' = loaded + 1
    /\ topology' = loaded + 1
    /\ rx' = [rx EXCEPT ![loaded + 1].pc = "select"]
    /\ UNCHANGED <<zeroed, creates, packets, sock, sendBuffer, recvBuffer, sending, late>>

\* create_topology_handler
Create ==
    /\ sending[Cli].pc = "idle" /\ creates < MaxCreates
    /\ creates' = creates + 1
    /\ zeroed' = zeroed \cup ({topology} \ {0})
    /\ topology' = 0
    /\ UNCHANGED <<loaded, packets, sock, sendBuffer, recvBuffer, sending, rx, late>>

\* ping or resolve-arp at some node of the topology
Send ==
    /\ sending[Cli].pc = "idle" /\ topology # 0 /\ packets < MaxPackets
    /\ packets' = packets + 1
    /\ \E via \in Intf : Begin(Cli, topology, via, packets + 1)
    /\ UNCHANGED <<topology, loaded, zeroed, creates, sock, recvBuffer, rx, late>>

Next ==
    \/ Load \/ Create \/ Send \/ SendStep(Cli)
    \/ \E g \in Graph : RxStep(g)

Spec == Init /\ [][Next]_vars
FairSpec == Spec /\ WF_vars(SendStep(Cli)) /\ \A g \in Graph : WF_vars(RxStep(g))

-----------------------------------------------------------------------------
(* Properties *)

Rx == [pc : {"none", "select", "scan", "clear", "recvfrom", "dispatch", "process"},
       ready : SUBSET Node, todo : Seq(Node), node : Node \cup {"none"},
       outs : SUBSET Intf, got : Datagram \cup {NoDatagram}, shared : BOOLEAN]

\* The variables have their types, a socket its bound.
TypeOK ==
    /\ topology \in 0..loaded /\ loaded \in 0..MaxGraphs
    /\ zeroed \subseteq 1..loaded
    /\ creates \in 0..MaxCreates /\ packets \in 0..MaxPackets
    /\ \A g \in Graph, n \in Node :
          /\ sock[g][n] \in Seq(Datagram) /\ Len(sock[g][n]) <= SockCap
    /\ sendBuffer \in Content /\ recvBuffer \in Content
    /\ \A t \in Thread :
          /\ sending[t].pc \in {"idle", "name", "frame", "transmit"}
          /\ sending[t].pc # "idle" =>
                /\ sending[t].graph \in 1..loaded /\ sending[t].via \in Intf
                /\ sending[t].source \in 0..packets
                /\ sending[t].meant \in Content
    /\ \A g \in Graph : rx[g] \in Rx /\ (rx[g].pc = "none" <=> g > loaded)
    /\ late \in [Graph -> [Node -> Nat]]

\* What send_pkt_out reports (communications.c:180): the packet it was given was
\* sent to the interface at the other end of the link.
SendsWhatItIsGiven ==
    \A g \in Graph, n \in Node : \A k \in 1..Len(sock[g][n]) :
        sock[g][n][k].content = sock[g][n][k].meant

\* What is left of it: a call of send_pkt_out that no other one overlaps has its frame
\* handled as one from the interface at the far end of the link, though other nodes
\* and topologies use the same names; and recv_buffer keeps a frame while a node
\* handles it, unless the receiver of another topology receives meanwhile.
ArrivesWhereSent ==
    \A g \in Graph :
        rx[g].pc \in {"dispatch", "process"} /\ ~rx[g].shared =>
            /\ recvBuffer = rx[g].got.content
            /\ rx[g].got.alone =>
                  /\ recvBuffer = rx[g].got.meant
                  /\ Named(rx[g].node, recvBuffer.name) = {Peer[rx[g].got.via]}

\* A datagram is received in the end, also in a topology that another one has
\* replaced, unless create zeroes its graph.
DatagramsAreServed ==
    \A g \in Graph, n \in Node :
        sock[g][n] # <<>> ~> g \in zeroed \/ (rx[g].pc = "recvfrom" /\ rx[g].node = n)

\* A receiver never blocks in recvfrom, where no other node of its topology would be
\* served: what select saw is still there when the scan comes to the node, although
\* other threads send meanwhile and a third may zero the graph (communications.c:112-119).
RecvNeverBlocks == \A g \in Graph : rx[g].pc = "recvfrom" => sock[g][rx[g].node] # <<>>

\* A receiver whose graph create has zeroed still finishes the scan it is in, since
\* the links of the nodes outlive their base, but it never begins another one: no
\* node is served twice, however much the nodes of that scan send to each other.
ZeroedServesOneScan == \A g \in Graph, n \in Node : late[g][n] <= 1
=============================================================================
