# Verification of the tcpip_stack simulator

This directory models the stack in TLA+, checks the models with TLC on small
topologies, and proves part of what they show for every topology with TLAPS. File
names below are relative to the repository.

## 1. Inventory

The program simulates a network inside one process. A topology is a list of nodes
joined by links; a node is a router or host (interfaces with an IP address, "L3
mode") or a switch (interfaces in access or trunk mode). Each node owns a UDP
socket; sending on a link is `sendto` to the neighbour's socket with the name of
the receiving interface in front of the frame. Two threads run stack code and no
lock protects anything:

* **cli** executes one command handler at a time, to its end, including every
  packet that the command originates and the sleeps on the way;
* **rx** loops over `select`, visits the readable nodes in list order, takes one
  datagram of each and runs it through the stack, to its end.

| Component | State | Operations | Hard behaviour | What makes it correct |
|---|---|---|---|---|
| Layer 3 (`src/layer3/layer3.c`) | route table per node, newest first | `l3rib_lookup_lpm`, `rt_table_add_*`, `layer3_pkt_receive_from_top`, `layer3_ip_pkt_recv_from_layer2`, `process_icmp_pkt` | recursion through the loopback, NULL interface for an off-link gateway, routing loops, errors about errors | a reply reaches the asker, at most one descendant per echo, silence in the end, death only by configuration |
| ARP and IP forwarding (`src/layer2/layer2.c`) | ARP table per node | request, reply, table update, `l2_forward_ip_packet` with one request, one sleep, one retry | the table changes between a thread's lookup and its use; rx sleeps for a reply that only rx can receive | an entry names the owner of the address and never changes; a request is answered |
| Switch (`src/layer2/l2switch.c`, `layer2.c`, `layer2.h`) | MAC table, per-port mode and VLAN slots, one shared frame buffer | admission, tagging, learning, unicast, flood | ports reconfigured between two ports of a flood; admission that reads the mode of a port up to three times; in-place untagging; two uninitialised variables | VLANs stay apart, a frame is heard once, tables point towards the host, members hear a flood |
| Interface configuration (`src/net.c`) | address, mask, mode, slots, loopback | mode, VLAN, subnet match, dumps | slots run out; a dump that writes | slots stay in bounds |
| Communications (`src/communications.c`) | one socket per node, static send and receive buffers | `send_pkt_out`, receiver loop | full sockets, stale `select` answer, buffers shared by all threads | a datagram that nothing disturbed is handled where it was sent; loss yes, duplication no; what waits is received |
| Ping (`src/layer5/ping.c`) | loop counter | `send_ping_request` | uninitialised counter | returns, sends what it says |
| Command handlers (`src/nwcli.c`) | the global `topology` | the commands | handlers change tables while rx reads them | a display changes nothing |
| Graph, saved topologies (`src/graph.c`, `src/topologies.c`) | nodes, links, slots | create, link, load | a second load starts a second receiver thread; create zeroes a graph under its receiver | every topology with nodes is served, a zeroed one finishes one scan |
| Glthread (`src/gluethread/glthread.c`) | doubly linked lists under every table | add, remove, iterate | an element is published before it is linked on; removal under iteration | iterations end, meet entries newest first and none that was not there, and miss none unless a write overlaps |
| Utilities (`src/utils.c`) | none | `apply_mask`, `sleep_for` | shift by 32 | |
| Packet dump, main, libcli | none | output, shell | none | |

`PROJECT.json` lists, for every component, the modules that model it and what is
left out, and under "hazards" each hard place at its line with the property that
covers it or the reason why none does yet.

## 2. Modules

| Module | Models |
|---|---|
| `IPv4` | addresses as strings of bits, `apply_mask`, routes, longest match |
| `Stack` | routers and hosts: layers 2, 3 and 5, both threads, the commands ping, resolve-arp, route, show |
| `EchoNet` | abstract: what a network of stacks promises about echo messages; `Stack` implements it |
| `L2Switch` | switches and hosts: the path of a frame through a switch, and the commands mode, add and remove VLAN, resolve-arp, ping |
| `GlThread` | the list under a route, ARP or MAC table, store by store, one writing and one reading thread |
| `EntryTable` | abstract: what a table promises to a thread that reads it while the other writes; `GlThread` implements it |
| `Comm` | `send_pkt_out` and the receiver loop under the command thread and several receiver threads; load and create topology |
| `MCStackPair`, `MCStackLine` | instances of `Stack` for TLC: two neighbours; a router between two subnets |
| `MCL2Switch`, `MCL2Dual` | instances of `L2Switch`: one switch with three hosts; two switches joined by a trunk |
| `MCGlThread` | instance of `GlThread`: two MAC addresses that begin with a zero byte, one other, the broadcast address |
| `MCComm` | instance of `Comm`: three routers in a line, two interfaces of one name |
| `StackProofs`, `StackCrashProofs`, `StackEchoProofs`, `StackReplyProofs` | theorems about `IPv4` and `Stack` |
| `L2SwitchProofs`, `L2VlanProofs` | theorems about `L2Switch`: types, tables and copies; who hears whom |
| `GlThreadProofs`, `CommProofs` | theorems about `GlThread` and `Comm` |

The modules cut the program where its parts meet. `Stack` and `L2Switch` take a
table to be what a lookup finds and a send to be one step; `GlThread` and `Comm` open
these two steps and take the layers above to be a choice.

**Stack.** A thread's call stack is one pending call, `task[t]`, because every
function of the two layers calls the next one as the last thing it does; the value is
named after the function that runs next (`FromTop`, `L2Fwd`, `L3Recv`) and
`ArpWait` is `l2_forward_ip_packet` inside `sleep_for`. An action is one function on
one of its branches, e.g. `GatewayFromTop` is `layer3_pkt_receive_from_top` with
a route through a gateway, and a NULL interface there is `Crash`. `ready` is the
answer of the last `select`. `arp` maps an address to what `arp_table_lookup`
would return. An interface stands for its own MAC address. Each echo message carries a number of
its own (`id`), which is history and read by no guard; `echoes` and `console` are
history too. Instead of a value, uninitialised data is a choice: the counter of
a ping starts anywhere, and `src_addr` may be any address when `inet_pton` refuses a
ruined loopback.

**EchoNet.** An echo message is a request, an answer, an error, lost, answered or
reported. `Stack!FateOf` maps the sockets, the calls and the console to it: the fate
of a message is that of its one descendant.

**L2Switch.** A frame is taken from the socket together with the first look at the
mode of its port (`AdmitFrame`); the VLAN test, the learning and the tagging are the
next step (`AccessRecv`, `TrunkRecv`, `StrayRecv`, `SwitchRefuse`), which looks at the
mode as it then is, since the code reads it again (`layer2.h:260-304`). A flood is one
step per port, so that a configuration command may fall between two ports. `buf` is the frame as
the caller's pointer sees it: after an access port has been served from a tagged buffer
it is `Garbled`. The two uninitialised variables hold, in the build the repository
defines (`-O0`), what the last call left: `slot` is `vlan_to_tag`, that is the VLAN of
the last access port that accepted a frame, and `prev` is `vlan_id` in the loop of a
flood, 0 for the first port. Leaving trunk mode is two steps, `ClearSlots` and
`LeaveTrunk`; `pending` is the port between them. A host is one interface; its request, reply and echo are
the frames that `Stack` describes in full, and a ping of an unresolved address starts as
`ResolveArp`. What a host receives, the VLANs that a port has ever had and the frames
that a change of mode let in are history.

**GlThread.** Every entry is allocated afresh and none is freed, so entries are
numbered in the order of their making; `table` says which of the three tables the list
is. `w` is the writing thread: its program counter names the store of
`glthread_add_next` or `remove_glthread` that comes next, or the search before it. `r`
is an iteration by the other thread; `glthreadptr` of the macro is loaded by `Visit`,
which reads the entry and its `right`. The search of the MAC table compares keys with
`memcmp` and deletes with `strcmp` (`Text`), as `l2switch.c:44-68` does. `members`,
`latest` and the sets in `r` are history.

**Comm.** `sending[t]` is a call of `send_pkt_out` by thread t: clear the buffer,
write the name, copy the frame, `sendto`. `rx[g]` is the receiver of topology g: select,
scan of the node list, clear `recv_buffer`, `recvfrom`, find the interface by
the name in the buffer, hand the frame up. The layers above are a choice: the node
consumes the frame, forwards it where it lies in `recv_buffer`, or originates packets
of its own. `Load` starts one more receiver and `Create` zeroes the graph under the
current one: its list is empty when the next scan begins, but the scan under way goes on,
because the links of the nodes are not cleared.

**Abstractions.** MAC addresses are distinct (the program hashes names). Debugging is
off. Checksums, lengths and sequence numbers are left out since no branch reads them. In
`Comm` the copy of a frame is one step, so a mixture of two frames does not occur, only
one frame in place of another or zeroes. In `GlThread` the stores of one call keep their
order, as the build without optimisation on x86 keeps it. In `L2Switch` the send on one
port is one step, and the slots of a port are zeroed in one step. A forwarded frame is
sent where it lies only by a receiver that has not slept, since the entry it would wait for
never comes (`ReceiverWaitIsFutile`), so `Comm` needs no sleep.

## 3. Runs

Bounds are constants: `SockCap` datagrams per socket (a full socket loses the
datagram), `MaxCommands` per behaviour, `PingCount` packets per ping,
`InitTTL` (64 in the program), `AddrBits` (32 in the program), `Slots`
(10 in the program), `MaxAdds` entries ever made, `MaxGraphs` loads,
`MaxCreates` creates, `MaxPackets` packets originated.

| Run | Instance and bounds | Shows |
|---|---|---|
| `stack_pair` | two routers, cold tables, 3 commands among pings (of the peer, of itself, of an absent host) and resolve-arp from both sides; 4-bit addresses | `TypeOK`, `ArpSound`, `ArpStable`, `ReceiverWaitIsFutile`, `EchoHasOneDescendant`, `RepliesReachTheAsker`, `PingReturns`, `RequestsAreAnswered`, `WarmPingsAreAnswered` |
| `stack_line` | a router between two subnets, static routes at the ends and a host route at the router (so that it both forwards and delivers), 3 commands, TTL 2, the least that crosses it | the questions about echo messages across a hop, where tables on the way are cold, a destination is absent, or no route exists; `ImplementsEchoNet`, and `EchoesSettle`: every message meets its fate |
| `stack_faults` | two warm routers, TTL 4, 4 commands among looping routes, an off-link gateway, show commands and pings | `CrashNeedsMisconfiguration`, `Quiesces` |
| `l2_switch` | one switch, VLANs 10, 10 and 11, 2 slots, 4 commands of every kind | `TypeOK` (slots), `StrangersAreNotHeard`, `FirstMemberAnswers`; `RoomLeft`: no datagram is lost meanwhile (sockets of 13, more than three to a command) |
| `l2_dual` | two switches, two hosts each, trunk for VLANs 10 and 11, 4 commands | `MacSound`, `AtMostOnce`, `Quiesces` |
| `glthread` | each of the three tables, 4 entries, 2 values, 3 addresses and the broadcast address | `TypeOK`, `LinksAgree`, `LookupIsCurrent`, `OwnAddNeverHides`, `OneEntryPerMac`, `ImplementsTable`, `ReadsEnd`, `AddsEnd` |
| `comm` | two topologies of three routers loaded one after the other, one create, 2 packets, sockets of 2 | `TypeOK`, `ArrivesWhereSent`, `RecvNeverBlocks`, `ZeroedServesOneScan`, `DatagramsAreServed` |
| `ping_count`, `show_nodes`, `l2_flood`, `l2_trunk`, `send_race` | the smallest configuration with the behaviour | violated: section 5 |

Two neighbours with two commands on the way already contain the race of a request,
a reply and a lookup; the third node adds what only a forwarder does. With three
commands a table can be asked for, used and asked for again; a fourth is needed
for two routes that form a loop and a ping that enters it, and for a port that
is moved, used, moved back and used. TTL 4 lets a packet go round the loop twice. Two
slots suffice for a full table. The cap of a socket is larger than what
the commands put into one, so that loss comes from the protocol; except in
`stack_faults`, where it is 3, and in `comm`, where it is 2. `WarmPingsAreAnswered` is stated for tables that hold
both ends of every link, which the runs reach by commands (`stack_pair`) or finish
from the ends (`stack_line`).

Four entries let a removal take the first, a middle or the last of three, and two
that strcmp confuses, while an iteration stands on any of them; the theorems of section 4 then cover any
number. Two topologies and one create are the least with a receiver whose graph
is replaced and one whose graph is zeroed; two packets are the least that overlap
in a buffer, and each may be forwarded to two more nodes.

Deadlock is checked in `glthread`, where a reader may always come. Elsewhere the
check is off: nobody has to type a command, and `select` then blocks for ever.

**Fairness.** In `Stack`, `WF_vars(RxStep)` and `WF_vars(CliStep)`: both threads are
scheduled by the operating system, `sleep_for` ends, and nothing in either loop waits
for the other thread. There is none on `Command`. `l2_dual` needs only the
first. `ArpResolved` and `ArpTimeout` are not separated by fairness: the sleep may
end before or after the reply. In `GlThread`, weak fairness of the writer's and of the
reader's steps once begun, none on beginning. In `Comm`, weak fairness of each receiver
thread and of the command thread inside `send_pkt_out`; a receiver is never
blocked by another one, it spins or waits in its own `select`.

## 4. Proofs

**Stack.** Assumptions are those of `IPv4` and `Stack`: finitely many nodes with distinct
places in the list, interfaces that belong to their node, links that join two different
interfaces, addresses other than 255.255.255.255. They name no number of nodes or
links, no address width and no set of commands.

* `TypeCorrect`: `Spec => []TypeOK`, one lemma per group of actions; the lemmas
  about routes give the type of a lookup.
* `ArpIsSound`: `ArpSound` alone is not inductive, because a node believes any
  reply. `ArpInv` adds `SocketsSound`: a datagram came from the other end of the link it
  arrived on, and a reply in flight speaks for its sender. Only `RecvArpRequest`
  creates replies, and its guard makes it so.
* `ArpIsStable`: an action property from `ArpInv` where no two interfaces share an
  address: a reply for a known address can only repeat the entry.
* `ReceiverWaitsInVain`: rx is the only writer of the tables, so no other step
  can end its wait with an answer.
* `CrashHasACause`: `CrashInv` adds that every direct route is that of an interface or
  of the loopback and every static one names an interface (`RoutesSound`), that a
  loopback is only ever lost (`LoSound`), and that a call without an interface is
  about a hop with a matching subnet or the loopback itself (`CallsSound`). From these
  a direct route always leads somewhere unless a loopback has been lost.
* `OneDescendantAlways` (`EchoHasOneDescendant`) and `StacksImplementEchoNet`
  (`ImplementsEchoNet`): `EchoInv` says of the ICMP messages in sockets, in hand and on
  the console that no two of different places descend from one echo message
  (`OneDatagram`, `Disjoint`, `OneLine`), that each number was given out (`Numbered`),
  and that what is still an echo message is on its way to the address it was sent to
  (`PacketAims`, `CallAims`): without the last part an answer could not be traced to an
  owner of the address. Each kind of step, a call that goes on, a line printed, a datagram
  taken, a frame of ARP, a new message, has a lemma; `Effect` states what a step does to
  the set of live messages, and `StepMaps` that each such effect is a step of `EchoNet`
  or none.
* `RepliesReach` (`RepliesReachTheAsker`), under `AddressesTell`: no two nodes share an
  address, every loopback can be read and none is spoilt by a show command (`stack_pair`
  is such an instance). `ReplyInv` adds to `EchoInv` that an echo message bears an address
  of the node that asked as its source, whichever interface the lookup chose, that an
  answer is bound for such an address, and that the address asked for has an owner
  (`PacketReturns`, `CallReturns`). `Numbered` makes a new ping leave all of it alone.
* `BestRouteExists`, `BestRouteUnique`, `LongestMatchSpec`: the lookup is well defined
  and returns the newest of the longest matching routes.

**L2Switch.** For every tree of switches and hosts (`L2Assumption`, `TreeAssumption`),
every assignment of VLANs and every set of commands:

* `SwitchTypes` (`TypeOK`): the bound of `config` needs that a port which is being taken
  out of trunk mode owes one more configuration step.
* `MacTablesSound` (`MacSound`): a switch learns the source of any frame on the port
  it came in on, so the invariant is about frames. A frame of host g came along the
  tree, and the switch it came from has learned g (`Came`); a frame for host g only
  moves where g has been learned and has not passed g (`Knows`): it was sent by a host
  that resolved g from a reply, which came from g along the tree. A flooded
  frame is for no host, since a frame for a host whose entry is missing does not exist;
  hence what a flood mangles has no host as its source or destination and teaches nothing
  about one. `MacChain` carries it from switch to switch.
* `FramesHeardOnce` (`AtMostOnce`): `Once` adds the part of the tree that each copy of a
  transmission can still reach (`Dest` of a datagram, `FloodBound` of a flood between two
  ports). A step splits the part of a copy among disjoint copies, so two copies in sockets
  have no host before them in common (`QueueApart`), nor one in a socket and the one in
  hand (`TaskApart`), and a host has none before it that it has heard already
  (`HeardApart`). Two things must be excluded: that a table sends a frame back where it
  came from, by `MacTablesSound`'s invariant, and that the address a mangled frame is for
  is ever learned (`NobodyGarbled`). An interface occupies one slot of its node, which
  `L2Assumption` says since `insert_link_between_two_nodes` allocates each interface.
* `StrangersStaySeparate` (`StrangersAreNotHeard`), for a `SingleSwitch`: across a trunk the
  code does retag (section 5). `Separate` says that what waits for a port is untagged and
  from the host there, and that the VLAN of the frame in hand, be it a tag or the
  uninitialised `vlan_id`, has been one of the port it came in on (`TaskFair`), until the
  end of its flood; what leaves therefore leaves where that VLAN has been too.
  `PortsClean` is why a frame that is admitted in VLAN 0, since its port left access mode
  after the first look, does no harm: a port enters and leaves trunk mode with slots 2 and
  on unused, so 0 is among the VLANs it has had. This takes a second slot, and
  unused slots at the start (`SlotsUnused`; a link is allocated zeroed, `graph.c:41`).
* `FirstMemberIsAnswered` (`FirstMemberAnswers`), in every tree: `Answered` follows a
  request that no configuration step has overtaken through its stages (`Underway`): in the
  socket of the switch, admitted, in a flood that has not come to the port of the host
  asked for, with that host; then the answer back by the learned port, and the entry. That
  the frame still says what it said (`Says`) when the flood comes to that port is where
  being first matters: the ports before leave the buffer as it is. `[]RoomLeft`, no socket
  is ever full, is a hypothesis because a full socket drops the request; the next theorem
  discharges it.
* `NoSocketOverflows` (`RoomLeft`), in every tree, if a socket holds more than three
  datagrams for every command (`3 * MaxCommands < SockCap`: this counts the commands of
  a whole behaviour, as if nothing were ever taken from a socket). `Budget` says that a
  frame is what its transmission said, but for the mangled address, and comes from where
  the host is that transmitted it (`Genuine`). It keeps a `Ledger` that books every
  transmission on a command as its first, second or third: each answers the one before it,
  which asked a single host. That host heeds it once (`HeardApart` of `Once`), so a place in
  the ledger is taken once (`Free`, `LedgerGrows`), and there are three to a command
  (`LedgerBound`, by the pigeonhole principle). A socket holds no transmission twice
  (`OneCopy`): two copies in the socket of a switch came from the same direction, thus on the
  same port, and would share the hosts before them, which `Once` excludes. That takes a
  host before them: `Populated` says that from each port of a switch another leads to one.
  Without it switches that have no host could form a ring, which `TreeAssumption`
  cannot tell from a tree. `FirstMemberAlwaysAnswers` puts the two theorems together. The
  run `l2_dual` keeps sockets of 4, so that its properties are also checked with full sockets.

**GlThread.** For every number of entries, keys, values and every reading of keys by strcmp:

* `TypeCorrect`, `LinksCorrect` (`LinksAgree`), `OneEntry` (`OneEntryPerMac`): `right` leads
  from the base through exactly the members, in descending order, at every store
  (`RightAgrees`); `left` agrees but for the links that the writer is about to set; the
  writer's own pointers name members or neighbours of what it removes, and all that it has
  passed have other keys (`WriterPointers`, `Searched`).
* `LookupsAreCurrent` (`LookupIsCurrent`): what lies between the reader and the end of
  the list (`Reading`, `NewestAhead`, `Values`): the first entry of a key that is ahead
  of the reader holds a value that was published as the newest during the iteration.
* `ListImplementsTable` (`ImplementsTable`): each store is a step of `EntryTable` or
  none. The reader visits in descending order because `right` leads to smaller numbers even
  from a removed entry, which keeps its link or is cut off from the rest.
* `RenewalsHideNothing` (`OwnAddNeverHides`): every key that was known at the start and that
  no addition of another key has touched is found already or still ahead of the reader;
  the entry that hides the older ones for a moment is of that very key (`KnownAhead`).

**Comm.** For every topology whose interfaces have distinct names at a node, every
number of loads, creates and packets and every capacity of a socket, from one invariant:

* `CommTyped` (`TypeOK`): a call in progress is about a loaded topology (`CallSound`).
* `AloneArrivesWhereSent` (`ArrivesWhereSent`): a call that is alone finds every other
  thread outside `send_pkt_out`, so `send_buffer` holds what it has written so far
  (`CallClean`); it loses that standing when another call begins, or when the frame it
  sends in place is overwritten. What it sends is then what it was given, on the socket of the
  owner of the far end (`DatagramClean`), and stays so in `recv_buffer` until another
  receiver writes there (`FrameClean`).
* `NeverBlocksInRecvfrom` (`RecvNeverBlocks`): a scan visits no node twice, so what
  `select` saw at a node that is still to be visited has not been taken (`ScanSound`).
* `AtMostOneScanAfterCreate` (`ZeroedServesOneScan`): a node that the scan has yet to serve
  has not been served since the graph was zeroed (`LateSound`).

Model-checked only: every liveness property (TLAPS has neither fairness nor
`ENABLED`), `WarmPingsAreAnswered` among them.

## 5. Where the code departs from what it says

1. `ping.c:11` does not initialise its loop counter: fewer packets than
   announced may be sent (`ping_count`).
2. `net.c:79`: showing a node appends `/32` to its loopback address, which stops
   being local (`show_nodes`).
3. `layer2.c:486-520`: untagging works in place, so a flood serves the first access
   port well and mangles the frame for those that follow (`l2_flood`). Whoever
   asks, only the first other access port of the VLAN on each switch hears it.
4. `layer2.c:417`: a trunk port does not set `vlan_to_tag`, so a tagged frame is
   retagged with the VLAN of whichever access port received last (`l2_trunk`).
5. `communications.c:171`: `send_pkt_out` builds every datagram in one static buffer
   without a lock. A call that another one overlaps may send zeroes, or the other's
   packet to its own neighbour, and reports its own as sent (`send_race`).

`StrangersAreNotHeard` has an exception that modelling brought to light: a port that
leaves trunk mode between two looks at its mode (`layer2.h:260-304`) lets a broadcast in as if
it were a layer 3 interface, and the frame is then forwarded in the VLAN that the last
access port left behind (`strays`). `ArrivesWhereSent` leaves out the calls and frames
that another thread disturbs, which is what `send_race` shows.

Two properties state a limit of the code rather than a merit:
`ReceiverWaitIsFutile` (a forwarder or responder always loses its first packet
to an unresolved hop, after 50 ms in which no node is served) and
`FirstMemberAnswers` (what is left of a flood after point 3).

## 6. Not modelled

Output (`pkt_dump.c`, tables printed by show commands), the shell (libcli is a
submodule whose files are not in the repository), argument parsing, the opening of
sockets (assumed to succeed), the hash that gives interfaces their MAC addresses, debugging
(with it on, a datagram for an unknown interface is reported through a null pointer),
and functions without a caller: `send_pkt_flood`, `arp_table_delete_entry`,
`create_arp_sane_entry` and the pending list, `node_unset_intf_ip_address`,
`delete_graph`, and of the lists `glthread_priority_insert`, `glthread_add_before`,
`glthread_add_last`, `delete_glthread_list` and the count.

## 7. Plan

Done: `IPv4`, `Stack` with `EchoNet`, `L2Switch`, `GlThread` with `EntryTable`, `Comm`,
their instances, and the proofs of section 4.

Left: for the liveness properties, which stay with TLC, larger instances.
