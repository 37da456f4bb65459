---------------------------- MODULE MCStackPair ----------------------------
(* Two routers on one link, each with a loopback, as R0 and R1 of the      *)
(* linear topology; addresses of 4 bits, 01xx is the subnet of the link.   *)
EXTENDS Stack, TLC

CONSTANTS R0, R1, a, b

MCNode == {R0, R1}
MCIntf == {a, b}
MCRank == (R0 :> 2) @@ (R1 :> 1)        \* nodes are added at the head of the list
MCIntfSeq == (R0 :> <<a>>) @@ (R1 :> <<b>>)
MCOwner == (a :> R0) @@ (b :> R1)
MCPeer == (a :> b) @@ (b :> a)

AddrA == <<0, 1, 0, 1>>
AddrB == <<0, 1, 1, 0>>
Absent == <<0, 1, 1, 1>>                \* on the subnet, owned by nobody
Lo0 == <<1, 0, 0, 1>>
Lo1 == <<1, 0, 1, 0>>
Elsewhere == <<1, 1, 0, 1>>             \* no route at first

MCIP == (a :> AddrA) @@ (b :> AddrB)
MCMask == (a :> 2) @@ (b :> 2)
MCLoopback == (R0 :> Lo0) @@ (R1 :> Lo1)

\* Commands between healthy neighbours
PeerPings == {<<R0, AddrB>>, <<R1, AddrA>>, <<R0, AddrA>>, <<R0, Absent>>}
PeerArps == {<<R0, AddrB>>, <<R1, AddrA>>, <<R0, Absent>>, <<R0, AddrA>>}

\* Both nodes reach Elsewhere through the other one, or R0 through a gateway that is
\* on no subnet of its own.
RouteVia(n, g, i) == [node |-> n, dst |-> Elsewhere, mask |-> 2, gw |-> g, oif |-> i]
FaultRoutes == {RouteVia(R0, AddrB, a), RouteVia(R1, AddrA, b), RouteVia(R0, Lo1, a)}
FaultPings == {<<R0, Elsewhere>>, <<R0, Lo0>>, <<R0, BroadcastAddr>>, <<R1, AddrA>>}
FaultShows == {{R0}, {R0, R1}}

CountedPings == {<<R0, AddrA>>}
LoopbackPings == {<<R0, Lo0>>}

\* The neighbours have resolved each other, as they have after two resolve-arp.
WarmInit ==
    /\ Init!1 /\ Init!2
    /\ arp = [n \in Node |-> [x \in Addr |->
                CASE x = BroadcastAddr -> BroadcastEntry
                  [] x = IP[Peer[IntfSeq[n][1]]] ->
                        [mac |-> Peer[IntfSeq[n][1]], oif |-> IntfSeq[n][1]]
                  [] OTHER -> NoEntry]]
    /\ Init!4 /\ Init!5 /\ Init!6 /\ Init!7 /\ Init!8 /\ Init!9 /\ Init!10 /\ Init!11

WarmSpec == WarmInit /\ [][Next]_vars /\ WF_vars(RxStep) /\ WF_vars(CliStep)
=============================================================================
