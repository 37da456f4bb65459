---------------------------- MODULE MCStackLine ----------------------------
(* Three routers in a row, as R0, R1 and R2 of the linear topology, whose  *)
(* ends have been given a route to the far subnet and have resolved the    *)
(* router: 01xx is the subnet of R0 and R1, 10xx that of R1 and R2.        *)
EXTENDS Stack, TLC

CONSTANTS R0, R1, R2, if0, if1, if2, if3

MCNode == {R0, R1, R2}
MCIntf == {if0, if1, if2, if3}
MCRank == (R0 :> 3) @@ (R1 :> 2) @@ (R2 :> 1)
MCIntfSeq == (R0 :> <<if0>>) @@ (R1 :> <<if1, if2>>) @@ (R2 :> <<if3>>)
MCOwner == (if0 :> R0) @@ (if1 :> R1) @@ (if2 :> R1) @@ (if3 :> R2)
MCPeer == (if0 :> if1) @@ (if1 :> if0) @@ (if2 :> if3) @@ (if3 :> if2)

AddrA == <<0, 1, 0, 1>>
AddrB == <<0, 1, 1, 0>>
AddrC == <<1, 0, 0, 1>>
AddrD == <<1, 0, 1, 0>>
Absent == <<1, 0, 1, 1>>                \* on the far subnet, owned by nobody
Nowhere == <<1, 1, 0, 1>>               \* R1 has no route to it

MCIP == (if0 :> AddrA) @@ (if1 :> AddrB) @@ (if2 :> AddrC) @@ (if3 :> AddrD)
MCMask == [i \in MCIntf |-> 2]
MCLoopback ==
    (R0 :> <<0, 0, 0, 1>>) @@ (R1 :> <<0, 0, 1, 0>>) @@ (R2 :> <<0, 0, 1, 1>>)

\* R0 sends everything of the form 1xxx to R1, R2 everything of the form 01xx, and
\* R1 has a route for R2's address alone, so that it forwards what is sent there and
\* delivers what is sent to the rest of the subnet.
FarRoute(n) ==
    CASE n = R0 -> <<StaticRoute(<<1, 0, 0, 0>>, 1, AddrB, if0)>>
      [] n = R2 -> <<StaticRoute(<<0, 1, 0, 0>>, 2, AddrC, if3)>>
      [] OTHER -> <<StaticRoute(AddrD, AddrBits, AddrD, if2)>>

\* The ends have resolved the router, as they have after resolve-arp on each.
Resolved(n) ==
    CASE n = R0 -> AddrB :> [mac |-> if1, oif |-> if0]
      [] n = R2 -> AddrC :> [mac |-> if2, oif |-> if3]
      [] OTHER -> BroadcastAddr :> BroadcastEntry

ColdTable == [x \in Addr |-> IF x = BroadcastAddr THEN BroadcastEntry ELSE NoEntry]

MCInit ==
    /\ Init!1 /\ Init!2
    /\ arp = [n \in Node |-> Resolved(n) @@ ColdTable]
    /\ routes = [n \in Node |-> FarRoute(n) \o InitRoutes(n)]
    /\ Init!5 /\ Init!6 /\ Init!7 /\ Init!8 /\ Init!9 /\ Init!10 /\ Init!11

MCSpec == MCInit /\ [][Next]_vars
MCFairSpec == MCSpec /\ WF_vars(RxStep) /\ WF_vars(CliStep)

AcrossPings == {<<R0, AddrD>>}
LinePings == {<<R0, AddrD>>, <<R0, Absent>>, <<R2, AddrA>>, <<R0, Nowhere>>}
LineArps == {<<R1, AddrA>>, <<R1, AddrD>>}
=============================================================================
