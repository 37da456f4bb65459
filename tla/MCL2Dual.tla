---------------------------- MODULE MCL2Dual ----------------------------
(* Two switches joined by a trunk for VLANs 10 and 11, two hosts each, all *)
(* in VLAN 10: build_dual_switch_topology without H3 and H6.               *)
EXTENDS L2Switch

TwoSwitch == {"SW01", "SW02"}
TwoHost == {"H1", "H2", "H4", "H5"}
TwoPortSeq == [s \in TwoSwitch |->
    IF s = "SW01" THEN <<"SW01 ge0/1", "SW01 eth0/1", "SW01 eth0/2">>
                  ELSE <<"SW02 ge0/1", "SW02 eth0/4", "SW02 eth0/5">>]
TwoPort == UNION {{TwoPortSeq[s][k] : k \in 1..3} : s \in TwoSwitch}
Trunks == {TwoPortSeq[s][1] : s \in TwoSwitch}

\* The list holds the nodes in the reverse of the order of their creation.
Created == <<"SW01", "SW02", "H1", "H2", "H4", "H5">>
TwoRank == [n \in TwoSwitch \cup TwoHost |-> 7 - (CHOOSE k \in 1..6 : Created[k] = n)]

Cable == {<<"SW01 ge0/1", "SW02 ge0/1">>, <<"SW01 eth0/1", "H1">>, <<"SW01 eth0/2", "H2">>,
          <<"SW02 eth0/4", "H4">>, <<"SW02 eth0/5", "H5">>}
TwoPeer == [i \in TwoPort \cup TwoHost |->
    CHOOSE j \in TwoPort \cup TwoHost : <<i, j>> \in Cable \/ <<j, i>> \in Cable]
TwoOwner == [i \in TwoPort \cup TwoHost |->
    IF i \in TwoHost THEN i
    ELSE CHOOSE s \in TwoSwitch : \E k \in 1..3 : TwoPortSeq[s][k] = i]
TwoBehind == [p \in TwoPort |->
    CASE p = "SW01 ge0/1" -> {"H4", "H5"} [] p = "SW02 ge0/1" -> {"H1", "H2"}
      [] OTHER -> {TwoPeer[p]}]

TwoMode == [p \in TwoPort |-> IF p \in Trunks THEN "trunk" ELSE "access"]
TwoVlans == [p \in TwoPort |-> [s \in 1..2 |->
               IF s = 1 THEN 10 ELSE IF p \in Trunks THEN 11 ELSE 0]]
TwoVlan == {10, 11}

AskTwo == {<<"H1", "H4">>, <<"H5", "H1">>, <<"H2", Nobody>>}
PingTwo == {<<"H1", "H4">>}
MoveTwo == {<<"SW01 eth0/2", 11>>, <<"SW02 eth0/5", 11>>}
RemoveTwo == {<<"SW02 ge0/1", 10>>}
ModeTwo == {<<"SW01 ge0/1", "access">>}
=============================================================================
