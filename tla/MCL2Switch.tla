---------------------------- MODULE MCL2Switch ----------------------------
(* One switch, SW01, with three hosts on access ports, as in               *)
(* build_simple_l2_switch_topology with one host less, after the user has  *)
(* put H1 and H2 in VLAN 10 and H3 in VLAN 11.                             *)
EXTENDS L2Switch

P(k) == <<"eth0/1", "eth0/2", "eth0/3">>[k]
H(k) == <<"H1", "H2", "H3">>[k]

OneSwitch == {"SW01"}
OneHost == {"H1", "H2", "H3"}
OneRank == [n \in {"SW01", "H1", "H2", "H3"} |->
              CASE n = "SW01" -> 4 [] n = "H1" -> 3 [] n = "H2" -> 2 [] OTHER -> 1]
OnePort == {P(k) : k \in 1..3}
OnePortSeq == [s \in OneSwitch |-> <<P(1), P(2), P(3)>>]
OneOwner == [i \in OnePort \cup OneHost |-> IF i \in OnePort THEN "SW01" ELSE i]
OnePeer == [i \in OnePort \cup OneHost |->
              IF i \in OnePort THEN H(CHOOSE k \in 1..3 : P(k) = i)
              ELSE P(CHOOSE k \in 1..3 : H(k) = i)]
OneBehind == [p \in OnePort |-> {OnePeer[p]}]
OneMode == [p \in OnePort |-> "access"]
OneVlans == [p \in OnePort |-> [s \in 1..2 |->
               IF s = 2 THEN 0 ELSE IF p = P(3) THEN 11 ELSE 10]]

OneVlan == {10, 11}
\* H3 in VLAN 10 as well
TenVlans == [p \in OnePort |-> [s \in 1..2 |-> IF s = 2 THEN 0 ELSE 10]]
NoCommands == {}
AskOne == {<<H(1), H(2)>>, <<H(1), H(3)>>, <<H(3), H(1)>>}
PingOne == {<<H(1), H(2)>>}
MoveOne == {<<P(2), 11>>, <<P(3), 10>>, <<P(3), 0>>}
RemoveOne == {<<P(1), 10>>}
ModeOne == {<<P(3), "trunk">>, <<P(3), "access">>}
=============================================================================
