---- MODULE MCComm ----
(* Three nodes of build_linear_topology. Two of them have an interface of the *)
(* same name.                                                                 *)
EXTENDS Comm

Routers == {"R0", "R1", "R2"}
NewestFirst == <<"R2", "R1", "R0">>
Links == {<<"R0 eth0/1", "R1 eth0/0">>, <<"R1 eth0/2", "R2 eth0/1">>}
Ends == UNION {{l[1], l[2]} : l \in Links}
EndOwner == [i \in Ends |->
    CASE i = "R0 eth0/1" -> "R0" [] i = "R2 eth0/1" -> "R2" [] OTHER -> "R1"]
EndName == [i \in Ends |->
    CASE i = "R1 eth0/0" -> "eth0/0" [] i = "R1 eth0/2" -> "eth0/2" [] OTHER -> "eth0/1"]
OtherEnd == [i \in Ends |-> CHOOSE j \in Ends : <<i, j>> \in Links \/ <<j, i>> \in Links]
====
