---- MODULE MCGlThread ----
(* Three addresses, two of which are the same string to strcmp: a MAC address *)
(* may begin with a zero byte, as those of eth0 at H116 and at H350 do.       *)
EXTENDS GlThread

Addresses == {"H1", "H116", "H350", "all"}
FirstBytes == [k \in Addresses |-> 
    CASE k = "H1" -> "89" [] k = "all" -> "ff" [] OTHER -> ""]
====
