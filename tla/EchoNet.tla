------------------------------ MODULE EchoNet ------------------------------
(***************************************************************************)
(* What a network of stacks promises about echo messages, whatever its     *)
(* topology, routes and commands. Each message meets one fate: it is lost, *)
(* or a line about it is printed once. It is answered only if somebody     *)
(* has the address, a reply or an error is never answered, and what is     *)
(* lost or printed does not come back.                                     *)
(***************************************************************************)
EXTENDS Naturals, Sequences

CONSTANTS Node, Addr, Owned     \* Owned: the addresses that some node has

VARIABLES
    echoes,     \* the messages sent so far: who sent each, and where to
    fate        \* what has become of each

vars == <<echoes, fate>>

Travelling == {"request", "answer", "error"}
Fate == Travelling \cup {"lost", "answered", "reported"}

Init == echoes = <<>> /\ fate = <<>>

Ask(n, d) == /\ echoes' = Append(echoes, [node |-> n, dst |-> d])
             /\ fate' = Append(fate, "request")

Turn(id, from, to) == /\ fate[id] \in from /\ fate' = [fate EXCEPT ![id] = to]
                      /\ UNCHANGED echoes

Answer(id) == echoes[id].dst \in Owned /\ Turn(id, {"request"}, "answer")
Fail(id) == Turn(id, {"request", "answer"}, "error")
Report(id) == Turn(id, {"answer"}, "answered") \/ Turn(id, {"error"}, "reported")
Lose(id) == Turn(id, Travelling, "lost")

Next == \/ \E n \in Node, d \in Addr : Ask(n, d)
        \/ \E id \in 1..Len(fate) : Answer(id) \/ Fail(id) \/ Report(id) \/ Lose(id)

Spec == Init /\ [][Next]_vars
=============================================================================
