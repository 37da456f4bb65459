----------------------------- MODULE EntryTable -----------------------------
(***************************************************************************)
(* What a table of the stack promises to the thread that reads it while    *)
(* the other one writes: a set of entries, numbered in the order in which  *)
(* they were made. An iteration meets entries newest first, only such as   *)
(* were in the table while it ran, and all of them if no write overlapped  *)
(* it. Nothing is promised to an iteration that a write overlaps.          *)
(***************************************************************************)
EXTENDS Naturals

CONSTANT MaxAdds    \* bound on the entries ever made

Elem == 1..MaxAdds

VARIABLES
    members,    \* the entries in the table
    writing,    \* a write is in progress
    reading,    \* an iteration is in progress
    alone,      \* no write has overlapped it so far
    met,        \* the entries that have been in the table meanwhile
    seen        \* the entries it has visited

vars == <<members, writing, reading, alone, met, seen>>

Init == /\ members \subseteq Elem
        /\ writing = FALSE /\ reading = FALSE /\ alone = TRUE
        /\ met = {} /\ seen = {}

BeginWrite == /\ ~writing /\ writing' = TRUE
              /\ alone' = (alone /\ ~reading)
              /\ UNCHANGED <<members, reading, met, seen>>

Insert(e) == /\ writing /\ \A m \in members \cup met : m < e
             /\ members' = members \cup {e}
             /\ met' = IF reading THEN met \cup {e} ELSE met
             /\ UNCHANGED <<writing, reading, alone, seen>>

Remove(e) == /\ writing /\ e \in members
             /\ members' = members \ {e}
             /\ UNCHANGED <<writing, reading, alone, met, seen>>

EndWrite == /\ writing /\ writing' = FALSE
            /\ UNCHANGED <<members, reading, alone, met, seen>>

BeginRead == /\ ~reading /\ reading' = TRUE
             /\ alone' = ~writing
             /\ met' = members /\ seen' = {}
             /\ UNCHANGED <<members, writing>>

Visit(e) == /\ reading /\ e \in met
            /\ \A s \in seen : e < s
            /\ seen' = seen \cup {e}
            /\ UNCHANGED <<members, writing, reading, alone, met>>

EndRead == /\ reading /\ reading' = FALSE
           /\ alone => seen = members
           /\ alone' = TRUE
           /\ met' = {} /\ seen' = {}
           /\ UNCHANGED <<members, writing>>

Next == \/ BeginWrite \/ EndWrite \/ BeginRead \/ EndRead
        \/ \E e \in Elem : Insert(e) \/ Remove(e) \/ Visit(e)

Spec == Init /\ [][Next]_vars
=============================================================================
