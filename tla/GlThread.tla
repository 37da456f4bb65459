------------------------------ MODULE GlThread ------------------------------
(***************************************************************************)
(* The doubly linked list under the route, ARP and MAC tables, store by    *)
(* store: one thread adds entries (cli to a route table, rx to an ARP or   *)
(* MAC table) while the other one iterates, and no lock protects either.   *)
(*                                                                         *)
(* Every entry is calloc'ed afresh and none is freed, so an entry is named *)
(* by its number: a greater one is newer. The head of the list, `Base`, is *)
(* greater than all and the null pointer smaller, so that `right` always   *)
(* leads to a smaller number.                                              *)
(*                                                                         *)
(* A step is one store to a link, or one load of a `right` by an           *)
(* iteration. The loads that a thread makes of links that only it writes   *)
(* are part of the step that uses them.                                    *)
(***************************************************************************)
EXTENDS Naturals

CONSTANTS
    MaxAdds,    \* bound on the entries ever made
    Key,        \* destinations, IP addresses or MAC addresses
    Broadcast,  \* the address that nobody has
    Text,       \* a key as strcmp sees it: its bytes before the first zero
    Val,        \* what an entry says of its key
    NoVal       \* nothing

ASSUME GlThreadAssumption ==
    /\ MaxAdds \in Nat \ {0}
    /\ DOMAIN Text = Key
    /\ Broadcast \in Key
    /\ Val # {} /\ NoVal \notin Val

Elem == 1..MaxAdds
Null == 0
Base == MaxAdds + 1
Pointer == 0..(MaxAdds + 1)

VARIABLES
    table,      \* which of the three tables this is
    right, left,\* the links of each entry and of the base
    key, val,   \* the rest of each entry
    made,       \* the number of entries made so far
    w,          \* the writing thread
    r,          \* the reading thread
    members,    \* history: the entries in the list, by the stores made so far
    latest      \* history: key -> what its newest entry says

vars == <<table, right, left, key, val, made, w, r, members, latest>>

-----------------------------------------------------------------------------
WriterPc == {"idle", "lookup", "update", "delete", "unlink", "unlinkLast",
             "unlinkBack", "unlinkLeft", "unlinkRight",
             "link", "linkOnly", "linkLeft", "linkRight", "linkBack"}

\* new: the entry to add; at: the pointer of the writer's own iteration;
\* next: _glthread_ptr of the macro, or temp of glthread_add_next.
Write == [pc : WriterPc, new : Elem \cup {Null}, at : Elem \cup {Null},
          next : Elem \cup {Null}]
NoWrite == [pc |-> "idle", new |-> Null, at |-> Null, next |-> Null]

\* ptr: glthreadptr of the macro. The rest is history: the keys whose addition
\* overlapped the iteration, the entries that were in the list during it,
\* those it has visited, the keys that had an entry when it began, the value
\* found first for each key, and the values that were the newest meanwhile.
Read == [on : BOOLEAN, ptr : Elem \cup {Null}, by : SUBSET Key,
         met : SUBSET Elem, seen : SUBSET Elem, known : SUBSET Key,
         found : [Key -> Val \cup {NoVal}], newest : [Key -> SUBSET (Val \cup {NoVal})]]
NoRead == [on |-> FALSE, ptr |-> Null, by |-> {}, met |-> {}, seen |-> {},
           known |-> {}, found |-> [k \in Key |-> NoVal], newest |-> [k \in Key |-> {}]]

\* init_rt_table and init_mac_table leave an empty list, init_arp_table an entry
\* of the broadcast address.
First == IF table = "arp" THEN 1 ELSE Null
Presets == Elem \cap {First}
PresetVal == CHOOSE v \in Val : TRUE

Init ==
    /\ table \in {"route", "arp", "mac"}
    /\ right = [x \in 1..Base |-> IF x = Base THEN First ELSE Null]
    /\ left = [x \in 1..Base |-> IF x = First THEN Base ELSE Null]
    /\ key = [x \in Elem |-> Broadcast]
    /\ val = [x \in Elem |-> IF x = First THEN PresetVal ELSE NoVal]
    /\ made = First
    /\ w = NoWrite
    /\ r = NoRead
    /\ members = Presets
    /\ latest = [k \in Key |-> IF Presets # {} /\ k = Broadcast THEN PresetVal ELSE NoVal]

-----------------------------------------------------------------------------
(* The writing thread. *)

GoTo(pc) == w' = [w EXCEPT !.pc = pc]

\* History: from now on v is what the table should say of k.
Publish(k, v) ==
    /\ latest' = [latest EXCEPT ![k] = v]
    /\ r' = IF r.on THEN [r EXCEPT !.newest[k] = @ \cup {v}] ELSE r

\* rt_table_add_*, arp_table_update_from_arp_reply, l2_switch_perform_mac_learning:
\* the entry is calloc'ed and filled in. A route table is not searched for an
\* older route to the same destination.
BeginAdd(k, v) ==
    /\ w.pc = "idle" /\ made < MaxAdds /\ k # Broadcast
    /\ made' = made + 1
    /\ key' = [key EXCEPT ![made + 1] = k]
    /\ val' = [val EXCEPT ![made + 1] = v]
    /\ w' = IF table = "route"
            THEN [NoWrite EXCEPT !.pc = "link", !.new = made + 1]
            ELSE [NoWrite EXCEPT !.pc = "lookup", !.new = made + 1, !.at = right[Base]]
    /\ r' = IF r.on THEN [r EXCEPT !.by = @ \cup {k}] ELSE r
    /\ UNCHANGED <<table, right, left, members, latest>>

\* arp_table_lookup and mac_table_entry_lookup, as arp_table_entry_add and
\* mac_table_entry_add call them.
LookupNext ==
    /\ w.pc = "lookup" /\ w.at # Null /\ key[w.at] # key[w.new]
    /\ w' = [w EXCEPT !.at = right[w.at]]
    /\ UNCHANGED <<table, right, left, key, val, made, r, members, latest>>

LookupMiss ==
    /\ w.pc = "lookup" /\ w.at = Null
    /\ GoTo("link")
    /\ UNCHANGED <<table, right, left, key, val, made, r, members, latest>>

\* Mutant: an ARP table replaces its entry as a MAC table does.
LookupHitDeletes ==
    /\ w.pc = "lookup" /\ w.at # Null /\ key[w.at] = key[w.new]
    /\ w' = [w EXCEPT !.pc = "delete", !.at = right[Base]]
    /\ UNCHANGED <<table, right, left, key, val, made, r, members, latest>>

\* Mutant: a MAC table keeps its entry as an ARP table does.
LookupHitUpdates ==
    /\ w.pc = "lookup" /\ w.at # Null /\ key[w.at] = key[w.new]
    /\ w' = [w EXCEPT !.pc = "update"]
    /\ UNCHANGED <<table, right, left, key, val, made, r, members, latest>>

\* The old entry is never equal to the new one byte for byte: it is linked, and
\* the new one is not. arp_table_update_entry brings it up to date and the new
\* one is added all the same; a MAC table starts mac_table_entry_delete.
LookupHit ==
    /\ w.pc = "lookup" /\ w.at # Null /\ key[w.at] = key[w.new]
    /\ w' = IF table = "arp" THEN [w EXCEPT !.pc = "update"]
            ELSE [w EXCEPT !.pc = "delete", !.at = right[Base]]
    /\ UNCHANGED <<table, right, left, key, val, made, r, members, latest>>

\* Mutant: the arguments of arp_table_update_entry are swapped.
UpdateSwapped ==
    /\ w.pc = "update"
    /\ val' = [val EXCEPT ![w.new] = val[w.at]]
    /\ Publish(key[w.new], val[w.new])
    /\ GoTo("link")
    /\ UNCHANGED <<table, right, left, key, made, members>>

\* arp_table_update_entry
Update ==
    /\ w.pc = "update"
    /\ val' = [val EXCEPT ![w.at] = val[w.new]]
    /\ Publish(key[w.new], val[w.new])
    /\ GoTo("link")
    /\ UNCHANGED <<table, right, left, key, made, members>>

\* The iteration of mac_table_entry_delete, which compares with strcmp and goes
\* on after a hit.
DeleteNext ==
    /\ w.pc = "delete" /\ w.at # Null
    /\ w' = IF Text[key[w.at]] = Text[key[w.new]]
            THEN [w EXCEPT !.pc = "unlink", !.next = right[w.at]]
            ELSE [w EXCEPT !.at = right[w.at]]
    /\ UNCHANGED <<table, right, left, key, val, made, r, members, latest>>

DeleteDone ==
    /\ w.pc = "delete" /\ w.at = Null
    /\ GoTo("link")
    /\ UNCHANGED <<table, right, left, key, val, made, r, members, latest>>

\* remove_glthread(at): the store that takes the entry out of every iteration
\* still to come. An entry of the list always has a left, so the first branch
\* of remove_glthread is never taken.
TakeOut ==
    /\ right' = [right EXCEPT ![left[w.at]] = right[w.at]]
    /\ members' = members \ {w.at}
    /\ Publish(key[w.at], NoVal)
    /\ UNCHANGED <<table, left, key, val, made>>

UnlinkLast == w.pc = "unlink" /\ right[w.at] = Null /\ GoTo("unlinkLast") /\ TakeOut
Unlink == w.pc = "unlink" /\ right[w.at] # Null /\ GoTo("unlinkBack") /\ TakeOut

UnlinkLastLeft ==
    /\ w.pc = "unlinkLast"
    /\ left' = [left EXCEPT ![w.at] = Null]
    /\ w' = [w EXCEPT !.pc = "delete", !.at = w.next]
    /\ UNCHANGED <<table, right, key, val, made, r, members, latest>>

\* Mutant: the next entry keeps its left.
UnlinkBackForgets ==
    /\ w.pc = "unlinkBack"
    /\ left' = left
    /\ GoTo("unlinkLeft")
    /\ UNCHANGED <<table, right, key, val, made, r, members, latest>>

UnlinkBack ==
    /\ w.pc = "unlinkBack"
    /\ left' = [left EXCEPT ![right[w.at]] = left[w.at]]
    /\ GoTo("unlinkLeft")
    /\ UNCHANGED <<table, right, key, val, made, r, members, latest>>

UnlinkLeft ==
    /\ w.pc = "unlinkLeft"
    /\ left' = [left EXCEPT ![w.at] = Null]
    /\ GoTo("unlinkRight")
    /\ UNCHANGED <<table, right, key, val, made, r, members, latest>>

UnlinkRight ==
    /\ w.pc = "unlinkRight"
    /\ right' = [right EXCEPT ![w.at] = Null]
    /\ w' = [w EXCEPT !.pc = "delete", !.at = w.next]
    /\ UNCHANGED <<table, left, key, val, made, r, members, latest>>

\* glthread_add_next(base, new): the store that publishes the entry. Its own
\* right is still NULL then, and whatever is older is out of sight until the
\* third store.
PutIn ==
    /\ right' = [right EXCEPT ![Base] = w.new]
    /\ members' = members \cup {w.new}
    /\ LET k == key[w.new]
       IN  /\ latest' = [latest EXCEPT ![k] = val[w.new]]
           /\ r' = IF r.on THEN [r EXCEPT !.newest[k] = @ \cup {val[w.new]},
                                          !.met = @ \cup {w.new}]
                   ELSE r
    /\ UNCHANGED <<table, left, key, val, made>>

LinkOnly == w.pc = "link" /\ right[Base] = Null /\ GoTo("linkOnly") /\ PutIn

Link ==
    /\ w.pc = "link" /\ right[Base] # Null
    /\ w' = [w EXCEPT !.pc = "linkLeft", !.next = right[Base]]
    /\ PutIn

LinkOnlyLeft ==
    /\ w.pc = "linkOnly"
    /\ left' = [left EXCEPT ![w.new] = Base]
    /\ w' = NoWrite
    /\ UNCHANGED <<table, right, key, val, made, r, members, latest>>

LinkLeft ==
    /\ w.pc = "linkLeft"
    /\ left' = [left EXCEPT ![w.new] = Base]
    /\ GoTo("linkRight")
    /\ UNCHANGED <<table, right, key, val, made, r, members, latest>>

\* Mutant: temp is loaded after the first store.
LinkRightToItself ==
    /\ w.pc = "linkRight"
    /\ right' = [right EXCEPT ![w.new] = right[Base]]
    /\ GoTo("linkBack")
    /\ UNCHANGED <<table, left, key, val, made, r, members, latest>>

\* Mutant: the entry behind the new one is skipped.
LinkRightSkips ==
    /\ w.pc = "linkRight"
    /\ right' = [right EXCEPT ![w.new] = right[w.next]]
    /\ GoTo("linkBack")
    /\ UNCHANGED <<table, left, key, val, made, r, members, latest>>

LinkRight ==
    /\ w.pc = "linkRight"
    /\ right' = [right EXCEPT ![w.new] = w.next]
    /\ GoTo("linkBack")
    /\ UNCHANGED <<table, left, key, val, made, r, members, latest>>

LinkBack ==
    /\ w.pc = "linkBack"
    /\ left' = [left EXCEPT ![w.next] = w.new]
    /\ w' = NoWrite
    /\ UNCHANGED <<table, right, key, val, made, r, members, latest>>

WriterStep ==
    \/ LookupNext \/ LookupMiss \/ LookupHit \/ Update
    \/ DeleteNext \/ DeleteDone
    \/ Unlink \/ UnlinkLast \/ UnlinkLastLeft \/ UnlinkBack \/ UnlinkLeft \/ UnlinkRight
    \/ Link \/ LinkOnly \/ LinkOnlyLeft \/ LinkLeft \/ LinkRight \/ LinkBack

-----------------------------------------------------------------------------
(* The reading thread: a lookup or dump of the whole table. A lookup that   *)
(* returns at its first hit is the beginning of one.                        *)

\* ITERATE_GLTHREAD_BEGIN
BeginRead ==
    /\ ~r.on
    /\ r' = [on |-> TRUE, ptr |-> right[Base],
             by |-> IF w.pc = "idle" THEN {} ELSE {key[w.new]},
             met |-> members, seen |-> {},
             known |-> {key[m] : m \in members},
             found |-> [k \in Key |-> NoVal],
             newest |-> [k \in Key |-> {latest[k]}]]
    /\ UNCHANGED <<table, right, left, key, val, made, w, members, latest>>

\* One turn of the loop: _glthread_ptr is loaded, and the body looks at the entry.
Visit ==
    /\ r.on /\ r.ptr # Null
    /\ LET k == key[r.ptr]
       IN  r' = [r EXCEPT !.ptr = right[r.ptr],
                          !.seen = @ \cup {r.ptr},
                          !.found[k] = IF @ = NoVal THEN val[r.ptr] ELSE @]
    /\ UNCHANGED <<table, right, left, key, val, made, w, members, latest>>

EndRead ==
    /\ r.on /\ r.ptr = Null
    /\ r' = NoRead
    /\ UNCHANGED <<table, right, left, key, val, made, w, members, latest>>

ReaderStep == Visit \/ EndRead

Next ==
    \/ WriterStep \/ ReaderStep \/ BeginRead
    \/ \E k \in Key, v \in Val : BeginAdd(k, v)

Spec == Init /\ [][Next]_vars

\* Both threads are scheduled; nobody has to add an entry or to look one up.
FairSpec == Spec /\ WF_vars(WriterStep) /\ WF_vars(ReaderStep)

-----------------------------------------------------------------------------
(* Properties *)

\* The newest entry of the list that is older than x, and the oldest that is newer.
After(x) == {y \in members : y < x /\ \A m \in members : m < x => m <= y}
Before(x) == {y \in members \cup {Base} : y > x /\ \A m \in members : m > x => y <= m}

\* The variables have their types, and a right link always leads to an older
\* entry (glthread_add_next and remove_glthread never close a circle).
TypeOK ==
    /\ table \in {"route", "arp", "mac"}
    /\ right \in [1..Base -> Pointer] /\ left \in [1..Base -> Pointer]
    /\ \A x \in 1..Base : right[x] < x
    /\ key \in [Elem -> Key] /\ val \in [Elem -> Val \cup {NoVal}]
    /\ made \in 0..MaxAdds
    /\ w \in Write /\ r \in Read
    /\ members \subseteq Elem
    /\ latest \in [Key -> Val \cup {NoVal}]

\* What the stores made so far have left behind: each link of the list leads to
\* the neighbour, except those that the call in progress (glthread_add_next or
\* remove_glthread) has yet to store.
LinksAgree ==
    /\ \A x \in members \cup {Base} :
          IF w.pc \in {"linkLeft", "linkRight"} /\ x = w.new
          THEN right[x] = Null /\ After(x) = {w.next}
          ELSE After(x) = {right[x]} \ {Null}
    /\ \A x \in members :
          CASE w.pc \in {"linkOnly", "linkLeft"} /\ x = w.new -> left[x] = Null
            [] w.pc \in {"linkLeft", "linkRight", "linkBack"} /\ x = w.next -> left[x] = Base
            [] w.pc = "unlinkBack" /\ x = right[w.at] -> left[x] = w.at
            [] OTHER -> Before(x) = {left[x]}

\* Whatever an iteration finds first for a key was the newest entry for that key
\* at some moment of the iteration, although the older duplicates that
\* arp_table_entry_add leaves in the list are never brought up to date.
LookupIsCurrent ==
    r.on => \A k \in Key : r.found[k] = NoVal \/ r.found[k] \in r.newest[k]

\* glthread_add_next hides the older entries for a moment. Even so, in a route or
\* ARP table a known key stays known to an iteration that only additions for
\* this very key overlap: an ARP reply does not hide the entry it renews.
OwnAddNeverHides ==
    table # "mac" /\ r.on /\ r.ptr = Null =>
        \A k \in r.known : r.by \subseteq {k} => r.found[k] # NoVal

\* A MAC table never holds two entries for one address (mac_table_entry_add).
OneEntryPerMac ==
    table = "mac" => \A x, y \in members : key[x] = key[y] => x = y

\* The list is a table in the sense of EntryTable: an iteration meets entries
\* newest first, only such as were in the list meanwhile, and all of them if no
\* call of the writing thread overlaps it.
Table == INSTANCE EntryTable WITH
    writing <- w.pc # "idle",
    reading <- r.on,
    alone <- r.by = {},
    met <- r.met,
    seen <- r.seen
ImplementsTable == Table!Spec

\* Every iteration ends, however many entries come and go under it.
ReadsEnd == r.on ~> ~r.on

\* Every addition ends, its lookup and its deletions included.
AddsEnd == w.pc # "idle" ~> w.pc = "idle"
=============================================================================
