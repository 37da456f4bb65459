--------------------------- MODULE GlThreadProofs ---------------------------
(* Theorems about module GlThread, for every number of entries, every set  *)
(* of keys and every reading of a key by strcmp.                           *)
EXTENDS GlThread, TLAPS

-----------------------------------------------------------------------------
(* The inductive invariant *)

\* y is the newest entry of the list that is older than x, or NULL if none is ...
IsAfter(x, y) ==
    /\ y \in members \cup {Null} /\ y < x
    /\ \A m \in members : m < x => m <= y
\* ... and the oldest that is newer, or the base.
IsBefore(x, y) ==
    /\ y \in members \cup {Base} /\ y > x
    /\ \A m \in members : m > x => y <= m

RightAgrees ==
    \A x \in members \cup {Base} :
        IF w.pc \in {"linkLeft", "linkRight"} /\ x = w.new
        THEN right[x] = Null /\ IsAfter(x, w.next)
        ELSE IsAfter(x, right[x])

LeftAgrees ==
    \A x \in members :
        CASE w.pc \in {"linkOnly", "linkLeft"} /\ x = w.new -> left[x] = Null
          [] w.pc \in {"linkLeft", "linkRight", "linkBack"} /\ x = w.next -> left[x] = Base
          [] w.pc = "unlinkBack" /\ x = right[w.at] -> left[x] = w.at
          [] OTHER -> IsBefore(x, left[x])

Searching == {"lookup", "update", "delete", "unlink", "link"}
Unlinking == {"unlinkLast", "unlinkBack", "unlinkLeft", "unlinkRight"}
Linking == {"linkOnly", "linkLeft", "linkRight", "linkBack"}

\* The entry to add is the newest one, and in the list from the first store of
\* glthread_add_next on.
NewEntry ==
    /\ members \subseteq 1..made /\ r.met \subseteq 1..made
    /\ w.pc # "idle" => w.new = made /\ w.new \in Elem
    /\ w.pc \in Searching \cup Unlinking =>
          /\ w.new \notin members /\ w.new \notin r.met
          /\ right[w.new] = Null /\ left[w.new] = Null
    /\ \A x \in Elem : x > made => right[x] = Null /\ left[x] = Null
    /\ w.pc \in Linking => w.new \in members

\* The pointers of the writer's own iterations and calls.
WriterPointers ==
    /\ w.pc \in {"lookup", "delete"} => w.at \in members \cup {Null}
    /\ w.pc \in {"update", "unlink"} => w.at \in members
    /\ w.pc = "unlink" => w.next = right[w.at]
    /\ w.pc \in Unlinking => w.at \in Elem \ members /\ w.at < w.new
    /\ w.pc \in {"unlinkBack", "unlinkLeft", "unlinkRight"} => w.next \in members
    /\ w.pc = "unlinkLast" => w.next = Null
    /\ w.pc = "unlinkBack" =>
          /\ right[w.at] = w.next
          /\ IsBefore(w.next, left[w.at]) /\ w.at < left[w.at] 
    /\ w.pc \in {"linkLeft", "linkRight", "linkBack"} => w.next \in members /\ w.next < w.new
    /\ w.pc = "linkBack" => right[w.new] = w.next
    /\ w.pc = "linkOnly" => members = {w.new}

\* In a MAC table, the search has come past no entry of the new one's address
\* and left it there.
Searched ==
    table = "mac" =>
        /\ w.pc \in {"lookup", "delete", "unlink"} =>
              \A x \in members : x > w.at => key[x] # key[w.new]
        /\ w.pc \in Unlinking => \A x \in members : x > w.next => key[x] # key[w.new]
        /\ w.pc # "update"
        /\ w.pc = "link" => \A x \in members : key[x] # key[w.new]

\* The reader stands on an entry that was in the list meanwhile, older than
\* those it has visited, and so are all it can reach from there.
Reading ==
    /\ ~r.on => r.by = {} /\ r.met = {} /\ r.seen = {} /\ r.ptr = Null
    /\ r.on =>
          /\ members \subseteq r.met
          /\ r.seen \subseteq r.met
          /\ r.ptr \in r.met \cup {Null}
          /\ \A x \in r.met : right[x] \in r.met \cup {Null}
          /\ \A s \in r.seen : r.ptr < s
    /\ r.on /\ r.by = {} =>
          w.pc = "idle" /\ r.ptr \in members \cup {Null} /\ r.seen = {m \in members : r.ptr < m}

IInv == 
    /\ TypeOK /\ RightAgrees /\ LeftAgrees /\ NewEntry /\ WriterPointers
    /\ Searched /\ Reading /\ OneEntryPerMac

\* Why what an iteration finds was the newest of its key: the newest entry of the
\* list says what the key's addition said, only the newest is brought up to date,
\* and the reader has come past none of the key that was in the list when it began.
Newest(x) == \A y \in members : key[y] = key[x] => y <= x
NewestAhead(x) ==
    /\ x \in members /\ x <= r.ptr
    /\ \A y \in members : y <= r.ptr /\ key[y] = key[x] => y <= x

Values ==
    /\ \A x \in Elem : x <= made => val[x] \in Val
    /\ w.pc \in {"delete", "unlink"} \cup Unlinking => table = "mac"
    /\ w.pc = "lookup" => table # "route"
    /\ w.pc = "update" => key[w.at] = key[w.new]
    /\ w.pc \in {"lookup", "update"} => \A m \in members : m > w.at => key[m] # key[w.new]
    /\ \A x \in members : Newest(x) => val[x] = latest[key[x]]
    /\ r.on /\ table = "mac" => \A x \in r.met : val[x] \in r.newest[key[x]]
    /\ r.on /\ table # "mac" =>
          /\ r.met \subseteq members
          /\ \A x \in members : NewestAhead(x) /\ r.found[key[x]] = NoVal
                                => val[x] \in r.newest[key[x]]
    /\ LookupIsCurrent
-----------------------------------------------------------------------------
(* Type correctness *)

\* The parts of the types that the proofs use, and the range of the numbers.
LEMMA Types ==
  ASSUME TypeOK
  PROVE  /\ MaxAdds \in Nat /\ Base \in Nat /\ made \in Nat /\ made <= MaxAdds
         /\ Null \in Pointer /\ Base \in Pointer /\ Elem \subseteq Pointer
         /\ right \in [1..Base -> Pointer] /\ left \in [1..Base -> Pointer]
         /\ \A x \in 1..Base : right[x] < x
         /\ key \in [Elem -> Key] /\ val \in [Elem -> Val \cup {NoVal}]
         /\ members \subseteq Elem
         /\ w \in Write /\ w.new \in Elem \cup {Null}
         /\ w.at \in Elem \cup {Null} /\ w.next \in Elem \cup {Null}
         /\ r \in Read
         /\ latest \in [Key -> Val \cup {NoVal}]
  <1>1. MaxAdds \in Nat
    BY GlThreadAssumption
  <1>2. Base \in Nat /\ Null \in Pointer /\ Base \in Pointer /\ Elem \subseteq Pointer
    BY <1>1 DEF Elem, Base, Null, Pointer
  <1>3. made \in Nat /\ made <= MaxAdds
    BY <1>1 DEF TypeOK
  <1>4. /\ w \in Write /\ w.new \in Elem \cup {Null}
        /\ w.at \in Elem \cup {Null} /\ w.next \in Elem \cup {Null}
    BY DEF TypeOK, Write
  <1>5. QED
    BY <1>1, <1>2, <1>3, <1>4 DEF TypeOK

\* A right link leads to an entry or is NULL.
LEMMA RightType ==
  ASSUME TypeOK, NEW x \in 1..Base
  PROVE  right[x] \in Elem \cup {Null} /\ right[x] < x
<1>1. right[x] \in Pointer /\ right[x] < x /\ x \in 1..(MaxAdds + 1) /\ MaxAdds \in Nat
  BY Types DEF Base
<1> QED
  BY <1>1 DEF Elem, Null, Pointer

\* Storing a pointer in a link keeps the types of the links, as long as a right
\* link leads to an older entry.
LEMMA StoreType ==
  ASSUME TypeOK, NEW x \in Pointer, NEW y \in Pointer
  PROVE  /\ [left EXCEPT ![x] = y] \in [1..Base -> Pointer]
         /\ [right EXCEPT ![x] = y] \in [1..Base -> Pointer]
         /\ y < x => \A z \in 1..Base : [right EXCEPT ![x] = y][z] < z
  BY Types

\* The writer's next state has its type.
LEMMA WriteType ==
  ASSUME TypeOK, NEW pc \in WriterPc, NEW x \in Elem \cup {Null}, NEW y \in Elem \cup {Null}
  PROVE  /\ [w EXCEPT !.pc = pc] \in Write
         /\ [w EXCEPT !.pc = pc, !.at = x] \in Write
         /\ [w EXCEPT !.pc = pc, !.next = y] \in Write
         /\ [NoWrite EXCEPT !.pc = pc, !.new = x] \in Write
         /\ [NoWrite EXCEPT !.pc = pc, !.new = x, !.at = y] \in Write
         /\ NoWrite \in Write
<1>1. w \in Write /\ "idle" \in WriterPc /\ Null \in Elem \cup {Null}
  BY Types DEF WriterPc
<1>2. NoWrite \in Write
  BY <1>1 DEF Write, NoWrite
<1>3. ASSUME NEW v \in Write
      PROVE  /\ [v EXCEPT !.pc = pc] \in Write
             /\ [v EXCEPT !.pc = pc, !.at = x] \in Write
             /\ [v EXCEPT !.pc = pc, !.next = y] \in Write
             /\ [v EXCEPT !.pc = pc, !.new = x] \in Write
             /\ [v EXCEPT !.pc = pc, !.new = x, !.at = y] \in Write
  BY DEF Write
<1> QED
  BY <1>1, <1>2, <1>3

\* ... and also when only its iteration goes on.
LEMMA WalkType ==
  ASSUME TypeOK, NEW x \in Elem \cup {Null}
  PROVE  [w EXCEPT !.at = x] \in Write
  BY Types DEF Write

\* So has what a history of the reader becomes when an entry changes.
LEMMA PublishType ==
  ASSUME TypeOK, NEW k \in Key, NEW v \in Val \cup {NoVal}, NEW e \in Elem
  PROVE  /\ [latest EXCEPT ![k] = v] \in [Key -> Val \cup {NoVal}]
         /\ [r EXCEPT !.newest[k] = @ \cup {v}] \in Read
         /\ [r EXCEPT !.newest[k] = @ \cup {v}, !.met = @ \cup {e}] \in Read
         /\ [r EXCEPT !.by = @ \cup {k}] \in Read
  BY Types DEF Read

\* Steps of the writer that store to no link keep the types.
LEMMA SearchType ==
  ASSUME IInv, LookupNext \/ LookupMiss \/ LookupHit \/ DeleteNext \/ DeleteDone
  PROVE  TypeOK'
<1>1. TypeOK /\ WriterPointers
  BY DEF IInv
<1>2. Base \in 1..Base /\ right[Base] \in Elem \cup {Null}
  BY <1>1, Types, RightType DEF Base
<1>3. w.at # Null => w.at \in 1..Base /\ right[w.at] \in Elem \cup {Null}
  BY <1>1, Types, RightType DEF Elem, Base, Null
<1>4. {"link", "update", "delete", "unlink"} \subseteq WriterPc
  BY DEF WriterPc
<1>5. w' \in Write
  <2>1. CASE LookupNext
    BY <1>1, <1>3, <2>1, WalkType DEF LookupNext
  <2>2. CASE LookupMiss \/ DeleteDone
    BY <1>1, <1>4, <2>2, WriteType DEF LookupMiss, DeleteDone, GoTo
  <2>3. CASE LookupHit
    BY <1>1, <1>2, <1>4, <2>3, WriteType DEF LookupHit
  <2>4. CASE DeleteNext
    BY <1>1, <1>3, <1>4, <2>4, WriteType, WalkType DEF DeleteNext
  <2> QED BY <2>1, <2>2, <2>3, <2>4
<1>6. UNCHANGED <<table, right, left, key, val, made, r, members, latest>>
  BY DEF LookupNext, LookupMiss, LookupHit, DeleteNext, DeleteDone
<1> QED
  BY <1>1, <1>5, <1>6 DEF TypeOK

\* arp_table_update_entry keeps the types.
LEMMA UpdateType ==
  ASSUME IInv, Update
  PROVE  TypeOK'
<1>1. TypeOK /\ WriterPointers /\ NewEntry
  BY DEF IInv
<1>2. w.at \in Elem /\ w.new \in Elem
  BY <1>1, Types DEF WriterPointers, NewEntry, Update
<1>3. key[w.new] \in Key /\ val[w.new] \in Val \cup {NoVal}
  BY <1>1, <1>2, Types
<1>4. w' \in Write
  BY <1>1, WriteType, Null \in Elem \cup {Null} DEF Update, GoTo, WriterPc
<1>5. val' \in [Elem -> Val \cup {NoVal}]
  BY <1>1, <1>3, Types DEF Update
<1>6. latest' \in [Key -> Val \cup {NoVal}] /\ r' \in Read
  BY <1>1, <1>2, <1>3, PublishType, Types DEF Update, Publish
<1> QED
  BY <1>1, <1>4, <1>5, <1>6 DEF TypeOK, Update

\* remove_glthread keeps the types.
LEMMA UnlinkType ==
  ASSUME IInv,
         \/ Unlink \/ UnlinkLast \/ UnlinkLastLeft
         \/ UnlinkBack \/ UnlinkLeft \/ UnlinkRight
  PROVE  TypeOK'
<1>1. TypeOK /\ WriterPointers /\ LeftAgrees /\ NewEntry
  BY DEF IInv
<1>2. w.at \in Elem /\ w.at \in 1..Base /\ w.at \in Pointer
  BY <1>1, Types DEF WriterPointers, Unlinking, Elem, Base, Unlink, UnlinkLast,
     UnlinkLastLeft, UnlinkBack, UnlinkLeft, UnlinkRight
<1>3. right[w.at] \in Elem \cup {Null} /\ right[w.at] < w.at /\ right[w.at] \in Pointer
  BY <1>1, <1>2, RightType, Types
<1>4. left[w.at] \in Pointer
  BY <1>1, <1>2, Types
<1>5. w' \in Write
  <2>1. CASE Unlink \/ UnlinkLast \/ UnlinkBack \/ UnlinkLeft
    BY <1>1, <2>1, WriteType DEF Unlink, UnlinkLast, UnlinkBack, UnlinkLeft, GoTo, WriterPc
  <2>2. CASE UnlinkLastLeft \/ UnlinkRight
    <3>1. "delete" \in WriterPc /\ w.next \in Elem \cup {Null}
      BY <1>1, Types DEF WriterPc
    <3>2. w' = [w EXCEPT !.pc = "delete", !.at = w.next]
      BY <2>2 DEF UnlinkLastLeft, UnlinkRight
    <3> QED BY <1>1, <3>1, <3>2, WriteType
  <2> QED BY <2>1, <2>2
<1>6. CASE Unlink \/ UnlinkLast
  <2>1. TakeOut /\ w.pc = "unlink"
    BY <1>6 DEF Unlink, UnlinkLast
  <2>2. left[w.at] > w.at
    BY <1>1, <1>2, <2>1 DEF WriterPointers, LeftAgrees, IsBefore
  <2>3. right[w.at] < left[w.at]
    BY <1>1, <1>2, <1>3, <1>4, <2>2, Types DEF Pointer, Elem
  <2>4. right' \in [1..Base -> Pointer] /\ \A x \in 1..Base : right'[x] < x
    BY <1>1, <1>3, <1>4, <2>1, <2>3, StoreType DEF TakeOut
  <2>5. latest' \in [Key -> Val \cup {NoVal}] /\ r' \in Read
    BY <1>1, <1>2, <2>1, PublishType, Types DEF TakeOut, Publish
  <2>6. members' \subseteq Elem
    BY <1>1, <2>1, Types DEF TakeOut
  <2> QED BY <1>1, <1>5, <2>1, <2>4, <2>5, <2>6 DEF TypeOK, TakeOut
<1>7. CASE UnlinkLastLeft \/ UnlinkBack \/ UnlinkLeft
  <2>1. left' \in [1..Base -> Pointer]
    <3>1. Null \in Pointer
      BY <1>1, Types
    <3>2. CASE UnlinkBack
      BY <1>1, <1>3, <1>4, <3>2, StoreType DEF UnlinkBack
    <3>3. CASE UnlinkLastLeft \/ UnlinkLeft
      <4>1. left' = [left EXCEPT ![w.at] = Null]
        BY <3>3 DEF UnlinkLastLeft, UnlinkLeft
      <4> QED BY <1>1, <3>1, <4>1, Types
    <3> QED BY <1>7, <3>2, <3>3
  <2>2. UNCHANGED <<table, right, key, val, made, r, members, latest>>
    BY <1>7 DEF UnlinkLastLeft, UnlinkBack, UnlinkLeft
  <2> QED BY <1>1, <1>5, <2>1, <2>2 DEF TypeOK
<1>8. CASE UnlinkRight
  <2>1. right' \in [1..Base -> Pointer] /\ \A x \in 1..Base : right'[x] < x
    BY <1>1, <1>2, <1>8, Types, StoreType DEF UnlinkRight, Elem, Null
  <2> QED BY <1>1, <1>5, <1>8, <2>1 DEF TypeOK, UnlinkRight
<1> QED
  BY <1>6, <1>7, <1>8

\* glthread_add_next keeps the types.
LEMMA LinkType ==
  ASSUME IInv, Link \/ LinkOnly \/ LinkOnlyLeft \/ LinkLeft \/ LinkRight \/ LinkBack
  PROVE  TypeOK'
<1>1. TypeOK /\ WriterPointers /\ NewEntry
  BY DEF IInv
<1>2. w.new \in Elem /\ w.new \in Pointer /\ w.next \in Pointer
  BY <1>1, Types
     DEF NewEntry, Link, LinkOnly, LinkOnlyLeft, LinkLeft, LinkRight, LinkBack, Pointer,
         Elem, Null
<1>3. Base \in 1..Base /\ right[Base] \in Elem \cup {Null}
  BY <1>1, Types, RightType DEF Base
<1>4. w' \in Write
  <2>1. \/ \E pc \in WriterPc : \/ w' = [w EXCEPT !.pc = pc]
                               \/ w' = [w EXCEPT !.pc = pc, !.next = right[Base]]
        \/ w' = NoWrite
    BY DEF Link, LinkOnly, LinkOnlyLeft, LinkLeft, LinkRight, LinkBack, GoTo, WriterPc
  <2>2. w.next \in Elem \cup {Null} /\ Null \in Elem \cup {Null}
    BY <1>1, Types
  <2>3. ASSUME NEW pc \in WriterPc
        PROVE  [w EXCEPT !.pc = pc] \in Write /\ [w EXCEPT !.pc = pc, !.next = right[Base]] \in Write
    BY <1>1, <1>3, <2>2, WriteType
  <2>4. NoWrite \in Write
    BY <1>1, <2>2, WriteType DEF WriterPc
  <2> QED BY <2>1, <2>3, <2>4
<1>5. CASE Link \/ LinkOnly
  <2>1. PutIn
    BY <1>5 DEF Link, LinkOnly
  <2>2. w.new < Base
    BY <1>1, <1>2, Types DEF Elem, Base
  <2>3. right' \in [1..Base -> Pointer] /\ \A x \in 1..Base : right'[x] < x
    BY <1>1, <1>2, <2>1, <2>2, StoreType, Types DEF PutIn
  <2>4. latest' \in [Key -> Val \cup {NoVal}] /\ r' \in Read
    BY <1>1, <1>2, <2>1, PublishType, Types DEF PutIn
  <2>5. members' \subseteq Elem
    BY <1>1, <1>2, <2>1, Types DEF PutIn
  <2> QED BY <1>1, <1>4, <2>1, <2>3, <2>4, <2>5 DEF TypeOK, PutIn
<1>6. CASE LinkOnlyLeft \/ LinkLeft \/ LinkBack
  <2>1. left' \in [1..Base -> Pointer]
    <3>1. w.new \in Pointer /\ w.next \in Pointer /\ Base \in Pointer
      BY <1>1, <1>2, Types
    <3> QED BY <1>1, <1>6, <3>1, StoreType DEF LinkOnlyLeft, LinkLeft, LinkBack
  <2>2. UNCHANGED <<table, right, key, val, made, r, members, latest>>
    BY <1>6 DEF LinkOnlyLeft, LinkLeft, LinkBack
  <2> QED BY <1>1, <1>4, <2>1, <2>2 DEF TypeOK
<1>7. CASE LinkRight
  <2>1. w.next < w.new
    BY <1>1, <1>7 DEF WriterPointers, LinkRight
  <2>2. right' \in [1..Base -> Pointer] /\ \A x \in 1..Base : right'[x] < x
    BY <1>1, <1>2, <1>7, <2>1, StoreType DEF LinkRight
  <2> QED BY <1>1, <1>4, <1>7, <2>2 DEF TypeOK, LinkRight
<1> QED
  BY <1>5, <1>6, <1>7

\* The steps of the reader, and the beginning of an addition, keep the types.
LEMMA ReadType ==
  ASSUME IInv, Visit \/ EndRead \/ BeginRead
  PROVE  TypeOK'
<1>1. TypeOK /\ Reading /\ NewEntry
  BY DEF IInv
<1>2. right[Base] \in Elem \cup {Null}
  BY <1>1, Types, RightType DEF Base
<1>3. CASE Visit
  <2>1. r.ptr \in Elem /\ r.ptr \in 1..Base /\ key[r.ptr] \in Key
    BY <1>1, <1>3, Types DEF Visit, Read, Elem, Base, Null
  <2>2. right[r.ptr] \in Elem \cup {Null} /\ val[r.ptr] \in Val \cup {NoVal}
    BY <1>1, <2>1, RightType, Types
  <2>3. r' \in Read
    BY <1>1, <1>3, <2>1, <2>2, Types DEF Visit, Read
  <2> QED BY <1>1, <1>3, <2>3 DEF TypeOK, Visit
<1>4. CASE EndRead
  <2>1. NoRead \in Read
    BY DEF NoRead, Read
  <2> QED BY <1>1, <1>4, <2>1 DEF TypeOK, EndRead
<1>5. CASE BeginRead
  <2>1. (IF w.pc = "idle" THEN {} ELSE {key[w.new]}) \subseteq Key
    BY <1>1, Types DEF NewEntry
  <2>2. members \subseteq Elem /\ {key[m] : m \in members} \subseteq Key
    BY <1>1, Types
  <2>3. [k \in Key |-> {latest[k]}] \in [Key -> SUBSET (Val \cup {NoVal})]
    BY <1>1, Types
  <2>4. r' \in Read
    BY <1>2, <1>5, <2>1, <2>2, <2>3 DEF BeginRead, Read
  <2> QED BY <1>1, <1>5, <2>4 DEF TypeOK, BeginRead
<1> QED
  BY <1>3, <1>4, <1>5

\* calloc'ing an entry and filling it in keeps the types.
LEMMA BeginAddType ==
  ASSUME IInv, NEW k \in Key, NEW v \in Val, BeginAdd(k, v)
  PROVE  TypeOK'
<1>1. TypeOK
  BY DEF IInv
<1>2. made + 1 \in Elem /\ made' \in 0..MaxAdds
  BY <1>1, Types DEF BeginAdd, Elem
<1>3. right[Base] \in Elem \cup {Null}
  BY <1>1, Types, RightType DEF Base
<1>4. w' \in Write
  BY <1>1, <1>2, <1>3, WriteType DEF BeginAdd, WriterPc
<1>5. key' \in [Elem -> Key] /\ val' \in [Elem -> Val \cup {NoVal}]
  BY <1>1, Types DEF BeginAdd
<1>6. r' \in Read
  BY <1>1, <1>2, PublishType, Types DEF BeginAdd
<1> QED
  BY <1>1, <1>2, <1>4, <1>5, <1>6 DEF TypeOK, BeginAdd

-----------------------------------------------------------------------------
(* The links, the pointers of the two threads and the keys *)

\* The first entry of the list is its newest.
LEMMA FirstIsNewest ==
  ASSUME IInv
  PROVE  /\ right[Base] \in members \cup {Null}
         /\ \A m \in members : m <= right[Base]
<1>1. TypeOK /\ RightAgrees
  BY DEF IInv
<1>2. w.new # Base /\ \A m \in members : m < Base
  BY <1>1, Types DEF Elem, Base, Null
<1> QED
  BY <1>1, <1>2 DEF RightAgrees, IsAfter

\* Looking for an entry of the new one's address disturbs nothing, and misses none.
LEMMA SearchInv ==
  ASSUME IInv, LookupNext \/ LookupMiss \/ LookupHit \/ DeleteNext \/ DeleteDone
  PROVE  IInv'
<1>1. TypeOK /\ RightAgrees /\ LeftAgrees /\ NewEntry /\ WriterPointers /\ Searched
      /\ Reading /\ OneEntryPerMac
  BY DEF IInv
<1>2. UNCHANGED <<table, right, left, key, made, r, members>>
  BY DEF LookupNext, LookupMiss, LookupHit, DeleteNext, DeleteDone
<1>3. /\ \A m \in members : m \in Nat /\ m < Base /\ m > Null
      /\ w.at \in Nat /\ right[Base] \in Nat
      /\ w.at # Null => right[w.at] \in Nat
  <2>1. Base \in 1..Base /\ (w.at # Null => w.at \in 1..Base)
    BY <1>1, Types DEF Elem, Base, Null
  <2>2. \A x \in Elem \cup {Null} : x \in Nat /\ (x # Null => x < Base /\ x > Null)
    BY <1>1, Types DEF Elem, Base, Null
  <2>3. right[Base] \in Elem \cup {Null} /\ (w.at # Null => right[w.at] \in Elem \cup {Null})
    BY <1>1, <2>1, RightType
  <2>4. w.at \in Elem \cup {Null} /\ members \subseteq Elem /\ Null \notin members
    BY <1>1, Types DEF Elem, Null
  <2> QED BY <2>2, <2>3, <2>4
<1>4. /\ w.pc \in {"lookup", "delete"} 
      /\ w'.pc \in {"lookup", "update", "delete", "unlink", "link"}
      /\ w'.new = w.new
  BY <1>1, Types DEF LookupNext, LookupMiss, LookupHit, DeleteNext, DeleteDone, GoTo, Write
<1>5. w.at # Null => w.at \in members /\ IsAfter(w.at, right[w.at])
  BY <1>1, <1>4 DEF WriterPointers, RightAgrees
<1>6. right[Base] \in members \cup {Null} /\ \A m \in members : m <= right[Base]
  BY FirstIsNewest
<1>7. TypeOK'
  BY SearchType
<1>8. RightAgrees'
  BY <1>1, <1>2, <1>4 DEF RightAgrees, IsAfter
<1>9. LeftAgrees'
  BY <1>1, <1>2, <1>4 DEF LeftAgrees, IsBefore
<1>10. NewEntry'
  BY <1>1, <1>2, <1>4 DEF NewEntry, Searching, Unlinking, Linking
<1>11. WriterPointers'
  <2>1. w \in Write
    BY <1>1, Types
  <2>2. w'.pc \in {"lookup", "delete"} => w'.at \in members \cup {Null}
    BY <1>4, <1>5, <1>6, <2>1
       DEF LookupNext, LookupMiss, LookupHit, DeleteNext, DeleteDone, GoTo, Write, IsAfter
  <2>3. w'.pc \in {"update", "unlink"} => w'.at \in members
    BY <1>4, <1>5, <2>1
       DEF LookupNext, LookupMiss, LookupHit, DeleteNext, DeleteDone, GoTo, Write
  <2>4. w'.pc = "unlink" => w'.next = right[w'.at]
    BY <1>4, <2>1
       DEF LookupNext, LookupMiss, LookupHit, DeleteNext, DeleteDone, GoTo, Write
  <2> QED BY <1>2, <1>4, <2>2, <2>3, <2>4 DEF WriterPointers, Unlinking
<1>12. Searched'
  <2>1. CASE LookupNext
    <3>1. w' = [w EXCEPT !.at = right[w.at]] /\ key[w.at] # key[w.new] /\ w.pc = "lookup"
      BY <2>1 DEF LookupNext
    <3>2. \A x \in members : x > right[w.at] => x > w.at \/ x = w.at
      BY <1>3, <1>5, <2>1 DEF IsAfter, LookupNext
    <3>3. w'.at = right[w.at] /\ w'.pc = "lookup"
      BY <1>1, <3>1, Types DEF Write
    <3> QED BY <1>1, <1>2, <1>4, <3>1, <3>2, <3>3 DEF Searched, Unlinking
  <2>2. CASE LookupMiss \/ DeleteDone
    <3>1. w'.pc = "link" /\ w.at = Null
      BY <1>1, <2>2, Types DEF LookupMiss, DeleteDone, GoTo, Write
    <3> QED BY <1>1, <1>2, <1>3, <1>4, <3>1 DEF Searched, Unlinking
  <2>3. CASE LookupHit
    <3>1. table = "mac" => w'.pc = "delete" /\ w'.at = right[Base]
      BY <1>1, <2>3, Types DEF LookupHit, Write
    <3>2. \A x \in members : ~(x > right[Base])
      BY <1>3, <1>6
    <3> QED BY <1>2, <1>4, <3>1, <3>2 DEF Searched, Unlinking
  <2>4. CASE DeleteNext
    <3>1. CASE Text[key[w.at]] = Text[key[w.new]]
      <4>1. w'.pc = "unlink" /\ w'.at = w.at
        BY <1>1, <2>4, <3>1, Types DEF DeleteNext, Write
      <4> QED BY <1>1, <1>2, <1>4, <2>4, <4>1 DEF Searched, Unlinking, DeleteNext
    <3>2. CASE Text[key[w.at]] # Text[key[w.new]]
      <4>1. w'.pc = "delete" /\ w'.at = right[w.at] /\ key[w.at] # key[w.new] /\ w.pc = "delete"
        BY <1>1, <2>4, <3>2, Types DEF DeleteNext, Write
      <4>2. \A x \in members : x > right[w.at] => x > w.at \/ x = w.at
        BY <1>3, <1>5, <2>4 DEF IsAfter, DeleteNext
      <4> QED BY <1>1, <1>2, <1>4, <4>1, <4>2 DEF Searched, Unlinking
    <3> QED BY <3>1, <3>2
  <2> QED BY <2>1, <2>2, <2>3, <2>4
<1>13. Reading'
  BY <1>1, <1>2, <1>4 DEF Reading
<1>14. OneEntryPerMac'
  BY <1>1, <1>2 DEF OneEntryPerMac
<1> QED
  BY <1>7, <1>8, <1>9, <1>10, <1>11, <1>12, <1>13, <1>14 DEF IInv

\* Nor does arp_table_update_entry disturb the list.
LEMMA UpdateInv ==
  ASSUME IInv, Update
  PROVE  IInv'
<1>1. TypeOK /\ RightAgrees /\ LeftAgrees /\ NewEntry /\ WriterPointers /\ Searched
      /\ Reading /\ OneEntryPerMac
  BY DEF IInv
<1>2. UNCHANGED <<table, right, left, key, made, members>>
  BY DEF Update
<1>3. w.pc = "update" /\ w' = [w EXCEPT !.pc = "link"] /\ w'.pc = "link" /\ w'.new = w.new
  BY <1>1, Types DEF Update, GoTo, Write
<1>4. TypeOK'
  BY UpdateType
<1>5. RightAgrees'
  BY <1>1, <1>2, <1>3 DEF RightAgrees, IsAfter
<1>6. LeftAgrees'
  BY <1>1, <1>2, <1>3 DEF LeftAgrees, IsBefore
<1>7. /\ r'.on = r.on /\ r'.by = r.by /\ r'.met = r.met /\ r'.seen = r.seen /\ r'.ptr = r.ptr
  BY <1>1, Types DEF Update, Publish, Read
<1>8. NewEntry'
  BY <1>1, <1>2, <1>3, <1>7 DEF NewEntry, Searching, Unlinking, Linking
<1>9. WriterPointers'
  BY <1>3 DEF WriterPointers, Unlinking
<1>10. Searched'
  BY <1>1, <1>2, <1>3 DEF Searched, Unlinking
<1>11. Reading'
  BY <1>1, <1>2, <1>3, <1>7 DEF Reading
<1>12. OneEntryPerMac'
  BY <1>1, <1>2 DEF OneEntryPerMac
<1> QED
  BY <1>4, <1>5, <1>6, <1>8, <1>9, <1>10, <1>11, <1>12 DEF IInv

\* remove_glthread takes the entry out between its neighbours ...
LEMMA TakeOutInv ==
  ASSUME IInv, Unlink \/ UnlinkLast
  PROVE  IInv'
<1> DEFINE a == w.at
           p == left[w.at]
           n == right[w.at]
<1>1. TypeOK /\ RightAgrees /\ LeftAgrees /\ NewEntry /\ WriterPointers /\ Searched
      /\ Reading /\ OneEntryPerMac
  BY DEF IInv
<1>2. /\ w.pc = "unlink" /\ w'.at = a /\ w'.new = w.new /\ w'.next = w.next
      /\ w'.pc = IF n = Null THEN "unlinkLast" ELSE "unlinkBack"
  BY <1>1, Types DEF Unlink, UnlinkLast, GoTo, Write
<1>3. /\ UNCHANGED <<table, left, key, val, made>>
      /\ right' = [right EXCEPT ![p] = n]
      /\ members' = members \ {a}
  BY DEF Unlink, UnlinkLast, TakeOut
<1>4. a \in members /\ w.next = n /\ w.new # a /\ w.new \notin members
  BY <1>1, <1>2 DEF WriterPointers, NewEntry, Searching
<1>5. /\ \A m \in members : m \in Nat /\ m < Base /\ m > Null /\ m \in 1..Base
      /\ w.new \in Elem /\ w.new # Base /\ w.new \in 1..Base /\ Base \in Nat /\ Base \in 1..Base
  BY <1>1, <1>2, Types DEF NewEntry, Elem, Base, Null
<1>6. IsAfter(a, n) /\ n \in Nat /\ n < a
  BY <1>1, <1>2, <1>4, <1>5, RightType DEF RightAgrees, Elem, Null, IsAfter
<1>7. IsBefore(a, p) /\ p \in Nat /\ p > a /\ p \in members \cup {Base}
  BY <1>1, <1>2, <1>4, <1>5 DEF LeftAgrees, IsBefore
<1>8. \A x \in members \cup {Base} : IsAfter(x, right[x]) /\ right[x] \in Nat
  <2>1. \A x \in members \cup {Base} : right[x] \in Elem \cup {Null}
    BY <1>1, <1>5, RightType
  <2> QED BY <1>1, <1>2, <2>1 DEF RightAgrees, Elem, Null
<1>9. \A x \in 1..Base : right'[x] = IF x = p THEN n ELSE right[x]
  BY <1>1, <1>3, Types
<1>10. \A x \in members : IsBefore(x, left[x]) /\ left[x] \in Nat
  BY <1>1, <1>2, <1>5 DEF LeftAgrees, IsBefore
<1>11. /\ r'.on = r.on /\ r'.by = r.by /\ r'.met = r.met /\ r'.seen = r.seen /\ r'.ptr = r.ptr
  BY <1>1, Types DEF Unlink, UnlinkLast, TakeOut, Publish, Read
<1>12. \A x \in members' : x > n => x > a
  BY <1>3, <1>4, <1>5, <1>6 DEF IsAfter
<1>13. TypeOK'
  BY UnlinkType
<1> HIDE DEF a, p, n
<1>14. RightAgrees'
  <2> SUFFICES ASSUME NEW x \in members' \cup {Base} PROVE IsAfter(x, right[x])'
    BY <1>2 DEF RightAgrees
  <2>1. x \in members \cup {Base} /\ x # a /\ x \in 1..Base /\ x \in Nat
    BY <1>3, <1>5, <1>4
  <2>2. CASE x = p
    BY <1>3, <1>4, <1>5, <1>6, <1>7, <1>9, <1>12, <2>1, <2>2 DEF IsAfter, IsBefore
  <2>3. CASE x # p
    <3>1. right'[x] = right[x] /\ IsAfter(x, right[x])
      BY <1>8, <1>9, <2>1, <2>3
    <3>2. right[x] # a
      BY <1>5, <1>7, <1>8, <2>1, <2>3, <3>1 DEF IsAfter, IsBefore
    <3> QED BY <1>3, <3>1, <3>2 DEF IsAfter
  <2> QED BY <2>2, <2>3
<1>15. LeftAgrees'
  <2> SUFFICES ASSUME NEW x \in members'
               PROVE  IF w'.pc = "unlinkBack" /\ x = right'[w'.at] THEN left[x] = w'.at
                      ELSE IsBefore(x, left[x])'
    BY <1>2, <1>3 DEF LeftAgrees
  <2>1. x \in members /\ x # a /\ IsBefore(x, left[x]) /\ left[x] \in Nat /\ x \in Nat
    BY <1>3, <1>5, <1>10
  <2>2. right'[a] = n
    BY <1>4, <1>5, <1>7, <1>9 DEF a, n
  <2>3. CASE x = n
    <3>1. left[x] = a
      BY <1>4, <1>5, <1>6, <2>1, <2>3 DEF IsAfter, IsBefore
    <3>2. n # Null
      BY <1>5, <2>1, <2>3
    <3> QED BY <1>2, <2>2, <2>3, <3>1, <3>2
  <2>4. CASE x # n
    <3>1. left[x] # a
      BY <1>4, <1>5, <1>6, <2>1, <2>4 DEF IsAfter, IsBefore
    <3>2. IsBefore(x, left[x])'
      BY <1>3, <2>1, <3>1 DEF IsBefore
    <3> QED BY <1>2, <2>2, <2>4, <3>2
  <2> QED BY <2>3, <2>4
<1>16. NewEntry'
  <2>1. \A x \in Elem : x \notin members => right'[x] = right[x]
    BY <1>7, <1>9, <1>1, Types DEF Elem, Base
  <2>2. \A x \in Elem : x > made => x \notin members
    BY <1>1, Types DEF NewEntry, Elem
  <2> QED
    BY <1>1, <1>2, <1>3, <1>4, <1>5, <1>11, <2>1, <2>2
       DEF NewEntry, Searching, Unlinking, Linking
<1>17. WriterPointers'
  <2>1. w'.at \in Elem \ members' /\ w'.at < w'.new
    <3>1. a \in 1..made /\ made \in Nat /\ w.new = made
      BY <1>1, <1>2, <1>4, Types DEF NewEntry
    <3>2. a < w.new /\ a \in Elem
      BY <1>1, <1>4, <3>1, Types
    <3> QED BY <1>2, <1>3, <3>2 DEF a
  <2>2. n = Null \/ n \in members'
    BY <1>3, <1>5, <1>6 DEF IsAfter
  <2>3. /\ p \in members' \cup {Base} /\ p > n /\ a < p
        /\ \A m \in members' : m > n => p <= m
    BY <1>3, <1>4, <1>5, <1>6, <1>7, <1>12 DEF IsBefore, IsAfter
  <2>4. right'[a] = n /\ left'[a] = p
    BY <1>3, <1>4, <1>5, <1>7, <1>9 DEF a, n, p
  <2> QED BY <1>2, <1>4, <2>1, <2>2, <2>3, <2>4, <1>3
     DEF WriterPointers, Unlinking, IsBefore, a, n, p
<1>18. Searched'
  BY <1>1, <1>2, <1>3, <1>4, <1>12 DEF Searched, Unlinking, a
<1>19. Reading'
  <2>1. r.on => r.by # {}
    BY <1>1, <1>2 DEF Reading
  <2>2. r.on => \A x \in r.met : right'[x] \in r.met \cup {Null}
    <3>1. r.met \subseteq 1..Base
      BY <1>1, Types DEF Read, Elem, Base
    <3> QED BY <1>1, <1>6, <1>9, <3>1 DEF Reading, IsAfter
  <2> QED BY <1>1, <1>2, <1>3, <1>11, <2>1, <2>2 DEF Reading
<1>20. OneEntryPerMac'
  BY <1>1, <1>3 DEF OneEntryPerMac
<1> QED
  BY <1>13, <1>14, <1>15, <1>16, <1>17, <1>18, <1>19, <1>20 DEF IInv

\* ... and then cleans up the links of its neighbour and its own, while its right
\* link still leads an iteration that stands on it back to the list.
LEMMA RestoreInv ==
  ASSUME IInv, UnlinkLastLeft \/ UnlinkBack \/ UnlinkLeft \/ UnlinkRight
  PROVE  IInv'
<1>1. TypeOK /\ RightAgrees /\ LeftAgrees /\ NewEntry /\ WriterPointers /\ Searched
      /\ Reading /\ OneEntryPerMac
  BY DEF IInv
<1>2. UNCHANGED <<table, key, val, made, r, members>>
  BY DEF UnlinkLastLeft, UnlinkBack, UnlinkLeft, UnlinkRight
<1>3. /\ w.pc \in Unlinking /\ w'.new = w.new /\ w'.next = w.next
      /\ w'.pc = CASE w.pc = "unlinkBack" -> "unlinkLeft"
                   [] w.pc = "unlinkLeft" -> "unlinkRight"
                   [] OTHER -> "delete"
      /\ w'.at = IF w'.pc = "delete" THEN w.next ELSE w.at
  BY <1>1, Types
     DEF UnlinkLastLeft, UnlinkBack, UnlinkLeft, UnlinkRight, GoTo, Write, Unlinking
<1>4. w.at \in Elem /\ w.at \notin members /\ w.at < w.new /\ members \subseteq 1..Base
  BY <1>1, <1>3, Types DEF WriterPointers, Elem, Base
<1>5. TypeOK'
  BY UnlinkType
<1>6. RightAgrees'
  <2>1. \A x \in members \cup {Base} : right'[x] = right[x]
    BY <1>1, <1>4, Types DEF UnlinkLastLeft, UnlinkBack, UnlinkLeft, UnlinkRight, Elem, Base
  <2> QED BY <1>1, <1>2, <1>3, <2>1 DEF RightAgrees, IsAfter, Unlinking
<1>7. LeftAgrees'
  <2> SUFFICES ASSUME NEW x \in members PROVE IsBefore(x, left'[x])
    BY <1>2, <1>3 DEF LeftAgrees, Unlinking, IsBefore
  <2>1. CASE w.pc = "unlinkBack"
    <3>1. /\ right[w.at] = w.next /\ IsBefore(w.next, left[w.at])
          /\ left' = [left EXCEPT ![w.next] = left[w.at]]
      BY <1>1, <1>3, <2>1
         DEF WriterPointers, UnlinkLastLeft, UnlinkBack, UnlinkLeft, UnlinkRight
    <3>2. x # w.next => IsBefore(x, left[x])
      BY <1>1, <2>1, <3>1 DEF LeftAgrees
    <3> QED BY <1>1, <1>4, <3>1, <3>2, Types
  <2>2. CASE w.pc # "unlinkBack"
    <3>1. left'[x] = left[x]
      BY <1>1, <1>4, <2>2, Types DEF UnlinkLastLeft, UnlinkBack, UnlinkLeft, UnlinkRight
    <3>2. IsBefore(x, left[x])
      BY <1>1, <1>3, <2>2 DEF LeftAgrees, Unlinking
    <3> QED BY <3>1, <3>2
  <2> QED BY <2>1, <2>2
<1>8. NewEntry'
  <2>1. w.new = made /\ w.new \in Elem /\ w.new \notin members /\ members \subseteq 1..made
        /\ made \in Nat /\ w.at \in Nat
    BY <1>1, <1>3, <1>4, Types DEF NewEntry, Unlinking, Elem
  <2>2. \A x \in Elem : x >= made => right'[x] = right[x]
    BY <1>1, <1>4, <2>1, Types
       DEF UnlinkLastLeft, UnlinkBack, UnlinkLeft, UnlinkRight, Elem, Base
  <2>3. \A x \in Elem : x >= made => left'[x] = left[x]
    <3>1. w.pc = "unlinkBack" => right[w.at] \in members
      BY <1>1 DEF WriterPointers
    <3> QED BY <1>1, <1>4, <2>1, <3>1, Types
            DEF UnlinkLastLeft, UnlinkBack, UnlinkLeft, UnlinkRight, Elem, Base
  <2> QED BY <1>1, <1>2, <1>3, <2>1, <2>2, <2>3
     DEF NewEntry, Searching, Unlinking, Linking, Elem
<1>9. WriterPointers'
  BY <1>1, <1>2, <1>3 DEF WriterPointers, Unlinking
<1>10. Searched'
  BY <1>1, <1>2, <1>3 DEF Searched, Unlinking
<1>11. Reading'
  <2>1. r.on => \A x \in r.met : right'[x] \in r.met \cup {Null}
    <3>1. r.met \subseteq 1..Base
      BY <1>1, Types DEF Read, Elem, Base
    <3> QED BY <1>1, <1>4, <3>1, Types
            DEF Reading, UnlinkLastLeft, UnlinkBack, UnlinkLeft, UnlinkRight
  <2>2. r.on => r.by # {}
    BY <1>1, <1>3 DEF Reading, Unlinking
  <2> QED BY <1>1, <1>2, <1>3, <2>1, <2>2 DEF Reading
<1>12. OneEntryPerMac'
  BY <1>1, <1>2 DEF OneEntryPerMac
<1> QED
  BY <1>5, <1>6, <1>7, <1>8, <1>9, <1>10, <1>11, <1>12 DEF IInv

\* glthread_add_next makes the new entry the first of the list. Until its third
\* store nothing that is older can be reached ...
LEMMA PutInInv ==
  ASSUME IInv, Link \/ LinkOnly
  PROVE  IInv'
<1> DEFINE e == w.new
           f == right[Base]
<1>1. TypeOK /\ RightAgrees /\ LeftAgrees /\ NewEntry /\ WriterPointers /\ Searched
      /\ Reading /\ OneEntryPerMac
  BY DEF IInv
<1>2. /\ w.pc = "link" /\ w'.new = e
      /\ w'.pc = IF f = Null THEN "linkOnly" ELSE "linkLeft"
      /\ f # Null => w'.next = f
  BY <1>1, Types DEF Link, LinkOnly, GoTo, Write
<1>3. /\ UNCHANGED <<table, left, key, val, made>>
      /\ right' = [right EXCEPT ![Base] = e]
      /\ members' = members \cup {e}
  BY DEF Link, LinkOnly, PutIn
<1>4. /\ e \in Elem /\ e \in Nat /\ e < Base /\ e > Null /\ e = made /\ e \notin members
      /\ Base \in 1..Base /\ Base \in Nat
  BY <1>1, <1>2, Types DEF NewEntry, Searching, Elem, Base, Null
<1>5. \A m \in members : m \in 1..Base /\ m \in Nat /\ m < e /\ m > Null
  <2>1. members \subseteq 1..made /\ made \in Nat
    BY <1>1, Types DEF NewEntry
  <2> QED BY <1>4, <2>1 DEF Null
<1>6. f \in members \cup {Null} /\ f \in Nat /\ \A m \in members : m <= f
  BY <1>5, FirstIsNewest DEF Null
<1>7. right'[Base] = e /\ \A x \in 1..Base : x # Base => right'[x] = right[x]
  BY <1>1, <1>3, <1>4, Types
<1>8. right[e] = Null /\ left[e] = Null
  BY <1>1, <1>2 DEF NewEntry, Searching
<1>9. /\ r'.on = r.on /\ r'.by = r.by /\ r'.seen = r.seen /\ r'.ptr = r.ptr
      /\ r'.met = IF r.on THEN r.met \cup {e} ELSE r.met
  <2>1. r \in Read
    BY <1>1, Types
  <2>2. CASE r.on
    <3>1. r' = [r EXCEPT !.newest[key[e]] = @ \cup {val[e]}, !.met = @ \cup {e}]
      BY <2>2 DEF Link, LinkOnly, PutIn
    <3> QED BY <2>1, <2>2, <3>1 DEF Read
  <2>3. CASE ~r.on
    BY <2>3 DEF Link, LinkOnly, PutIn
  <2> QED BY <2>2, <2>3
<1>10. TypeOK'
  BY LinkType
<1> HIDE DEF e, f
<1>11. RightAgrees'
  <2> SUFFICES ASSUME NEW x \in members' \cup {Base}
               PROVE  IF w'.pc = "linkLeft" /\ x = e
                      THEN right'[x] = Null /\ IsAfter(x, w.next)'
                      ELSE IsAfter(x, right[x])'
    BY <1>2 DEF RightAgrees, e
  <2>1. CASE x = Base
    BY <1>3, <1>4, <1>5, <1>7, <2>1 DEF IsAfter
  <2>2. CASE x = e
    BY <1>2, <1>3, <1>4, <1>5, <1>6, <1>7, <1>8, <2>2 DEF IsAfter, Elem, Base
  <2>3. CASE x \in members
    <3>1. IsAfter(x, right[x])
      BY <1>1, <1>2, <2>3 DEF RightAgrees
    <3> QED BY <1>3, <1>4, <1>5, <1>7, <2>3, <3>1 DEF IsAfter
  <2> QED BY <1>3, <2>1, <2>2, <2>3
<1>12. LeftAgrees'
  <2> SUFFICES ASSUME NEW x \in members'
               PROVE  IF x = e THEN left[x] = Null
                      ELSE IF x = f THEN left[x] = Base
                      ELSE IsBefore(x, left[x])'
    BY <1>2, <1>3, <1>6, <1>5 DEF LeftAgrees, e
  <2>1. CASE x = e
    BY <1>8, <2>1
  <2>2. CASE x \in members
    <3>1. IsBefore(x, left[x]) /\ x \in Nat /\ x < e /\ left[x] \in Nat
      BY <1>1, <1>2, <1>4, <1>5, <2>2 DEF LeftAgrees, IsBefore
    <3>2. x = f => left[x] = Base
      BY <1>4, <1>5, <1>6, <3>1 DEF IsBefore
    <3>3. x # f => IsBefore(x, left[x])'
      BY <1>3, <1>4, <1>5, <1>6, <2>2, <3>1 DEF IsBefore
    <3> QED BY <3>1, <3>2, <3>3
  <2> QED BY <1>3, <2>1, <2>2
<1>13. NewEntry'
  <2>1. \A x \in Elem : right'[x] = right[x]
    BY <1>1, <1>7, Types DEF Elem, Base
  <2>2. members \subseteq 1..made /\ r.met \subseteq 1..made /\ e \in 1..made
    BY <1>1, <1>4 DEF NewEntry, Null
  <2>3. members' \subseteq 1..made' /\ r'.met \subseteq 1..made'
    BY <1>3, <1>9, <2>2
  <2>4. w'.pc \in {"linkOnly", "linkLeft"} /\ w'.new = made' /\ w'.new \in Elem /\ w'.new \in members'
    BY <1>2, <1>3, <1>4
  <2>5. \A x \in Elem : x > made' => right'[x] = Null /\ left'[x] = Null
    BY <1>1, <1>3, <2>1 DEF NewEntry
  <2> QED BY <2>3, <2>4, <2>5 DEF NewEntry, Searching, Unlinking, Linking
<1>14. WriterPointers'
  <2>1. f # Null => f \in members' /\ f < e
    BY <1>3, <1>5, <1>6
  <2>2. f = Null => members' = {e}
    <3>1. ASSUME f = Null PROVE members = {}
      BY <1>5, <1>6, <3>1
    <3> QED BY <1>3, <3>1
  <2> QED BY <1>2, <2>1, <2>2 DEF WriterPointers, Unlinking
<1>15. Searched'
  BY <1>2 DEF Searched, Unlinking
<1>16. Reading'
  <2>1. r.on => r.by # {}
    BY <1>1, <1>2 DEF Reading
  <2>2. r.on => \A x \in r.met : right'[x] \in r.met \cup {Null}
    <3>1. r.met \subseteq 1..Base /\ Base \notin r.met
      BY <1>1, Types DEF Read, Elem, Base
    <3> QED BY <1>1, <1>7, <3>1 DEF Reading
  <2>3. right'[e] = Null
    BY <1>4, <1>7, <1>8 DEF Elem, Base
  <2>4. r.on => \A s \in r.seen : r.ptr < s
    BY <1>1 DEF Reading
  <2> QED BY <1>1, <1>2, <1>3, <1>9, <2>1, <2>2, <2>3, <2>4 DEF Reading
<1>17. OneEntryPerMac'
  BY <1>1, <1>2, <1>3 DEF OneEntryPerMac, Searched, e
<1> QED
  BY <1>10, <1>11, <1>12, <1>13, <1>14, <1>15, <1>16, <1>17 DEF IInv

\* ... and its other stores put the links right again.
LEMMA FinishInv ==
  ASSUME IInv, LinkOnlyLeft \/ LinkLeft \/ LinkRight \/ LinkBack
  PROVE  IInv'
<1> DEFINE e == w.new
           f == w.next
<1>1. TypeOK /\ RightAgrees /\ LeftAgrees /\ NewEntry /\ WriterPointers /\ Searched
      /\ Reading /\ OneEntryPerMac
  BY DEF IInv
<1>2. UNCHANGED <<table, key, val, made, r, members>>
  BY DEF LinkOnlyLeft, LinkLeft, LinkRight, LinkBack
<1>3. /\ w.pc \in Linking
      /\ LinkOnlyLeft => w.pc = "linkOnly" /\ w'.pc = "idle"
      /\ LinkLeft => w.pc = "linkLeft" /\ w'.pc = "linkRight" /\ w'.new = e /\ w'.next = f
      /\ LinkRight => w.pc = "linkRight" /\ w'.pc = "linkBack" /\ w'.new = e /\ w'.next = f
      /\ LinkBack => w.pc = "linkBack" /\ w'.pc = "idle"
  BY <1>1, Types
     DEF LinkOnlyLeft, LinkLeft, LinkRight, LinkBack, GoTo, Write, NoWrite, Linking
<1>4. /\ e \in members /\ e \in Elem /\ e = made
      /\ w.pc # "linkOnly" => f \in members /\ f < e
  BY <1>1, <1>3 DEF NewEntry, WriterPointers, Linking
<1>5. /\ \A m \in members : m \in 1..Base /\ m \in Nat /\ m <= e /\ m < Base
      /\ Base \in Nat /\ e \in Nat
  <2>1. members \subseteq 1..made /\ made \in Nat
    BY <1>1, Types DEF NewEntry
  <2> QED BY <1>1, <1>4, <2>1, Types DEF Elem, Base
<1>6. IsBefore(e, Base)
  BY <1>4, <1>5 DEF IsBefore
<1>7. TypeOK'
  BY LinkType
<1>8. RightAgrees'
  <2>1. CASE LinkRight
    <3>1. right' = [right EXCEPT ![e] = f]
      BY <2>1 DEF LinkRight
    <3>2. w.pc = "linkRight" /\ IsAfter(e, f)
      BY <1>1, <1>3, <1>4, <2>1 DEF RightAgrees
    <3>3. \A x \in members \cup {Base} : x # e => right'[x] = right[x] /\ IsAfter(x, right[x])
      BY <1>1, <1>5, <3>1, <3>2, Types DEF RightAgrees, Base
    <3>4. right'[e] = f
      BY <1>1, <1>4, <1>5, <3>1, Types
    <3>5. w'.pc = "linkBack"
      BY <1>3, <2>1
    <3> HIDE DEF e, f
    <3> QED BY <1>2, <3>2, <3>3, <3>4, <3>5 DEF RightAgrees, IsAfter
  <2>2. CASE LinkLeft
    <3>1. right' = right
      BY <2>2 DEF LinkLeft
    <3> QED BY <1>1, <1>2, <1>3, <2>2, <3>1 DEF RightAgrees, IsAfter
  <2>3. CASE LinkOnlyLeft \/ LinkBack
    <3>1. right' = right
      BY <2>3 DEF LinkOnlyLeft, LinkBack
    <3> QED BY <1>1, <1>2, <1>3, <2>3, <3>1 DEF RightAgrees, IsAfter
  <2> QED BY <2>1, <2>2, <2>3
<1>9. LeftAgrees'
  <2>1. CASE LinkOnlyLeft
    <3>1. members = {e} /\ left'[e] = Base /\ w'.pc = "idle"
      BY <1>1, <1>3, <1>4, <1>5, <2>1, Types DEF LinkOnlyLeft, WriterPointers
    <3> QED BY <1>2, <1>6, <3>1 DEF LeftAgrees, IsBefore
  <2>2. CASE LinkLeft
    <3>1. left'[e] = Base /\ \A x \in members : x # e => left'[x] = left[x]
      BY <1>1, <1>4, <1>5, <2>2, Types DEF LinkLeft
    <3>2. w.pc = "linkLeft" /\ w'.pc = "linkRight" /\ w'.new = e /\ w'.next = f /\ f # e
      BY <1>3, <1>4, <1>5, <2>2
    <3>3. left[f] = Base /\ \A x \in members : x # e /\ x # f => IsBefore(x, left[x])
      BY <1>1, <1>4, <3>2 DEF LeftAgrees
    <3> HIDE DEF e, f
    <3> QED BY <1>2, <1>4, <1>6, <3>1, <3>2, <3>3 DEF LeftAgrees, IsBefore
  <2>3. CASE LinkRight
    <3>1. left' = left /\ w.pc = "linkRight" /\ w'.pc = "linkBack" /\ w'.next = f
      BY <1>3, <2>3 DEF LinkRight
    <3> QED BY <1>1, <1>2, <3>1 DEF LeftAgrees, IsBefore
  <2>4. CASE LinkBack
    <3>1. w.pc = "linkBack" /\ w'.pc = "idle" /\ left' = [left EXCEPT ![f] = e]
      BY <1>3, <2>4 DEF LinkBack
    <3>2. f \in members /\ f < e /\ f \in Nat
      BY <1>4, <1>5, <3>1
    <3>3. IsAfter(e, f)
      <4>1. IsAfter(e, right[e])
        BY <1>1, <1>4, <3>1 DEF RightAgrees
      <4>2. right[e] = f
        BY <1>1, <3>1 DEF WriterPointers
      <4> QED BY <4>1, <4>2
    <3>4. IsBefore(f, e)
      BY <1>4, <1>5, <3>2, <3>3 DEF IsBefore, IsAfter
    <3>5. \A x \in members : x # f => IsBefore(x, left[x]) /\ left'[x] = left[x]
      BY <1>1, <1>5, <3>1, Types DEF LeftAgrees
    <3>6. left'[f] = e
      BY <1>1, <1>5, <3>1, <3>2, Types
    <3> HIDE DEF e, f
    <3> QED BY <1>2, <3>1, <3>2, <3>4, <3>5, <3>6 DEF LeftAgrees, IsBefore
  <2> QED BY <2>1, <2>2, <2>3, <2>4
<1>10. NewEntry'
  <2>1. members \subseteq 1..made /\ made \in Nat
    BY <1>1, Types DEF NewEntry
  <2>2. \A x \in Elem : x > made => right'[x] = right[x] /\ left'[x] = left[x]
    <3>1. \/ UNCHANGED right
          \/ right' = [right EXCEPT ![e] = f]
      BY DEF LinkOnlyLeft, LinkLeft, LinkRight, LinkBack
    <3>2. \/ left' = [left EXCEPT ![e] = Base]
          \/ w.pc # "linkOnly" /\ left' = [left EXCEPT ![f] = e]
          \/ UNCHANGED left
      BY <1>3 DEF LinkOnlyLeft, LinkLeft, LinkRight, LinkBack
    <3>3. \A x \in Elem : x > made => x # e /\ (w.pc # "linkOnly" => x # f)
      BY <1>4, <1>5 DEF Elem
    <3>4. /\ \A x \in Elem : x \in 1..Base
          /\ right \in [1..Base -> Pointer] /\ left \in [1..Base -> Pointer]
      BY <1>1, Types DEF Elem, Base
    <3> HIDE DEF e, f
    <3>5. QED
      BY <3>1, <3>2, <3>3, <3>4
  <2>3. w'.pc \in Linking => w'.new = e
    BY <1>1, <1>3, Types
       DEF LinkOnlyLeft, LinkLeft, LinkRight, LinkBack, GoTo, Write, Linking
  <2>4. w'.pc \in Linking \cup {"idle"}
    BY <1>3 DEF Linking, LinkOnlyLeft, LinkLeft, LinkRight, LinkBack
  <2> QED BY <1>1, <1>2, <1>4, <2>2, <2>3, <2>4 DEF NewEntry, Searching, Unlinking, Linking
<1>11. WriterPointers'
  <2>1. CASE LinkOnlyLeft \/ LinkBack
    BY <1>3, <2>1 DEF WriterPointers, Unlinking
  <2>2. CASE LinkLeft
    BY <1>2, <1>3, <1>4, <2>2 DEF WriterPointers, Unlinking
  <2>3. CASE LinkRight
    <3>1. right'[e] = f
      BY <1>1, <1>4, <1>5, <2>3, Types DEF LinkRight
    <3> QED BY <1>2, <1>3, <1>4, <2>3, <3>1 DEF WriterPointers, Unlinking
  <2> QED BY <2>1, <2>2, <2>3
<1>12. Searched'
  BY <1>3 DEF Searched, Unlinking, LinkOnlyLeft, LinkLeft, LinkRight, LinkBack
<1>13. Reading'
  <2>1. r.on => r.by # {}
    BY <1>1, <1>3 DEF Reading, Linking
  <2>2. r.on => \A x \in r.met : right'[x] \in r.met \cup {Null}
    <3>1. r.met \subseteq 1..Base
      BY <1>1, Types DEF Read, Elem, Base
    <3>2. r.on /\ LinkRight => f \in r.met
      BY <1>1, <1>3, <1>4 DEF Reading
    <3> QED BY <1>1, <3>1, <3>2, Types
            DEF Reading, LinkOnlyLeft, LinkLeft, LinkRight, LinkBack
  <2> QED BY <1>1, <1>2, <2>1, <2>2 DEF Reading
<1>14. OneEntryPerMac'
  BY <1>1, <1>2 DEF OneEntryPerMac
<1> QED
  BY <1>7, <1>8, <1>9, <1>10, <1>11, <1>12, <1>13, <1>14 DEF IInv

\* An iteration meets older and older entries, all of which were in the list.
LEMMA ReadInv ==
  ASSUME IInv, Visit \/ EndRead \/ BeginRead
  PROVE  IInv'
<1>1. TypeOK /\ RightAgrees /\ LeftAgrees /\ NewEntry /\ WriterPointers /\ Searched
      /\ Reading /\ OneEntryPerMac
  BY DEF IInv
<1>2. UNCHANGED <<table, right, left, key, val, made, w, members>>
  BY DEF Visit, EndRead, BeginRead
<1>3. \A m \in members : m \in Nat /\ m \in 1..Base /\ m > Null
  BY <1>1, Types DEF Elem, Base, Null
<1>4. members \subseteq 1..made
  BY <1>1 DEF NewEntry
<1>5. TypeOK'
  BY ReadType
<1>6. Reading' /\ r'.met \subseteq 1..made /\ (r'.met = r.met \/ r'.met = {} \/ r'.met = members)
  <2>1. CASE Visit
    <3> DEFINE p == r.ptr
    <3>1. /\ r.on /\ p \in r.met /\ p \in 1..Base /\ p \in Nat /\ right[p] \in Nat /\ right[p] < p
      <4>1. r.on /\ p # Null
        BY <2>1 DEF Visit
      <4>2. p \in r.met /\ p \in 1..Base /\ p \in Nat
        BY <1>1, <4>1, Types DEF Reading, Read, Elem, Base
      <4> QED BY <1>1, <4>1, <4>2, RightType DEF Elem, Null
    <3>2. /\ r'.on = r.on /\ r'.by = r.by /\ r'.met = r.met
          /\ r'.seen = r.seen \cup {p} /\ r'.ptr = right[p]
      BY <1>1, <2>1, Types DEF Visit, Read
    <3>3. \A s \in r.seen : s \in Nat /\ p < s
      BY <1>1, <3>1, Types DEF Reading, Read, Elem
    <3>4. \A s \in r'.seen : r'.ptr < s
      BY <3>1, <3>2, <3>3
    <3>5. right[p] \in r.met \cup {Null}
      BY <1>1, <3>1 DEF Reading
    <3>6. ASSUME r.by = {}
          PROVE  /\ w.pc = "idle" /\ right[p] \in members \cup {Null}
                 /\ r'.seen = {m \in members : right[p] < m}
      <4>1. w.pc = "idle" /\ p \in members /\ r.seen = {m \in members : p < m}
        BY <1>1, <1>3, <3>1, <3>6, <2>1 DEF Reading, Visit
      <4>2. IsAfter(p, right[p])
        BY <1>1, <4>1 DEF RightAgrees
      <4>3. \A m \in members : right[p] < m <=> m = p \/ p < m
        BY <1>3, <3>1, <4>1, <4>2 DEF IsAfter
      <4> QED BY <3>2, <4>1, <4>2, <4>3 DEF IsAfter
    <3> HIDE DEF p
    <3> QED BY <1>1, <1>2, <3>1, <3>2, <3>4, <3>5, <3>6 DEF Reading, NewEntry
  <2>2. CASE EndRead
    <3>1. ~r'.on /\ r'.by = {} /\ r'.met = {} /\ r'.seen = {} /\ r'.ptr = Null
      BY <2>2 DEF EndRead, NoRead
    <3> QED BY <3>1 DEF Reading
  <2>3. CASE BeginRead
    <3>1. /\ r'.on /\ r'.ptr = right[Base] /\ r'.met = members /\ r'.seen = {}
          /\ r'.by = {} => w.pc = "idle"
      BY <2>3 DEF BeginRead
    <3>2. right[Base] \in members \cup {Null} /\ \A m \in members : m <= right[Base]
      BY FirstIsNewest
    <3>3. \A x \in members : right[x] \in members \cup {Null}
      BY <1>1 DEF RightAgrees, IsAfter
    <3>4. {m \in members : right[Base] < m} = {}
      BY <1>3, <3>2 DEF Null
    <3> QED BY <1>2, <1>4, <3>1, <3>2, <3>3, <3>4 DEF Reading
  <2> QED BY <2>1, <2>2, <2>3
<1>7. RightAgrees'
  BY <1>1, <1>2 DEF RightAgrees, IsAfter
<1>8. LeftAgrees'
  BY <1>1, <1>2 DEF LeftAgrees, IsBefore
<1>9. NewEntry'
  BY <1>1, <1>2, <1>6 DEF NewEntry
<1>10. WriterPointers'
  BY <1>1, <1>2 DEF WriterPointers, IsBefore
<1>11. Searched'
  BY <1>1, <1>2 DEF Searched
<1>12. OneEntryPerMac'
  BY <1>1, <1>2 DEF OneEntryPerMac
<1> QED
  BY <1>5, <1>6, <1>7, <1>8, <1>9, <1>10, <1>11, <1>12 DEF IInv

\* The entry that calloc returns is in no list yet.
LEMMA BeginAddInv ==
  ASSUME IInv, NEW k \in Key, NEW v \in Val, BeginAdd(k, v)
  PROVE  IInv'
<1> DEFINE e == made + 1
<1>1. TypeOK /\ RightAgrees /\ LeftAgrees /\ NewEntry /\ WriterPointers /\ Searched
      /\ Reading /\ OneEntryPerMac
  BY DEF IInv
<1>2. /\ UNCHANGED <<table, right, left, members>> /\ w.pc = "idle" /\ made' = e
      /\ key' = [key EXCEPT ![e] = k]
  BY DEF BeginAdd
<1>3. /\ w'.pc = IF table = "route" THEN "link" ELSE "lookup"
      /\ w'.new = e
      /\ table # "route" => w'.at = right[Base]
  BY DEF BeginAdd, NoWrite
<1>4. e \in Elem /\ made \in Nat /\ e > made /\ members \subseteq 1..made /\ r.met \subseteq 1..made
  BY <1>1, Types DEF BeginAdd, NewEntry, Elem
<1>5. /\ r'.on = r.on /\ r'.met = r.met /\ r'.seen = r.seen /\ r'.ptr = r.ptr
      /\ r'.by = IF r.on THEN r.by \cup {k} ELSE r.by
  BY <1>1, Types DEF BeginAdd, Read
<1>6. right[Base] \in members \cup {Null} /\ \A m \in members : m <= right[Base]
  BY FirstIsNewest
<1>7. \A m \in members : m \in Nat /\ m # e /\ m \in Elem /\ key'[m] = key[m]
  BY <1>1, <1>2, <1>4, Types
<1>8. right[e] = Null /\ left[e] = Null
  BY <1>1, <1>4 DEF NewEntry
<1>9. TypeOK'
  BY BeginAddType
<1>10. RightAgrees'
  BY <1>1, <1>2, <1>3 DEF RightAgrees, IsAfter
<1>11. LeftAgrees'
  BY <1>1, <1>2, <1>3 DEF LeftAgrees, IsBefore
<1>12. NewEntry'
  <2>1. members \subseteq 1..e /\ r.met \subseteq 1..e /\ e \notin members /\ e \notin r.met
    BY <1>4
  <2>2. \A x \in Elem : x > e => right[x] = Null /\ left[x] = Null
    BY <1>1, <1>4 DEF NewEntry, Elem
  <2>3. w'.pc \in {"link", "lookup"}
    BY <1>3
  <2> HIDE DEF e
  <2> QED BY <1>2, <1>3, <1>4, <1>5, <1>8, <2>1, <2>2, <2>3
     DEF NewEntry, Searching, Unlinking, Linking
<1>13. WriterPointers'
  BY <1>2, <1>3, <1>6 DEF WriterPointers, Unlinking
<1>14. Searched'
  <2>1. \A x \in members : ~(x > right[Base])
    BY <1>6, <1>7 DEF Null
  <2>2. table # "mac" \/ (w'.pc = "lookup" /\ w'.at = right[Base])
    BY <1>3
  <2> QED BY <1>2, <2>1, <2>2 DEF Searched, Unlinking
<1>15. Reading'
  <2>1. r.on => r'.by # {}
    BY <1>5
  <2>2. \A x \in r.met : x \in 1..e
    BY <1>4
  <2> HIDE DEF e
  <2> QED BY <1>1, <1>2, <1>5, <2>1, <2>2 DEF Reading
<1>16. OneEntryPerMac'
  BY <1>1, <1>2, <1>7 DEF OneEntryPerMac
<1> QED
  BY <1>9, <1>10, <1>11, <1>12, <1>13, <1>14, <1>15, <1>16 DEF IInv

-----------------------------------------------------------------------------
(* What the entries say *)

\* The numbers of the entries, and the values of those that were made.
LEMMA ValueTypes ==
  ASSUME IInv, Values
  PROVE  /\ \A m \in members : m \in Nat /\ m \in Elem /\ m > Null /\ m <= made
         /\ \A m \in r.met : m \in Nat /\ m \in Elem /\ m > Null /\ m <= made
         /\ \A m \in members \cup r.met : val[m] \in Val /\ key[m] \in Key
         /\ r.ptr \in Nat /\ made \in Nat /\ NoVal \notin Val
<1>1. TypeOK /\ NewEntry
  BY DEF IInv
<1>2. members \subseteq 1..made /\ r.met \subseteq 1..made /\ made \in Nat /\ r.met \subseteq Elem
      /\ members \subseteq Elem /\ key \in [Elem -> Key] /\ r.ptr \in Nat
  BY <1>1, Types DEF NewEntry, Read, Elem, Null
<1>3. NoVal \notin Val
  BY GlThreadAssumption
<1>4. \A m \in 1..made : m \in Nat /\ m > Null /\ m <= made
  BY <1>2 DEF Null
<1>5. \A m \in Elem : key[m] \in Key /\ (m <= made => val[m] \in Val)
  BY <1>2 DEF Values
<1> QED
  BY <1>2, <1>3, <1>4, <1>5

\* Looking for an entry comes past all those that are newer than the one it is at.
LEMMA SearchValues ==
  ASSUME IInv, Values, LookupNext \/ LookupMiss \/ LookupHit \/ DeleteNext \/ DeleteDone
  PROVE  Values'
<1>1. TypeOK /\ RightAgrees /\ NewEntry /\ WriterPointers
  BY DEF IInv
<1>2. UNCHANGED <<table, key, val, made, r, members, latest>>
  BY DEF LookupNext, LookupMiss, LookupHit, DeleteNext, DeleteDone
<1>3. /\ w'.new = w.new /\ w \in Write
      /\ w'.pc \in {"lookup", "update", "delete", "unlink", "link"}
      /\ w.pc \in {"lookup", "delete"}
  BY <1>1, Types DEF LookupNext, LookupMiss, LookupHit, DeleteNext, DeleteDone, GoTo, Write
<1>4. /\ w'.pc \in {"delete", "unlink"} => table = "mac"
      /\ w'.pc = "lookup" => w.pc = "lookup"
      /\ w'.pc = "update" => w.pc = "lookup" /\ w'.at = w.at /\ key[w.at] = key[w.new]
  BY <1>1, <1>3 DEF Values, LookupNext, LookupMiss, LookupHit, DeleteNext, DeleteDone, GoTo,
     Write, TypeOK
<1>5. ASSUME w'.pc = "lookup", NEW m \in members, m > w'.at
      PROVE  key[m] # key[w.new]
  <2>1. LookupNext
    BY <1>3, <1>5 DEF LookupNext, LookupMiss, LookupHit, DeleteNext, DeleteDone, GoTo, Write
  <2>2. w'.at = right[w.at] /\ key[w.at] # key[w.new] /\ w.pc = "lookup" /\ w.at \in members
    BY <1>1, <1>3, <2>1 DEF LookupNext, Write, WriterPointers
  <2>3. IsAfter(w.at, right[w.at])
    BY <1>1, <2>2 DEF RightAgrees
  <2>4. m = w.at \/ m > w.at
    <3>1. m \in Nat /\ w.at \in Nat /\ right[w.at] \in Nat
      BY <2>2, <2>3, ValueTypes DEF IsAfter, Null
    <3> QED BY <1>5, <2>2, <2>3, <3>1 DEF IsAfter
  <2> QED BY <2>2, <2>4 DEF Values
<1> QED
  BY <1>2, <1>3, <1>4, <1>5
     DEF Values, LookupIsCurrent, Newest, NewestAhead, Unlinking

\* Only the newest entry of a key is brought up to date.
LEMMA UpdateValues ==
  ASSUME IInv, Values, Update
  PROVE  Values'
<1> DEFINE a == w.at
           v == val[w.new]
           k == key[w.new]
<1>1. TypeOK /\ NewEntry /\ WriterPointers /\ Searched
  BY DEF IInv
<1>2. /\ w.pc = "update" /\ w'.pc = "link" /\ a \in members /\ a \in Elem
      /\ w.new \in Elem /\ w.new = made /\ made \in Nat
  BY <1>1, Types DEF Update, GoTo, Write, WriterPointers, NewEntry
<1>3. /\ UNCHANGED <<table, key, made, members>> /\ table # "mac"
      /\ val' = [val EXCEPT ![a] = v]
      /\ latest' = [latest EXCEPT ![k] = v]
      /\ r' = IF r.on THEN [r EXCEPT !.newest[k] = @ \cup {v}] ELSE r
  BY <1>1, <1>2 DEF Update, Publish, Searched
<1>4. v \in Val /\ k \in Key /\ key[a] = k
  BY <1>1, <1>2, Types DEF Values
<1>5. /\ r'.on = r.on /\ r'.met = r.met /\ r'.ptr = r.ptr /\ r'.found = r.found
      /\ r.on => \A q \in Key : r'.newest[q] = IF q = k THEN r.newest[q] \cup {v} ELSE r.newest[q]
  BY <1>1, <1>3, <1>4, Types DEF Read
<1>6. \A x \in Elem : val'[x] = IF x = a THEN v ELSE val[x]
  BY <1>1, <1>3, Types
<1>7. \A q \in Key : latest'[q] = IF q = k THEN v ELSE latest[q]
  BY <1>1, <1>3, Types
<1>8. \A x \in members : key[x] = k => x <= a
  <2>1. \A x \in members : x > a => key[x] # k
    BY <1>2 DEF Values
  <2> QED BY <1>2, <2>1, ValueTypes
<1>9. \A x \in members : x \in Elem /\ key[x] \in Key /\ x \in Nat
  BY ValueTypes
<1> HIDE DEF a, v, k
<1>10. \A x \in Elem : x <= made => val'[x] \in Val
  BY <1>4, <1>6 DEF Values
<1>11. \A x \in members : Newest(x) => val'[x] = latest'[key[x]]
  BY <1>2, <1>4, <1>6, <1>7, <1>8, <1>9 DEF Values, Newest
<1>12. r.on => r.met \subseteq members /\ \A x \in members :
                  NewestAhead(x) /\ r.found[key[x]] = NoVal => val'[x] \in r'.newest[key[x]]
  BY <1>3, <1>4, <1>5, <1>6, <1>9 DEF Values
<1>13. r.on => \A q \in Key : r.found[q] = NoVal \/ r.found[q] \in r'.newest[q]
  BY <1>5 DEF Values, LookupIsCurrent
<1> QED
  BY <1>2, <1>3, <1>5, <1>10, <1>11, <1>12, <1>13
     DEF Values, LookupIsCurrent, Newest, NewestAhead, Unlinking

\* An entry that is taken out was the only one of its address.
LEMMA TakeOutValues ==
  ASSUME IInv, Values, Unlink \/ UnlinkLast
  PROVE  Values'
<1> DEFINE a == w.at
           k == key[w.at]
<1>1. TypeOK /\ WriterPointers /\ OneEntryPerMac
  BY DEF IInv
<1>2. /\ w.pc = "unlink" /\ w'.pc \in {"unlinkLast", "unlinkBack"} /\ table = "mac"
      /\ a \in members /\ k \in Key
  BY <1>1, Types, ValueTypes DEF Unlink, UnlinkLast, GoTo, Write, WriterPointers, Values
<1>3. /\ UNCHANGED <<table, key, val, made>>
      /\ members' = members \ {a}
      /\ latest' = [latest EXCEPT ![k] = NoVal]
      /\ r' = IF r.on THEN [r EXCEPT !.newest[k] = @ \cup {NoVal}] ELSE r
  BY DEF Unlink, UnlinkLast, TakeOut, Publish
<1>4. /\ r'.on = r.on /\ r'.met = r.met /\ r'.ptr = r.ptr /\ r'.found = r.found
      /\ r.on => \A q \in Key : r.newest[q] \subseteq r'.newest[q]
  BY <1>1, <1>2, <1>3, Types DEF Read
<1>5. \A x \in members' : key[x] # k /\ key[x] \in Key /\ x \in members
  BY <1>1, <1>2, <1>3, ValueTypes DEF OneEntryPerMac
<1>6. \A q \in Key : q # k => latest'[q] = latest[q]
  BY <1>1, <1>3, Types
<1> HIDE DEF a, k
<1>7. \A x \in members' : Newest(x)
  BY <1>1, <1>2, <1>5, ValueTypes DEF OneEntryPerMac, Newest
<1>8. \A x \in members' : val[x] = latest'[key[x]]
  BY <1>5, <1>6, <1>7 DEF Values
<1>9. r.on => \A x \in r.met : val[x] \in r'.newest[key[x]]
  BY <1>2, <1>4, ValueTypes DEF Values
<1>10. r.on => \A q \in Key : r.found[q] = NoVal \/ r.found[q] \in r'.newest[q]
  BY <1>4 DEF Values, LookupIsCurrent
<1> QED
  BY <1>2, <1>3, <1>4, <1>8, <1>9, <1>10 DEF Values, LookupIsCurrent, Unlinking

\* The stores that repair links say nothing new.
LEMMA StoreValues ==
  ASSUME IInv, Values,
         \/ UnlinkLastLeft \/ UnlinkBack \/ UnlinkLeft \/ UnlinkRight
         \/ LinkOnlyLeft \/ LinkLeft \/ LinkRight \/ LinkBack
  PROVE  Values'
<1>1. w \in Write
  BY Types DEF IInv
<1>2. UNCHANGED <<table, key, val, made, r, members, latest>>
  BY DEF UnlinkLastLeft, UnlinkBack, UnlinkLeft, UnlinkRight,
         LinkOnlyLeft, LinkLeft, LinkRight, LinkBack
<1>3. \/ w.pc \in Unlinking /\ w'.pc \in {"delete", "unlinkLeft", "unlinkRight"}
      \/ w'.pc \in {"idle", "linkRight", "linkBack"}
  <2>1. CASE UnlinkLastLeft \/ UnlinkBack \/ UnlinkLeft \/ UnlinkRight
    BY <1>1, <2>1
       DEF UnlinkLastLeft, UnlinkBack, UnlinkLeft, UnlinkRight, Unlinking, GoTo, Write
  <2>2. CASE LinkOnlyLeft \/ LinkLeft \/ LinkRight \/ LinkBack
    BY <1>1, <2>2 DEF LinkOnlyLeft, LinkLeft, LinkRight, LinkBack, GoTo, Write, NoWrite
  <2> QED BY <2>1, <2>2
<1> QED
  BY <1>2, <1>3 DEF Values, LookupIsCurrent, Newest, NewestAhead, Unlinking

\* A new entry is the newest of its key, and behind every iteration.
LEMMA PutInValues ==
  ASSUME IInv, Values, Link \/ LinkOnly
  PROVE  Values'
<1> DEFINE e == w.new
           v == val[w.new]
           k == key[w.new]
<1>1. TypeOK /\ NewEntry /\ Reading
  BY DEF IInv
<1>2. /\ w'.pc \in {"linkOnly", "linkLeft"} /\ e \in Elem /\ e = made /\ e \in Nat
      /\ e \notin members /\ e \notin r.met
  BY <1>1, Types DEF Link, LinkOnly, GoTo, Write, NewEntry, Searching
<1>3. /\ UNCHANGED <<table, key, val, made>>
      /\ members' = members \cup {e}
      /\ latest' = [latest EXCEPT ![k] = v]
      /\ r' = IF r.on THEN [r EXCEPT !.newest[k] = @ \cup {v}, !.met = @ \cup {e}] ELSE r
  BY DEF Link, LinkOnly, PutIn
<1>4. v \in Val /\ k \in Key
  BY <1>1, <1>2, Types DEF Values
<1>5. r'.on = r.on /\ (~r.on => r' = r)
  BY <1>1, <1>3, Types DEF Read
<1>6. r.on =>
        /\ r'.met = r.met \cup {e} /\ r'.ptr = r.ptr /\ r'.found = r.found
        /\ \A q \in Key : r'.newest[q] = IF q = k THEN r.newest[q] \cup {v} ELSE r.newest[q]
  BY <1>1, <1>3, <1>4, Types DEF Read
<1>7. \A q \in Key : latest'[q] = IF q = k THEN v ELSE latest[q]
  BY <1>1, <1>3, Types
<1>8. \A x \in members : x < e /\ key[x] \in Key /\ x \in Nat
  BY <1>2, ValueTypes
<1>9. r.on => r.ptr < e
  <2>1. r.on => r.ptr \in r.met \cup {Null}
    BY <1>1 DEF Reading
  <2>2. \A x \in r.met : x < e
    BY <1>2, ValueTypes
  <2> QED BY <1>2, <2>1, <2>2 DEF Elem, Null
<1>10. /\ \A x \in members' : Newest(x)' => val[x] = latest'[key[x]]
  <2> SUFFICES ASSUME NEW x \in members', Newest(x)' PROVE val[x] = latest'[key[x]]
    OBVIOUS
  <2>1. CASE x = e
    BY <1>4, <1>7, <2>1
  <2>2. CASE x \in members
    <3>1. key[x] # k
      BY <1>3, <1>8, <1>2, <2>2 DEF Newest
    <3>2. Newest(x)
      BY <1>3, <2>2 DEF Newest
    <3> QED BY <1>7, <1>8, <2>2, <3>1, <3>2 DEF Values
  <2> QED BY <1>3, <2>1, <2>2
<1>11. r.on /\ table = "mac" => \A x \in r'.met : val[x] \in r'.newest[key[x]]
  <2> SUFFICES ASSUME r.on, table = "mac", NEW x \in r'.met PROVE val[x] \in r'.newest[key[x]]
    OBVIOUS
  <2>1. CASE x = e
    BY <1>4, <1>6, <2>1
  <2>2. CASE x \in r.met
    <3>1. val[x] \in r.newest[key[x]] /\ key[x] \in Key
      BY <2>2, ValueTypes DEF Values
    <3> QED BY <1>6, <3>1
  <2> QED BY <1>6, <2>1, <2>2
<1>12. ASSUME r.on, table # "mac"
       PROVE  /\ r'.met \subseteq members'
              /\ \A x \in members' : NewestAhead(x)' /\ r'.found[key[x]] = NoVal
                                     => val[x] \in r'.newest[key[x]]
  <2>1. r'.met \subseteq members'
    BY <1>3, <1>6, <1>12 DEF Values
  <2> SUFFICES ASSUME NEW x \in members', NewestAhead(x)', r'.found[key[x]] = NoVal
               PROVE  val[x] \in r'.newest[key[x]]
    BY <2>1
  <2>2. x \in members
    BY <1>2, <1>3, <1>6, <1>9, <1>12, ValueTypes DEF NewestAhead
  <2>3. NewestAhead(x)
    BY <1>3, <1>6, <1>12, <2>2 DEF NewestAhead
  <2>4. r.found[key[x]] = NoVal
    BY <1>6, <1>12
  <2>5. val[x] \in r.newest[key[x]]
    BY <1>12, <2>2, <2>3, <2>4 DEF Values
  <2> HIDE DEF e, v, k
  <2> QED BY <1>6, <1>8, <1>12, <2>2, <2>5
<1>13. r.on => \A q \in Key : r'.found[q] = NoVal \/ r'.found[q] \in r'.newest[q]
  <2> SUFFICES ASSUME r.on, NEW q \in Key
               PROVE  r'.found[q] = NoVal \/ r'.found[q] \in r'.newest[q]
    OBVIOUS
  <2>1. r.found[q] = NoVal \/ r.found[q] \in r.newest[q]
    BY DEF Values, LookupIsCurrent
  <2> HIDE DEF e, v, k
  <2> QED BY <1>6, <2>1
<1> HIDE DEF e, v, k
<1> QED
  BY <1>2, <1>3, <1>5, <1>10, <1>11, <1>12, <1>13 DEF Values, LookupIsCurrent, Unlinking

\* An iteration that comes to an entry finds the newest of those it has not passed.
LEMMA VisitValues ==
  ASSUME IInv, Values, Visit
  PROVE  Values'
<1> DEFINE p == r.ptr
           k == key[p]
<1>1. TypeOK /\ RightAgrees /\ Reading
  BY DEF IInv
<1>2. UNCHANGED <<table, key, val, made, w, members, latest>>
  BY DEF Visit
<1>3. r.on /\ p # Null /\ p \in r.met /\ k \in Key /\ val[p] \in Val /\ p \in Nat
  BY <1>1, ValueTypes DEF Visit, Reading
<1>4. /\ r'.on = r.on /\ r'.met = r.met /\ r'.newest = r.newest /\ r'.ptr = right[p]
      /\ \A q \in Key : r'.found[q] = IF q = k /\ r.found[q] = NoVal THEN val[p] ELSE r.found[q]
  BY <1>1, <1>3, Types DEF Visit, Read
<1>5. r.found[k] = NoVal => val[p] \in r.newest[k]
  <2>1. table # "mac" => p \in members /\ NewestAhead(p)
    BY <1>3 DEF Values, NewestAhead
  <2> QED BY <1>3, <2>1 DEF Values
<1>6. LookupIsCurrent'
  BY <1>3, <1>4, <1>5 DEF Values, LookupIsCurrent
<1>7. ASSUME table # "mac", NEW x \in members, NewestAhead(x)', r'.found[key[x]] = NoVal
      PROVE  val[x] \in r.newest[key[x]]
  <2>1. x \in Nat /\ x > Null /\ x <= right[p] /\ key[x] \in Key /\ p \in members
    BY <1>2, <1>3, <1>4, <1>7, ValueTypes DEF NewestAhead, Values
  <2>2. r.found[key[x]] = NoVal /\ key[x] # k
    BY <1>3, <1>4, <1>7, <2>1, ValueTypes
  <2>3. IsAfter(p, right[p])
    <3>1. right[p] # Null
      BY <2>1 DEF Null
    <3> QED BY <1>1, <2>1, <3>1 DEF RightAgrees
  <2>4. right[p] \in Nat
    BY <2>3, ValueTypes DEF IsAfter, Null
  <2>5. NewestAhead(x)
    <3> SUFFICES ASSUME NEW y \in members, y <= p, key[y] = key[x] PROVE y <= x
      BY <1>3, <2>1, <2>3, <2>4, ValueTypes DEF NewestAhead, IsAfter
    <3>1. y \in Nat /\ y < p
      BY <1>3, <2>2, ValueTypes
    <3>2. y <= right[p]
      BY <2>3, <3>1 DEF IsAfter
    <3> QED BY <1>2, <1>4, <1>7, <3>2 DEF NewestAhead
  <2> QED BY <1>3, <1>7, <2>2, <2>5 DEF Values
<1> HIDE DEF p, k
<1> QED
  BY <1>2, <1>3, <1>4, <1>6, <1>7 DEF Values, Newest

\* An iteration that begins has passed nothing.
LEMMA ReadValues ==
  ASSUME IInv, Values, EndRead \/ BeginRead
  PROVE  Values'
<1>1. OneEntryPerMac
  BY DEF IInv
<1>2. UNCHANGED <<table, key, val, made, w, members, latest>>
  BY DEF EndRead, BeginRead
<1>3. CASE EndRead
  BY <1>2, <1>3 DEF EndRead, NoRead, Values, LookupIsCurrent, Newest
<1>4. CASE BeginRead
  <2>1. /\ r'.on /\ r'.met = members /\ r'.ptr = right[Base]
        /\ \A q \in Key : r'.found[q] = NoVal /\ r'.newest[q] = {latest[q]}
    BY <1>4 DEF BeginRead
  <2>2. \A m \in members : m <= right[Base] /\ key[m] \in Key
    BY FirstIsNewest, ValueTypes
  <2>3. \A x \in members : NewestAhead(x)' => Newest(x)
    BY <1>2, <2>1, <2>2 DEF NewestAhead, Newest
  <2>4. table = "mac" => \A x \in members : Newest(x)
    BY <1>1, ValueTypes DEF OneEntryPerMac, Newest
  <2>5. \A x \in members : Newest(x) => val[x] \in r'.newest[key[x]]
    BY <2>1, <2>2 DEF Values
  <2>6. LookupIsCurrent'
    BY <2>1 DEF LookupIsCurrent
  <2> QED BY <1>2, <2>1, <2>3, <2>4, <2>5, <2>6 DEF Values, Newest
<1> QED
  BY <1>3, <1>4

\* An addition that begins says nothing yet.
LEMMA BeginAddValues ==
  ASSUME IInv, Values, NEW k \in Key, NEW v \in Val, BeginAdd(k, v)
  PROVE  Values'
<1> DEFINE e == made + 1
<1>1. TypeOK
  BY DEF IInv
<1>2. /\ UNCHANGED <<table, members, latest>> /\ made' = e
      /\ key' = [key EXCEPT ![e] = k] /\ val' = [val EXCEPT ![e] = v]
      /\ w'.pc = IF table = "route" THEN "link" ELSE "lookup"
      /\ table # "route" => w'.at = right[Base]
  BY DEF BeginAdd, NoWrite
<1>3. /\ r'.on = r.on /\ r'.met = r.met /\ r'.ptr = r.ptr /\ r'.found = r.found
      /\ r'.newest = r.newest
  BY <1>1, Types DEF BeginAdd, Read
<1>4. /\ \A m \in members \cup r.met : m # e /\ key'[m] = key[m] /\ val'[m] = val[m]
      /\ \A x \in Elem : val'[x] = IF x = e THEN v ELSE val[x]
  BY <1>1, <1>2, Types, ValueTypes
<1>5. \A m \in members : m \in Nat /\ m <= right[Base]
  BY FirstIsNewest, ValueTypes
<1>6. \A x \in Elem : x <= e => val'[x] \in Val
  <2>1. \A x \in Elem : x <= e /\ x # e => x <= made
    BY <1>1, Types DEF Elem
  <2> QED BY <1>4, <2>1 DEF Values
<1>7. w'.pc = "lookup" => \A m \in members : ~(m > w'.at)
  <2>1. right[Base] \in Nat
    BY FirstIsNewest, ValueTypes DEF Null
  <2> QED BY <1>2, <1>5, <2>1
<1>8. \A x \in members : Newest(x)' => Newest(x)
  BY <1>2, <1>4 DEF Newest
<1>9. \A x \in members : NewestAhead(x)' => NewestAhead(x)
  BY <1>2, <1>3, <1>4 DEF NewestAhead
<1>10. LookupIsCurrent'
  BY <1>3 DEF Values, LookupIsCurrent
<1> HIDE DEF e
<1> QED
  BY <1>2, <1>3, <1>4, <1>6, <1>7, <1>8, <1>9, <1>10 DEF Values, Unlinking

-----------------------------------------------------------------------------
(* The theorems *)

\* An empty list, or one of the preset entry, is in order.
LEMMA InitInv ==
  ASSUME Init
  PROVE  IInv
<1>1. MaxAdds \in Nat \ {0} /\ Broadcast \in Key /\ PresetVal \in Val /\ NoVal \notin Val
  BY GlThreadAssumption DEF PresetVal
<1>2. /\ First \in {0, 1} /\ First \in Elem \cup {Null} /\ First <= MaxAdds /\ First < Base
      /\ Presets = IF First = 1 THEN {1} ELSE {}
      /\ Base \in Nat /\ Base \in 1..Base /\ Base > 1
  BY <1>1 DEF First, Presets, Elem, Null, Base
<1>3. w = NoWrite /\ NoWrite \in Write /\ w.pc = "idle"
  BY DEF Init, NoWrite, Write, WriterPc, Null
<1>4. r = NoRead /\ NoRead \in Read /\ ~r.on /\ r.by = {} /\ r.met = {} /\ r.seen = {}
      /\ r.ptr = Null
  BY DEF Init, NoRead, Read
<1>5. /\ right = [x \in 1..Base |-> IF x = Base THEN First ELSE Null]
      /\ left = [x \in 1..Base |-> IF x = First THEN Base ELSE Null]
      /\ members = Presets /\ made = First
  BY DEF Init
<1>6. TypeOK
  <2>1. right \in [1..Base -> Pointer] /\ left \in [1..Base -> Pointer]
    BY <1>1, <1>2, <1>5 DEF Pointer, Null, Base
  <2>2. \A x \in 1..Base : right[x] < x
    BY <1>2, <1>5 DEF Null
  <2>3. made \in 0..MaxAdds /\ members \subseteq Elem
    BY <1>1, <1>2, <1>5 DEF Elem
  <2>4. key \in [Elem -> Key] /\ val \in [Elem -> Val \cup {NoVal}]
        /\ latest \in [Key -> Val \cup {NoVal}]
    BY <1>1 DEF Init
  <2>5. table \in {"route", "arp", "mac"}
    BY DEF Init
  <2> QED BY <1>3, <1>4, <2>1, <2>2, <2>3, <2>4, <2>5 DEF TypeOK
<1>7. RightAgrees
  BY <1>2, <1>3, <1>5 DEF RightAgrees, IsAfter, Null
<1>8. LeftAgrees
  BY <1>2, <1>3, <1>5 DEF LeftAgrees, IsBefore
<1>9. NewEntry
  <2>1. members \subseteq 1..made /\ r.met \subseteq 1..made
    BY <1>2, <1>4, <1>5
  <2>2. \A x \in Elem : x > made => x \in 1..Base /\ x # Base /\ x # First
    BY <1>1, <1>2, <1>5 DEF Elem, Base
  <2>3. \A x \in Elem : x > made => right[x] = Null /\ left[x] = Null
    BY <1>5, <2>2
  <2> QED BY <1>3, <2>1, <2>3 DEF NewEntry, Searching, Unlinking, Linking
<1>10. WriterPointers /\ Searched
  BY <1>3 DEF WriterPointers, Searched, Unlinking
<1>11. Reading
  BY <1>4 DEF Reading
<1>12. OneEntryPerMac
  BY <1>2, <1>5 DEF OneEntryPerMac
<1> QED
  BY <1>6, <1>7, <1>8, <1>9, <1>10, <1>11, <1>12 DEF IInv

\* The preset entry is the newest of its key, and nobody reads yet.
LEMMA InitValues ==
  ASSUME Init
  PROVE  Values
<1>1. MaxAdds \in Nat \ {0} /\ PresetVal \in Val
  BY GlThreadAssumption DEF PresetVal
<1>2. w.pc = "idle" /\ ~r.on
  BY DEF Init, NoWrite, NoRead
<1>3. \A x \in Elem : x <= made => x = First
  BY <1>1 DEF Init, First, Elem, Null
<1>4. \A x \in Elem : x <= made => val[x] \in Val
  BY <1>1, <1>3 DEF Init
<1>5. \A x \in members : val[x] = latest[key[x]]
  <2> SUFFICES ASSUME NEW x \in members PROVE val[x] = latest[key[x]]
    OBVIOUS
  <2>1. x = First /\ x \in Elem /\ members = Presets /\ Presets # {}
    BY DEF Init, Presets
  <2>2. val[x] = PresetVal /\ key[x] = Broadcast
    BY <2>1 DEF Init
  <2>3. latest[Broadcast] = PresetVal
    BY <2>1, GlThreadAssumption DEF Init
  <2> QED BY <2>2, <2>3
<1> QED
  BY <1>2, <1>4, <1>5 DEF Values, LookupIsCurrent, Unlinking

\* Every step keeps the list in order.
LEMMA NextInv ==
  ASSUME IInv, [Next]_vars
  PROVE  IInv'
<1>1. CASE \E k \in Key, v \in Val : BeginAdd(k, v)
  BY <1>1, BeginAddInv
<1>2. CASE WriterStep
  BY <1>2, SearchInv, UpdateInv, TakeOutInv, RestoreInv, PutInInv, FinishInv DEF WriterStep
<1>3. CASE ReaderStep \/ BeginRead
  BY <1>3, ReadInv DEF ReaderStep
<1>4. CASE UNCHANGED vars
  BY <1>4 DEF vars, IInv, TypeOK, RightAgrees, LeftAgrees, NewEntry, WriterPointers,
      Searched,
              Reading, OneEntryPerMac, IsAfter, IsBefore
<1> QED
  BY <1>1, <1>2, <1>3, <1>4 DEF Next

\* Every step keeps what the entries say true.
LEMMA NextValues ==
  ASSUME IInv, Values, [Next]_vars
  PROVE  Values'
<1>1. CASE \E k \in Key, v \in Val : BeginAdd(k, v)
  BY <1>1, BeginAddValues
<1>2. CASE WriterStep
  BY <1>2, SearchValues, UpdateValues, TakeOutValues, StoreValues, PutInValues
     DEF WriterStep
<1>3. CASE ReaderStep \/ BeginRead
  BY <1>3, VisitValues, ReadValues DEF ReaderStep
<1>4. CASE UNCHANGED vars
  BY <1>4 DEF vars, Values, LookupIsCurrent, Newest, NewestAhead
<1> QED
  BY <1>1, <1>2, <1>3, <1>4 DEF Next

\* The inductive invariant holds in every state.
THEOREM Invariance == Spec => [](IInv /\ Values)
<1>1. Init => IInv /\ Values
  BY InitInv, InitValues
<1>2. IInv /\ Values /\ [Next]_vars => IInv' /\ Values'
  BY NextInv, NextValues
<1> QED
  BY <1>1, <1>2, PTL DEF Spec

\* The variables of the list have their types, and its right links always descend:
\* however the stores of the two threads interleave, no iteration can circle
\* (glthread_add_next, remove_glthread).
THEOREM TypeCorrect == Spec => []TypeOK
  BY Invariance, PTL DEF IInv

\* Only the links that the call in progress has yet to store disagree.
LEMMA LinksFollow ==
  ASSUME IInv
  PROVE  LinksAgree
<1>1. TypeOK /\ RightAgrees /\ LeftAgrees /\ NewEntry /\ WriterPointers
  BY DEF IInv
<1>2. \A m \in members : m \in Nat /\ m > Null /\ m < Base
  BY <1>1, Types DEF Elem, Base, Null
<1>3. ASSUME NEW x \in members \cup {Base}, NEW y, IsAfter(x, y)
      PROVE  After(x) = {y} \ {Null}
  <2>1. ASSUME NEW z \in After(x) PROVE z = y /\ z # Null
    BY <1>2, <1>3, <2>1 DEF After, IsAfter, Null
  <2>2. y # Null => y \in After(x)
    BY <1>2, <1>3 DEF After, IsAfter
  <2> QED BY <2>1, <2>2
<1>4. ASSUME NEW x \in members, NEW y, IsBefore(x, y)
      PROVE  Before(x) = {y}
  <2>1. ASSUME NEW z \in Before(x) PROVE z = y
    BY <1>1, <1>2, <1>4, <2>1, Types DEF Before, IsBefore
  <2>2. y \in Before(x)
    BY <1>2, <1>4 DEF Before, IsBefore
  <2> QED BY <2>1, <2>2
<1>5. \A x \in members \cup {Base} :
        IF w.pc \in {"linkLeft", "linkRight"} /\ x = w.new
        THEN right[x] = Null /\ After(x) = {w.next}
        ELSE After(x) = {right[x]} \ {Null}
  <2> TAKE x \in members \cup {Base}
  <2>1. CASE w.pc \in {"linkLeft", "linkRight"} /\ x = w.new
    <3>1. w.next # Null
      BY <1>1, <1>2, <2>1 DEF WriterPointers
    <3> QED BY <1>1, <1>3, <2>1, <3>1 DEF RightAgrees
  <2>2. CASE ~(w.pc \in {"linkLeft", "linkRight"} /\ x = w.new)
    <3>1. IsAfter(x, right[x])
      BY <1>1, <2>2 DEF RightAgrees
    <3> QED BY <1>3, <2>2, <3>1
  <2> QED BY <2>1, <2>2
<1>6. \A x \in members :
        CASE w.pc \in {"linkOnly", "linkLeft"} /\ x = w.new -> left[x] = Null
          [] w.pc \in {"linkLeft", "linkRight", "linkBack"} /\ x = w.next -> left[x] = Base
          [] w.pc = "unlinkBack" /\ x = right[w.at] -> left[x] = w.at
          [] OTHER -> Before(x) = {left[x]}
  BY <1>1, <1>4 DEF LeftAgrees
<1> QED
  BY <1>5, <1>6 DEF LinksAgree

\* Whatever store the writer is at, each link of the list leads to the neighbour or
\* is one of those that its call has yet to store.
THEOREM LinksCorrect == Spec => []LinksAgree
<1>1. IInv => LinksAgree
  BY LinksFollow
<1> QED
  BY <1>1, Invariance, PTL

\* mac_table_entry_add never leaves two entries for one address, however strcmp
\* reads the addresses.
THEOREM OneEntry == Spec => []OneEntryPerMac
  BY Invariance, PTL DEF IInv

\* Whatever an iteration finds first for a key was the newest entry for that key at
\* some moment of the iteration, duplicates, updates and removals notwithstanding.
THEOREM LookupsAreCurrent == Spec => []LookupIsCurrent
  BY Invariance, PTL DEF Values

-----------------------------------------------------------------------------
(* A key that only its own additions touch *)

\* Every key that was in the list when the iteration began is found or still ahead. An
\* entry that hides the older ones for a moment is of the key that is looked for.
Ahead(k) == \E y \in members : y <= r.ptr /\ key[y] = k

KnownAhead ==
    table # "mac" /\ r.on =>
        /\ w.pc # "idle" => key[w.new] \in r.by
        /\ \A k \in r.known : r.by \subseteq {k} => r.found[k] # NoVal \/ Ahead(k)

\* A list that is no MAC table only grows under an iteration.
LEMMA WriterKnown ==
  ASSUME IInv, Values, KnownAhead, WriterStep
  PROVE  KnownAhead'
<1>1. TypeOK /\ w \in Write /\ r \in Read
  BY Types DEF IInv
<1>2. table' = table /\ key' = key
  BY DEF WriterStep, LookupNext, LookupMiss, LookupHit, Update, DeleteNext, DeleteDone,
         Unlink, UnlinkLast, TakeOut, UnlinkLastLeft, UnlinkBack, UnlinkLeft, UnlinkRight,
         Link, LinkOnly, PutIn, LinkOnlyLeft, LinkLeft, LinkRight, LinkBack
<1>3. w.pc # "idle" /\ (w'.pc # "idle" => w'.new = w.new)
  <2>1. CASE LookupNext \/ LookupMiss \/ LookupHit \/ Update \/ DeleteNext \/ DeleteDone
    BY <1>1, <2>1
       DEF LookupNext, LookupMiss, LookupHit, Update, DeleteNext, DeleteDone, GoTo, Write
  <2>2. CASE Unlink \/ UnlinkLast \/ UnlinkLastLeft \/ UnlinkBack \/ UnlinkLeft \/ UnlinkRight
    BY <1>1, <2>2
       DEF Unlink, UnlinkLast, UnlinkLastLeft, UnlinkBack, UnlinkLeft, UnlinkRight, GoTo, Write
  <2>3. CASE Link
    BY <1>1, <2>3 DEF Link, Write
  <2>4. CASE LinkOnly \/ LinkLeft \/ LinkRight
    BY <1>1, <2>4 DEF LinkOnly, LinkLeft, LinkRight, GoTo, Write
  <2>5. CASE LinkOnlyLeft \/ LinkBack
    BY <2>5 DEF LinkOnlyLeft, LinkBack, NoWrite
  <2> QED BY <2>1, <2>2, <2>3, <2>4, <2>5 DEF WriterStep
<1>4. table # "mac" => members \subseteq members'
  <2>1. CASE Unlink \/ UnlinkLast
    BY <2>1 DEF Unlink, UnlinkLast, Values
  <2>2. CASE Link \/ LinkOnly
    BY <2>2 DEF Link, LinkOnly, PutIn
  <2>3. CASE ~(Unlink \/ UnlinkLast \/ Link \/ LinkOnly)
    BY <2>3
       DEF WriterStep, LookupNext, LookupMiss, LookupHit, Update, DeleteNext, DeleteDone,
           UnlinkLastLeft, UnlinkBack, UnlinkLeft, UnlinkRight,
           LinkOnlyLeft, LinkLeft, LinkRight, LinkBack
  <2> QED BY <2>1, <2>2, <2>3
<1>5. /\ r'.on = r.on
      /\ r.on => r'.ptr = r.ptr /\ r'.by = r.by /\ r'.known = r.known /\ r'.found = r.found
  <2>1. CASE UNCHANGED r
    BY <2>1
  <2>2. CASE Update \/ Unlink \/ UnlinkLast
    BY <1>1, <2>2 DEF Update, Unlink, UnlinkLast, TakeOut, Publish, Read
  <2>3. CASE Link \/ LinkOnly
    BY <1>1, <2>3 DEF Link, LinkOnly, PutIn, Read
  <2> QED
    BY <2>1, <2>2, <2>3
       DEF WriterStep, LookupNext, LookupMiss, LookupHit, DeleteNext, DeleteDone,
           UnlinkLastLeft, UnlinkBack, UnlinkLeft, UnlinkRight,
           LinkOnlyLeft, LinkLeft, LinkRight, LinkBack
<1> QED
  BY <1>2, <1>3, <1>4, <1>5 DEF KnownAhead, Ahead

\* The entry whose right is not yet stored is of the key that is being added.
LEMMA VisitKnown ==
  ASSUME IInv, Values, KnownAhead, Visit
  PROVE  KnownAhead'
<1> DEFINE p == r.ptr
<1>1. TypeOK /\ RightAgrees /\ Reading
  BY DEF IInv
<1>2. UNCHANGED <<table, key, w, members>>
  BY DEF Visit
<1>3. r.on /\ p # Null /\ p \in r.met /\ key[p] \in Key /\ val[p] \in Val /\ p \in Nat
  BY <1>1, ValueTypes DEF Visit, Reading
<1>4. /\ r'.on /\ r'.by = r.by /\ r'.known = r.known /\ r'.ptr = right[p]
      /\ \A q \in Key : r'.found[q] = IF q = key[p] /\ r.found[q] = NoVal
                                      THEN val[p] ELSE r.found[q]
  BY <1>1, <1>3, Types DEF Visit, Read
<1>5. NoVal \notin Val /\ r.known \subseteq Key
  BY <1>1, GlThreadAssumption, Types DEF Read
<1> HIDE DEF p
<1>6. ASSUME table # "mac", NEW k \in r.known, r.by \subseteq {k}, r'.found[k] = NoVal
      PROVE  Ahead(k)'
  <2>1. key[p] # k /\ r.found[k] = NoVal /\ p \in members
    BY <1>3, <1>4, <1>5, <1>6 DEF Values
  <2>2. PICK y \in members : y <= p /\ key[y] = k
    BY <1>3, <1>6, <2>1 DEF KnownAhead, Ahead, p
  <2>3. y < p
    BY <1>3, <2>1, <2>2, ValueTypes
  <2>4. ~(w.pc \in {"linkLeft", "linkRight"} /\ p = w.new)
    BY <1>3, <1>6, <2>1 DEF KnownAhead
  <2>5. IsAfter(p, right[p])
    BY <1>1, <2>1, <2>4 DEF RightAgrees
  <2> QED BY <1>2, <1>4, <2>2, <2>3, <2>5 DEF Ahead, IsAfter
<1> QED
  BY <1>2, <1>3, <1>4, <1>6 DEF KnownAhead

\* An iteration that begins has the whole list ahead.
LEMMA ReadKnown ==
  ASSUME IInv, Values, KnownAhead, EndRead \/ BeginRead
  PROVE  KnownAhead'
<1>1. UNCHANGED <<table, key, w, members>>
  BY DEF EndRead, BeginRead
<1>2. CASE EndRead
  BY <1>2 DEF EndRead, NoRead, KnownAhead
<1>3. CASE BeginRead
  <2>1. /\ r'.ptr = right[Base] /\ r'.known = {key[m] : m \in members}
        /\ w.pc # "idle" => r'.by = {key[w.new]}
    BY <1>3 DEF BeginRead
  <2>2. \A m \in members : m <= right[Base]
    BY FirstIsNewest
  <2> QED BY <1>1, <2>1, <2>2 DEF KnownAhead, Ahead
<1> QED
  BY <1>2, <1>3

LEMMA BeginAddKnown ==
  ASSUME IInv, Values, KnownAhead, NEW k \in Key, NEW v \in Val, BeginAdd(k, v)
  PROVE  KnownAhead'
<1> DEFINE e == made + 1
<1>1. TypeOK
  BY DEF IInv
<1>2. /\ UNCHANGED <<table, members>> /\ key' = [key EXCEPT ![e] = k] /\ w'.new = e
  BY DEF BeginAdd, NoWrite
<1>3. /\ r'.on = r.on
      /\ r.on => /\ r'.ptr = r.ptr /\ r'.known = r.known /\ r'.found = r.found
                 /\ r'.by = r.by \cup {k}
  BY <1>1, Types DEF BeginAdd, Read
<1>4. e \in Elem /\ key'[e] = k /\ \A m \in members : key'[m] = key[m]
  <2>1. e \in Elem
    BY <1>1, Types DEF BeginAdd, Elem
  <2>2. \A m \in members : m # e
    BY <1>1, ValueTypes
  <2> QED BY <1>1, <1>2, <2>1, <2>2, Types
<1> HIDE DEF e
<1> QED
  BY <1>2, <1>3, <1>4 DEF KnownAhead, Ahead

\* Every step keeps the known keys ahead.
LEMMA NextKnown ==
  ASSUME IInv, Values, KnownAhead, [Next]_vars
  PROVE  KnownAhead'
<1>1. CASE \E k \in Key, v \in Val : BeginAdd(k, v)
  BY <1>1, BeginAddKnown
<1>2. CASE WriterStep
  BY <1>2, WriterKnown
<1>3. CASE ReaderStep \/ BeginRead
  BY <1>3, VisitKnown, ReadKnown DEF ReaderStep
<1>4. CASE UNCHANGED vars
  BY <1>4 DEF vars, KnownAhead, Ahead
<1> QED
  BY <1>1, <1>2, <1>3, <1>4 DEF Next

\* At the end of an iteration nothing is ahead.
LEMMA NothingAhead ==
  ASSUME IInv, Values, KnownAhead
  PROVE  OwnAddNeverHides
<1>1. \A k \in Key : r.ptr = Null => ~Ahead(k)
  BY ValueTypes DEF Ahead, Null
<1>2. r.known \subseteq Key
  BY Types DEF IInv, Read
<1> QED
  BY <1>1, <1>2 DEF KnownAhead, OwnAddNeverHides

\* A route or ARP lookup that only renewals of the same key overlap finds the key if
\* it was there at the start, although glthread_add_next hides every older entry
\* between its first store and its third.
THEOREM RenewalsHideNothing == Spec => []OwnAddNeverHides
<1>1. Init => KnownAhead
  BY DEF Init, NoRead, KnownAhead
<1>2. IInv /\ Values /\ KnownAhead /\ [Next]_vars => KnownAhead'
  BY NextKnown
<1>3. IInv /\ Values /\ KnownAhead => OwnAddNeverHides
  BY NothingAhead
<1>4. QED
  BY Invariance, <1>1, <1>2, <1>3, PTL DEF Spec

-----------------------------------------------------------------------------
(* The list as a table *)

\* The initial lists are tables.
LEMMA InitImplements ==
  ASSUME Init
  PROVE  Table!Init
<1>1. members \subseteq Elem
  BY DEF Init, Presets
<1> QED
  BY <1>1 DEF Init, Table!Init, Table!Elem, Elem, NoWrite, NoRead

\* Of the writer's steps, the beginning and the end of an addition and the store
\* that puts an entry in or takes one out are steps of the table; the others, and
\* all that it does to its own pointers, are none.
LEMMA WriterImplements ==
  ASSUME IInv, WriterStep \/ \E k \in Key, v \in Val : BeginAdd(k, v)
  PROVE  [Table!Next]_(Table!vars)
<1>1. TypeOK /\ NewEntry /\ WriterPointers /\ Reading
  BY DEF IInv
<1>2. r \in Read /\ w \in Write
  BY <1>1, Types
<1>3. CASE \E k \in Key, v \in Val : BeginAdd(k, v)
  <2>1. PICK k \in Key, v \in Val : BeginAdd(k, v)
    BY <1>3
  <2>2. /\ w.pc = "idle" /\ w'.pc # "idle" /\ UNCHANGED members
    BY <2>1 DEF BeginAdd, NoWrite
  <2>3. /\ r'.on = r.on /\ r'.met = r.met /\ r'.seen = r.seen
        /\ r'.by = IF r.on THEN r.by \cup {k} ELSE r.by
    BY <1>2, <2>1 DEF BeginAdd, Read
  <2>4. (r'.by = {}) = ((r.by = {}) /\ ~r.on)
    BY <1>1, <2>3 DEF Reading
  <2>5. Table!BeginWrite
    BY <2>2, <2>3, <2>4 DEF Table!BeginWrite
  <2> QED BY <2>5 DEF Table!Next
<1>4. CASE LookupNext \/ LookupMiss \/ LookupHit \/ DeleteNext \/ DeleteDone
           \/ UnlinkLastLeft \/ UnlinkBack \/ UnlinkLeft \/ UnlinkRight
           \/ LinkLeft \/ LinkRight
  <2>1. w.pc # "idle" /\ w'.pc # "idle"
    BY <1>2, <1>4
       DEF LookupNext, LookupMiss, LookupHit, DeleteNext, DeleteDone, UnlinkLastLeft,
       UnlinkBack, UnlinkLeft, UnlinkRight, LinkLeft, LinkRight, GoTo, Write
  <2>2. UNCHANGED <<r, members>>
    BY <1>4 DEF LookupNext, LookupMiss, LookupHit, DeleteNext, DeleteDone, UnlinkLastLeft,
       UnlinkBack, UnlinkLeft, UnlinkRight, LinkLeft, LinkRight
  <2> QED BY <2>1, <2>2 DEF Table!vars
<1>5. CASE Update
  <2>1. w.pc # "idle" /\ w'.pc # "idle" /\ UNCHANGED members
    BY <1>2, <1>5 DEF Update, GoTo, Write
  <2>2. r'.on = r.on /\ r'.met = r.met /\ r'.seen = r.seen /\ r'.by = r.by
    BY <1>2, <1>5 DEF Update, Publish, Read
  <2> QED BY <2>1, <2>2 DEF Table!vars
<1>6. CASE Unlink \/ UnlinkLast
  <2>1. w.pc = "unlink" /\ w'.pc # "idle" /\ members' = members \ {w.at} /\ w.at \in members
    BY <1>1, <1>2, <1>6 DEF Unlink, UnlinkLast, TakeOut, GoTo, Write, WriterPointers
  <2>2. r'.on = r.on /\ r'.met = r.met /\ r'.seen = r.seen /\ r'.by = r.by
    BY <1>2, <1>6 DEF Unlink, UnlinkLast, TakeOut, Publish, Read
  <2>3. Table!Remove(w.at)
    BY <2>1, <2>2 DEF Table!Remove
  <2>4. w.at \in Table!Elem
    BY <1>1, <2>1, Types DEF Table!Elem, Elem
  <2> QED BY <2>3, <2>4 DEF Table!Next
<1>7. CASE Link \/ LinkOnly
  <2>1. /\ w.pc = "link" /\ w'.pc # "idle" /\ members' = members \cup {w.new}
    BY <1>2, <1>7 DEF Link, LinkOnly, PutIn, GoTo, Write
  <2>2. /\ r'.on = r.on /\ r'.seen = r.seen /\ r'.by = r.by
        /\ r'.met = IF r.on THEN r.met \cup {w.new} ELSE r.met
    <3>1. CASE r.on
      <4>1. r' = [r EXCEPT !.newest[key[w.new]] = @ \cup {val[w.new]}, !.met = @ \cup {w.new}]
        BY <1>7, <3>1 DEF Link, LinkOnly, PutIn
      <4> QED BY <1>2, <3>1, <4>1 DEF Read
    <3>2. CASE ~r.on
      BY <1>7, <3>2 DEF Link, LinkOnly, PutIn
    <3> QED BY <3>1, <3>2
  <2>3. w.new \in Elem /\ \A m \in members \cup r.met : m < w.new
    <3>1. /\ w.new = made /\ made \in Nat /\ w.new \in Elem
          /\ members \subseteq 1..made /\ r.met \subseteq 1..made
          /\ w.new \notin members /\ w.new \notin r.met
      BY <1>1, <2>1, Types DEF NewEntry, Searching
    <3> QED BY <3>1
  <2>4. Table!Insert(w.new)
    BY <2>1, <2>2, <2>3 DEF Table!Insert
  <2> QED BY <2>3, <2>4 DEF Table!Next, Table!Elem, Elem
<1>8. CASE LinkOnlyLeft \/ LinkBack
  <2>1. w.pc # "idle" /\ w'.pc = "idle" /\ UNCHANGED <<r, members>>
    BY <1>8 DEF LinkOnlyLeft, LinkBack, NoWrite
  <2>2. Table!EndWrite
    BY <2>1 DEF Table!EndWrite
  <2> QED BY <2>2 DEF Table!Next
<1> QED
  BY <1>3, <1>4, <1>5, <1>6, <1>7, <1>8 DEF WriterStep

\* Each step of the reader is one of the table.
LEMMA ReaderImplements ==
  ASSUME IInv, ReaderStep \/ BeginRead
  PROVE  Table!Next
<1>1. TypeOK /\ Reading
  BY DEF IInv
<1>2. r \in Read
  BY <1>1, Types
<1>3. CASE Visit
  <2>1. r.on /\ r.ptr # Null /\ r.ptr \in r.met /\ r.ptr \in Elem
    BY <1>1, <1>2, <1>3 DEF Visit, Reading, Read
  <2>2. /\ r'.on = r.on /\ r'.by = r.by /\ r'.met = r.met /\ r'.seen = r.seen \cup {r.ptr}
        /\ UNCHANGED <<members, w>>
    BY <1>2, <1>3 DEF Visit, Read
  <2>3. \A s \in r.seen : r.ptr < s
    BY <1>1, <2>1 DEF Reading
  <2>4. Table!Visit(r.ptr)
    BY <2>1, <2>2, <2>3 DEF Table!Visit
  <2> QED BY <2>1, <2>4 DEF Table!Next, Table!Elem, Elem
<1>4. CASE EndRead
  <2>1. r.on /\ r.ptr = Null /\ r' = NoRead /\ UNCHANGED <<members, w>>
    BY <1>4 DEF EndRead
  <2>2. ASSUME r.by = {} PROVE r.seen = members
    <3>1. r.seen = {m \in members : Null < m}
      BY <1>1, <2>1, <2>2 DEF Reading
    <3>2. \A m \in members : Null < m
      BY <1>1, Types DEF Elem, Null
    <3> QED BY <3>1, <3>2
  <2>3. Table!EndRead
    BY <2>1, <2>2 DEF Table!EndRead, NoRead
  <2> QED BY <2>3 DEF Table!Next
<1>5. CASE BeginRead
  <2>1. /\ ~r.on /\ r'.on /\ r'.met = members /\ r'.seen = {} /\ UNCHANGED <<members, w>>
        /\ (r'.by = {}) = (w.pc = "idle")
    BY <1>5 DEF BeginRead
  <2>2. Table!BeginRead
    BY <2>1 DEF Table!BeginRead
  <2> QED BY <2>2 DEF Table!Next
<1> QED
  BY <1>3, <1>4, <1>5 DEF ReaderStep

\* The list is a table in the sense of EntryTable, whatever store or load of one
\* thread falls between two of the other.
THEOREM ListImplementsTable == Spec => ImplementsTable
<1>1. Init => Table!Init
  BY InitImplements
<1>2. IInv /\ [Next]_vars => [Table!Next]_(Table!vars)
  <2> SUFFICES ASSUME IInv, [Next]_vars PROVE [Table!Next]_(Table!vars)
    OBVIOUS
  <2>1. CASE UNCHANGED vars
    BY <2>1 DEF vars, Table!vars
  <2>2. CASE WriterStep \/ \E k \in Key, v \in Val : BeginAdd(k, v)
    BY <2>2, WriterImplements
  <2>3. CASE ReaderStep \/ BeginRead
    BY <2>3, ReaderImplements
  <2> QED BY <2>1, <2>2, <2>3 DEF Next
<1> QED
  BY <1>1, <1>2, Invariance, PTL DEF Spec, ImplementsTable, Table!Spec

=============================================================================
