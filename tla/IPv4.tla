-------------------------------- MODULE IPv4 --------------------------------
(***************************************************************************)
(* Addresses, masks and routes: the pure part of the third layer.          *)
(* An address is the string of its bits, most significant first, so that   *)
(* apply_mask and the comparison of two dotted quads need no arithmetic.   *)
(***************************************************************************)
EXTENDS Naturals, Sequences

CONSTANTS
    AddrBits,   \* bits of an address: 32 in the program, fewer for TLC
    Intf,       \* the interfaces of every node
    NoIntf      \* a NULL interface pointer, or the empty oif of a direct route

ASSUME IPv4Assumption ==
    /\ AddrBits \in Nat \ {0}
    /\ NoIntf \notin Intf

Addr == [1..AddrBits -> {0, 1}]
MaskLen == 0..AddrBits

\* 0.0.0.0: what a zeroed ip_hdr_t holds.
AnyAddr == [b \in 1..AddrBits |-> 0]

\* 255.255.255.255
BroadcastAddr == [b \in 1..AddrBits |-> 1]

\* The bits after the first m are cleared. A mask of 0 shifts 0xFFFFFFFF by the
\* width of the word, which the x86 shift takes modulo 32: nothing is cleared.
ApplyMask(a, m) ==
    [b \in 1..AddrBits |-> IF m = 0 \/ b <= m THEN a[b] ELSE 0]

-----------------------------------------------------------------------------
Route == [dest : Addr, mask : MaskLen, direct : BOOLEAN,
          gw : Addr, oif : Intf \cup {NoIntf}]

NoRoute == [dest |-> AnyAddr, mask |-> 0, direct |-> FALSE,
            gw |-> AnyAddr, oif |-> NoIntf]

\* rt_table_add_direct_route stores its argument as it is ...
DirectRoute(dst, m) ==
    [dest |-> dst, mask |-> m, direct |-> TRUE, gw |-> AnyAddr, oif |-> NoIntf]

\* ... and rt_table_add_route masks it first.
StaticRoute(dst, m, g, o) ==
    [dest |-> ApplyMask(dst, m), mask |-> m, direct |-> FALSE, gw |-> g, oif |-> o]

Matches(r, dst) == ApplyMask(dst, r.mask) = r.dest

\* What l3rib_lookup_lpm returns on a table listed newest first: the longest
\* mask among the routes that match, the newest of those with that mask. The
\* loop's `mask > longest_mask` starts from 0, so a mask of 0 is never chosen.
Candidates(rt, dst) == {k \in 1..Len(rt) : Matches(rt[k], dst) /\ rt[k].mask > 0}

IsBest(rt, dst, k) ==
    /\ k \in Candidates(rt, dst)
    /\ \A j \in Candidates(rt, dst) :
          \/ rt[j].mask < rt[k].mask
          \/ rt[j].mask = rt[k].mask /\ k <= j

LongestMatch(rt, dst) ==
    IF Candidates(rt, dst) = {} THEN NoRoute
    ELSE rt[CHOOSE k \in Candidates(rt, dst) : IsBest(rt, dst, k)]
=============================================================================
