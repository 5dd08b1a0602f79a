-------------------------------- MODULE Heap --------------------------------
(***************************************************************************)
(* What pmm->alloc and pmm->free promise (MODULE_DEF(pmm) in               *)
(* kernel/src/pmm.c): alloc returns the address of an aligned range of the *)
(* heap that overlaps nothing handed out before, and NULL only when there  *)
(* is no such range; free gives a range back.  Lists, blocks and the order *)
(* of the search are not visible here.                                     *)
(***************************************************************************)
EXTENDS Integers, Powers

CONSTANTS
    HeapLo, HeapHi,     \* the managed range [HeapLo, HeapHi)
    Sizes,              \* the sizes clients ask for
    NullPtr             \* NULL

VARIABLES
    owned,      \* the ranges handed out and not freed: [start, end]
    last        \* the last kalloc: the size, and what it returned

\* What a range of a size is aligned to.
Align(size) == PowerFor(size)

Disjoint(r, s) == r.end <= s.start \/ s.end <= r.start

\* The ranges a request can be answered with.
Range(lo, size) == [start |-> lo, end |-> lo + size]
Fits(size) ==
    {Range(lo, size) : lo \in {x \in HeapLo .. HeapHi - size :
        /\ x % Align(size) = 0
        /\ \A o \in owned : Disjoint(Range(x, size), o)}}

Init == owned = {} /\ last = [size |-> 0, ret |-> NullPtr]

Alloc(size) ==
    \E r \in Fits(size) :
        owned' = owned \cup {r} /\ last' = [size |-> size, ret |-> r.start]

AllocFails(size) ==
    /\ Fits(size) = {}
    /\ last' = [size |-> size, ret |-> NullPtr]
    /\ UNCHANGED owned

Free(r) == owned' = owned \ {r} /\ UNCHANGED last

Next ==
    \/ \E size \in Sizes : Alloc(size) \/ AllocFails(size)
    \/ \E r \in owned : Free(r)

Spec == Init /\ [][Next]_<<owned, last>>
=============================================================================
