--------------------------------- MODULE Pmm ---------------------------------
(***************************************************************************)
(* The physical memory manager of kernel/src/pmm.c: two doubly linked      *)
(* lists of block structures, of free and of allocated ranges, the blocks  *)
(* themselves taken from an area of their own.  kalloc and kfree run from  *)
(* sp_lock(&glb_lock) to sp_unlock(&glb_lock), with interrupts off, so     *)
(* each is one action.  The slab code in front of them is compiled out     *)
(* (_SLAB_ASSIST is not defined) and _DEBUG is defined, so both end with   *)
(* check_freeblock and check_allocblock.                                   *)
(*                                                                         *)
(* The area is one record, so that the list operations compose as they are *)
(* called: start[b], end[b], size[b], prev[b] and next[b] are the fields   *)
(* of the structure in slot b, freeno is FreeAllocNo[] up to               *)
(* FreeAllocNoNum, maxpos as in the code.                                  *)
(***************************************************************************)
EXTENDS Integers, Sequences, FiniteSets, SequencesExt, Powers

CONSTANTS
    HeapLo, HeapHi,     \* the first block of the free list: [HeapLo, HeapHi)
    Sizes,              \* the sizes clients ask for
    NullPtr,            \* NULL
    MaxLive,            \* bound: ranges clients hold at a time
    NSlots              \* bound: block structures the block area has room for

ASSUME HeapAssumption ==
    /\ HeapLo \in Nat \ {0} /\ HeapHi \in Nat /\ HeapLo < HeapHi
    /\ Sizes \subseteq Nat \ {0}
    /\ NullPtr \notin Nat
    /\ MaxLive \in Nat /\ NSlots \in Nat /\ NSlots >= 2 * MaxLive + 3

VARIABLES
    area,       \* the block area, see above
    owned,      \* the ranges clients hold: [start, end]
    last,       \* the last kalloc: the size, and what it returned
    halted,     \* a check of the lists failed or does not end
    tangled     \* the free list runs on into the allocated one, see Kfree

pmmVars == <<area, owned, last, halted, tangled>>

Slots == 0 .. NSlots - 1
Free == 0           \* free_head
Alloc == 1          \* alloc_head
------------------------------------------------------------------------------
(***************************************************************************)
(* Block structures.                                                       *)
(***************************************************************************)
\* The slot balloc returns in area a, and the area it leaves.
BallocSlot(a) == IF a.freeno # << >> THEN Last(a.freeno) ELSE a.maxpos
Balloc(a) ==
    IF a.freeno # << >> THEN [a EXCEPT !.freeno = Front(@)]
                        ELSE [a EXCEPT !.maxpos = @ + 1]

Bfree(a, b) ==
    [a EXCEPT !.next[b] = NullPtr, !.prev[b] = NullPtr,
              !.freeno = Append(@, b)]

\* balloc followed by the assignments of kalloc to start, end and size.
NewBlock(a, lo, hi) ==
    LET b == BallocSlot(a)
    IN  [Balloc(a) EXCEPT !.start[b] = lo, !.end[b] = hi,
                          !.size[b] = hi - lo]

SetRange(a, b, lo, hi) ==
    [a EXCEPT !.start[b] = lo, !.end[b] = hi, !.size[b] = hi - lo]
------------------------------------------------------------------------------
(***************************************************************************)
(* Lists.                                                                  *)
(***************************************************************************)
\* blink(pre,nxt), pre not NULL.
Blink(a, pre, nxt) ==
    IF nxt = NullPtr THEN [a EXCEPT !.next[pre] = NullPtr]
    ELSE [a EXCEPT !.next[pre] = nxt, !.prev[nxt] = pre]

\* bdelete leaves the pointers of the removed block itself as they are.
Bdelete(a, b) == Blink(a, a.prev[b], a.next[b])

\* binsert(pre,nxt,0).  Behind the last block it is a blink: nxt->next stays.
BinsertPlain(a, pre, nxt) ==
    LET succ == a.next[pre]
    IN  IF succ = NullPtr THEN Blink(a, pre, nxt)
        ELSE Blink(Blink(a, nxt, succ), pre, nxt)

\* Faulty variant of BinsertMerge: one of the two blocks that a threefold merge
\* makes superfluous is not given back.
BinsertLeaks(a, pre, nxt) ==
    LET succ == a.next[pre]
    IN  IF /\ succ # NullPtr
           /\ a.end[pre] = a.start[nxt] /\ a.start[succ] = a.end[nxt]
          THEN Bfree(SetRange(Blink(a, pre, a.next[succ]), pre,
                              a.start[pre], a.end[succ]), nxt)
        ELSE IF a.end[pre] = a.start[nxt]
          THEN Bfree(SetRange(a, pre, a.start[pre], a.end[nxt]), nxt)
        ELSE BinsertPlain(a, pre, nxt)

\* binsert(pre,nxt,1): adjacent ranges become one block.
BinsertMerge(a, pre, nxt) ==
    LET succ == a.next[pre]
        left == a.end[pre] = a.start[nxt]
        right == succ # NullPtr /\ a.start[succ] = a.end[nxt]
    IN  CASE left /\ right ->
               Bfree(Bfree(SetRange(Blink(a, pre, a.next[succ]), pre,
                                    a.start[pre], a.end[succ]), nxt), succ)
          [] left /\ ~right -> Bfree(SetRange(a, pre, a.start[pre], a.end[nxt]), nxt)
          [] ~left /\ right -> Bfree(SetRange(a, succ, a.start[nxt], a.end[succ]), nxt)
          [] OTHER -> BinsertPlain(a, pre, nxt)

\* Where the walk along next that begins at b is after n steps.
Walk(a, b) ==
    LET at[n \in Nat] == IF n = 0 THEN b
                         ELSE IF at[n - 1] = NullPtr THEN NullPtr
                         ELSE a.next[at[n - 1]]
    IN  at

\* The blocks of a list, and whether the walk comes to its end (one longer than the
\* area goes in a circle).
Blocks(a, head) == {Walk(a, head)[n] : n \in 1 .. NSlots} \ {NullPtr}
Ends(a, head) == Walk(a, head)[NSlots] = NullPtr

\* The first block of a set that the walk from b meets, if there is one.
First(a, b, set) ==
    LET at == Walk(a, b)
        hits == {n \in 0 .. NSlots : at[n] \in set}
    IN  {at[n] : n \in {m \in hits : \A k \in hits : m <= k}}
------------------------------------------------------------------------------
(***************************************************************************)
(* check_freeblock and check_allocblock(start,end).                        *)
(***************************************************************************)
CheckFreeblock(a) ==
    /\ Ends(a, Free)
    /\ \A b \in Blocks(a, Free) :
          a.next[b] # NullPtr => a.start[a.next[b]] >= a.end[b]

\* A block of size 0 makes the count of its trailing zeros endless.
CheckAllocblock(a, lo, hi) ==
    /\ Ends(a, Alloc)
    /\ \A b \in Blocks(a, Alloc) :
        /\ a.start[b] = lo => a.end[b] = hi
        /\ a.size[b] # 0
        /\ Zeros(a.size[b]) <= Zeros(a.start[b])

Checks(a, lo, hi) == CheckFreeblock(a) /\ CheckAllocblock(a, lo, hi)
------------------------------------------------------------------------------
(***************************************************************************)
(* kalloc and kfree.                                                       *)
(***************************************************************************)
\* Faulty variant of AlignOf: requests are not aligned.
AlignOfOne(size) == 1

\* GetValidAddress: the alignment is the least power of two not less than the size.
AlignOf(size) == PowerFor(size)
ValidAddress(lo, size) == ((lo - 1) \div AlignOf(size) + 1) * AlignOf(size)

\* Whether a block of the free list can serve a request.
Serves(a, b, size) == ValidAddress(a.start[b], size) + size <= a.end[b]
Serving(size) ==
    First(area, area.next[Free], {b \in Slots : Serves(area, b, size)})

\* The four cases of kalloc: [lo, hi) is taken out of free block b.
Take(a, b, lo, hi) ==
    LET new == BallocSlot(a)
        rest == BallocSlot(Balloc(a))
        front == a.start[b] = lo
        back == a.end[b] = hi
    IN  CASE front /\ back -> BinsertPlain(Bdelete(a, b), Alloc, b)
          [] front /\ ~back ->
               BinsertPlain(NewBlock(SetRange(a, b, hi, a.end[b]), lo, hi), Alloc, new)
          [] ~front /\ back ->
               BinsertPlain(NewBlock(SetRange(a, b, a.start[b], lo), lo, hi), Alloc, new)
          [] OTHER ->
               LET split == SetRange(NewBlock(NewBlock(a, lo, hi), hi, a.end[b]),
                                     b, a.start[b], lo)
               IN  BinsertPlain(BinsertPlain(split, b, rest), Alloc, new)

Kalloc(size) ==
    /\ ~halted /\ ~tangled
    /\ Cardinality(owned) < MaxLive
    /\ \E b \in Serving(size) :
          LET lo == ValidAddress(area.start[b], size)
              after == Take(area, b, lo, lo + size)
          IN  /\ area' = after
              /\ owned' = owned \cup {[start |-> lo, end |-> lo + size]}
              /\ last' = [size |-> size, ret |-> lo]
              /\ halted' = ~Checks(after, lo, lo + size)
    /\ UNCHANGED tangled

\* Faulty variant of KallocFails: gives up after the first free block.
KallocFailsEarly(size) ==
    /\ ~halted /\ ~tangled
    /\ LET b == area.next[Free] IN b # NullPtr => ~Serves(area, b, size)
    /\ last' = [size |-> size, ret |-> NullPtr]
    /\ UNCHANGED <<area, owned, halted, tangled>>

KallocFails(size) ==
    /\ ~halted /\ ~tangled
    /\ Serving(size) = {}
    /\ last' = [size |-> size, ret |-> NullPtr]
    /\ UNCHANGED <<area, owned, halted, tangled>>

\* The block kfree(ptr) finds, and the one it puts block b behind.
Found(ptr) == First(area, area.next[Alloc], {b \in Slots : area.start[b] = ptr})
Behind(a, b) ==
    First(a, Free, {l \in Slots :
        /\ a.end[l] <= a.start[b]
        /\ a.next[l] # NullPtr => a.start[a.next[l]] >= a.end[b]})

\* binsert does not touch the next of a block it puts behind the last one.
Tangles(a, pre, b) ==
    /\ a.next[pre] = NullPtr /\ a.end[pre] # a.start[b]
    /\ a.next[b] # NullPtr

Kfree(r) ==
    /\ ~halted /\ ~tangled
    /\ \E b \in Found(r.start) :
          LET out == Bdelete(area, b)
          IN  /\ \/ /\ Behind(out, b) = {}
                    /\ area' = out /\ UNCHANGED tangled
                 \/ \E pre \in Behind(out, b) :
                    /\ area' = BinsertMerge(out, pre, b)
                    /\ tangled' = Tangles(out, pre, b)
              /\ halted' = ~Checks(area', area.start[b], area.end[b])
    /\ owned' = owned \ {r}
    /\ UNCHANGED last

\* pmm_init: slots 0 and 1 are the heads, slot 2 the one free block, whose
\* size is end minus end.
PmmInit ==
    /\ area = [start |-> [b \in Slots |-> IF b = 2 THEN HeapLo ELSE 0],
               end |-> [b \in Slots |-> IF b = 2 THEN HeapHi ELSE 0],
               size |-> [b \in Slots |-> 0],
               prev |-> [b \in Slots |-> IF b = 2 THEN Free ELSE NullPtr],
               next |-> [b \in Slots |-> IF b = Free THEN 2 ELSE NullPtr],
               freeno |-> << >>,
               maxpos |-> 3]
    /\ owned = {}
    /\ last = [size |-> 0, ret |-> NullPtr]
    /\ halted = FALSE /\ tangled = FALSE

PmmNext ==
    \/ \E size \in Sizes : Kalloc(size) \/ KallocFails(size)
    \/ \E r \in owned : Kfree(r)

PmmSpec == PmmInit /\ [][PmmNext]_pmmVars
------------------------------------------------------------------------------
(***************************************************************************)
(* Properties                                                              *)
(***************************************************************************)
RangeOf(b) == [start |-> area.start[b], end |-> area.end[b]]
FreeBlocks == Blocks(area, Free)
AllocBlocks == Blocks(area, Alloc)

\* Types of the block area; in particular 2 * MaxLive + 3 structures are enough.
PmmTypeOK ==
    /\ {area.start, area.end, area.size} \subseteq [Slots -> 0 .. HeapHi]
    /\ {area.prev, area.next} \subseteq [Slots -> Slots \cup {NullPtr}]
    /\ area.freeno \in Seq(Slots) /\ area.maxpos \in 0 .. 2 * MaxLive + 3
    /\ {halted, tangled} \subseteq BOOLEAN

\* Both lists have an end and are linked the same way in both directions.
WellLinked ==
    \A head \in {Free, Alloc} :
        /\ Ends(area, head)
        /\ \A b \in Blocks(area, head) \cup {head} :
              area.next[b] # NullPtr => area.prev[area.next[b]] = b

\* The allocated list holds the ranges clients have, each once, and the free
\* list the gaps between them in ascending order, merged as far as possible:
\* no byte of the heap is lost and none is in two lists, whatever the order of
\* kalloc and kfree and whichever of their split and merge cases ran.
ListsExact ==
    /\ owned = {RangeOf(b) : b \in AllocBlocks}
    /\ \A b \in FreeBlocks :
          area.next[b] # NullPtr => area.end[b] < area.start[area.next[b]]
    /\ \A x \in HeapLo .. HeapHi - 1 :
          \E b \in FreeBlocks \cup AllocBlocks :
             {c \in FreeBlocks \cup AllocBlocks :
                area.start[c] <= x /\ x < area.end[c]} = {b}

\* Every block structure ever taken by balloc is a list head, in exactly one
\* of the lists, or in FreeAllocNo[] once: none leaks, none is used twice.
SlotsExact ==
    LET unused == Range(area.freeno)
    IN  /\ 0 .. area.maxpos - 1 = {Free, Alloc} \cup FreeBlocks \cup AllocBlocks \cup unused
        /\ {Free, Alloc} \cap (FreeBlocks \cup AllocBlocks \cup unused) = {}
        /\ FreeBlocks \cap AllocBlocks = {}
        /\ unused \cap (FreeBlocks \cup AllocBlocks) = {}
        /\ Cardinality(unused) = Len(area.freeno)

\* Whatever was allocated, split, freed and merged in which order: types and links are
\* in order, no byte of the heap and no block structure is lost or used twice.  All
\* the same when the end of the heap is handed out; what puts an end to it is a kfree
\* behind the last free block of a block that was not the last of its list.
PmmInv == ~tangled => PmmTypeOK /\ WellLinked /\ ListsExact /\ SlotsExact

\* The self-checks at the end of kalloc and kfree (check_freeblock, pmm.c:242-246,
\* and check_allocblock, pmm.c:211-215) pass until then, but for the size that
\* pmm_init gives the first block (pmm.c:584), which shows if that is handed out whole.
ChecksPass == halted => tangled \/ [start |-> HeapLo, end |-> HeapHi] \in owned

\* What the assertions of the checks say, as they stand in pmm.c.
ChecksNeverFail == ~halted

\* kalloc and kfree implement the promise of Heap until then: ranges handed out are
\* aligned and never overlap, and NULL means that no aligned range was left.
HP == INSTANCE Heap
HeapUntilTangled == HP!Init /\ [][tangled' \/ HP!Next]_<<owned, last>>
=============================================================================
