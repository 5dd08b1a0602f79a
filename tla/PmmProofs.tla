----------------------------- MODULE PmmProofs -----------------------------
(***************************************************************************)
(* Theorems about Pmm, for any heap, sizes and number of ranges in use:    *)
(* the lists are exact, the checks pass and kalloc and kfree implement     *)
(* Heap, until the lists are tangled.                                      *)
(***************************************************************************)
EXTENDS Pmm, Numbers, FiniteSetTheorems, FunctionTheorems, SequenceTheorems, TLAPS

------------------------------------------------------------------------------
(***************************************************************************)
(* Alignment                                                               *)
(***************************************************************************)
\* The loop of GetValidAddress ends at a power of two that is not less than the size.
LEMMA AlignPower ==
    ASSUME NEW size \in Nat \ {0}
    PROVE  \E k \in Nat : AlignOf(size) = TwoTo[k] /\ TwoTo[k] >= size /\ TwoTo[k] < 2 * size
<1> DEFINE T == {k \in Nat : TwoTo[k] >= size}
<1>1. PICK k \in T : \A l \in T : k <= l
    <2>1. T \subseteq Nat /\ size \in T
        BY TwoToLarge, TwoToDef
    <2> HIDE DEF T
    <2> QED BY <2>1, LeastNumber
<1>2. k <= size
    BY <1>1, TwoToLarge, TwoToDef
<1>3. TwoTo[k] < 2 * size
    <2>1. CASE k = 0
        BY <2>1, TwoToDef
    <2>2. CASE k # 0
        <3>1. k - 1 \in Nat /\ ~(TwoTo[k - 1] >= size)
            BY <1>1, <2>2
        <3>2. TwoTo[k] = 2 * TwoTo[k - 1] /\ TwoTo[k - 1] \in Nat
            BY <3>1, TwoToDef
        <3> QED BY <3>1, <3>2
    <2> QED BY <2>1, <2>2
<1>4. \E l \in 0 .. size : TwoTo[l] >= size /\ TwoTo[l] < 2 * size
    BY <1>1, <1>2, <1>3
<1> DEFINE c == CHOOSE l \in 0 .. size : TwoTo[l] >= size /\ TwoTo[l] < 2 * size
<1>5. c \in 0 .. size /\ TwoTo[c] >= size /\ TwoTo[c] < 2 * size
    BY <1>4
<1>6. AlignOf(size) = TwoTo[c]
    BY DEF AlignOf, PowerFor
<1> HIDE DEF c
<1> QED BY <1>5, <1>6

LEMMA AlignType ==
    ASSUME NEW size \in Nat \ {0}
    PROVE  AlignOf(size) \in Nat \ {0} /\ AlignOf(size) >= size
BY AlignPower, TwoToDef

\* GetValidAddress returns the least aligned address from lo on.
LEMMA ValidAddressLeast ==
    ASSUME NEW lo \in Nat \ {0}, NEW size \in Nat \ {0}
    PROVE  /\ ValidAddress(lo, size) \in Nat /\ ValidAddress(lo, size) >= lo
           /\ ValidAddress(lo, size) % AlignOf(size) = 0
           /\ \A m \in Nat : m % AlignOf(size) = 0 /\ m >= lo => ValidAddress(lo, size) <= m
<1> DEFINE A == AlignOf(size)
           q == (lo - 1) \div A
           r == (lo - 1) % A
<1>1. A \in Nat \ {0}
    BY AlignType
<1>2. ValidAddress(lo, size) = (q + 1) * A
    BY DEF ValidAddress
<1> HIDE DEF A
<1>3. q \in Nat /\ r \in 0 .. A - 1 /\ lo - 1 = A * q + r
    BY <1>1
<1> HIDE DEF q, r
<1>4. (q + 1) * A \in Nat /\ (q + 1) * A >= lo /\ ((q + 1) * A) % A = 0
    BY <1>1, <1>3
<1>5. ASSUME NEW m \in Nat, m % A = 0, m >= lo PROVE (q + 1) * A <= m
    <2>1. PICK p \in Nat : m = p * A
        BY <1>1, <1>5, Multiple
    <2>2. q < p
        <3> SUFFICES ASSUME p <= q PROVE FALSE
            BY <1>3
        <3>1. p * A <= q * A
            BY <1>1, <1>3
        <3> QED BY <1>1, <1>3, <1>5, <2>1, <3>1
    <2>3. (q + 1) * A <= p * A
        BY <1>1, <1>3, <2>2
    <2> QED BY <2>1, <2>3
<1> QED BY <1>2, <1>4, <1>5 DEF A

\* The trailing zeros of a number.
LEMMA ZerosDef ==
    ASSUME NEW n \in Nat \ {0}
    PROVE  /\ Zeros(n) \in 0 .. n
           /\ n % TwoTo[Zeros(n)] = 0 /\ n % TwoTo[Zeros(n) + 1] # 0
<1> DEFINE T == {k \in Nat : n % TwoTo[k + 1] # 0}
<1>1. PICK k \in T : \A l \in T : k <= l
    <2>1. n \in T
        <3>1. n < TwoTo[n] /\ TwoTo[n] \in Nat /\ TwoTo[n + 1] = 2 * TwoTo[n]
            BY TwoToLarge, TwoToDef
        <3>2. n % TwoTo[n + 1] = n
            BY <3>1
        <3> QED BY <3>2
    <2>2. T \subseteq Nat
        OBVIOUS
    <2> HIDE DEF T
    <2> QED BY <2>1, <2>2, LeastNumber
<1>2. n \in T
    <2>1. n < TwoTo[n] /\ TwoTo[n] \in Nat /\ TwoTo[n + 1] = 2 * TwoTo[n]
        BY TwoToLarge, TwoToDef
    <2>2. n % TwoTo[n + 1] = n
        BY <2>1
    <2> QED BY <2>2
<1>3. k \in 0 .. n
    BY <1>1, <1>2
<1>4. n % TwoTo[k] = 0
    <2>1. CASE k = 0
        BY <2>1, TwoToDef
    <2>2. CASE k # 0
        <3>1. k - 1 \in Nat /\ k - 1 \notin T /\ (k - 1) + 1 = k
            BY <1>1, <2>2
        <3> QED BY <3>1
    <2> QED BY <2>1, <2>2
<1>5. \E l \in 0 .. n : n % TwoTo[l] = 0 /\ n % TwoTo[l + 1] # 0
    BY <1>1, <1>3, <1>4
<1> QED BY <1>5 DEF Zeros

\* A range that is aligned passes the test of check_allocblock.
LEMMA AlignedZeros ==
    ASSUME NEW size \in Nat \ {0}, NEW lo \in Nat \ {0}, lo % AlignOf(size) = 0
    PROVE  Zeros(size) <= Zeros(lo)
<1> DEFINE i == Zeros(size)
           j == Zeros(lo)
<1>1. i \in Nat /\ size % TwoTo[i] = 0
    BY ZerosDef
<1>2. j \in Nat /\ lo % TwoTo[j + 1] # 0
    BY ZerosDef
<1> HIDE DEF i, j
<1>3. PICK k \in Nat : AlignOf(size) = TwoTo[k] /\ TwoTo[k] >= size
    BY AlignPower
<1>4. i <= k
    <2> SUFFICES ASSUME k + 1 <= i PROVE FALSE
        BY <1>1
    <2>1. TwoTo[k + 1] <= TwoTo[i] /\ TwoTo[k + 1] = 2 * TwoTo[k] /\ TwoTo[i] \in Nat
        <3>1. k + 1 \in Nat /\ i \in Nat
            BY <1>1
        <3>2. TwoTo[k + 1] <= TwoTo[i]
            BY <3>1, TwoToMonotone
        <3> QED BY <3>1, <3>2, TwoToDef
    <2>2. size < TwoTo[i]
        BY <1>3, <2>1, TwoToDef
    <2>3. size % TwoTo[i] = size
        BY <2>1, <2>2
    <2> QED BY <1>1, <2>3
<1>5. ASSUME j < i PROVE FALSE
    <2>1. j + 1 \in Nat /\ j + 1 <= k
        BY <1>1, <1>2, <1>4, <1>5
    <2>2. PICK q \in Nat \ {0} : TwoTo[k] = q * TwoTo[j + 1]
        BY <2>1, TwoToDivides
    <2>3. TwoTo[k] \in Nat \ {0} /\ TwoTo[j + 1] \in Nat \ {0}
        BY <2>1, TwoToDef
    <2>4. PICK p \in Nat : lo = p * TwoTo[k]
        BY <1>3, <2>3, Multiple
    <2>5. lo = (p * q) * TwoTo[j + 1] /\ p * q \in Nat
        BY <2>2, <2>3, <2>4
    <2>6. lo % TwoTo[j + 1] = 0
        BY <2>3, <2>5
    <2> QED BY <1>2, <2>6
<1> QED BY <1>1, <1>2, <1>5 DEF i, j

------------------------------------------------------------------------------
(***************************************************************************)
(* What the operations on blocks do, field by field                        *)
(***************************************************************************)
Pointer == Slots \cup {NullPtr}
Areas == [start : [Slots -> Int], end : [Slots -> Int], size : [Slots -> Int],
          prev : [Slots -> Pointer], next : [Slots -> Pointer],
          freeno : Seq(Slots), maxpos : Nat]

\* c has the slots of a that are in use, its links, the range of its block b.
SamePool(a, c) == c.freeno = a.freeno /\ c.maxpos = a.maxpos
SameLinks(a, c) == c.next = a.next /\ c.prev = a.prev
SameRange(a, c, b) ==
    c.start[b] = a.start[b] /\ c.end[b] = a.end[b] /\ c.size[b] = a.size[b]
SameRanges(a, c) == c.start = a.start /\ c.end = a.end /\ c.size = a.size

LEMMA SlotsNotNull == NullPtr \notin Slots /\ Free \in Slots /\ Alloc \in Slots /\ Free # Alloc
BY HeapAssumption DEF Slots, Free, Alloc

LEMMA BlinkFields ==
    ASSUME NEW a \in Areas, NEW pre \in Slots, NEW nxt \in Pointer,
           NEW c, c = Blink(a, pre, nxt)
    PROVE  /\ c \in Areas /\ SamePool(a, c) /\ SameRanges(a, c)
           /\ \A b \in Slots :
                 /\ c.next[b] = IF b = pre THEN nxt ELSE a.next[b]
                 /\ c.prev[b] = IF b = nxt THEN pre ELSE a.prev[b]
<1>1. CASE nxt = NullPtr
    BY <1>1, SlotsNotNull DEF Blink, Areas, Pointer, SamePool, SameRanges
<1>2. CASE nxt # NullPtr
    BY <1>2, SlotsNotNull DEF Blink, Areas, Pointer, SamePool, SameRanges
<1> QED BY <1>1, <1>2

LEMMA BdeleteFields ==
    ASSUME NEW a \in Areas, NEW x \in Slots, a.prev[x] \in Slots,
           NEW c, c = Bdelete(a, x)
    PROVE  /\ c \in Areas /\ SamePool(a, c) /\ SameRanges(a, c)
           /\ \A b \in Slots :
                 /\ c.next[b] = IF b = a.prev[x] THEN a.next[x] ELSE a.next[b]
                 /\ c.prev[b] = IF b = a.next[x] THEN a.prev[x] ELSE a.prev[b]
<1>1. PICK pre \in Slots, nxt \in Pointer : pre = a.prev[x] /\ nxt = a.next[x]
    BY DEF Areas
<1>2. c = Blink(a, pre, nxt)
    BY <1>1 DEF Bdelete
<1>3. /\ c \in Areas /\ SamePool(a, c) /\ SameRanges(a, c)
      /\ \A b \in Slots :
            /\ c.next[b] = IF b = pre THEN nxt ELSE a.next[b]
            /\ c.prev[b] = IF b = nxt THEN pre ELSE a.prev[b]
    BY <1>2, BlinkFields
<1> QED BY <1>1, <1>3

LEMMA BinsertFields ==
    ASSUME NEW a \in Areas, NEW pre \in Slots, NEW x \in Slots, pre # x, a.next[pre] # x,
           NEW c, c = BinsertPlain(a, pre, x)
    PROVE  /\ c \in Areas /\ SamePool(a, c) /\ SameRanges(a, c)
           /\ \A b \in Slots :
                 /\ c.next[b] = IF b = pre THEN x
                                ELSE IF b = x /\ a.next[pre] # NullPtr
                                     THEN a.next[pre] ELSE a.next[b]
                 /\ c.prev[b] = IF b = x THEN pre
                                ELSE IF b = a.next[pre] THEN x ELSE a.prev[b]
<1>0. PICK succ \in Pointer : succ = a.next[pre]
    BY DEF Areas
<1>1. x \in Pointer
    BY DEF Pointer
<1>2. CASE succ = NullPtr
    <2>1. c = Blink(a, pre, x)
        BY <1>0, <1>2 DEF BinsertPlain
    <2>2. /\ c \in Areas /\ SamePool(a, c) /\ SameRanges(a, c)
          /\ \A b \in Slots :
                /\ c.next[b] = IF b = pre THEN x ELSE a.next[b]
                /\ c.prev[b] = IF b = x THEN pre ELSE a.prev[b]
        BY <1>1, <2>1, BlinkFields
    <2> QED BY <1>0, <1>2, <2>2, SlotsNotNull
<1>3. CASE succ # NullPtr
    <2> DEFINE m == Blink(a, x, succ)
    <2>1. c = Blink(m, pre, x)
        BY <1>0, <1>3 DEF BinsertPlain
    <2>2. /\ m \in Areas /\ SamePool(a, m) /\ SameRanges(a, m)
          /\ \A b \in Slots :
                /\ m.next[b] = IF b = x THEN succ ELSE a.next[b]
                /\ m.prev[b] = IF b = succ THEN x ELSE a.prev[b]
        BY <1>1, BlinkFields
    <2> HIDE DEF m
    <2>3. /\ c \in Areas /\ SamePool(m, c) /\ SameRanges(m, c)
          /\ \A b \in Slots :
                /\ c.next[b] = IF b = pre THEN x ELSE m.next[b]
                /\ c.prev[b] = IF b = x THEN pre ELSE m.prev[b]
        BY <1>1, <2>1, <2>2, BlinkFields
    <2>4. SamePool(a, c) /\ SameRanges(a, c)
        BY <2>2, <2>3 DEF SamePool, SameRanges
    <2> QED BY <1>0, <1>3, <2>2, <2>3, <2>4
<1> QED BY <1>2, <1>3

\* c is what setting the range of block x makes of a.
Ranged(a, x, lo, hi, c) ==
    /\ c \in Areas /\ SamePool(a, c) /\ SameLinks(a, c)
    /\ \A b \in Slots \ {x} : SameRange(a, c, b)
    /\ c.start[x] = lo /\ c.end[x] = hi /\ c.size[x] = hi - lo

LEMMA SetRangeFields ==
    ASSUME NEW a \in Areas, NEW x \in Slots, NEW lo \in Int, NEW hi \in Int
    PROVE  Ranged(a, x, lo, hi, SetRange(a, x, lo, hi))
<1>0. PICK c : c = SetRange(a, x, lo, hi)
    OBVIOUS
<1>1. c.start = [a.start EXCEPT ![x] = lo] /\ c.end = [a.end EXCEPT ![x] = hi]
    BY <1>0 DEF SetRange, Areas
<1>2. c.size = [a.size EXCEPT ![x] = hi - lo]
    BY <1>0 DEF SetRange, Areas
<1>3. SamePool(a, c) /\ SameLinks(a, c)
    BY <1>0 DEF SetRange, Areas, SamePool, SameLinks
<1>4. c \in Areas
    <2>1. /\ [a.start EXCEPT ![x] = lo] \in [Slots -> Int]
          /\ [a.end EXCEPT ![x] = hi] \in [Slots -> Int]
          /\ [a.size EXCEPT ![x] = hi - lo] \in [Slots -> Int]
        BY DEF Areas
    <2>2. c = [a EXCEPT !.start = [a.start EXCEPT ![x] = lo], !.end = [a.end EXCEPT ![x] = hi],
                        !.size = [a.size EXCEPT ![x] = hi - lo]]
        BY <1>0 DEF SetRange, Areas
    <2> QED BY <2>1, <2>2 DEF Areas
<1> QED BY <1>0, <1>1, <1>2, <1>3, <1>4 DEF Areas, SameRange, Ranged

\* c is what bfree makes of a.
Freed(a, x, c) ==
    /\ c \in Areas /\ SameRanges(a, c)
    /\ c.freeno = Append(a.freeno, x) /\ c.maxpos = a.maxpos
    /\ \A b \in Slots : /\ c.next[b] = IF b = x THEN NullPtr ELSE a.next[b]
                        /\ c.prev[b] = IF b = x THEN NullPtr ELSE a.prev[b]

LEMMA BfreeFields ==
    ASSUME NEW a \in Areas, NEW x \in Slots
    PROVE  Freed(a, x, Bfree(a, x))
<1>0. PICK c : c = Bfree(a, x)
    OBVIOUS
<1>1. c.next = [a.next EXCEPT ![x] = NullPtr] /\ c.prev = [a.prev EXCEPT ![x] = NullPtr]
    BY <1>0 DEF Bfree, Areas
<1>2. c.freeno = Append(a.freeno, x) /\ c.maxpos = a.maxpos /\ SameRanges(a, c)
    BY <1>0 DEF Bfree, Areas, SameRanges
<1>3. c \in Areas
    <2>1. /\ [a.next EXCEPT ![x] = NullPtr] \in [Slots -> Pointer]
          /\ [a.prev EXCEPT ![x] = NullPtr] \in [Slots -> Pointer]
          /\ Append(a.freeno, x) \in Seq(Slots)
        BY DEF Areas, Pointer
    <2>2. c = [a EXCEPT !.next = [a.next EXCEPT ![x] = NullPtr],
                        !.prev = [a.prev EXCEPT ![x] = NullPtr],
                        !.freeno = Append(a.freeno, x)]
        BY <1>0 DEF Bfree, Areas
    <2> QED BY <2>1, <2>2 DEF Areas
<1> QED BY <1>0, <1>1, <1>2, <1>3 DEF Areas, Freed

\* c is what kalloc makes of a when it takes slot x for block [lo, hi).
Made(a, x, lo, hi, c) ==
    /\ c \in Areas /\ SameLinks(a, c) /\ SamePool(Balloc(a), c)
    /\ \A b \in Slots \ {x} : SameRange(a, c, b)
    /\ c.start[x] = lo /\ c.end[x] = hi /\ c.size[x] = hi - lo

LEMMA NewBlockFields ==
    ASSUME NEW a \in Areas, NEW lo \in Int, NEW hi \in Int,
           NEW x, x = BallocSlot(a), x \in Slots
    PROVE  Made(a, x, lo, hi, NewBlock(a, lo, hi))
<1>1. Balloc(a) \in Areas /\ SameRanges(a, Balloc(a)) /\ SameLinks(a, Balloc(a))
    <2>1. CASE a.freeno # << >>
        <3>1. Front(a.freeno) \in Seq(Slots)
            BY <2>1 DEF Areas, Front
        <3> QED BY <2>1, <3>1 DEF Balloc, Areas, SameLinks, SameRanges
    <2>2. CASE a.freeno = << >>
        <3>1. a.maxpos + 1 \in Nat
            BY DEF Areas
        <3> QED BY <2>2, <3>1 DEF Balloc, Areas, SameLinks, SameRanges
    <2> QED BY <2>1, <2>2
<1>2. NewBlock(a, lo, hi) = SetRange(Balloc(a), x, lo, hi)
    BY DEF NewBlock, SetRange
<1>3. Ranged(Balloc(a), x, lo, hi, NewBlock(a, lo, hi))
    BY <1>1, <1>2, SetRangeFields
<1> HIDE DEF Balloc
<1> QED BY <1>1, <1>3 DEF Ranged, Made, SamePool, SameLinks, SameRanges, SameRange
------------------------------------------------------------------------------
(***************************************************************************)
(* The inductive invariant: what the lists and the block area look like    *)
(* between two calls, while they are not tangled.                          *)
(***************************************************************************)
\* S is the list that begins behind head h.  That every part of S has a block whose
\* predecessor is not in it leaves out circles, and blocks that h does not lead to.
Linked(a, h, S) ==
    /\ h \in Slots /\ S \subseteq Slots /\ h \notin S
    /\ \A x \in S \cup {h} : a.next[x] # NullPtr => a.next[x] \in S /\ a.prev[a.next[x]] = x
    /\ \A x \in S : a.prev[x] \in S \cup {h} /\ a.next[a.prev[x]] = x
    /\ \A T \in SUBSET S : T # {} => \E x \in T : a.prev[x] \notin T

\* The slots taken so far are those in use, U, and those given back, each of them once;
\* one that is not in use has no successor.
Pool(a, U) ==
    /\ \A b \in Slots : b < a.maxpos <=> b \in U \/ \E i \in 1 .. Len(a.freeno) : a.freeno[i] = b
    /\ \A i \in 1 .. Len(a.freeno) : a.freeno[i] \notin U
    /\ \A i, j \in 1 .. Len(a.freeno) : a.freeno[i] = a.freeno[j] => i = j
    /\ \A b \in Slots \ U : a.next[b] = NullPtr

\* The ranges from s to e of the blocks B are a partition of the heap.
Tiled(s, e, B) ==
    /\ \A b \in B : HeapLo <= s[b] /\ s[b] < e[b] /\ e[b] <= HeapHi
    /\ \A b, c \in B : b # c => e[b] <= s[c] \/ e[c] <= s[b]
    /\ \A x \in HeapLo .. HeapHi - 1 : \E b \in B : s[b] <= x /\ x < e[b]

\* The size kept in a block is right, but for the one pmm_init makes.
Sized(a, b) ==
    \/ a.size[b] = a.end[b] - a.start[b]
    \/ a.size[b] = 0 /\ a.start[b] = HeapLo /\ a.end[b] = HeapHi

Aligned(a, b) ==
    /\ a.end[b] - a.start[b] \in Sizes
    /\ a.start[b] % AlignOf(a.end[b] - a.start[b]) = 0

\* The free list is in order, and no two of its blocks could be merged.
Merged(a, F) ==
    /\ a.start[Free] = 0 /\ a.end[Free] = 0
    /\ \A b \in F \cup {Free} : a.next[b] # NullPtr => a.end[b] < a.start[a.next[b]]

Numbered(a) == \A b \in Slots : {a.start[b], a.end[b], a.size[b]} \subseteq 0 .. HeapHi

InUse(F, A, N) == {Free, Alloc} \cup F \cup A \cup N
Parted(F, A, N) ==
    /\ N \subseteq Slots /\ {Free, Alloc} \cap (F \cup A \cup N) = {}
    /\ F \cap A = {} /\ N \cap (F \cup A) = {}

\* F and A are the blocks of the free and of the allocated list, N those that are in
\* neither while kalloc or kfree moves them: none before and after the call.
Sound(a, F, A, N) ==
    /\ a \in Areas /\ Numbered(a)
    /\ Linked(a, Free, F) /\ Linked(a, Alloc, A)
    /\ Parted(F, A, N) /\ Pool(a, InUse(F, A, N))
    /\ Tiled(a.start, a.end, F \cup A \cup N)
    /\ \A b \in F \cup A \cup N : Sized(a, b)
    /\ \A b \in A : Aligned(a, b)
    /\ Merged(a, F)

RangeIn(a, b) == [start |-> a.start[b], end |-> a.end[b]]
Holds(a, F, A) ==
    /\ Sound(a, F, A, {}) /\ a.maxpos <= 2 * MaxLive + 3
    /\ owned = {RangeIn(a, b) : b \in A}
    /\ Cardinality(A) <= MaxLive

Whole == [start |-> HeapLo, end |-> HeapHi]
IInv ==
    /\ {halted, tangled} \subseteq BOOLEAN
    /\ \/ tangled
       \/ /\ \E F, A \in SUBSET Slots : Holds(area, F, A)
          /\ halted => Whole \in owned
------------------------------------------------------------------------------
(***************************************************************************)
(* Walking along a list                                                    *)
(***************************************************************************)
\* W follows next from b on.
Follows(a, b, W) ==
    /\ W \in [Nat -> Pointer] /\ W[0] = b
    /\ \A n \in Nat : W[n + 1] = IF W[n] = NullPtr THEN NullPtr ELSE a.next[W[n]]

\* The recursive definition of Walk has the solution it means to have.
LEMMA WalkDef ==
    ASSUME NEW a \in Areas, NEW b \in Pointer
    PROVE  Follows(a, b, Walk(a, b))
<1> DEFINE W == Walk(a, b)
<1> DEFINE f == [p \in Pointer |-> IF p = NullPtr THEN NullPtr ELSE a.next[p]]
<1>1. f \in [Pointer -> Pointer]
    BY DEF Pointer, Areas
<1>2. PICK g : Iteration(Pointer, f, b, g)
    <2> HIDE DEF f
    <2> QED BY <1>1, IterationExists
<1>3. \A n \in Nat : g[n] = IF n = 0 THEN b ELSE IF g[n - 1] = NullPtr THEN NullPtr
                                                 ELSE a.next[g[n - 1]]
    <2> SUFFICES ASSUME NEW n \in Nat
                 PROVE g[n] = IF n = 0 THEN b ELSE IF g[n - 1] = NullPtr THEN NullPtr
                                                   ELSE a.next[g[n - 1]]
        OBVIOUS
    <2>1. CASE n = 0
        BY <1>2, <2>1 DEF Iteration
    <2>2. CASE n # 0
        <3>1. g[n] = f[g[n - 1]] /\ g[n - 1] \in Pointer
            BY <1>2, <2>2 DEF Iteration
        <3> QED BY <2>2, <3>1
    <2> QED BY <2>1, <2>2
<1>4. g = [n \in Nat |-> IF n = 0 THEN b ELSE IF g[n - 1] = NullPtr THEN NullPtr
                                              ELSE a.next[g[n - 1]]]
    <2> HIDE DEF f
    <2> QED BY <1>2, <1>3 DEF Iteration
<1>5. W = [n \in Nat |-> IF n = 0 THEN b ELSE IF W[n - 1] = NullPtr THEN NullPtr
                                              ELSE a.next[W[n - 1]]]
    BY <1>4 DEF Walk
<1> DEFINE T == {n \in Nat : W[n] \notin Pointer}
<1>6. T = {}
    <2> SUFFICES ASSUME T # {} PROVE FALSE
        OBVIOUS
    <2>1. PICK n \in T : \A k \in T : n <= k
        <3>1. T \subseteq Nat
            OBVIOUS
        <3> HIDE DEF T
        <3> QED BY <3>1, LeastNumber
    <2>2. W[n] = IF n = 0 THEN b ELSE IF W[n - 1] = NullPtr THEN NullPtr ELSE a.next[W[n - 1]]
        BY <1>5
    <2>3. n # 0 => W[n - 1] \in Pointer
        BY <2>1
    <2>4. \A p \in Pointer : p # NullPtr => a.next[p] \in Pointer
        BY DEF Areas, Pointer
    <2>5. NullPtr \in Pointer
        BY DEF Pointer
    <2> QED BY <2>1, <2>2, <2>3, <2>4, <2>5
<1>7. W \in [Nat -> Pointer]
    <2> HIDE DEF f
    <2> QED BY <1>5, <1>6
<1>8. W[0] = b
    BY <1>5
<1>9. \A n \in Nat : W[n + 1] = IF W[n] = NullPtr THEN NullPtr ELSE a.next[W[n]]
    <2> SUFFICES ASSUME NEW n \in Nat
                 PROVE W[n + 1] = IF W[n] = NullPtr THEN NullPtr ELSE a.next[W[n]]
        OBVIOUS
    <2>1. n + 1 \in Nat /\ n + 1 # 0 /\ (n + 1) - 1 = n
        OBVIOUS
    <2> QED BY <1>5, <2>1
<1> HIDE DEF W
<1> QED BY <1>7, <1>8, <1>9 DEF Follows, W

\* The walk from the head stays in the list, is nowhere twice and ends at NULL
\* within as many steps as there are slots.
LEMMA WalkStays ==
    ASSUME NEW a \in Areas, NEW h, NEW S, Linked(a, h, S), NEW W, W = Walk(a, h)
    PROVE  /\ \A n \in Nat : W[n + 1] \in S \cup {NullPtr}
           /\ \A m, n \in Nat : m < n /\ W[n] # NullPtr => W[m] # NullPtr /\ W[m] # W[n]
           /\ \A n \in Nat : n >= NSlots => W[n] = NullPtr
<1> USE SlotsNotNull
<1>1. h \in Slots /\ h \in Pointer /\ S \subseteq Slots /\ h \notin S
    BY DEF Linked, Pointer
<1>2. /\ W \in [Nat -> Pointer] /\ W[0] = h
      /\ \A n \in Nat : W[n + 1] = IF W[n] = NullPtr THEN NullPtr ELSE a.next[W[n]]
    <2>1. Follows(a, h, W)
        BY <1>1, WalkDef
    <2> QED BY <2>1 DEF Follows
<1> DEFINE Out == {n \in Nat : W[n] \notin S \cup {h, NullPtr}}
<1>3. Out = {}
    <2> SUFFICES ASSUME Out # {} PROVE FALSE
        OBVIOUS
    <2>1. PICK n \in Out : \A k \in Out : n <= k
        <3>1. Out \subseteq Nat
            OBVIOUS
        <3> HIDE DEF Out
        <3> QED BY <3>1, LeastNumber
    <2>2. n \in Nat /\ n # 0 /\ n - 1 \in Nat /\ (n - 1) + 1 = n
        BY <1>2, <2>1
    <2>3. W[n - 1] \in S \cup {h, NullPtr}
        BY <2>1, <2>2
    <2>4. W[n] = IF W[n - 1] = NullPtr THEN NullPtr ELSE a.next[W[n - 1]]
        BY <1>2, <2>2
    <2>5. \A x \in S \cup {h} : a.next[x] \in S \cup {NullPtr}
        BY DEF Linked
    <2> QED BY <2>1, <2>3, <2>4, <2>5
<1>4. ASSUME NEW n \in Nat PROVE W[n + 1] \in S \cup {NullPtr}
    <2>1. W[n] \in S \cup {h, NullPtr}
        BY <1>3
    <2>2. \A x \in S \cup {h} : a.next[x] \in S \cup {NullPtr}
        BY DEF Linked
    <2> QED BY <1>2, <2>1, <2>2
<1> DEFINE Back == {k \in Nat : \E m, n \in Nat :
                       m < n /\ n - m = k /\ W[n] # NullPtr /\ W[m] = NullPtr}
<1>5. Back = {}
    <2> SUFFICES ASSUME Back # {} PROVE FALSE
        OBVIOUS
    <2>1. PICK k \in Back : \A l \in Back : k <= l
        <3>1. Back \subseteq Nat
            OBVIOUS
        <3> HIDE DEF Back
        <3> QED BY <3>1, LeastNumber
    <2>2. PICK m, n \in Nat : m < n /\ n - m = k /\ W[n] # NullPtr /\ W[m] = NullPtr
        BY <2>1
    <2>3. W[m + 1] = NullPtr /\ m + 1 \in Nat
        BY <1>2, <2>2
    <2>4. m + 1 # n
        BY <2>2, <2>3
    <2>5. m + 1 < n /\ n - (m + 1) \in Nat /\ n - (m + 1) < k
        BY <2>2, <2>4
    <2>6. n - (m + 1) \in Back
        BY <2>2, <2>3, <2>5
    <2> HIDE DEF Back
    <2>7. k \in Nat /\ k <= n - (m + 1)
        BY <2>1, <2>2, <2>6
    <2> QED BY <2>5, <2>7
<1>6. ASSUME NEW m \in Nat, NEW n \in Nat, m < n, W[n] # NullPtr PROVE W[m] # NullPtr
    <2>1. n - m \in Nat
        BY <1>6
    <2>2. n - m \notin Back
        BY <1>5
    <2> QED BY <1>6, <2>1, <2>2
<1> DEFINE Twice == {m \in Nat : \E n \in Nat : m < n /\ W[n] # NullPtr /\ W[m] = W[n]}
<1>7. Twice = {}
    <2> SUFFICES ASSUME Twice # {} PROVE FALSE
        OBVIOUS
    <2>1. PICK m \in Twice : \A l \in Twice : m <= l
        <3>1. Twice \subseteq Nat
            OBVIOUS
        <3> HIDE DEF Twice
        <3> QED BY <3>1, LeastNumber
    <2>2. PICK n \in Nat : m < n /\ W[n] # NullPtr /\ W[m] = W[n]
        BY <2>1
    <2>3. n - 1 \in Nat /\ (n - 1) + 1 = n /\ W[n] \in S
        BY <1>4, <2>2
    <2>4. m # 0
        BY <1>1, <1>2, <2>2, <2>3
    <2>5. m - 1 \in Nat /\ (m - 1) + 1 = m /\ m - 1 < n - 1
        BY <2>1, <2>2, <2>4
    <2>6. W[m - 1] # NullPtr /\ W[n - 1] # NullPtr
        BY <1>6, <2>2, <2>3, <2>5
    <2>7. W[m - 1] \in S \cup {h} /\ W[n - 1] \in S \cup {h}
        BY <1>3, <2>3, <2>5, <2>6
    <2>8. a.next[W[m - 1]] = W[m] /\ a.next[W[n - 1]] = W[n]
        <3>1. W[(m - 1) + 1] = a.next[W[m - 1]] /\ W[(n - 1) + 1] = a.next[W[n - 1]]
            BY <1>2, <2>3, <2>5, <2>6
        <3> QED BY <2>3, <2>5, <3>1
    <2>9. a.prev[W[m]] = W[m - 1] /\ a.prev[W[n]] = W[n - 1]
        BY <2>2, <2>7, <2>8 DEF Linked
    <2>10. m - 1 \in Twice
        BY <2>2, <2>3, <2>5, <2>6, <2>9
    <2> HIDE DEF Twice
    <2> QED BY <2>1, <2>5, <2>10
<1>8. \A m, n \in Nat : m < n /\ W[n] # NullPtr => W[m] # W[n]
    BY <1>7
<1>9. ASSUME NEW n \in Nat, n >= NSlots PROVE W[n] = NullPtr
    <2> SUFFICES ASSUME W[n] # NullPtr PROVE FALSE
        OBVIOUS
    <2> DEFINE w == [i \in 0 .. n |-> W[i]]
    <2>1. w \in [0 .. n -> Slots]
        <3> SUFFICES ASSUME NEW i \in 0 .. n PROVE W[i] \in Slots
            OBVIOUS
        <3>1. i \in Nat /\ (i = n \/ i < n)
            OBVIOUS
        <3>2. W[i] # NullPtr
            BY <1>6, <3>1
        <3> QED BY <1>2, <3>1, <3>2 DEF Pointer
    <2>2. IsFiniteSet(0 .. n) /\ Cardinality(0 .. n) = n + 1
        BY FS_Interval
    <2>3. IsFiniteSet(Slots) /\ Cardinality(Slots) = NSlots
        BY FS_Interval, HeapAssumption DEF Slots
    <2>4. NSlots < n + 1
        BY <1>9, HeapAssumption
    <2> HIDE DEF w
    <2>5. PICK i, j \in 0 .. n : i # j /\ w[i] = w[j]
        BY <2>1, <2>2, <2>3, <2>4, FS_PigeonHole
    <2>6. i \in Nat /\ j \in Nat /\ i <= n /\ j <= n
        OBVIOUS
    <2>7. W[i] = W[j] /\ W[i] # NullPtr
        BY <1>6, <2>5, <2>6 DEF w
    <2>8. i < j \/ j < i
        BY <2>5, <2>6
    <2> QED BY <1>8, <2>6, <2>7, <2>8
<1> QED BY <1>4, <1>6, <1>8, <1>9

\* A list consists of the blocks that the walk from its head meets.
LEMMA WalkMeets ==
    ASSUME NEW a \in Areas, NEW h, NEW S, Linked(a, h, S), NEW W, W = Walk(a, h)
    PROVE  \A x \in S : \E n \in 1 .. NSlots : W[n] = x
<1> SUFFICES ASSUME NEW x \in S PROVE \E n \in 1 .. NSlots : W[n] = x
    OBVIOUS
<1>1. h \in Slots /\ h \in Pointer /\ S \subseteq Slots /\ NullPtr \notin Slots
    BY SlotsNotNull DEF Linked, Pointer
<1>2. /\ W \in [Nat -> Pointer] /\ W[0] = h
      /\ \A n \in Nat : W[n + 1] = IF W[n] = NullPtr THEN NullPtr ELSE a.next[W[n]]
    <2>1. Follows(a, h, W)
        BY <1>1, WalkDef
    <2> QED BY <2>1 DEF Follows
<1> DEFINE Missed == {y \in S : \A n \in Nat : W[n] # y}
<1>3. Missed = {}
    <2> SUFFICES ASSUME Missed # {} PROVE FALSE
        OBVIOUS
    <2>1. PICK y \in Missed : a.prev[y] \notin Missed
        BY DEF Linked
    <2>2. a.prev[y] \in S \cup {h} /\ a.next[a.prev[y]] = y
        BY <2>1 DEF Linked
    <2>3. PICK n \in Nat : W[n] = a.prev[y]
        <3>1. CASE a.prev[y] = h
            BY <1>2, <3>1
        <3>2. CASE a.prev[y] \in S
            BY <2>1, <3>2
        <3> QED BY <2>2, <3>1, <3>2
    <2>4. W[n] # NullPtr
        BY <1>1, <2>2, <2>3
    <2>5. n + 1 \in Nat /\ W[n + 1] = y
        BY <1>2, <2>2, <2>3, <2>4
    <2> QED BY <2>1, <2>5
<1>4. PICK n \in Nat : W[n] = x
    BY <1>3
<1>5. n # 0
    BY <1>2, <1>4 DEF Linked
<1>6. ~(n >= NSlots)
    BY <1>1, <1>4, WalkStays
<1>7. n \in 1 .. NSlots
    BY <1>5, <1>6, HeapAssumption
<1> QED BY <1>4, <1>7

LEMMA ListIsWalk ==
    ASSUME NEW a \in Areas, NEW h, NEW S, Linked(a, h, S)
    PROVE  Blocks(a, h) = S /\ Ends(a, h)
<1> DEFINE W == Walk(a, h)
<1>1. S \subseteq Slots /\ NullPtr \notin Slots
    BY SlotsNotNull DEF Linked
<1>2. \A n \in Nat : W[n + 1] \in S \cup {NullPtr}
    BY WalkStays, Zenon
<1>3. \A x \in S : \E n \in 1 .. NSlots : W[n] = x
    BY WalkMeets
<1>4. W[NSlots] = NullPtr
    <2>1. \A n \in Nat : n >= NSlots => W[n] = NullPtr
        BY WalkStays, Zenon
    <2> QED BY <2>1, HeapAssumption
<1> HIDE DEF W
<1>5. \A n \in 1 .. NSlots : W[n] \in S \cup {NullPtr}
    <2> SUFFICES ASSUME NEW n \in 1 .. NSlots PROVE W[n] \in S \cup {NullPtr}
        OBVIOUS
    <2>1. n - 1 \in Nat /\ (n - 1) + 1 = n
        BY HeapAssumption
    <2> QED BY <1>2, <2>1
<1>6. {W[n] : n \in 1 .. NSlots} \ {NullPtr} = S
    BY <1>1, <1>3, <1>5
<1> QED BY <1>4, <1>6 DEF Blocks, Ends, W

\* A search along the whole walk finds a block of the set if there is one.
LEMMA FirstOnWalk ==
    ASSUME NEW a, NEW b, NEW set, NEW P, NullPtr \notin set,
           \A n \in 0 .. NSlots : Walk(a, b)[n] \in P \cup {NullPtr},
           \A x \in P \cap set : \E n \in 0 .. NSlots : Walk(a, b)[n] = x
    PROVE  /\ First(a, b, set) \subseteq P \cap set
           /\ P \cap set # {} => First(a, b, set) # {}
<1> DEFINE W == Walk(a, b)
<1> HIDE DEF W
<1> DEFINE hits == {n \in 0 .. NSlots : W[n] \in set}
<1>1. First(a, b, set) = {W[n] : n \in {m \in hits : \A k \in hits : m <= k}}
    BY DEF First, W
<1>2. First(a, b, set) \subseteq P \cap set
    BY <1>1 DEF W
<1>3. ASSUME P \cap set # {} PROVE First(a, b, set) # {}
    <2>1. hits # {}
        BY <1>3 DEF W
    <2>2. hits \subseteq Nat
        OBVIOUS
    <2> HIDE DEF hits
    <2>3. \E m \in hits : \A k \in hits : m <= k
        BY <2>1, <2>2, LeastNumber
    <2> QED BY <1>1, <2>3
<1> QED BY <1>2, <1>3

LEMMA FirstFromHead ==
    ASSUME NEW a \in Areas, NEW h, NEW S, Linked(a, h, S), NEW set, NullPtr \notin set
    PROVE  /\ First(a, h, set) \subseteq (S \cup {h}) \cap set
           /\ (S \cup {h}) \cap set # {} => First(a, h, set) # {}
<1> DEFINE W == Walk(a, h)
<1>1. \A n \in Nat : W[n + 1] \in S \cup {NullPtr}
    BY WalkStays, Zenon
<1>2. \A x \in S : \E n \in 1 .. NSlots : W[n] = x
    BY WalkMeets
<1>3. W[0] = h
    <2>1. h \in Pointer
        BY DEF Linked, Pointer
    <2> QED BY <2>1, WalkDef DEF Follows
<1> HIDE DEF W
<1>4. \A n \in 0 .. NSlots : W[n] \in (S \cup {h}) \cup {NullPtr}
    <2> SUFFICES ASSUME NEW n \in 0 .. NSlots PROVE W[n] \in (S \cup {h}) \cup {NullPtr}
        OBVIOUS
    <2>1. n = 0 \/ (n - 1 \in Nat /\ (n - 1) + 1 = n)
        BY HeapAssumption
    <2> QED BY <1>1, <1>3, <2>1
<1>5. \A x \in (S \cup {h}) \cap set : \E n \in 0 .. NSlots : W[n] = x
    <2> SUFFICES ASSUME NEW x \in S \cup {h} PROVE \E n \in 0 .. NSlots : W[n] = x
        OBVIOUS
    <2>1. CASE x = h
        BY <1>3, <2>1, HeapAssumption
    <2>2. CASE x \in S
        BY <1>2, <2>2, HeapAssumption
    <2> QED BY <2>1, <2>2
<1> DEFINE P == S \cup {h}
<1> HIDE DEF P
<1>6. \A n \in 0 .. NSlots : Walk(a, h)[n] \in P \cup {NullPtr}
    BY <1>4 DEF P, W
<1>7. \A x \in P \cap set : \E n \in 0 .. NSlots : Walk(a, h)[n] = x
    BY <1>5 DEF P, W
<1>8. First(a, h, set) \subseteq P \cap set /\ (P \cap set # {} => First(a, h, set) # {})
    BY <1>6, <1>7, FirstOnWalk
<1> QED BY <1>8 DEF P

LEMMA FirstInList ==
    ASSUME NEW a \in Areas, NEW h, NEW S, Linked(a, h, S), NEW set, NullPtr \notin set
    PROVE  /\ First(a, a.next[h], set) \subseteq S \cap set
           /\ S \cap set # {} => First(a, a.next[h], set) # {}
<1> DEFINE W == Walk(a, h)
           V == Walk(a, a.next[h])
<1>1. h \in Slots /\ h \in Pointer /\ a.next[h] \in Pointer /\ NullPtr \notin Slots
    BY SlotsNotNull DEF Linked, Pointer, Areas
<1>2. W[0] = h /\ \A n \in Nat : W[n + 1] = IF W[n] = NullPtr THEN NullPtr ELSE a.next[W[n]]
    BY <1>1, WalkDef DEF Follows
<1>3. V[0] = a.next[h]
      /\ \A n \in Nat : V[n + 1] = IF V[n] = NullPtr THEN NullPtr ELSE a.next[V[n]]
    BY <1>1, WalkDef DEF Follows
<1>4. \A n \in Nat : W[n + 1] \in S \cup {NullPtr}
    BY WalkStays, Zenon
<1>5. \A x \in S : \E n \in 1 .. NSlots : W[n] = x
    BY WalkMeets
<1> HIDE DEF W, V
<1> DEFINE T == {n \in Nat : V[n] # W[n + 1]}
<1>6. T = {}
    <2> SUFFICES ASSUME T # {} PROVE FALSE
        OBVIOUS
    <2>1. PICK n \in T : \A k \in T : n <= k
        <3>1. T \subseteq Nat
            OBVIOUS
        <3> HIDE DEF T
        <3> QED BY <3>1, LeastNumber
    <2>2. n # 0
        <3>1. W[0 + 1] = a.next[h]
            BY <1>1, <1>2
        <3> QED BY <1>3, <2>1, <3>1
    <2>3. n - 1 \in Nat /\ (n - 1) + 1 = n /\ n \in Nat
        BY <2>1, <2>2
    <2>4. V[n - 1] = W[n]
        BY <2>1, <2>3
    <2>5. V[n] = W[n + 1]
        <3>1. V[(n - 1) + 1] = IF V[n - 1] = NullPtr THEN NullPtr ELSE a.next[V[n - 1]]
            BY <1>3, <2>3
        <3> QED BY <1>2, <2>3, <2>4, <3>1
    <2> QED BY <2>1, <2>5
<1>7. \A n \in 0 .. NSlots : V[n] \in S \cup {NullPtr}
    BY <1>4, <1>6, HeapAssumption
<1>8. \A x \in S \cap set : \E n \in 0 .. NSlots : V[n] = x
    <2> SUFFICES ASSUME NEW x \in S PROVE \E n \in 0 .. NSlots : V[n] = x
        OBVIOUS
    <2>1. PICK n \in 1 .. NSlots : W[n] = x
        BY <1>5
    <2>2. n - 1 \in 0 .. NSlots /\ n - 1 \in Nat /\ (n - 1) + 1 = n
        BY HeapAssumption
    <2>3. V[n - 1] = x
        BY <1>6, <2>1, <2>2
    <2> QED BY <2>2, <2>3
<1> QED BY <1>7, <1>8, FirstOnWalk, Zenon DEF V
------------------------------------------------------------------------------
(***************************************************************************)
(* What insertion and removal make of a list                               *)
(***************************************************************************)
LEMMA LinkedFrame ==
    ASSUME NEW a, NEW c, NEW h, NEW S, Linked(a, h, S),
           \A x \in S \cup {h} : c.next[x] = a.next[x],
           \A x \in S : c.prev[x] = a.prev[x]
    PROVE  Linked(c, h, S)
<1>1. h \in Slots /\ S \subseteq Slots /\ h \notin S
    BY DEF Linked
<1>2. \A x \in S \cup {h} : c.next[x] # NullPtr => c.next[x] \in S /\ c.prev[c.next[x]] = x
    BY DEF Linked
<1>3. \A x \in S : c.prev[x] \in S \cup {h} /\ c.next[c.prev[x]] = x
    BY DEF Linked
<1>4. ASSUME NEW T \in SUBSET S, T # {} PROVE \E x \in T : c.prev[x] \notin T
    <2>1. PICK x \in T : a.prev[x] \notin T
        BY <1>4 DEF Linked
    <2> QED BY <2>1
<1> QED BY <1>1, <1>2, <1>3, <1>4 DEF Linked

LEMMA LinkedInsert ==
    ASSUME NEW a \in Areas, NEW h, NEW S, Linked(a, h, S),
           NEW pre \in S \cup {h}, NEW x \in Slots, x \notin S \cup {h},
           a.next[pre] = NullPtr => a.next[x] = NullPtr,
           NEW c, c = BinsertPlain(a, pre, x)
    PROVE  Linked(c, h, S \cup {x})
<1> USE SlotsNotNull
<1>1. h \in Slots /\ S \subseteq Slots /\ h \notin S /\ pre \in Slots /\ pre # x
    BY DEF Linked
<1>2. PICK succ : succ = a.next[pre]
    OBVIOUS
<1>3. succ # NullPtr => succ \in S /\ a.prev[succ] = pre
    BY <1>2 DEF Linked
<1>4. succ # x
    BY <1>3
<1>5. \A b \in Slots :
         /\ c.next[b] = IF b = pre THEN x ELSE IF b = x /\ succ # NullPtr THEN succ ELSE a.next[b]
         /\ c.prev[b] = IF b = x THEN pre ELSE IF b = succ THEN x ELSE a.prev[b]
    BY <1>1, <1>2, <1>4, BinsertFields
<1>6. c.next[x] = succ
    BY <1>1, <1>2, <1>5
<1>7. ASSUME NEW y \in (S \cup {x}) \cup {h}, c.next[y] # NullPtr
      PROVE  c.next[y] \in S \cup {x} /\ c.prev[c.next[y]] = y
    <2>1. CASE y = pre
        BY <1>1, <1>5, <2>1
    <2>2. CASE y = x
        BY <1>1, <1>3, <1>4, <1>5, <1>6, <1>7, <2>2
    <2>3. CASE y # pre /\ y # x
        <3>1. y \in S \cup {h} /\ y \in Slots /\ c.next[y] = a.next[y]
            BY <1>1, <1>5, <2>3
        <3>2. a.next[y] \in S /\ a.prev[a.next[y]] = y
            BY <1>7, <3>1 DEF Linked
        <3>3. a.next[y] # succ
            BY <1>1, <1>3, <2>3, <3>2
        <3> QED BY <1>1, <1>5, <3>1, <3>2, <3>3
    <2> QED BY <2>1, <2>2, <2>3
<1>8. ASSUME NEW y \in S \cup {x}
      PROVE  c.prev[y] \in (S \cup {x}) \cup {h} /\ c.next[c.prev[y]] = y
    <2>1. CASE y = x
        BY <1>1, <1>5, <2>1
    <2>2. CASE y = succ /\ y # x
        BY <1>1, <1>5, <1>6, <2>2
    <2>3. CASE y # succ /\ y # x
        <3>1. y \in S /\ y \in Slots /\ c.prev[y] = a.prev[y]
            BY <1>1, <1>5, <2>3
        <3>2. a.prev[y] \in S \cup {h} /\ a.next[a.prev[y]] = y
            BY <3>1 DEF Linked
        <3>3. a.prev[y] # pre /\ a.prev[y] # x /\ a.prev[y] \in Slots
            BY <1>1, <1>2, <2>3, <3>2
        <3> QED BY <1>5, <3>1, <3>2, <3>3
    <2> QED BY <2>1, <2>2, <2>3
<1>9. ASSUME NEW T \in SUBSET (S \cup {x}), T # {} PROVE \E y \in T : c.prev[y] \notin T
    <2>1. \A y \in S : a.prev[y] \in S \cup {h}
        BY DEF Linked
    <2>2. CASE x \notin T
        <3>1. PICK y \in T : a.prev[y] \notin T
            BY <1>9, <2>2 DEF Linked
        <3>2. y \in S /\ y # x
            BY <2>2
        <3> QED BY <1>1, <1>5, <2>2, <3>1, <3>2
    <2>3. CASE x \in T /\ pre \notin T
        BY <1>5, <2>3
    <2>4. CASE x \in T /\ pre \in T
        <3>1. T \ {x} \in SUBSET S /\ T \ {x} # {}
            BY <1>1, <2>4
        <3>2. PICK y \in T \ {x} : a.prev[y] \notin T \ {x}
            BY <3>1 DEF Linked
        <3>3. y \in S /\ y \in Slots /\ a.prev[y] # x
            BY <1>1, <2>1, <3>1
        <3>4. y # succ
            BY <1>1, <1>3, <2>4, <3>2, SlotsNotNull
        <3> QED BY <1>5, <3>2, <3>3, <3>4
    <2> QED BY <2>2, <2>3, <2>4
<1>10. h \in Slots /\ S \cup {x} \subseteq Slots /\ h \notin S \cup {x}
    BY <1>1
<1> QED BY <1>7, <1>8, <1>9, <1>10 DEF Linked

LEMMA LinkedRemove ==
    ASSUME NEW a \in Areas, NEW h, NEW S, Linked(a, h, S), NEW x \in S,
           NEW c, c = Bdelete(a, x)
    PROVE  Linked(c, h, S \ {x})
<1> USE SlotsNotNull
<1>1. h \in Slots /\ S \subseteq Slots /\ h \notin S /\ x \in Slots
    BY DEF Linked
<1>2. PICK pre : pre = a.prev[x]
    OBVIOUS
<1>3. PICK succ : succ = a.next[x]
    OBVIOUS
<1>4. pre \in S \cup {h} /\ pre \in Slots /\ a.next[pre] = x
    BY <1>1, <1>2 DEF Linked
<1>5. succ # NullPtr => succ \in S /\ a.prev[succ] = x
    BY <1>3 DEF Linked
<1>6. \A b \in Slots : /\ c.next[b] = IF b = pre THEN succ ELSE a.next[b]
                       /\ c.prev[b] = IF b = succ THEN pre ELSE a.prev[b]
    BY <1>1, <1>2, <1>3, <1>4, BdeleteFields
<1>7. pre # x
    <2>1. PICK y \in {x} : a.prev[y] \notin {x}
        BY DEF Linked
    <2> QED BY <1>2, <2>1
<1>8. succ # x
    BY <1>1, <1>2, <1>5, <1>7
<1>9. ASSUME NEW y \in (S \ {x}) \cup {h}, c.next[y] # NullPtr
      PROVE  c.next[y] \in S \ {x} /\ c.prev[c.next[y]] = y
    <2>1. CASE y = pre
        BY <1>1, <1>4, <1>5, <1>6, <1>8, <1>9, <2>1
    <2>2. CASE y # pre
        <3>1. y \in S \cup {h} /\ y \in Slots /\ c.next[y] = a.next[y] /\ y # x
            BY <1>1, <1>6, <2>2
        <3>2. a.next[y] \in S /\ a.prev[a.next[y]] = y
            BY <1>9, <3>1 DEF Linked
        <3>3. a.next[y] # succ /\ a.next[y] # x
            BY <1>1, <1>2, <1>5, <2>2, <3>1, <3>2
        <3> QED BY <1>1, <1>6, <3>1, <3>2, <3>3
    <2> QED BY <2>1, <2>2
<1>10. ASSUME NEW y \in S \ {x}
       PROVE  c.prev[y] \in (S \ {x}) \cup {h} /\ c.next[c.prev[y]] = y
    <2>1. CASE y = succ
        BY <1>1, <1>4, <1>6, <1>7, <2>1
    <2>2. CASE y # succ
        <3>1. y \in S /\ y \in Slots /\ c.prev[y] = a.prev[y]
            BY <1>1, <1>6, <2>2
        <3>2. a.prev[y] \in S \cup {h} /\ a.next[a.prev[y]] = y
            BY <3>1 DEF Linked
        <3>3. a.prev[y] # pre /\ a.prev[y] # x /\ a.prev[y] \in Slots
            BY <1>1, <1>3, <1>4, <2>2, <3>2
        <3> QED BY <1>6, <3>1, <3>2, <3>3
    <2> QED BY <2>1, <2>2
<1>11. ASSUME NEW T \in SUBSET (S \ {x}), T # {} PROVE \E y \in T : c.prev[y] \notin T
    <2>1. T \cup {x} \in SUBSET S /\ T \cup {x} # {} /\ T \in SUBSET S
        OBVIOUS
    <2>2. PICK y \in T \cup {x} : a.prev[y] \notin T \cup {x}
        BY <2>1 DEF Linked
    <2>3. CASE y # x
        <3>1. y \in T /\ y \in Slots /\ y # succ
            BY <1>1, <1>5, <2>2, <2>3
        <3> QED BY <1>6, <2>2, <3>1
    <2>4. CASE y = x
        <3>1. PICK z \in T : a.prev[z] \notin T
            BY <1>11, <2>1 DEF Linked
        <3>2. z \in Slots
            BY <1>1
        <3> QED BY <1>2, <1>6, <2>2, <2>4, <3>1, <3>2
    <2> QED BY <2>3, <2>4
<1>12. h \in Slots /\ S \ {x} \subseteq Slots /\ h \notin S \ {x}
    BY <1>1
<1> QED BY <1>9, <1>10, <1>11, <1>12 DEF Linked
------------------------------------------------------------------------------
(***************************************************************************)
(* Order and number of the blocks                                          *)
(***************************************************************************)
LEMMA HeapNumbers == HeapLo \in Nat /\ HeapLo > 0 /\ HeapHi \in Nat /\ HeapLo < HeapHi
BY HeapAssumption

LEMMA SoundSlots ==
    ASSUME NEW a, NEW F, NEW A, Sound(a, F, A, {})
    PROVE  /\ a \in Areas /\ F \subseteq Slots /\ A \subseteq Slots /\ F \cap A = {}
           /\ {Free, Alloc} \cap (F \cup A) = {}
           /\ \A b \in Slots : a.start[b] \in Nat /\ a.end[b] \in Nat /\ a.size[b] \in Nat
           /\ \A b \in Slots : a.next[b] \in Pointer /\ a.prev[b] \in Pointer
<1>1. a \in Areas /\ F \subseteq Slots /\ A \subseteq Slots
    BY DEF Sound, Linked
<1>2. F \cap A = {} /\ {Free, Alloc} \cap (F \cup A) = {}
    BY DEF Sound, Parted
<1>3. \A b \in Slots : a.start[b] \in Nat /\ a.end[b] \in Nat /\ a.size[b] \in Nat
    BY HeapNumbers DEF Sound, Numbered
<1>4. \A b \in Slots : a.next[b] \in Pointer /\ a.prev[b] \in Pointer
    BY <1>1 DEF Areas
<1> QED BY <1>1, <1>2, <1>3, <1>4

\* Between any two blocks of the free list there is a range in use.
LEMMA Ascending ==
    ASSUME NEW a, NEW F, NEW A, Sound(a, F, A, {})
    PROVE  \A f, g \in F \cup {Free} : f # g => a.end[f] < a.start[g] \/ a.end[g] < a.start[f]
<1>1. /\ a \in Areas /\ F \subseteq Slots /\ NullPtr \notin Slots /\ Linked(a, Free, F)
      /\ Free \in Slots /\ Free \in Pointer
      /\ \A b \in Slots : a.start[b] \in Nat /\ a.end[b] \in Nat
    BY SoundSlots, SlotsNotNull DEF Sound, Pointer
<1>2. \A b \in F \cup {Free} : a.start[b] <= a.end[b]
    <2>1. \A b \in F : a.start[b] < a.end[b]
        BY DEF Sound, Tiled
    <2>2. a.start[Free] <= a.end[Free]
        BY DEF Sound, Merged
    <2> QED BY <1>1, <2>1, <2>2
<1>3. \A b \in F \cup {Free} : a.next[b] # NullPtr => a.end[b] < a.start[a.next[b]]
    BY DEF Sound, Merged
<1> DEFINE W == Walk(a, Free)
<1>4. W[0] = Free /\ \A n \in Nat : W[n + 1] = IF W[n] = NullPtr THEN NullPtr ELSE a.next[W[n]]
    <2>1. Follows(a, Free, W)
        BY <1>1, WalkDef
    <2> HIDE DEF W
    <2> QED BY <2>1 DEF Follows
<1>5. \A n \in Nat : W[n + 1] \in F \cup {NullPtr}
    BY <1>1, WalkStays, Zenon
<1>6. \A m, n \in Nat : m < n /\ W[n] # NullPtr => W[m] # NullPtr
    BY <1>1, WalkStays
<1>7. \A x \in F : \E n \in 1 .. NSlots : W[n] = x
    BY <1>1, WalkMeets
<1> HIDE DEF W
<1>8. ASSUME NEW n \in Nat, W[n] # NullPtr PROVE W[n] \in F \cup {Free}
    <2>1. CASE n = 0
        BY <1>4, <2>1
    <2>2. CASE n # 0
        <3>1. n - 1 \in Nat /\ (n - 1) + 1 = n
            BY <2>2
        <3> QED BY <1>5, <1>8, <3>1
    <2> QED BY <2>1, <2>2
<1> DEFINE T == {n \in Nat : \E m \in Nat : m < n /\ W[n] # NullPtr
                                            /\ ~(a.end[W[m]] < a.start[W[n]])}
<1>9. T = {}
    <2> SUFFICES ASSUME T # {} PROVE FALSE
        OBVIOUS
    <2>1. PICK n \in T : \A k \in T : n <= k
        <3>1. T \subseteq Nat
            OBVIOUS
        <3> HIDE DEF T
        <3> QED BY <3>1, LeastNumber
    <2>2. PICK m \in Nat : m < n /\ W[n] # NullPtr /\ ~(a.end[W[m]] < a.start[W[n]])
        BY <2>1
    <2>3. n - 1 \in Nat /\ (n - 1) + 1 = n /\ n \in Nat
        BY <2>1, <2>2
    <2>4. W[n - 1] # NullPtr
        BY <1>6, <2>2, <2>3
    <2>5. W[n - 1] \in F \cup {Free}
        BY <1>8, <2>3, <2>4
    <2>6. W[n] = a.next[W[n - 1]]
        BY <1>4, <2>3, <2>4
    <2>7. a.end[W[n - 1]] < a.start[W[n]]
        BY <1>3, <2>2, <2>5, <2>6
    <2>8. m # n - 1
        BY <2>2, <2>7
    <2>9. m < n - 1
        BY <2>2, <2>3, <2>8
    <2>10. n - 1 \notin T
        BY <2>1, <2>3
    <2>11. a.end[W[m]] < a.start[W[n - 1]]
        BY <2>3, <2>4, <2>9, <2>10
    <2>12. W[m] \in F \cup {Free} /\ W[n] \in F \cup {Free}
        BY <1>6, <1>8, <2>2, <2>3
    <2>13. W[m] \in Slots /\ W[n] \in Slots /\ W[n - 1] \in Slots
        BY <1>1, <2>5, <2>12
    <2>14. a.start[W[n - 1]] <= a.end[W[n - 1]]
        BY <1>2, <2>5
    <2> HIDE DEF T
    <2> QED BY <1>1, <2>2, <2>7, <2>11, <2>13, <2>14
<1>10. ASSUME NEW f \in F \cup {Free} PROVE \E n \in Nat : W[n] = f
    <2>1. CASE f = Free
        BY <1>4, <2>1
    <2>2. CASE f \in F
        BY <1>7, <2>2, HeapAssumption
    <2> QED BY <2>1, <2>2
<1> SUFFICES ASSUME NEW f \in F \cup {Free}, NEW g \in F \cup {Free}, f # g
             PROVE  a.end[f] < a.start[g] \/ a.end[g] < a.start[f]
    OBVIOUS
<1>11. PICK m \in Nat : W[m] = f
    BY <1>10
<1>12. PICK n \in Nat : W[n] = g
    BY <1>10
<1>13. m < n \/ n < m
    BY <1>11, <1>12
<1>14. f # NullPtr /\ g # NullPtr
    BY <1>1
<1>15. CASE m < n
    <2>1. n \notin T
        BY <1>9
    <2> QED BY <1>11, <1>12, <1>14, <1>15, <2>1
<1>16. CASE n < m
    <2>1. m \notin T
        BY <1>9
    <2> QED BY <1>11, <1>12, <1>14, <1>16, <2>1
<1> QED BY <1>13, <1>15, <1>16

\* What a block ends at is the end of the heap or the beginning of another block.
LEMMA EndsAtBlock ==
    ASSUME NEW a, NEW F, NEW A, Sound(a, F, A, {}), NEW b \in F \cup A, a.end[b] # HeapHi
    PROVE  \E d \in F \cup A : a.start[d] = a.end[b]
<1>1. F \cup A \subseteq Slots /\ \A d \in Slots : a.start[d] \in Nat /\ a.end[d] \in Nat
    BY SoundSlots
<1>2. Tiled(a.start, a.end, F \cup A)
    BY DEF Sound
<1>3. HeapLo <= a.start[b] /\ a.start[b] < a.end[b] /\ a.end[b] <= HeapHi
    BY <1>2 DEF Tiled
<1>4. a.end[b] \in HeapLo .. HeapHi - 1
    BY <1>1, <1>3, HeapNumbers
<1>5. PICK d \in F \cup A : a.start[d] <= a.end[b] /\ a.end[b] < a.end[d]
    BY <1>2, <1>4 DEF Tiled
<1>6. d # b /\ b \in Slots /\ d \in Slots
    BY <1>1, <1>5
<1>7. a.end[b] <= a.start[d] \/ a.end[d] <= a.start[b]
    BY <1>2, <1>6 DEF Tiled
<1>8. a.start[d] = a.end[b]
    BY <1>1, <1>3, <1>5, <1>6, <1>7
<1> QED BY <1>8

\* A free block that does not reach the end of the heap is followed by a range in use.
LEMMA UsedBehindFree ==
    ASSUME NEW a, NEW F, NEW A, Sound(a, F, A, {}), NEW f \in F, a.end[f] # HeapHi
    PROVE  \E d \in A : a.start[d] = a.end[f]
<1>1. PICK d \in F \cup A : a.start[d] = a.end[f]
    BY EndsAtBlock
<1>2. F \cup A \subseteq Slots /\ \A e \in Slots : a.start[e] \in Nat /\ a.end[e] \in Nat
    BY SoundSlots
<1>3. \A e \in F \cup A : a.start[e] < a.end[e]
    BY DEF Sound, Tiled
<1>4. d \notin F
    <2> SUFFICES ASSUME d \in F PROVE FALSE
        OBVIOUS
    <2>1. d # f /\ d \in Slots /\ f \in Slots
        BY <1>1, <1>2, <1>3
    <2>2. a.end[f] < a.start[d] \/ a.end[d] < a.start[f]
        BY <2>1, Ascending
    <2> QED BY <1>1, <1>2, <1>3, <2>1, <2>2
<1> QED BY <1>1, <1>4

\* A range of the heap that meets nothing in use lies in one free block.
LEMMA GapIsFree ==
    ASSUME NEW a, NEW F, NEW A, Sound(a, F, A, {}), NEW lo \in Nat, NEW hi \in Nat,
           HeapLo <= lo, lo < hi, hi <= HeapHi,
           \A b \in A : a.end[b] <= lo \/ hi <= a.start[b]
    PROVE  \E f \in F : a.start[f] <= lo /\ hi <= a.end[f]
<1>1. F \cup A \subseteq Slots /\ \A e \in Slots : a.start[e] \in Nat /\ a.end[e] \in Nat
    BY SoundSlots
<1>2. Tiled(a.start, a.end, F \cup A)
    BY DEF Sound
<1>3. lo \in HeapLo .. HeapHi - 1
    BY HeapNumbers
<1>4. PICK f \in F \cup A : a.start[f] <= lo /\ lo < a.end[f]
    BY <1>2, <1>3 DEF Tiled
<1>5. f \in F /\ f \in Slots /\ a.end[f] <= HeapHi
    BY <1>1, <1>2, <1>4 DEF Tiled
<1>6. ASSUME a.end[f] < hi PROVE FALSE
    <2>1. a.end[f] # HeapHi
        BY <1>1, <1>5, <1>6, HeapNumbers
    <2>2. PICK d \in A : a.start[d] = a.end[f]
        BY <1>5, <2>1, UsedBehindFree
    <2>3. d \in Slots /\ a.start[d] < a.end[d]
        BY <1>1, <1>2 DEF Tiled
    <2> QED BY <1>1, <1>4, <1>5, <1>6, <2>2, <2>3
<1> QED BY <1>1, <1>4, <1>5, <1>6

\* As long as nothing is in use the free list has one block, without a successor.
LEMMA LoneFree ==
    ASSUME NEW a, NEW F, NEW A, Sound(a, F, A, {}), A = {}, NEW f \in F
    PROVE  a.next[f] = NullPtr
<1> SUFFICES ASSUME a.next[f] # NullPtr PROVE FALSE
    OBVIOUS
<1>1. a.next[f] \in F /\ a.end[f] < a.start[a.next[f]]
    BY DEF Sound, Linked, Merged
<1>2. F \cup A \subseteq Slots /\ \A e \in Slots : a.start[e] \in Nat /\ a.end[e] \in Nat
    BY SoundSlots
<1>3. a.start[a.next[f]] < a.end[a.next[f]] /\ a.end[a.next[f]] <= HeapHi
    BY <1>1 DEF Sound, Tiled
<1>4. a.end[f] # HeapHi
    BY <1>1, <1>2, <1>3, HeapNumbers
<1> QED BY <1>4, UsedBehindFree

\* Every free block but the last has a range in use behind it.
LEMMA FewFree ==
    ASSUME NEW a, NEW F, NEW A, Sound(a, F, A, {})
    PROVE  /\ IsFiniteSet(F) /\ IsFiniteSet(A)
           /\ Cardinality(F) <= Cardinality(A) + 1
<1>1. F \subseteq Slots /\ A \subseteq Slots /\ \A e \in Slots : a.start[e] \in Nat /\ a.end[e] \in Nat
    BY SoundSlots
<1>2. IsFiniteSet(Slots)
    BY FS_Interval, HeapAssumption DEF Slots
<1>3. IsFiniteSet(F) /\ IsFiniteSet(A)
    BY <1>1, <1>2, FS_Subset
<1> DEFINE inner == {f \in F : a.end[f] # HeapHi}
           outer == F \ inner
           behind == [f \in inner |-> CHOOSE d \in A : a.start[d] = a.end[f]]
<1>4. Tiled(a.start, a.end, F \cup A)
    BY DEF Sound
<1>5. ASSUME NEW f \in F, NEW g \in F, a.end[f] = a.end[g] PROVE f = g
    <2>1. a.start[f] < a.end[f] /\ a.start[g] < a.end[g]
        BY <1>4 DEF Tiled
    <2>2. f # g => a.end[f] <= a.start[g] \/ a.end[g] <= a.start[f]
        BY <1>4 DEF Tiled
    <2> QED BY <1>1, <1>5, <2>1, <2>2
<1>6. IsFiniteSet(inner) /\ IsFiniteSet(outer)
    BY <1>3, FS_Subset
<1>7. Cardinality(inner) <= Cardinality(A)
    <2>1. ASSUME NEW f \in inner PROVE behind[f] \in A /\ a.start[behind[f]] = a.end[f]
        <3>1. \E d \in A : a.start[d] = a.end[f]
            BY UsedBehindFree
        <3> QED BY <3>1
    <2>2. behind \in [inner -> A]
        BY <2>1
    <2>3. ASSUME NEW f \in inner, NEW g \in inner, behind[f] = behind[g] PROVE f = g
        <3>1. a.end[f] = a.end[g]
            BY <2>1, <2>3
        <3> QED BY <1>5, <3>1
    <2> HIDE DEF behind
    <2>4. IsInjective(behind)
        BY <2>2, <2>3 DEF IsInjective
    <2>5. behind \in Injection(inner, A)
        BY <2>2, <2>4 DEF Injection
    <2> HIDE DEF inner
    <2> QED BY <1>3, <2>5, FS_Injection
<1>8. Cardinality(outer) <= 1
    <2>1. CASE outer = {}
        BY <2>1, FS_EmptySet
    <2>2. CASE outer # {}
        <3>1. PICK f \in outer : TRUE
            BY <2>2
        <3>2. outer = {f}
            BY <1>5, <3>1
        <3> HIDE DEF outer
        <3> QED BY <3>2, FS_Singleton
    <2> QED BY <2>1, <2>2
<1>9. F = inner \cup outer /\ inner \cap outer = {}
    OBVIOUS
<1> HIDE DEF inner, outer
<1>10. Cardinality(F) = Cardinality(inner) + Cardinality(outer)
    <2>1. Cardinality(inner \cap outer) = 0
        BY <1>9, FS_EmptySet
    <2>2. Cardinality(inner \cup outer)
             = Cardinality(inner) + Cardinality(outer) - Cardinality(inner \cap outer)
        BY <1>6, FS_Union
    <2>3. Cardinality(inner) \in Nat /\ Cardinality(outer) \in Nat
        BY <1>6, FS_CardinalityType
    <2> QED BY <1>9, <2>1, <2>2, <2>3
<1>11. Cardinality(inner) \in Nat /\ Cardinality(outer) \in Nat /\ Cardinality(A) \in Nat
    BY <1>3, <1>6, FS_CardinalityType
<1> QED BY <1>3, <1>7, <1>8, <1>10, <1>11
------------------------------------------------------------------------------
(***************************************************************************)
(* Cutting a range in two and joining two                                  *)
(***************************************************************************)
LEMMA TiledFrame ==
    ASSUME NEW s, NEW e, NEW B, Tiled(s, e, B), NEW s2, NEW e2,
           \A b \in B : s2[b] = s[b] /\ e2[b] = e[b]
    PROVE  Tiled(s2, e2, B)
BY DEF Tiled

\* Block b is cut at m, and n gets one of the halves.
Halves(s, e, B, b, n, m, s2, e2) ==
    /\ b \in B /\ n \notin B /\ m \in Nat /\ s[b] < m /\ m < e[b]
    /\ \A x \in B : s[x] \in Nat /\ e[x] \in Nat
    /\ \A x \in B \ {b} : s2[x] = s[x] /\ e2[x] = e[x]
    /\ \/ s2[b] = s[b] /\ e2[b] = m /\ s2[n] = m /\ e2[n] = e[b]
       \/ s2[n] = s[b] /\ e2[n] = m /\ s2[b] = m /\ e2[b] = e[b]

LEMMA TiledCut ==
    ASSUME NEW s, NEW e, NEW B, Tiled(s, e, B), NEW b, NEW n, NEW m, NEW s2, NEW e2,
           Halves(s, e, B, b, n, m, s2, e2)
    PROVE  Tiled(s2, e2, B \cup {n})
<1>0. /\ b \in B /\ n \notin B /\ m \in Nat /\ s[b] < m /\ m < e[b]
      /\ \A x \in B : s[x] \in Nat /\ e[x] \in Nat
      /\ \A x \in B \ {b} : s2[x] = s[x] /\ e2[x] = e[x]
      /\ \/ s2[b] = s[b] /\ e2[b] = m /\ s2[n] = m /\ e2[n] = e[b]
         \/ s2[n] = s[b] /\ e2[n] = m /\ s2[b] = m /\ e2[b] = e[b]
    BY DEF Halves
<1> USE <1>0
<1> USE HeapNumbers
<1>1. HeapLo <= s[b] /\ s[b] < e[b] /\ e[b] <= HeapHi /\ s[b] \in Nat /\ e[b] \in Nat
    BY DEF Tiled
<1>2. ASSUME NEW x \in B \cup {n}
      PROVE  HeapLo <= s2[x] /\ s2[x] < e2[x] /\ e2[x] <= HeapHi
    <2>1. CASE x \in B \ {b}
        BY <2>1 DEF Tiled
    <2>2. CASE x \in {b, n}
        BY <1>1, <2>2
    <2> QED BY <2>1, <2>2
<1>3. ASSUME NEW x \in B \ {b}
      PROVE  /\ s2[x] \in Nat /\ e2[x] \in Nat
             /\ e2[x] <= s[b] \/ e[b] <= s2[x]
    BY DEF Tiled
<1>4. ASSUME NEW x \in B \cup {n}, NEW y \in B \cup {n}, x # y
      PROVE  e2[x] <= s2[y] \/ e2[y] <= s2[x]
    <2>1. CASE x \in B \ {b} /\ y \in B \ {b}
        BY <1>4, <2>1 DEF Tiled
    <2>2. CASE x \in B \ {b} /\ y \in {b, n}
        BY <1>1, <1>3, <2>2
    <2>3. CASE x \in {b, n} /\ y \in B \ {b}
        BY <1>1, <1>3, <2>3
    <2>4. CASE x \in {b, n} /\ y \in {b, n}
        BY <1>1, <1>4, <2>4
    <2> QED BY <2>1, <2>2, <2>3, <2>4
<1>5. ASSUME NEW x \in HeapLo .. HeapHi - 1
      PROVE  \E d \in B \cup {n} : s2[d] <= x /\ x < e2[d]
    <2>1. PICK d \in B : s[d] <= x /\ x < e[d]
        BY DEF Tiled
    <2>2. CASE d = b
        BY <1>1, <2>1, <2>2
    <2>3. CASE d # b
        BY <2>1, <2>3
    <2> QED BY <2>2, <2>3
<1> QED BY <1>2, <1>4, <1>5 DEF Tiled

\* Block b is followed by d; one of them, k, gets both ranges.
Joins(s, e, B, b, d, k, o, s2, e2) ==
    /\ {b, d} = {k, o} /\ {b, d} \subseteq B /\ b # d /\ e[b] = s[d]
    /\ \A x \in B : s[x] \in Nat /\ e[x] \in Nat
    /\ s2[k] = s[b] /\ e2[k] = e[d]
    /\ \A x \in B \ {b, d} : s2[x] = s[x] /\ e2[x] = e[x]

LEMMA TiledJoin ==
    ASSUME NEW s, NEW e, NEW B, Tiled(s, e, B), NEW b, NEW d, NEW k, NEW o, NEW s2, NEW e2,
           Joins(s, e, B, b, d, k, o, s2, e2)
    PROVE  Tiled(s2, e2, B \ {o})
<1>0. /\ {b, d} = {k, o} /\ b \in B /\ d \in B /\ b # d /\ k # o /\ e[b] = s[d]
      /\ \A x \in B : s[x] \in Nat /\ e[x] \in Nat
      /\ s2[k] = s[b] /\ e2[k] = e[d]
      /\ \A x \in B \ {b, d} : s2[x] = s[x] /\ e2[x] = e[x]
    BY DEF Joins
<1> USE <1>0
<1> USE HeapNumbers
<1>1. /\ HeapLo <= s[b] /\ s[b] < e[b] /\ e[b] <= HeapHi /\ s[b] \in Nat /\ e[b] \in Nat
      /\ HeapLo <= s[d] /\ s[d] < e[d] /\ e[d] <= HeapHi /\ s[d] \in Nat /\ e[d] \in Nat
    BY DEF Tiled
<1>2. B \ {o} = (B \ {b, d}) \cup {k}
    OBVIOUS
<1>3. ASSUME NEW x \in B \ {o}
      PROVE  HeapLo <= s2[x] /\ s2[x] < e2[x] /\ e2[x] <= HeapHi
    <2>1. CASE x \in B \ {b, d}
        BY <2>1 DEF Tiled
    <2>2. CASE x = k
        BY <1>1, <2>2
    <2> QED BY <1>2, <2>1, <2>2
<1>4. ASSUME NEW x \in B \ {b, d}
      PROVE  /\ s2[x] \in Nat /\ e2[x] \in Nat
             /\ e2[x] <= s[b] \/ e[d] <= s2[x]
    <2>1. e[x] <= s[b] \/ e[b] <= s[x]
        BY DEF Tiled
    <2>2. e[x] <= s[d] \/ e[d] <= s[x]
        BY DEF Tiled
    <2>3. s[x] < e[x] /\ s[x] \in Nat /\ e[x] \in Nat
        BY DEF Tiled
    <2> QED BY <1>1, <2>1, <2>2, <2>3
<1>5. ASSUME NEW x \in B \ {o}, NEW y \in B \ {o}, x # y
      PROVE  e2[x] <= s2[y] \/ e2[y] <= s2[x]
    <2>1. CASE x \in B \ {b, d} /\ y \in B \ {b, d}
        BY <1>5, <2>1 DEF Tiled
    <2>2. CASE x \in B \ {b, d} /\ y = k
        BY <1>1, <1>4, <2>2
    <2>3. CASE x = k /\ y \in B \ {b, d}
        BY <1>1, <1>4, <2>3
    <2> QED BY <1>2, <1>5, <2>1, <2>2, <2>3
<1>6. ASSUME NEW x \in HeapLo .. HeapHi - 1
      PROVE  \E y \in B \ {o} : s2[y] <= x /\ x < e2[y]
    <2>1. PICK y \in B : s[y] <= x /\ x < e[y]
        BY DEF Tiled
    <2>2. CASE y \in {b, d}
        <3>1. s2[k] <= x /\ x < e2[k] /\ k \in B \ {o}
            BY <1>1, <1>2, <2>1, <2>2
        <3> QED BY <3>1
    <2>3. CASE y \notin {b, d}
        BY <2>1, <2>3
    <2> QED BY <2>2, <2>3
<1> QED BY <1>3, <1>5, <1>6 DEF Tiled

------------------------------------------------------------------------------
(***************************************************************************)
(* Taking slots and giving them back                                       *)
(***************************************************************************)
LEMMA PoolFrame ==
    ASSUME NEW a, NEW U, Pool(a, U), NEW c, SamePool(a, c),
           \A b \in Slots \ U : c.next[b] = a.next[b]
    PROVE  Pool(c, U)
BY DEF Pool, SamePool

\* There is room for n more structures.
Room(a, n) == a.maxpos + n <= 2 * MaxLive + 3 + Len(a.freeno) /\ a.maxpos <= 2 * MaxLive + 3

\* c is a with slot x taken for a block, and there is room for n more.
Taken(a, U, n, x, c) ==
    /\ x \in Slots /\ x \notin U /\ c.next[x] = NullPtr
    /\ Pool(c, U \cup {x}) /\ Room(c, n)

LEMMA PoolTake ==
    ASSUME NEW a \in Areas, NEW U, Pool(a, U), NEW n \in Nat, Room(a, n + 1),
           NEW c, SamePool(Balloc(a), c), c.next = a.next
    PROVE  Taken(a, U, n, BallocSlot(a), c)
<1>0. PICK x : x = BallocSlot(a)
    OBVIOUS
<1> SUFFICES /\ x \in Slots /\ x \notin U /\ c.next[x] = NullPtr
             /\ Pool(c, U \cup {x}) /\ Room(c, n)
    BY <1>0 DEF Taken
<1> USE <1>0
<1>1. a.maxpos \in Nat /\ a.freeno \in Seq(Slots)
    BY DEF Areas
<1>2. CASE a.freeno = << >>
    <2>1. x = a.maxpos /\ c.maxpos = a.maxpos + 1 /\ c.freeno = << >>
        BY <1>1, <1>2 DEF BallocSlot, Balloc, SamePool, Areas
    <2>2. Len(a.freeno) = 0
        BY <1>2
    <2>3. x \in Slots /\ Room(c, n)
        BY <1>1, <1>2, <2>1, <2>2, HeapAssumption DEF Room, Slots
    <2>4. x \notin U
        BY <2>1, <2>3, <1>1 DEF Pool
    <2>5. Len(c.freeno) = 0
        BY <2>1
    <2>6. \A b \in Slots : b \in Nat
        BY DEF Slots
    <2>7. Pool(c, U \cup {x})
        BY <1>1, <2>1, <2>2, <2>3, <2>4, <2>5, <2>6 DEF Pool
    <2> QED BY <2>3, <2>4, <2>7 DEF Pool
<1>3. CASE a.freeno # << >>
    <2> DEFINE q == a.freeno
               topmost == Len(q)
    <2>1. topmost \in Nat \ {0}
        BY <1>1, <1>3
    <2>2. x = q[topmost] /\ c.maxpos = a.maxpos /\ c.freeno = Front(q)
        BY <1>3 DEF BallocSlot, Balloc, SamePool, Last, Areas
    <2>3. Len(c.freeno) = topmost - 1 /\ \A i \in 1 .. topmost - 1 : c.freeno[i] = q[i]
        BY <1>1, <2>1, <2>2 DEF Front
    <2>4. x \in Slots /\ x \notin U
        BY <1>1, <2>1, <2>2 DEF Pool
    <2>5. Room(c, n)
        <3>1. Len(a.freeno) \in Nat /\ Len(c.freeno) = Len(a.freeno) - 1
            BY <2>1, <2>3
        <3>2. 2 * MaxLive + 3 \in Nat
            BY HeapAssumption
        <3> QED BY <1>1, <2>2, <3>1, <3>2 DEF Room
    <2> HIDE DEF q, topmost
    <2>6. Pool(c, U \cup {x})
        <3>1. /\ \A b \in Slots : b < a.maxpos <=> b \in U \/ \E i \in 1 .. topmost : q[i] = b
              /\ \A i \in 1 .. topmost : q[i] \notin U
              /\ \A i, j \in 1 .. topmost : q[i] = q[j] => i = j
              /\ \A b \in Slots \ U : a.next[b] = NullPtr
            BY DEF Pool, q, topmost
        <3>2. ASSUME NEW b \in Slots
              PROVE  b < c.maxpos <=> b \in U \cup {x} \/ \E i \in 1 .. topmost - 1 : c.freeno[i] = b
            <4>1. (\E i \in 1 .. topmost : q[i] = b) <=> b = x \/ \E i \in 1 .. topmost - 1 : q[i] = b
                <5>1. \A i \in 1 .. topmost : i = topmost \/ i \in 1 .. topmost - 1
                    BY <2>1
                <5>2. topmost \in 1 .. topmost /\ \A i \in 1 .. topmost - 1 : i \in 1 .. topmost
                    BY <2>1
                <5> QED BY <2>2, <5>1, <5>2
            <4> QED BY <2>2, <2>3, <3>1, <4>1
        <3>3. ASSUME NEW i \in 1 .. topmost - 1 PROVE c.freeno[i] \notin U \cup {x}
            <4>1. i \in 1 .. topmost /\ topmost \in 1 .. topmost /\ i # topmost
                BY <2>1
            <4> QED BY <2>2, <2>3, <3>1, <4>1
        <3>4. ASSUME NEW i \in 1 .. topmost - 1, NEW j \in 1 .. topmost - 1, c.freeno[i] = c.freeno[j]
              PROVE  i = j
            <4>1. i \in 1 .. topmost /\ j \in 1 .. topmost
                BY <2>1
            <4> QED BY <2>3, <3>1, <3>4, <4>1
        <3> QED BY <2>3, <3>1, <3>2, <3>3, <3>4 DEF Pool
    <2> QED BY <2>4, <2>5, <2>6 DEF Pool
<1> QED BY <1>2, <1>3

LEMMA PoolSlot ==
    ASSUME NEW a \in Areas, NEW U, Pool(a, U), NEW n \in Nat, Room(a, n + 1)
    PROVE  BallocSlot(a) \in Slots /\ BallocSlot(a) \notin U
<1>1. Balloc(a).next = a.next /\ SamePool(Balloc(a), Balloc(a))
    BY DEF Balloc, SamePool, Areas
<1> QED BY <1>1, PoolTake DEF Taken

LEMMA PoolGive ==
    ASSUME NEW a \in Areas, NEW U, Pool(a, U), NEW x \in Slots, x \in U, NEW c, c = Bfree(a, x)
    PROVE  Pool(c, U \ {x})
<1> DEFINE q == a.freeno
           n == Len(q)
<1>1. q \in Seq(Slots) /\ n \in Nat
    BY DEF Areas
<1> HIDE DEF q
<1>2. c.freeno = Append(q, x) /\ c.maxpos = a.maxpos
    BY BfreeFields DEF Freed, q
<1>3. \A b \in Slots : c.next[b] = IF b = x THEN NullPtr ELSE a.next[b]
    BY BfreeFields DEF Freed
<1>4. Len(c.freeno) = n + 1 /\ c.freeno[n + 1] = x /\ \A i \in 1 .. n : c.freeno[i] = q[i]
    BY <1>1, <1>2
<1> HIDE DEF n
<1>5. /\ \A b \in Slots : b < a.maxpos <=> b \in U \/ \E i \in 1 .. n : q[i] = b
      /\ \A i \in 1 .. n : q[i] \notin U
      /\ \A i, j \in 1 .. n : q[i] = q[j] => i = j
      /\ \A b \in Slots \ U : a.next[b] = NullPtr
    BY DEF Pool, q, n
<1>6. \A i \in 1 .. n + 1 : i = n + 1 \/ i \in 1 .. n
    BY <1>1
<1>7. n + 1 \in 1 .. n + 1 /\ \A i \in 1 .. n : i \in 1 .. n + 1
    BY <1>1
<1>8. ASSUME NEW b \in Slots
      PROVE  b < c.maxpos <=> b \in U \ {x} \/ \E i \in 1 .. n + 1 : c.freeno[i] = b
    <2>1. (\E i \in 1 .. n + 1 : c.freeno[i] = b) <=> b = x \/ \E i \in 1 .. n : q[i] = b
        BY <1>4, <1>6, <1>7
    <2> QED BY <1>2, <1>5, <2>1
<1>9. ASSUME NEW i \in 1 .. n + 1 PROVE c.freeno[i] \notin U \ {x}
    BY <1>4, <1>5, <1>6
<1>10. ASSUME NEW i \in 1 .. n + 1, NEW j \in 1 .. n + 1, c.freeno[i] = c.freeno[j] PROVE i = j
    BY <1>4, <1>5, <1>6, <1>10
<1>11. \A b \in Slots \ (U \ {x}) : c.next[b] = NullPtr
    BY <1>3, <1>5
<1> QED BY <1>4, <1>8, <1>9, <1>10, <1>11 DEF Pool
------------------------------------------------------------------------------
(***************************************************************************)
(* The steps kalloc and kfree are made of, on sound lists                  *)
(***************************************************************************)
LEMMA SoundFacts ==
    ASSUME NEW a, NEW F, NEW A, NEW N, Sound(a, F, A, N)
    PROVE  /\ a \in Areas /\ F \subseteq Slots /\ A \subseteq Slots /\ N \subseteq Slots
           /\ F \cap A = {} /\ N \cap F = {} /\ N \cap A = {}
           /\ Free \notin F \cup A \cup N /\ Alloc \notin F \cup A \cup N
           /\ Free \in Slots /\ Alloc \in Slots /\ Free # Alloc /\ NullPtr \notin Slots
           /\ \A b \in Slots : /\ a.start[b] \in 0 .. HeapHi /\ a.end[b] \in 0 .. HeapHi
                               /\ a.size[b] \in 0 .. HeapHi
           /\ \A b \in Slots : a.next[b] \in Pointer /\ a.prev[b] \in Pointer
<1>1. a \in Areas /\ F \subseteq Slots /\ A \subseteq Slots
    BY DEF Sound, Linked
<1>2. /\ N \subseteq Slots /\ {Free, Alloc} \cap (F \cup A \cup N) = {}
      /\ F \cap A = {} /\ N \cap (F \cup A) = {}
    BY DEF Sound, Parted
<1>3. \A b \in Slots : /\ a.start[b] \in 0 .. HeapHi /\ a.end[b] \in 0 .. HeapHi
                       /\ a.size[b] \in 0 .. HeapHi
    BY DEF Sound, Numbered
<1>4. \A b \in Slots : a.next[b] \in Pointer /\ a.prev[b] \in Pointer
    BY <1>1 DEF Areas
<1> QED BY <1>1, <1>2, <1>3, <1>4, SlotsNotNull

\* A block is taken out of the free list.
Removed(a, F, A, N, b, c) ==
    /\ Sound(c, F \ {b}, A, N \cup {b}) /\ SameRanges(a, c) /\ SamePool(a, c)
    /\ c.next[Alloc] = a.next[Alloc] /\ c.next[b] = a.next[b]

LEMMA TakeOut ==
    ASSUME NEW a, NEW F, NEW A, NEW N, Sound(a, F, A, N), NEW b \in F
    PROVE  Removed(a, F, A, N, b, Bdelete(a, b))
<1>0. PICK c : c = Bdelete(a, b)
    OBVIOUS
<1>1. /\ a \in Areas /\ F \subseteq Slots /\ A \subseteq Slots /\ N \subseteq Slots
      /\ F \cap A = {} /\ N \cap F = {} /\ N \cap A = {}
      /\ Free \notin F \cup A \cup N /\ Alloc \notin F \cup A \cup N
      /\ Free \in Slots /\ Alloc \in Slots /\ Free # Alloc /\ NullPtr \notin Slots
      /\ \A x \in Slots : a.start[x] \in 0 .. HeapHi /\ a.end[x] \in 0 .. HeapHi
    BY SoundFacts
<1>2. Linked(a, Free, F) /\ Linked(a, Alloc, A) /\ Merged(a, F) /\ Parted(F, A, N)
    BY DEF Sound
<1>3. b \in Slots /\ a.prev[b] \in F \cup {Free} /\ a.prev[b] \in Slots /\ a.next[a.prev[b]] = b
    BY <1>1, <1>2 DEF Linked
<1>4. a.next[b] # NullPtr => a.next[b] \in F /\ a.next[b] \in Slots
    BY <1>1, <1>2 DEF Linked
<1>5. PICK pre, succ : pre = a.prev[b] /\ succ = a.next[b]
    OBVIOUS
<1>6. /\ c \in Areas /\ SamePool(a, c) /\ SameRanges(a, c)
      /\ \A x \in Slots : /\ c.next[x] = IF x = pre THEN succ ELSE a.next[x]
                          /\ c.prev[x] = IF x = succ THEN pre ELSE a.prev[x]
    BY <1>0, <1>1, <1>3, <1>5, BdeleteFields
<1>7. pre # b
    <2>1. {b} \in SUBSET F /\ {b} # {}
        OBVIOUS
    <2>2. PICK y \in {b} : a.prev[y] \notin {b}
        BY <1>2, <2>1 DEF Linked
    <2> QED BY <1>5, <2>2
<1>8. Linked(c, Free, F \ {b})
    BY <1>0, <1>1, <1>2, LinkedRemove
<1>9. Linked(c, Alloc, A)
    <2>1. \A x \in A \cup {Alloc} : c.next[x] = a.next[x]
        BY <1>1, <1>3, <1>5, <1>6
    <2>2. \A x \in A : c.prev[x] = a.prev[x]
        BY <1>1, <1>4, <1>5, <1>6
    <2> QED BY <1>2, <2>1, <2>2, LinkedFrame
<1>10. Parted(F \ {b}, A, N \cup {b})
    BY <1>1, <1>3 DEF Parted
<1>11. Pool(c, InUse(F \ {b}, A, N \cup {b}))
    <2>1. InUse(F \ {b}, A, N \cup {b}) = InUse(F, A, N)
        BY DEF InUse
    <2>2. Pool(a, InUse(F, A, N))
        BY DEF Sound
    <2>3. \A x \in Slots \ InUse(F, A, N) : c.next[x] = a.next[x]
        BY <1>3, <1>5, <1>6 DEF InUse
    <2> QED BY <1>6, <2>1, <2>2, <2>3, PoolFrame
<1>12. Tiled(c.start, c.end, (F \ {b}) \cup A \cup (N \cup {b}))
    <2>1. (F \ {b}) \cup A \cup (N \cup {b}) = F \cup A \cup N
        OBVIOUS
    <2> QED BY <1>6, <2>1 DEF Sound, SameRanges
<1>13. (\A x \in (F \ {b}) \cup A \cup (N \cup {b}) : Sized(c, x)) /\ \A x \in A : Aligned(c, x)
    BY <1>6 DEF Sound, Sized, Aligned, SameRanges
<1>14. Numbered(c)
    BY <1>6 DEF Sound, Numbered, SameRanges
<1>15. Merged(c, F \ {b})
    <2>1. c.start = a.start /\ c.end = a.end
        BY <1>6 DEF SameRanges
    <2>2. ASSUME NEW x \in (F \ {b}) \cup {Free}, c.next[x] # NullPtr
          PROVE  a.end[x] < a.start[c.next[x]]
        <3>1. CASE x # pre
            BY <1>1, <1>2, <1>6, <2>2, <3>1 DEF Merged
        <3>2. CASE x = pre
            <4>1. c.next[x] = succ
                BY <1>1, <1>6, <3>2
            <4>2. a.end[pre] < a.start[b]
                BY <1>1, <1>2, <1>3, <1>5 DEF Merged
            <4>3. a.end[b] < a.start[succ]
                BY <1>2, <1>5, <2>2, <4>1 DEF Merged
            <4>4. a.start[b] < a.end[b]
                BY DEF Sound, Tiled
            <4> QED BY <1>1, <1>3, <1>4, <1>5, <2>2, <3>2, <4>1, <4>2, <4>3, <4>4
        <3> QED BY <3>1, <3>2
    <2> QED BY <1>2, <2>1, <2>2 DEF Merged
<1>16. c.next[Alloc] = a.next[Alloc] /\ c.next[b] = a.next[b]
    BY <1>1, <1>3, <1>5, <1>6, <1>7
<1> QED BY <1>6, <1>8, <1>9, <1>10, <1>11, <1>12, <1>13, <1>14, <1>15, <1>16, <1>0 DEF Sound, Removed

\* kfree takes a block out of the allocated list.
LEMMA TakeBack ==
    ASSUME NEW a, NEW F, NEW A, Sound(a, F, A, {}), NEW b \in A, NEW c, c = Bdelete(a, b)
    PROVE  Sound(c, F, A \ {b}, {b}) /\ SameRanges(a, c) /\ SamePool(a, c)
<1>1. /\ a \in Areas /\ F \subseteq Slots /\ A \subseteq Slots /\ F \cap A = {}
      /\ Free \notin F \cup A /\ Alloc \notin F \cup A
      /\ Free \in Slots /\ Alloc \in Slots /\ Free # Alloc /\ NullPtr \notin Slots
    BY SoundFacts
<1>2. Linked(a, Free, F) /\ Linked(a, Alloc, A) /\ Merged(a, F) /\ Parted(F, A, {})
    BY DEF Sound
<1>3. b \in Slots /\ a.prev[b] \in A \cup {Alloc} /\ a.prev[b] \in Slots /\ a.next[a.prev[b]] = b
    BY <1>1, <1>2 DEF Linked
<1>4. a.next[b] # NullPtr => a.next[b] \in A /\ a.next[b] \in Slots
    BY <1>1, <1>2 DEF Linked
<1>5. PICK pre, succ : pre = a.prev[b] /\ succ = a.next[b]
    OBVIOUS
<1>6. /\ c \in Areas /\ SamePool(a, c) /\ SameRanges(a, c)
      /\ \A x \in Slots : /\ c.next[x] = IF x = pre THEN succ ELSE a.next[x]
                          /\ c.prev[x] = IF x = succ THEN pre ELSE a.prev[x]
    BY <1>1, <1>3, <1>5, BdeleteFields
<1>8. Linked(c, Alloc, A \ {b})
    BY <1>1, <1>2, LinkedRemove
<1>9. \A x \in F \cup {Free} : c.next[x] = a.next[x]
    BY <1>1, <1>3, <1>5, <1>6
<1>10. Linked(c, Free, F)
    <2>1. \A x \in F : c.prev[x] = a.prev[x]
        BY <1>1, <1>4, <1>5, <1>6
    <2> QED BY <1>2, <1>9, <2>1, LinkedFrame
<1>11. Parted(F, A \ {b}, {b})
    BY <1>1, <1>3 DEF Parted
<1>12. Pool(c, InUse(F, A \ {b}, {b}))
    <2>1. InUse(F, A \ {b}, {b}) = InUse(F, A, {})
        BY DEF InUse
    <2>2. Pool(a, InUse(F, A, {}))
        BY DEF Sound
    <2>3. \A x \in Slots \ InUse(F, A, {}) : c.next[x] = a.next[x]
        BY <1>3, <1>5, <1>6 DEF InUse
    <2> QED BY <1>6, <2>1, <2>2, <2>3, PoolFrame
<1>13. Tiled(c.start, c.end, F \cup (A \ {b}) \cup {b})
    <2>1. F \cup (A \ {b}) \cup {b} = F \cup A \cup {}
        OBVIOUS
    <2> QED BY <1>6, <2>1 DEF Sound, SameRanges
<1>14. (\A x \in F \cup (A \ {b}) \cup {b} : Sized(c, x)) /\ \A x \in A \ {b} : Aligned(c, x)
    BY <1>6 DEF Sound, Sized, Aligned, SameRanges
<1>15. Numbered(c)
    BY <1>6 DEF Sound, Numbered, SameRanges
<1>16. Merged(c, F)
    BY <1>2, <1>6, <1>9 DEF Merged, SameRanges
<1> QED BY <1>6, <1>8, <1>10, <1>11, <1>12, <1>13, <1>14, <1>15, <1>16 DEF Sound

\* A block that is in no list goes to the front of the allocated one.
LEMMA PutInUse ==
    ASSUME NEW a, NEW F, NEW A, NEW N, Sound(a, F, A, N), NEW n \in N, Aligned(a, n),
           a.next[Alloc] = NullPtr => a.next[n] = NullPtr,
           NEW c, c = BinsertPlain(a, Alloc, n)
    PROVE  Sound(c, F, A \cup {n}, N \ {n}) /\ SameRanges(a, c) /\ SamePool(a, c)
<1>1. /\ a \in Areas /\ F \subseteq Slots /\ A \subseteq Slots /\ N \subseteq Slots
      /\ F \cap A = {} /\ N \cap F = {} /\ N \cap A = {}
      /\ Free \notin F \cup A \cup N /\ Alloc \notin F \cup A \cup N
      /\ Free \in Slots /\ Alloc \in Slots /\ Free # Alloc /\ NullPtr \notin Slots
    BY SoundFacts
<1>2. /\ Linked(a, Free, F) /\ Linked(a, Alloc, A) /\ Merged(a, F) /\ Parted(F, A, N)
      /\ Pool(a, InUse(F, A, N))
    BY DEF Sound
<1>3. PICK succ : succ = a.next[Alloc]
    OBVIOUS
<1>4. succ # NullPtr => succ \in A
    BY <1>2, <1>3 DEF Linked
<1>5. succ # n
    BY <1>1, <1>4
<1>6. n \in Slots /\ n # Alloc /\ n # Free /\ n \notin A /\ n \notin F
    BY <1>1
<1>7. /\ c \in Areas /\ SamePool(a, c) /\ SameRanges(a, c)
      /\ \A b \in Slots :
            /\ c.next[b] = IF b = Alloc THEN n
                           ELSE IF b = n /\ succ # NullPtr THEN succ ELSE a.next[b]
            /\ c.prev[b] = IF b = n THEN Alloc ELSE IF b = succ THEN n ELSE a.prev[b]
    BY <1>1, <1>3, <1>5, <1>6, BinsertFields
<1>8. Linked(c, Alloc, A \cup {n})
    BY <1>1, <1>2, <1>6, LinkedInsert
<1>9. \A x \in F \cup {Free} : c.next[x] = a.next[x]
    BY <1>1, <1>6, <1>7
<1>10. Linked(c, Free, F)
    <2>1. \A x \in F : c.prev[x] = a.prev[x]
        BY <1>1, <1>4, <1>6, <1>7
    <2> QED BY <1>2, <1>9, <2>1, LinkedFrame
<1>11. Parted(F, A \cup {n}, N \ {n})
    BY <1>1 DEF Parted
<1>12. Pool(c, InUse(F, A \cup {n}, N \ {n}))
    <2>1. InUse(F, A \cup {n}, N \ {n}) = InUse(F, A, N)
        BY DEF InUse
    <2>2. \A x \in Slots \ InUse(F, A, N) : c.next[x] = a.next[x]
        BY <1>7 DEF InUse
    <2> QED BY <1>2, <1>7, <2>1, <2>2, PoolFrame
<1>13. Tiled(c.start, c.end, F \cup (A \cup {n}) \cup (N \ {n}))
    <2>1. F \cup (A \cup {n}) \cup (N \ {n}) = F \cup A \cup N
        OBVIOUS
    <2> QED BY <1>7, <2>1 DEF Sound, SameRanges
<1>14. /\ \A x \in F \cup (A \cup {n}) \cup (N \ {n}) : Sized(c, x)
       /\ \A x \in A \cup {n} : Aligned(c, x)
    BY <1>7 DEF Sound, Sized, Aligned, SameRanges
<1>15. Numbered(c)
    BY <1>7 DEF Sound, Numbered, SameRanges
<1>16. Merged(c, F)
    BY <1>2, <1>7, <1>9 DEF Merged, SameRanges
<1> QED BY <1>7, <1>8, <1>10, <1>11, <1>12, <1>13, <1>14, <1>15, <1>16 DEF Sound

\* A block that is in no list goes into the free one, between two it cannot be merged with.
Between(a, F, pre, n) ==
    /\ pre \in F \cup {Free} /\ a.end[pre] < a.start[n]
    /\ a.next[pre] # NullPtr => a.end[n] < a.start[a.next[pre]]
    /\ a.next[pre] = NullPtr => a.next[n] = NullPtr

Inserted(a, F, A, N, n, c) ==
    /\ Sound(c, F \cup {n}, A, N \ {n}) /\ SameRanges(a, c) /\ SamePool(a, c)
    /\ \A x \in {Alloc} \cup (N \ {n}) : c.next[x] = a.next[x]

LEMMA PutBack ==
    ASSUME NEW a, NEW F, NEW A, NEW N, Sound(a, F, A, N), NEW n \in N, NEW pre,
           Between(a, F, pre, n)
    PROVE  Inserted(a, F, A, N, n, BinsertPlain(a, pre, n))
<1>0. PICK c : c = BinsertPlain(a, pre, n)
    OBVIOUS
<1>a. /\ pre \in F \cup {Free} /\ a.end[pre] < a.start[n]
      /\ a.next[pre] # NullPtr => a.end[n] < a.start[a.next[pre]]
      /\ a.next[pre] = NullPtr => a.next[n] = NullPtr
    BY DEF Between
<1> USE <1>0, <1>a
<1>1. /\ a \in Areas /\ F \subseteq Slots /\ A \subseteq Slots /\ N \subseteq Slots
      /\ F \cap A = {} /\ N \cap F = {} /\ N \cap A = {}
      /\ Free \notin F \cup A \cup N /\ Alloc \notin F \cup A \cup N
      /\ Free \in Slots /\ Alloc \in Slots /\ Free # Alloc /\ NullPtr \notin Slots
    BY SoundFacts
<1>2. /\ Linked(a, Free, F) /\ Linked(a, Alloc, A) /\ Merged(a, F) /\ Parted(F, A, N)
      /\ Pool(a, InUse(F, A, N))
    BY DEF Sound
<1>3. PICK succ : succ = a.next[pre]
    OBVIOUS
<1>4. succ # NullPtr => succ \in F
    BY <1>2, <1>3 DEF Linked
<1>5. succ # n
    BY <1>1, <1>4
<1>6. n \in Slots /\ n # pre /\ n # Alloc /\ n \notin A /\ n \notin F \cup {Free} /\ pre \in Slots
    BY <1>1
<1>7. /\ c \in Areas /\ SamePool(a, c) /\ SameRanges(a, c)
      /\ \A b \in Slots :
            /\ c.next[b] = IF b = pre THEN n
                           ELSE IF b = n /\ succ # NullPtr THEN succ ELSE a.next[b]
            /\ c.prev[b] = IF b = n THEN pre ELSE IF b = succ THEN n ELSE a.prev[b]
    BY <1>1, <1>3, <1>5, <1>6, BinsertFields
<1>8. Linked(c, Free, F \cup {n})
    BY <1>1, <1>2, <1>6, LinkedInsert
<1>9. \A x \in A \cup {Alloc} : c.next[x] = a.next[x]
    BY <1>1, <1>6, <1>7
<1>10. Linked(c, Alloc, A)
    <2>1. \A x \in A : c.prev[x] = a.prev[x]
        BY <1>1, <1>4, <1>6, <1>7
    <2> QED BY <1>2, <1>9, <2>1, LinkedFrame
<1>11. Parted(F \cup {n}, A, N \ {n})
    BY <1>1 DEF Parted
<1>12. Pool(c, InUse(F \cup {n}, A, N \ {n}))
    <2>1. InUse(F \cup {n}, A, N \ {n}) = InUse(F, A, N)
        BY DEF InUse
    <2>2. \A x \in Slots \ InUse(F, A, N) : c.next[x] = a.next[x]
        BY <1>7 DEF InUse
    <2> QED BY <1>2, <1>7, <2>1, <2>2, PoolFrame
<1>13. Tiled(c.start, c.end, (F \cup {n}) \cup A \cup (N \ {n}))
    <2>1. (F \cup {n}) \cup A \cup (N \ {n}) = F \cup A \cup N
        OBVIOUS
    <2> QED BY <1>7, <2>1 DEF Sound, SameRanges
<1>14. /\ \A x \in (F \cup {n}) \cup A \cup (N \ {n}) : Sized(c, x)
       /\ \A x \in A : Aligned(c, x)
    BY <1>7 DEF Sound, Sized, Aligned, SameRanges
<1>15. Numbered(c)
    BY <1>7 DEF Sound, Numbered, SameRanges
<1>16. Merged(c, F \cup {n})
    <2>1. c.start = a.start /\ c.end = a.end
        BY <1>7 DEF SameRanges
    <2>2. ASSUME NEW x \in (F \cup {n}) \cup {Free}, c.next[x] # NullPtr
          PROVE  a.end[x] < a.start[c.next[x]]
        <3>1. CASE x = pre
            BY <1>6, <1>7, <3>1
        <3>2. CASE x = n
            BY <1>3, <1>6, <1>7, <2>2, <3>2
        <3>3. CASE x # pre /\ x # n
            BY <1>1, <1>2, <1>7, <2>2, <3>3 DEF Merged
        <3> QED BY <3>1, <3>2, <3>3
    <2> QED BY <1>2, <2>1, <2>2 DEF Merged
<1>17. \A x \in {Alloc} \cup (N \ {n}) : c.next[x] = a.next[x]
    BY <1>1, <1>6, <1>7
<1> QED BY <1>7, <1>8, <1>10, <1>11, <1>12, <1>13, <1>14, <1>15, <1>16, <1>17 DEF Sound, Inserted

\* What kfree does with block n when free block k is its neighbour: k gets both ranges.
Absorb(a, k, n, lo, hi) == Bfree(SetRange(a, k, lo, hi), n)

LEMMA AbsorbFields ==
    ASSUME NEW a \in Areas, NEW k \in Slots, NEW n \in Slots, NEW lo \in Int, NEW hi \in Int,
           NEW c, c = Absorb(a, k, n, lo, hi)
    PROVE  /\ c \in Areas /\ c.freeno = Append(a.freeno, n) /\ c.maxpos = a.maxpos
           /\ \A b \in Slots \ {k} : SameRange(a, c, b)
           /\ c.start[k] = lo /\ c.end[k] = hi /\ c.size[k] = hi - lo
           /\ \A b \in Slots : /\ c.next[b] = IF b = n THEN NullPtr ELSE a.next[b]
                               /\ c.prev[b] = IF b = n THEN NullPtr ELSE a.prev[b]
<1>0. PICK m : m = SetRange(a, k, lo, hi)
    OBVIOUS
<1>1. Ranged(a, k, lo, hi, m)
    BY <1>0, SetRangeFields
<1>2. c = Bfree(m, n)
    BY <1>0 DEF Absorb
<1>3. Freed(m, n, c)
    <2>1. m \in Areas
        BY <1>1 DEF Ranged
    <2> QED BY <1>2, <2>1, BfreeFields
<1> QED BY <1>1, <1>3 DEF Ranged, Freed, SamePool, SameLinks, SameRange, SameRanges

Absorbable(a, k, n, lo, hi) ==
    /\ \/ a.end[k] = a.start[n] /\ lo = a.start[k] /\ hi = a.end[n]
       \/ a.end[n] = a.start[k] /\ lo = a.start[n] /\ hi = a.end[k]
    /\ a.end[a.prev[k]] < lo
    /\ a.next[k] # NullPtr => hi < a.start[a.next[k]]

Absorbed(a, F, A, N, n, c) ==
    Sound(c, F, A, N \ {n}) /\ c.maxpos = a.maxpos /\ \A x \in A : SameRange(a, c, x)

LEMMA Absorbing ==
    ASSUME NEW a, NEW F, NEW A, NEW N, Sound(a, F, A, N), NEW n \in N, NEW k \in F,
           NEW lo, NEW hi, Absorbable(a, k, n, lo, hi)
    PROVE  Absorbed(a, F, A, N, n, Absorb(a, k, n, lo, hi))
<1>0. PICK c : c = Absorb(a, k, n, lo, hi)
    OBVIOUS
<1>a. /\ \/ a.end[k] = a.start[n] /\ lo = a.start[k] /\ hi = a.end[n]
         \/ a.end[n] = a.start[k] /\ lo = a.start[n] /\ hi = a.end[k]
      /\ a.end[a.prev[k]] < lo
      /\ a.next[k] # NullPtr => hi < a.start[a.next[k]]
    BY DEF Absorbable
<1> USE <1>0, <1>a
<1>1. /\ a \in Areas /\ F \subseteq Slots /\ A \subseteq Slots /\ N \subseteq Slots
      /\ F \cap A = {} /\ N \cap F = {} /\ N \cap A = {}
      /\ Free \notin F \cup A \cup N /\ Alloc \notin F \cup A \cup N
      /\ Free \in Slots /\ Alloc \in Slots /\ Free # Alloc /\ NullPtr \notin Slots
      /\ \A x \in Slots : /\ a.start[x] \in 0 .. HeapHi /\ a.end[x] \in 0 .. HeapHi
                          /\ a.size[x] \in 0 .. HeapHi
    BY SoundFacts
<1>2. /\ Linked(a, Free, F) /\ Linked(a, Alloc, A) /\ Merged(a, F) /\ Parted(F, A, N)
      /\ Pool(a, InUse(F, A, N)) /\ Tiled(a.start, a.end, F \cup A \cup N)
    BY DEF Sound
<1>3. n \in Slots /\ k \in Slots /\ n # k /\ n # Alloc /\ n # Free /\ k # Free
    BY <1>1
<1>4. /\ lo \in 0 .. HeapHi /\ hi \in 0 .. HeapHi /\ lo < hi
    <2>1. a.start[k] < a.end[k] /\ a.start[n] < a.end[n]
        BY <1>2 DEF Tiled
    <2> QED BY <1>1, <1>3, <2>1, HeapNumbers
<1>5. /\ c \in Areas /\ c.freeno = Append(a.freeno, n) /\ c.maxpos = a.maxpos
      /\ \A b \in Slots \ {k} : SameRange(a, c, b)
      /\ c.start[k] = lo /\ c.end[k] = hi /\ c.size[k] = hi - lo
      /\ \A b \in Slots : /\ c.next[b] = IF b = n THEN NullPtr ELSE a.next[b]
                          /\ c.prev[b] = IF b = n THEN NullPtr ELSE a.prev[b]
    <2>1. lo \in Int /\ hi \in Int
        BY <1>4
    <2> QED BY <1>1, <1>3, <2>1, AbsorbFields
<1>6. Linked(c, Free, F)
    <2>1. \A x \in F \cup {Free} : c.next[x] = a.next[x]
        BY <1>1, <1>3, <1>5
    <2>2. \A x \in F : c.prev[x] = a.prev[x]
        BY <1>1, <1>3, <1>5
    <2> QED BY <1>2, <2>1, <2>2, LinkedFrame
<1>7. Linked(c, Alloc, A)
    <2>1. \A x \in A \cup {Alloc} : c.next[x] = a.next[x]
        BY <1>1, <1>3, <1>5
    <2>2. \A x \in A : c.prev[x] = a.prev[x]
        BY <1>1, <1>3, <1>5
    <2> QED BY <1>2, <2>1, <2>2, LinkedFrame
<1>8. Parted(F, A, N \ {n})
    BY <1>1 DEF Parted
<1>9. Pool(c, InUse(F, A, N \ {n}))
    <2>0. PICK m : m = SetRange(a, k, lo, hi)
        OBVIOUS
    <2>1. m \in Areas /\ SamePool(a, m) /\ SameLinks(a, m)
        <3>1. lo \in Int /\ hi \in Int
            BY <1>4
        <3> QED BY <1>1, <1>3, <2>0, <3>1, SetRangeFields DEF Ranged
    <2>2. c = Bfree(m, n)
        BY <2>0 DEF Absorb
    <2>3. Pool(m, InUse(F, A, N))
        BY <1>2, <2>1, PoolFrame DEF SameLinks
    <2>4. n \in InUse(F, A, N) /\ InUse(F, A, N) \ {n} = InUse(F, A, N \ {n})
        BY <1>1, <1>3 DEF InUse
    <2> QED BY <1>3, <2>1, <2>2, <2>3, <2>4, PoolGive
<1>10. Tiled(c.start, c.end, F \cup A \cup (N \ {n}))
    <2> DEFINE B == F \cup A \cup N
    <2>1. \A x \in B : a.start[x] \in Nat /\ a.end[x] \in Nat
        BY <1>1, HeapNumbers
    <2>2. B \ {n} = F \cup A \cup (N \ {n})
        BY <1>1
    <2>3. \A x \in B \ {k, n} : c.start[x] = a.start[x] /\ c.end[x] = a.end[x]
        BY <1>1, <1>5 DEF SameRange
    <2>4. k \in B /\ n \in B
        OBVIOUS
    <2>5. Tiled(a.start, a.end, B)
        BY <1>2
    <2> HIDE DEF B
    <2>6. Tiled(c.start, c.end, B \ {n})
        <3>1. CASE a.end[k] = a.start[n] /\ lo = a.start[k] /\ hi = a.end[n]
            <4>1. Joins(a.start, a.end, B, k, n, k, n, c.start, c.end)
                BY <1>3, <1>5, <2>1, <2>3, <2>4, <3>1 DEF Joins
            <4> QED BY <2>5, <4>1, TiledJoin
        <3>2. CASE a.end[n] = a.start[k] /\ lo = a.start[n] /\ hi = a.end[k]
            <4>1. Joins(a.start, a.end, B, n, k, k, n, c.start, c.end)
                BY <1>3, <1>5, <2>1, <2>3, <2>4, <3>2 DEF Joins
            <4> QED BY <2>5, <4>1, TiledJoin
        <3> QED BY <3>1, <3>2
    <2> QED BY <2>2, <2>6
<1>11. /\ \A x \in F \cup A \cup (N \ {n}) : Sized(c, x)
       /\ \A x \in A : Aligned(c, x)
    <2>1. \A x \in A : SameRange(a, c, x)
        BY <1>1, <1>3, <1>5
    <2>2. \A x \in A : Aligned(c, x)
        BY <2>1 DEF Sound, Aligned, SameRange
    <2>3. ASSUME NEW x \in F \cup A \cup (N \ {n}) PROVE Sized(c, x)
        <3>1. CASE x = k
            BY <1>5, <3>1 DEF Sized
        <3>2. CASE x # k
            BY <1>1, <1>5, <3>2 DEF Sound, Sized, SameRange
        <3> QED BY <3>1, <3>2
    <2> QED BY <2>2, <2>3
<1>12. Numbered(c)
    <2> SUFFICES ASSUME NEW x \in Slots
                 PROVE  {c.start[x], c.end[x], c.size[x]} \subseteq 0 .. HeapHi
        BY DEF Numbered
    <2>1. CASE x = k
        BY <1>4, <1>5, <2>1, HeapNumbers
    <2>2. CASE x # k
        <3>1. SameRange(a, c, x)
            BY <1>5, <2>2
        <3>2. c.start[x] = a.start[x] /\ c.end[x] = a.end[x] /\ c.size[x] = a.size[x]
            BY <3>1 DEF SameRange
        <3> QED BY <1>1, <3>2
    <2> QED BY <2>1, <2>2
<1>13. Merged(c, F)
    <2>1. c.start[Free] = 0 /\ c.end[Free] = 0
        BY <1>1, <1>2, <1>3, <1>5 DEF Merged, SameRange
    <2>2. ASSUME NEW x \in F \cup {Free}, c.next[x] # NullPtr
          PROVE  c.end[x] < c.start[c.next[x]]
        <3>1. x \in Slots /\ x # n /\ c.next[x] = a.next[x]
            BY <1>1, <1>3, <1>5
        <3>2. a.next[x] \in F /\ a.prev[a.next[x]] = x
            BY <1>2, <2>2, <3>1 DEF Linked
        <3>3. a.end[x] < a.start[a.next[x]]
            BY <1>2, <2>2, <3>1 DEF Merged
        <3>4. CASE x = k
            <4>1. a.next[x] # k
                BY <1>1, <1>2, <1>3, <3>3, <3>4, HeapNumbers DEF Tiled
            <4>2. c.start[a.next[x]] = a.start[a.next[x]]
                BY <1>1, <1>5, <3>2, <4>1 DEF SameRange
            <4> QED BY <1>5, <2>2, <3>1, <3>4, <4>2
        <3>5. CASE a.next[x] = k /\ x # k
            BY <1>5, <3>1, <3>2, <3>5 DEF SameRange
        <3>6. CASE a.next[x] # k /\ x # k
            BY <1>1, <1>5, <3>1, <3>2, <3>3, <3>6 DEF SameRange
        <3> QED BY <3>4, <3>5, <3>6
    <2> QED BY <2>1, <2>2 DEF Merged
<1>14. \A x \in A : SameRange(a, c, x)
    BY <1>1, <1>3, <1>5
<1> QED BY <1>5, <1>6, <1>7, <1>8, <1>9, <1>10, <1>11, <1>12, <1>13, <1>14 DEF Sound, Absorbed

\* What kalloc does with free block b: it keeps one part, a new block gets the other.
Cut(a, b, l1, h1, l2, h2) == NewBlock(SetRange(a, b, l1, h1), l2, h2)

\* c is what that makes of a when the new block is n.
Parts(a, b, n, l1, h1, l2, h2, c) ==
    /\ c \in Areas /\ SameLinks(a, c) /\ SamePool(Balloc(a), c)
    /\ \A x \in Slots \ {b, n} : SameRange(a, c, x)
    /\ c.start[b] = l1 /\ c.end[b] = h1 /\ c.size[b] = h1 - l1
    /\ c.start[n] = l2 /\ c.end[n] = h2 /\ c.size[n] = h2 - l2

LEMMA BallocSame ==
    ASSUME NEW a \in Areas, NEW m \in Areas, SamePool(a, m)
    PROVE  BallocSlot(m) = BallocSlot(a) /\ SamePool(Balloc(a), Balloc(m))
<1>1. m.freeno = a.freeno /\ m.maxpos = a.maxpos
    BY DEF SamePool
<1>2. BallocSlot(m) = BallocSlot(a)
    BY <1>1 DEF BallocSlot
<1>3. CASE a.freeno # << >>
    BY <1>1, <1>2, <1>3 DEF Balloc, SamePool, Areas
<1>4. CASE a.freeno = << >>
    BY <1>1, <1>2, <1>4 DEF Balloc, SamePool, Areas
<1> QED BY <1>2, <1>3, <1>4

LEMMA CutFields ==
    ASSUME NEW a \in Areas, NEW b \in Slots, NEW n, n = BallocSlot(a), n \in Slots, n # b,
           NEW l1 \in Int, NEW h1 \in Int, NEW l2 \in Int, NEW h2 \in Int
    PROVE  Parts(a, b, n, l1, h1, l2, h2, Cut(a, b, l1, h1, l2, h2))
<1>1. PICK m : m = SetRange(a, b, l1, h1)
    OBVIOUS
<1>2. Ranged(a, b, l1, h1, m)
    BY <1>1, SetRangeFields
<1>3. PICK c : c = NewBlock(m, l2, h2)
    OBVIOUS
<1>4. BallocSlot(m) = n /\ SamePool(Balloc(a), Balloc(m)) /\ m \in Areas
    BY <1>2, BallocSame DEF Ranged
<1>5. Made(m, n, l2, h2, c)
    BY <1>3, <1>4, NewBlockFields
<1>6. Parts(a, b, n, l1, h1, l2, h2, c)
    BY <1>2, <1>4, <1>5 DEF Ranged, Made, Parts, SamePool, SameLinks, SameRange
<1> QED BY <1>1, <1>3, <1>6 DEF Cut

Cuttable(a, b, l1, h1, l2, h2) ==
    \/ /\ l1 = a.start[b] /\ h1 = l2 /\ h2 = a.end[b]
       /\ h1 \in Nat /\ l1 < h1 /\ h1 < h2
    \/ /\ l2 = a.start[b] /\ h2 = l1 /\ h1 = a.end[b]
       /\ l1 \in Nat /\ l2 < l1 /\ l1 < h1

HasCut(a, F, A, N, k, b, n, l1, h1, l2, h2, c) ==
    /\ Sound(c, F, A, N \cup {n}) /\ Room(c, k) /\ n \notin InUse(F, A, N) /\ n \in Slots
    /\ c.next[n] = NullPtr /\ \A x \in A : SameRange(a, c, x)
    /\ Parts(a, b, n, l1, h1, l2, h2, c)

LEMMA Cutting ==
    ASSUME NEW a, NEW F, NEW A, NEW N, Sound(a, F, A, N), NEW b \in F \cup N,
           NEW k \in Nat, Room(a, k + 1),
           NEW l1, NEW h1, NEW l2, NEW h2, Cuttable(a, b, l1, h1, l2, h2)
    PROVE  HasCut(a, F, A, N, k, b, BallocSlot(a), l1, h1, l2, h2, Cut(a, b, l1, h1, l2, h2))
<1>0. PICK n, c : n = BallocSlot(a) /\ c = Cut(a, b, l1, h1, l2, h2)
    OBVIOUS
<1>a. PICK m \in Nat : /\ a.start[b] < m /\ m < a.end[b]
                       /\ \/ l1 = a.start[b] /\ h1 = m /\ l2 = m /\ h2 = a.end[b]
                          \/ l2 = a.start[b] /\ h2 = m /\ l1 = m /\ h1 = a.end[b]
    BY DEF Cuttable
<1> USE <1>0, <1>a
<1>1. /\ a \in Areas /\ F \subseteq Slots /\ A \subseteq Slots /\ N \subseteq Slots
      /\ F \cap A = {} /\ N \cap F = {} /\ N \cap A = {}
      /\ Free \notin F \cup A \cup N /\ Alloc \notin F \cup A \cup N
      /\ Free \in Slots /\ Alloc \in Slots /\ Free # Alloc /\ NullPtr \notin Slots
      /\ \A x \in Slots : /\ a.start[x] \in 0 .. HeapHi /\ a.end[x] \in 0 .. HeapHi
                          /\ a.size[x] \in 0 .. HeapHi
    BY SoundFacts
<1>2. /\ Linked(a, Free, F) /\ Linked(a, Alloc, A) /\ Merged(a, F) /\ Parted(F, A, N)
      /\ Pool(a, InUse(F, A, N)) /\ Tiled(a.start, a.end, F \cup A \cup N)
    BY DEF Sound
<1>3. b \in Slots /\ b # Free
    BY <1>1
<1>4. n \in Slots /\ n \notin InUse(F, A, N)
    BY <1>1, <1>2, PoolSlot
<1>5. n # b /\ n \notin F /\ n \notin A /\ n \notin N /\ n # Free /\ n # Alloc
    BY <1>4 DEF InUse
<1>6. /\ l1 \in 0 .. HeapHi /\ h1 \in 0 .. HeapHi /\ l2 \in 0 .. HeapHi /\ h2 \in 0 .. HeapHi
      /\ l1 < h1 /\ l2 < h2 /\ a.start[b] <= l1 /\ h1 <= a.end[b]
    BY <1>1, <1>3, HeapNumbers
<1>7. Parts(a, b, n, l1, h1, l2, h2, c)
    <2>1. l1 \in Int /\ h1 \in Int /\ l2 \in Int /\ h2 \in Int
        BY <1>6
    <2> QED BY <1>1, <1>3, <1>4, <1>5, <2>1, CutFields
<1>8. /\ c \in Areas /\ c.next = a.next /\ c.prev = a.prev
      /\ \A x \in Slots \ {b, n} : SameRange(a, c, x)
      /\ c.start[b] = l1 /\ c.end[b] = h1 /\ c.size[b] = h1 - l1
      /\ c.start[n] = l2 /\ c.end[n] = h2 /\ c.size[n] = h2 - l2
    BY <1>7 DEF Parts, SameLinks
<1>9. c.next[n] = NullPtr /\ Pool(c, InUse(F, A, N) \cup {n}) /\ Room(c, k)
    <2>1. SamePool(Balloc(a), c) /\ c.next = a.next
        BY <1>7 DEF Parts, SameLinks
    <2>2. Taken(a, InUse(F, A, N), k, n, c)
        BY <1>1, <1>2, <2>1, PoolTake
    <2> QED BY <2>2 DEF Taken
<1>10. Pool(c, InUse(F, A, N \cup {n}))
    <2>1. InUse(F, A, N) \cup {n} = InUse(F, A, N \cup {n})
        BY DEF InUse
    <2> QED BY <1>9, <2>1
<1>11. Linked(c, Free, F) /\ Linked(c, Alloc, A)
    BY <1>2, <1>8, LinkedFrame
<1>12. Parted(F, A, N \cup {n})
    BY <1>1, <1>4, <1>5 DEF Parted
<1>13. Tiled(c.start, c.end, F \cup A \cup (N \cup {n}))
    <2> DEFINE B == F \cup A \cup N
    <2>1. Tiled(a.start, a.end, B) /\ b \in B /\ n \notin B
        BY <1>2, <1>5
    <2>2. \A x \in B : a.start[x] \in Nat /\ a.end[x] \in Nat
        BY <1>1, HeapNumbers
    <2>3. \A x \in B \ {b} : c.start[x] = a.start[x] /\ c.end[x] = a.end[x]
        BY <1>1, <1>5, <1>8 DEF SameRange
    <2>4. B \cup {n} = F \cup A \cup (N \cup {n})
        OBVIOUS
    <2> HIDE DEF B
    <2>5. Halves(a.start, a.end, B, b, n, m, c.start, c.end)
        BY <1>8, <2>1, <2>2, <2>3 DEF Halves
    <2>6. Tiled(c.start, c.end, B \cup {n})
        BY <2>1, <2>5, TiledCut
    <2> QED BY <2>4, <2>6
<1>14. \A x \in A : SameRange(a, c, x)
    BY <1>1, <1>5, <1>8
<1>15. \A x \in A : Aligned(c, x)
    BY <1>14 DEF Sound, Aligned, SameRange
<1>16. ASSUME NEW x \in F \cup A \cup (N \cup {n}) PROVE Sized(c, x)
    <2>1. CASE x \in {b, n}
        BY <1>8, <2>1 DEF Sized
    <2>2. CASE x \notin {b, n}
        BY <1>1, <1>8, <2>2 DEF Sound, Sized, SameRange
    <2> QED BY <2>1, <2>2
<1>17. Numbered(c)
    <2> SUFFICES ASSUME NEW x \in Slots
                 PROVE  {c.start[x], c.end[x], c.size[x]} \subseteq 0 .. HeapHi
        BY DEF Numbered
    <2>1. CASE x = b
        BY <1>6, <1>8, <2>1, HeapNumbers
    <2>2. CASE x = n
        BY <1>6, <1>8, <2>2, HeapNumbers
    <2>3. CASE x \notin {b, n}
        <3>1. SameRange(a, c, x)
            BY <1>8, <2>3
        <3>2. c.start[x] = a.start[x] /\ c.end[x] = a.end[x] /\ c.size[x] = a.size[x]
            BY <3>1 DEF SameRange
        <3> QED BY <1>1, <3>2
    <2> QED BY <2>1, <2>2, <2>3
<1>18. Merged(c, F)
    <2>1. c.start[Free] = 0 /\ c.end[Free] = 0
        BY <1>1, <1>2, <1>3, <1>5, <1>8 DEF Merged, SameRange
    <2>2. ASSUME NEW x \in F \cup {Free}, c.next[x] # NullPtr
          PROVE  c.end[x] < c.start[c.next[x]]
        <3>1. x \in Slots /\ x # n /\ c.next[x] = a.next[x]
            BY <1>1, <1>5, <1>8
        <3>2. PICK y : y = a.next[x]
            OBVIOUS
        <3>3. y \in F /\ y \in Slots /\ y # n /\ a.end[x] < a.start[y]
            BY <1>1, <1>2, <1>5, <2>2, <3>1, <3>2 DEF Linked, Merged
        <3>4. c.end[x] <= a.end[x] /\ c.end[x] \in Nat
            <4>1. CASE x = b
                BY <1>6, <1>8, <4>1, HeapNumbers
            <4>2. CASE x # b
                BY <1>1, <1>8, <3>1, <4>2, HeapNumbers DEF SameRange
            <4> QED BY <4>1, <4>2
        <3>5. a.start[y] <= c.start[y] /\ c.start[y] \in Nat
            <4>1. CASE y = b
                BY <1>6, <1>8, <4>1, HeapNumbers
            <4>2. CASE y # b
                BY <1>1, <1>8, <3>3, <4>2, HeapNumbers DEF SameRange
            <4> QED BY <4>1, <4>2
        <3>6. a.end[x] \in Nat /\ a.start[y] \in Nat
            BY <1>1, <3>1, <3>3, HeapNumbers
        <3>7. c.end[x] < c.start[y]
            BY <3>3, <3>4, <3>5, <3>6
        <3> QED BY <3>1, <3>2, <3>7
    <2> QED BY <2>1, <2>2 DEF Merged
<1> QED BY <1>4, <1>7, <1>8, <1>9, <1>10, <1>11, <1>12, <1>13, <1>14, <1>15, <1>16, <1>17, <1>18 DEF Sound, HasCut

LEMMA AreaEqual ==
    ASSUME NEW a \in Areas, NEW c \in Areas, SameLinks(a, c), SamePool(a, c),
           \A x \in Slots : SameRange(a, c, x)
    PROVE  a = c
<1>1. a.start = c.start
    BY DEF Areas, SameRange
<1>2. a.end = c.end
    BY DEF Areas, SameRange
<1>3. a.size = c.size
    BY DEF Areas, SameRange
<1>4. a.next = c.next /\ a.prev = c.prev /\ a.freeno = c.freeno /\ a.maxpos = c.maxpos
    BY DEF SameLinks, SamePool
<1>5. a = [start |-> a.start, end |-> a.end, size |-> a.size, prev |-> a.prev,
           next |-> a.next, freeno |-> a.freeno, maxpos |-> a.maxpos]
    BY DEF Areas
<1>6. c = [start |-> c.start, end |-> c.end, size |-> c.size, prev |-> c.prev,
           next |-> c.next, freeno |-> c.freeno, maxpos |-> c.maxpos]
    BY DEF Areas
<1> QED BY <1>1, <1>2, <1>3, <1>4, <1>5, <1>6

\* A request in the middle of a free block cuts it twice.
Middle(a, b, lo, hi) ==
    SetRange(NewBlock(NewBlock(a, lo, hi), hi, a.end[b]), b, a.start[b], lo)

CutTwice(a, b, s, e, lo, hi, n, r, a1) ==
    /\ a \in Areas /\ b \in Slots /\ n \in Slots /\ r \in Slots /\ n # b /\ r # b /\ r # n
    /\ s = a.start[b] /\ e = a.end[b] /\ {s, e, lo, hi} \subseteq Int
    /\ n = BallocSlot(a) /\ a1 = Cut(a, b, s, lo, lo, e) /\ r = BallocSlot(a1)

LEMMA MiddleIsTwoCuts ==
    ASSUME NEW a, NEW b, NEW s, NEW e, NEW lo, NEW hi, NEW n, NEW r, NEW a1,
           CutTwice(a, b, s, e, lo, hi, n, r, a1)
    PROVE  /\ Middle(a, b, lo, hi) = Cut(a1, n, lo, hi, hi, e)
           /\ BallocSlot(Balloc(a)) = r
<1>0. /\ a \in Areas /\ b \in Slots /\ n \in Slots /\ r \in Slots /\ n # b /\ r # b /\ r # n
      /\ s = a.start[b] /\ e = a.end[b]
      /\ s \in Int /\ e \in Int /\ lo \in Int /\ hi \in Int
      /\ n = BallocSlot(a) /\ a1 = Cut(a, b, s, lo, lo, e) /\ r = BallocSlot(a1)
    BY DEF CutTwice
<1> USE <1>0
<1>1. Parts(a, b, n, s, lo, lo, e, a1)
    BY CutFields
<1>2. PICK a2 : a2 = Cut(a1, n, lo, hi, hi, e)
    OBVIOUS
<1>3. Parts(a1, n, r, lo, hi, hi, e, a2)
    BY <1>1, <1>2, CutFields DEF Parts
<1>4. PICK d1 : d1 = NewBlock(a, lo, hi)
    OBVIOUS
<1>5. Made(a, n, lo, hi, d1)
    BY <1>4, NewBlockFields
<1>6. Balloc(a) \in Areas /\ d1 \in Areas /\ a1 \in Areas
    <2>1. CASE a.freeno # << >>
        <3>1. Front(a.freeno) \in Seq(Slots)
            BY <2>1 DEF Areas, Front
        <3> QED BY <1>1, <1>5, <2>1, <3>1 DEF Balloc, Areas, Made, Parts
    <2>2. CASE a.freeno = << >>
        <3>1. a.maxpos + 1 \in Nat
            BY DEF Areas
        <3> QED BY <1>1, <1>5, <2>2, <3>1 DEF Balloc, Areas, Made, Parts
    <2> QED BY <2>1, <2>2
<1>7. SamePool(Balloc(a), a1) /\ SamePool(Balloc(a), d1)
    BY <1>1, <1>5 DEF Parts, Made
<1>8. BallocSlot(d1) = r /\ BallocSlot(Balloc(a)) = r /\ SamePool(Balloc(a1), Balloc(d1))
    <2>1. BallocSlot(a1) = BallocSlot(Balloc(a)) /\ BallocSlot(d1) = BallocSlot(Balloc(a))
        BY <1>6, <1>7, BallocSame
    <2>2. SamePool(a1, d1)
        BY <1>7 DEF SamePool
    <2>3. SamePool(Balloc(a1), Balloc(d1))
        BY <1>6, <2>2, BallocSame
    <2> QED BY <2>1, <2>3
<1>9. PICK d2 : d2 = NewBlock(d1, hi, e)
    OBVIOUS
<1>10. Made(d1, r, hi, e, d2)
    BY <1>6, <1>8, <1>9, NewBlockFields
<1>11. PICK d3 : d3 = SetRange(d2, b, s, lo)
    OBVIOUS
<1>12. Ranged(d2, b, s, lo, d3)
    BY <1>10, <1>11, SetRangeFields DEF Made
<1>13. d3 = Middle(a, b, lo, hi)
    BY <1>4, <1>9, <1>11 DEF Middle
<1>14. d3 = a2
    <2>1. d3 \in Areas /\ a2 \in Areas
        BY <1>3, <1>12 DEF Ranged, Parts
    <2>2. SameLinks(d3, a2)
        BY <1>1, <1>3, <1>5, <1>10, <1>12 DEF Ranged, Made, Parts, SameLinks
    <2>3. SamePool(d3, a2)
        BY <1>3, <1>8, <1>10, <1>12 DEF Ranged, Made, Parts, SamePool
    <2>4. ASSUME NEW x \in Slots PROVE SameRange(d3, a2, x)
        <3>1. CASE x = b
            BY <1>1, <1>3, <1>12, <3>1 DEF Ranged, Parts, SameRange
        <3>2. CASE x = n
            BY <1>3, <1>5, <1>10, <1>12, <3>2 DEF Ranged, Made, Parts, SameRange
        <3>3. CASE x = r
            BY <1>3, <1>10, <1>12, <3>3 DEF Ranged, Made, Parts, SameRange
        <3>4. CASE x \notin {b, n, r}
            BY <1>1, <1>3, <1>5, <1>10, <1>12, <3>4 DEF Ranged, Made, Parts, SameRange
        <3> QED BY <3>1, <3>2, <3>3, <3>4
    <2> QED BY <2>1, <2>2, <2>3, <2>4, AreaEqual
<1> QED BY <1>2, <1>8, <1>13, <1>14

\* Setting the range of a block before or after another one is given back is the same.
LEMMA FreeThenWiden ==
    ASSUME NEW a \in Areas, NEW k \in Slots, NEW n \in Slots,
           NEW lo \in Int, NEW mid \in Int, NEW hi \in Int
    PROVE  Bfree(SetRange(a, k, lo, hi), n) = SetRange(Absorb(a, k, n, lo, mid), k, lo, hi)
<1>1. PICK c : c = Absorb(a, k, n, lo, hi)
    OBVIOUS
<1>2. PICK m : m = Absorb(a, k, n, lo, mid)
    OBVIOUS
<1>3. PICK d : d = SetRange(m, k, lo, hi)
    OBVIOUS
<1>4. /\ c \in Areas /\ c.freeno = Append(a.freeno, n) /\ c.maxpos = a.maxpos
      /\ \A b \in Slots \ {k} : SameRange(a, c, b)
      /\ c.start[k] = lo /\ c.end[k] = hi /\ c.size[k] = hi - lo
      /\ \A b \in Slots : /\ c.next[b] = IF b = n THEN NullPtr ELSE a.next[b]
                          /\ c.prev[b] = IF b = n THEN NullPtr ELSE a.prev[b]
    BY <1>1, AbsorbFields
<1>5. /\ m \in Areas /\ m.freeno = Append(a.freeno, n) /\ m.maxpos = a.maxpos
      /\ \A b \in Slots \ {k} : SameRange(a, m, b)
      /\ \A b \in Slots : /\ m.next[b] = IF b = n THEN NullPtr ELSE a.next[b]
                          /\ m.prev[b] = IF b = n THEN NullPtr ELSE a.prev[b]
    BY <1>2, AbsorbFields
<1>6. Ranged(m, k, lo, hi, d)
    BY <1>3, <1>5, SetRangeFields
<1>7. c = d
    <2>1. d \in Areas
        BY <1>6 DEF Ranged
    <2>2. SameLinks(c, d)
        <3>1. d.next = m.next /\ d.prev = m.prev
            BY <1>6 DEF Ranged, SameLinks
        <3>2. c.next = m.next
            BY <1>4, <1>5 DEF Areas
        <3>3. c.prev = m.prev
            BY <1>4, <1>5 DEF Areas
        <3> QED BY <3>1, <3>2, <3>3 DEF SameLinks
    <2>3. SamePool(c, d)
        BY <1>4, <1>5, <1>6 DEF Ranged, SamePool
    <2>4. ASSUME NEW x \in Slots PROVE SameRange(c, d, x)
        <3>1. CASE x = k
            BY <1>4, <1>6, <3>1 DEF Ranged, SameRange
        <3>2. CASE x # k
            BY <1>4, <1>5, <1>6, <3>2 DEF Ranged, SameRange
        <3> QED BY <3>1, <3>2
    <2> QED BY <1>4, <2>1, <2>2, <2>3, <2>4, AreaEqual
<1> QED BY <1>1, <1>2, <1>3, <1>7 DEF Absorb

\* c is a with the range [lo, hi) handed out in block n.
HandedOut(a, A, n, lo, hi, F2, c) ==
    /\ Sound(c, F2, A \cup {n}, {}) /\ n \in Slots /\ n \notin A
    /\ c.start[n] = lo /\ c.end[n] = hi
    /\ \A x \in A : SameRange(a, c, x)
    /\ c.maxpos <= 2 * MaxLive + 3

\* One of the four cases: the range is a whole block, or one end of it, or its middle.
LEMMA Taking ==
    ASSUME NEW a, NEW F, NEW A, Sound(a, F, A, {}), Room(a, 2), NEW b \in F,
           NEW lo \in Nat, NEW hi \in Nat, hi - lo \in Sizes, lo % AlignOf(hi - lo) = 0,
           a.start[b] <= lo, lo < hi, hi <= a.end[b],
           NEW c, c = Take(a, b, lo, hi)
    PROVE  \E n \in Slots, F2 \in SUBSET Slots : HandedOut(a, A, n, lo, hi, F2, c)
<1>1. /\ a \in Areas /\ F \subseteq Slots /\ A \subseteq Slots /\ F \cap A = {}
      /\ Free \notin F \cup A /\ Alloc \notin F \cup A /\ Alloc \in Slots /\ NullPtr \notin Slots
      /\ \A x \in Slots : a.start[x] \in 0 .. HeapHi /\ a.end[x] \in 0 .. HeapHi
    BY SoundFacts
<1>2. PICK s, e : s = a.start[b] /\ e = a.end[b]
    OBVIOUS
<1>3. b \in Slots /\ b # Alloc /\ s \in Nat /\ e \in Nat /\ s <= lo /\ hi <= e
    BY <1>1, <1>2, HeapNumbers
<1>4. a.maxpos <= 2 * MaxLive + 3 /\ Room(a, 1 + 1)
    BY DEF Room
<1>5. PICK n : n = BallocSlot(a)
    OBVIOUS
<1>6. n \in Slots /\ n \notin InUse(F, A, {})
    BY <1>1, <1>4, <1>5, PoolSlot DEF Sound
<1>7. n # b /\ n \notin A
    BY <1>6 DEF InUse
<1>8. CASE s = lo /\ e = hi
    <2>1. PICK m : m = Bdelete(a, b)
        OBVIOUS
    <2>2. c = BinsertPlain(m, Alloc, b)
        BY <1>2, <1>8, <2>1 DEF Take
    <2>3. /\ Sound(m, F \ {b}, A, {} \cup {b}) /\ SameRanges(a, m) /\ SamePool(a, m)
          /\ m.next[Alloc] = a.next[Alloc] /\ m.next[b] = a.next[b]
        BY <2>1, TakeOut DEF Removed
    <2>4. Sound(m, F \ {b}, A, {b})
        <3>1. {} \cup {b} = {b}
            OBVIOUS
        <3> QED BY <2>3, <3>1
    <2>5. Aligned(m, b)
        BY <1>2, <1>8, <2>3 DEF Aligned, SameRanges
    <2>6. m.next[Alloc] = NullPtr => m.next[b] = NullPtr
        <3> SUFFICES ASSUME a.next[Alloc] = NullPtr PROVE a.next[b] = NullPtr
            BY <2>3
        <3>1. A = {}
            <4> SUFFICES ASSUME A # {} PROVE FALSE
                OBVIOUS
            <4>1. PICK x \in A : a.prev[x] \notin A
                BY DEF Sound, Linked
            <4>2. a.prev[x] = Alloc /\ a.next[Alloc] = x
                BY <4>1 DEF Sound, Linked
            <4> QED BY <1>1, <4>1, <4>2
        <3> QED BY <3>1, LoneFree
    <2>7. Sound(c, F \ {b}, A \cup {b}, {b} \ {b}) /\ SameRanges(m, c) /\ SamePool(m, c)
        BY <2>2, <2>4, <2>5, <2>6, PutInUse
    <2>8. Sound(c, F \ {b}, A \cup {b}, {})
        <3>1. {b} \ {b} = {}
            OBVIOUS
        <3> QED BY <2>7, <3>1
    <2>9. HandedOut(a, A, b, lo, hi, F \ {b}, c)
        BY <1>1, <1>2, <1>3, <1>4, <1>8, <2>3, <2>7, <2>8
           DEF HandedOut, SameRanges, SameRange, SamePool
    <2> QED BY <1>1, <1>3, <2>9
<1>9. ASSUME NEW d, Sound(d, F, A, {} \cup {n}), Room(d, 1), d.start[n] = lo, d.end[n] = hi,
             d.next[n] = NullPtr, \A x \in A : SameRange(a, d, x), c = BinsertPlain(d, Alloc, n)
      PROVE  HandedOut(a, A, n, lo, hi, F, c)
    <2>1. {} \cup {n} = {n} /\ {n} \ {n} = {}
        OBVIOUS
    <2>2. Sound(d, F, A, {n})
        BY <1>9, <2>1
    <2>3. Aligned(d, n)
        BY <1>9 DEF Aligned
    <2>4. Sound(c, F, A \cup {n}, {n} \ {n}) /\ SameRanges(d, c) /\ SamePool(d, c)
        BY <1>9, <2>2, <2>3, PutInUse
    <2>5. Sound(c, F, A \cup {n}, {})
        BY <2>1, <2>4
    <2> QED BY <1>6, <1>7, <1>9, <2>4, <2>5
            DEF HandedOut, SameRanges, SameRange, SamePool, Room
<1>10. CASE s = lo /\ e # hi
    <2>1. PICK d : d = Cut(a, b, hi, e, lo, hi)
        OBVIOUS
    <2>2. c = BinsertPlain(d, Alloc, n)
        BY <1>2, <1>5, <1>10, <2>1 DEF Take, Cut
    <2>3. hi < e
        BY <1>3, <1>10
    <2>4. /\ Sound(d, F, A, {} \cup {n}) /\ Room(d, 1) /\ d.next[n] = NullPtr
          /\ \A x \in A : SameRange(a, d, x)
          /\ Parts(a, b, n, hi, e, lo, hi, d)
        <3>1. Cuttable(a, b, hi, e, lo, hi)
            BY <1>2, <1>3, <1>10, <2>3 DEF Cuttable
        <3>2. HasCut(a, F, A, {}, 1, b, n, hi, e, lo, hi, d)
            BY <1>4, <1>5, <2>1, <3>1, Cutting
        <3> QED BY <3>2 DEF HasCut
    <2>5. d.start[n] = lo /\ d.end[n] = hi
        BY <2>4 DEF Parts
    <2>6. HandedOut(a, A, n, lo, hi, F, c)
        BY <1>9, <2>2, <2>4, <2>5
    <2> QED BY <1>1, <1>6, <2>6
<1>11. CASE s # lo /\ e = hi
    <2>1. PICK d : d = Cut(a, b, s, lo, lo, hi)
        OBVIOUS
    <2>2. c = BinsertPlain(d, Alloc, n)
        BY <1>2, <1>5, <1>11, <2>1 DEF Take, Cut
    <2>3. s < lo
        BY <1>3, <1>11
    <2>4. /\ Sound(d, F, A, {} \cup {n}) /\ Room(d, 1) /\ d.next[n] = NullPtr
          /\ \A x \in A : SameRange(a, d, x)
          /\ Parts(a, b, n, s, lo, lo, hi, d)
        <3>1. Cuttable(a, b, s, lo, lo, hi)
            BY <1>2, <1>3, <1>11, <2>3 DEF Cuttable
        <3>2. HasCut(a, F, A, {}, 1, b, n, s, lo, lo, hi, d)
            BY <1>4, <1>5, <2>1, <3>1, Cutting
        <3> QED BY <3>2 DEF HasCut
    <2>5. d.start[n] = lo /\ d.end[n] = hi
        BY <2>4 DEF Parts
    <2>6. HandedOut(a, A, n, lo, hi, F, c)
        BY <1>9, <2>2, <2>4, <2>5
    <2> QED BY <1>1, <1>6, <2>6
<1>12. CASE s # lo /\ e # hi
    <2>1. s < lo /\ hi < e
        BY <1>3, <1>12
    <2>2. PICK a1 : a1 = Cut(a, b, s, lo, lo, e)
        OBVIOUS
    <2>3. /\ Sound(a1, F, A, {} \cup {n}) /\ Room(a1, 1) /\ a1.next[n] = NullPtr
          /\ \A x \in A : SameRange(a, a1, x)
          /\ Parts(a, b, n, s, lo, lo, e, a1)
        <3>1. Cuttable(a, b, s, lo, lo, e)
            BY <1>2, <1>3, <2>1 DEF Cuttable
        <3>2. HasCut(a, F, A, {}, 1, b, n, s, lo, lo, e, a1)
            BY <1>4, <1>5, <2>2, <3>1, Cutting
        <3> QED BY <3>2 DEF HasCut
    <2>4. Sound(a1, F, A, {n})
        <3>1. {} \cup {n} = {n}
            OBVIOUS
        <3> QED BY <2>3, <3>1
    <2>5. PICK r : r = BallocSlot(a1)
        OBVIOUS
    <2>6. PICK a2 : a2 = Cut(a1, n, lo, hi, hi, e)
        OBVIOUS
    <2>7. a1.start[n] = lo /\ a1.end[n] = e /\ a1.end[b] = lo /\ a1.start[b] = s
          /\ a1.next = a.next
        BY <2>3 DEF Parts, SameLinks
    <2>8. /\ Sound(a2, F, A, {n} \cup {r}) /\ Room(a2, 0) /\ r \in Slots /\ r \notin InUse(F, A, {n})
          /\ a2.next[r] = NullPtr
          /\ \A x \in A : SameRange(a1, a2, x)
          /\ Parts(a1, n, r, lo, hi, hi, e, a2)
        <3>1. Room(a1, 0 + 1) /\ a1.start[n] < hi /\ hi < a1.end[n] /\ n \in F \cup {n}
            BY <2>1, <2>3, <2>7
        <3>2. Cuttable(a1, n, lo, hi, hi, e)
            BY <2>1, <2>7 DEF Cuttable
        <3>3. PICK k \in Nat : k = 0
            OBVIOUS
        <3>4. Room(a1, k + 1)
            BY <3>1, <3>3
        <3>5. HasCut(a1, F, A, {n}, k, n, r, lo, hi, hi, e, a2)
            BY <2>4, <2>5, <2>6, <3>1, <3>2, <3>4, Cutting
        <3> QED BY <3>3, <3>5 DEF HasCut
    <2>9. r # b /\ r # n
        BY <2>8 DEF InUse
    <2>10. a2 = Middle(a, b, lo, hi) /\ BallocSlot(Balloc(a)) = r
        <3>1. CutTwice(a, b, s, e, lo, hi, n, r, a1)
            BY <1>1, <1>2, <1>3, <1>5, <1>6, <1>7, <2>2, <2>5, <2>8, <2>9 DEF CutTwice
        <3> QED BY <2>6, <3>1, MiddleIsTwoCuts
    <2>11. PICK d : d = BinsertPlain(a2, b, r)
        OBVIOUS
    <2>12. c = BinsertPlain(d, Alloc, n)
        BY <1>2, <1>5, <1>12, <2>10, <2>11 DEF Take, Middle
    <2>13. /\ Sound(d, F \cup {r}, A, ({n} \cup {r}) \ {r}) /\ SameRanges(a2, d) /\ SamePool(a2, d)
           /\ \A x \in {Alloc} \cup (({n} \cup {r}) \ {r}) : d.next[x] = a2.next[x]
        <3>1. a2.start[r] = hi /\ a2.end[r] = e /\ a2.end[b] = lo /\ a2.next = a.next
            BY <1>3, <1>7, <2>7, <2>8, <2>9 DEF Parts, SameRange, SameLinks
        <3>2. a2.end[b] < a2.start[r]
            BY <3>1
        <3>3. a2.next[b] # NullPtr => a2.end[r] < a2.start[a2.next[b]]
            <4> SUFFICES ASSUME a.next[b] # NullPtr PROVE e < a2.start[a.next[b]]
                BY <3>1
            <4>1. a.next[b] \in F /\ e < a.start[a.next[b]]
                BY <1>2 DEF Sound, Linked, Merged
            <4>2. a.next[b] # b /\ a.next[b] # n /\ a.next[b] # r /\ a.next[b] \in Slots
                <5>1. a.start[b] < a.end[b]
                    BY DEF Sound, Tiled
                <5>2. a.next[b] # b
                    BY <1>2, <1>3, <4>1, <5>1
                <5> QED BY <1>1, <1>6, <2>8, <4>1, <5>2 DEF InUse
            <4>3. a2.start[a.next[b]] = a.start[a.next[b]]
                BY <2>3, <2>8, <4>2 DEF Parts, SameRange
            <4> QED BY <4>1, <4>3
        <3>4. a2.next[b] = NullPtr => a2.next[r] = NullPtr
            BY <2>8
        <3>5. r \in {n} \cup {r} /\ b \in F \cup {Free}
            OBVIOUS
        <3>6. Between(a2, F, b, r)
            BY <3>2, <3>3, <3>4, <3>5 DEF Between
        <3>7. Inserted(a2, F, A, {n} \cup {r}, r, d)
            BY <2>8, <2>11, <3>5, <3>6, PutBack
        <3> QED BY <3>7 DEF Inserted
    <2>14. ({n} \cup {r}) \ {r} = {n} /\ {n} \ {n} = {}
        BY <2>9
    <2>15. Sound(d, F \cup {r}, A, {n}) /\ d.next[n] = a2.next[n]
        BY <2>13, <2>14
    <2>16. d.start[n] = lo /\ d.end[n] = hi /\ d.next[n] = NullPtr
        BY <2>3, <2>7, <2>8, <2>13, <2>15 DEF Parts, SameRanges, SameLinks
    <2>17. Aligned(d, n)
        BY <2>16 DEF Aligned
    <2>18. Sound(c, F \cup {r}, A \cup {n}, {n} \ {n}) /\ SameRanges(d, c) /\ SamePool(d, c)
        BY <2>12, <2>15, <2>16, <2>17, PutInUse
    <2>19. Sound(c, F \cup {r}, A \cup {n}, {})
        BY <2>14, <2>18
    <2>20. \A x \in A : SameRange(a, c, x)
        BY <2>3, <2>8, <2>13, <2>18 DEF SameRanges, SameRange
    <2>21. c.maxpos <= 2 * MaxLive + 3
        BY <2>8, <2>13, <2>18 DEF Room, SamePool
    <2>22. c.start[n] = lo /\ c.end[n] = hi
        BY <2>16, <2>18 DEF SameRanges
    <2>23. HandedOut(a, A, n, lo, hi, F \cup {r}, c)
        BY <1>6, <1>7, <2>19, <2>20, <2>21, <2>22 DEF HandedOut
    <2>24. F \cup {r} \in SUBSET Slots
        BY <1>1, <2>8
    <2> QED BY <1>6, <2>23, <2>24
<1> QED BY <1>8, <1>10, <1>11, <1>12

\* Where kfree may put block n: behind pre, which ends before it, and before what follows pre.
Place(a, F, pre, n) ==
    /\ pre \in F \cup {Free} /\ a.end[pre] <= a.start[n]
    /\ a.next[pre] # NullPtr => a.start[a.next[pre]] >= a.end[n]

\* c is a with block n merged into the free list.
GivenBack(a, A, F2, c) ==
    Sound(c, F2, A, {}) /\ c.maxpos = a.maxpos /\ \A x \in A : SameRange(a, c, x)

\* One of the four cases: the range touches the block before it, or the one behind it, or
\* both, or none.
LEMMA Merging ==
    ASSUME NEW a, NEW F, NEW A, NEW n, Sound(a, F, A, {n}), NEW pre, Place(a, F, pre, n),
           ~Tangles(a, pre, n), NEW c, c = BinsertMerge(a, pre, n)
    PROVE  \E F2 \in SUBSET Slots : GivenBack(a, A, F2, c)
<1>1. /\ a \in Areas /\ F \subseteq Slots /\ n \in Slots /\ n \notin F /\ NullPtr \notin Slots
      /\ Free \in Slots /\ Free # n
      /\ \A x \in Slots : a.start[x] \in Nat /\ a.end[x] \in Nat
    BY SoundFacts, HeapNumbers
<1>2. Linked(a, Free, F) /\ Merged(a, F)
    BY DEF Sound
<1>3. PICK succ : succ = a.next[pre]
    OBVIOUS
<1>4. /\ pre \in F \cup {Free} /\ pre \in Slots /\ a.end[pre] <= a.start[n]
      /\ succ # NullPtr => a.start[succ] >= a.end[n] /\ succ \in F /\ succ \in Slots
                           /\ a.prev[succ] = pre /\ succ # pre
    <2>1. pre \in F \cup {Free} /\ a.end[pre] <= a.start[n]
          /\ (succ # NullPtr => a.start[succ] >= a.end[n])
        BY <1>3 DEF Place
    <2>2. a.start[n] < a.end[n]
        BY DEF Sound, Tiled
    <2>3. succ # NullPtr => succ \in F /\ a.prev[succ] = pre
        BY <1>2, <1>3, <2>1 DEF Linked
    <2>4. succ # NullPtr => a.end[pre] < a.start[succ]
        BY <1>2, <1>3, <2>1 DEF Merged
    <2>5. succ = pre /\ succ # NullPtr => a.start[succ] < a.end[succ]
        BY <2>3 DEF Sound, Tiled
    <2> QED BY <1>1, <2>1, <2>3, <2>4, <2>5
<1> DEFINE left == a.end[pre] = a.start[n]
           right == succ # NullPtr /\ a.start[succ] = a.end[n]
<1>5. {n} \ {n} = {} /\ n \in {n}
    OBVIOUS
<1>6. left => pre \in F
    <2>1. a.end[Free] = 0
        BY <1>2 DEF Merged
    <2>2. a.start[n] > 0
        <3>1. HeapLo <= a.start[n]
            BY DEF Sound, Tiled
        <3> QED BY <1>1, <3>1, HeapNumbers
    <2> QED BY <1>4, <2>1, <2>2
<1>7. CASE ~left /\ ~right
    <2>1. c = BinsertPlain(a, pre, n)
        BY <1>3, <1>7 DEF BinsertMerge
    <2>2. Between(a, F, pre, n)
        BY <1>1, <1>3, <1>4, <1>7 DEF Between, Tangles
    <2>3. Inserted(a, F, A, {n}, n, c)
        BY <1>5, <2>1, <2>2, PutBack
    <2>4. GivenBack(a, A, F \cup {n}, c)
        BY <1>5, <2>3 DEF Inserted, GivenBack, SamePool, SameRanges, SameRange
    <2> QED BY <1>1, <2>4
<1>8. left => a.end[a.prev[pre]] < a.start[pre]
    <2>1. left => a.prev[pre] \in F \cup {Free} /\ a.next[a.prev[pre]] = pre
        BY <1>2, <1>6 DEF Linked
    <2> QED BY <1>1, <1>2, <1>4, <2>1 DEF Merged
<1>9. CASE left /\ ~right
    <2>1. c = Absorb(a, pre, n, a.start[pre], a.end[n])
        BY <1>3, <1>9 DEF BinsertMerge, Absorb
    <2>2. Absorbable(a, pre, n, a.start[pre], a.end[n])
        BY <1>1, <1>3, <1>4, <1>8, <1>9 DEF Absorbable
    <2>3. Absorbed(a, F, A, {n}, n, c)
        BY <1>5, <1>6, <1>9, <2>1, <2>2, Absorbing
    <2>4. GivenBack(a, A, F, c)
        BY <1>5, <2>3 DEF Absorbed, GivenBack
    <2> QED BY <1>1, <2>4
<1>10. right => (a.next[succ] # NullPtr => a.end[succ] < a.start[a.next[succ]])
    BY <1>2, <1>4 DEF Merged
<1>11. CASE ~left /\ right
    <2>1. c = Absorb(a, succ, n, a.start[n], a.end[succ])
        BY <1>3, <1>11 DEF BinsertMerge, Absorb
    <2>2. Absorbable(a, succ, n, a.start[n], a.end[succ])
        BY <1>1, <1>4, <1>10, <1>11 DEF Absorbable
    <2>3. Absorbed(a, F, A, {n}, n, c)
        BY <1>4, <1>5, <1>11, <2>1, <2>2, Absorbing
    <2>4. GivenBack(a, A, F, c)
        BY <1>5, <2>3 DEF Absorbed, GivenBack
    <2> QED BY <1>1, <2>4
<1>12. CASE left /\ right
    <2>1. PICK s, e, mid, nn : s = a.start[pre] /\ e = a.end[succ] /\ mid = a.end[n]
                               /\ nn = a.next[succ]
        OBVIOUS
    <2>2. s \in Int /\ e \in Int /\ mid \in Int /\ succ \in F /\ succ \in Slots /\ pre \in F
        BY <1>1, <1>4, <1>6, <1>12, <2>1
    <2>3. PICK m1 : m1 = Bdelete(a, succ)
        OBVIOUS
    <2>4. c = Bfree(Bfree(SetRange(m1, pre, s, e), n), succ)
        <3>1. m1 = Blink(a, pre, a.next[succ])
            BY <1>4, <1>12, <2>3 DEF Bdelete
        <3> QED BY <1>3, <1>12, <2>1, <3>1 DEF BinsertMerge
    <2>5. Removed(a, F, A, {n}, succ, m1)
        BY <2>2, <2>3, TakeOut
    <2>6. Sound(m1, F \ {succ}, A, {n} \cup {succ}) /\ SameRanges(a, m1) /\ m1.maxpos = a.maxpos
        BY <2>5 DEF Removed, SamePool
    <2>7. /\ m1.next[pre] = nn /\ m1.prev[pre] = a.prev[pre]
          /\ nn # NullPtr => e < m1.start[nn]
        <3>1. a.prev[succ] = pre
            BY <1>4, <1>12
        <3>2. /\ \A b \in Slots :
                    /\ m1.next[b] = IF b = a.prev[succ] THEN a.next[succ] ELSE a.next[b]
                    /\ m1.prev[b] = IF b = a.next[succ] THEN a.prev[succ] ELSE a.prev[b]
            BY <1>1, <1>4, <2>2, <2>3, <3>1, BdeleteFields
        <3>3. a.next[succ] # pre
            <4>1. a.prev[succ] = pre /\ succ # pre /\ pre # NullPtr
                BY <1>1, <1>4, <1>12
            <4>2. \A x \in F : a.start[x] < a.end[x] /\ a.start[x] \in Nat /\ a.end[x] \in Nat
                BY <1>1 DEF Sound, Tiled
            <4>3. a.end[pre] < a.start[succ]
                BY <1>2, <1>3, <1>4, <1>12 DEF Merged
            <4> QED BY <1>10, <1>12, <2>2, <4>1, <4>2, <4>3
        <3> QED BY <1>4, <1>10, <1>12, <2>1, <2>6, <3>1, <3>2, <3>3 DEF SameRanges
    <2>8. PICK m2 : m2 = Absorb(m1, pre, n, s, mid)
        OBVIOUS
    <2>9. pre \in F \ {succ} /\ n \in {n} \cup {succ} /\ n # succ
        BY <1>1, <1>4, <1>12, <2>2
    <2>10. /\ m1 \in Areas /\ m1.start = a.start /\ m1.end = a.end
           /\ s < mid /\ mid < e /\ a.prev[pre] \in F \cup {Free}
        <3>1. a.start[pre] < a.end[pre] /\ a.start[n] < a.end[n] /\ a.start[succ] < a.end[succ]
            BY <2>2 DEF Sound, Tiled
        <3> QED BY <1>1, <1>2, <1>4, <1>12, <2>1, <2>2, <2>6, <3>1 DEF Sound, SameRanges, Linked
    <2>11. Absorbable(m1, pre, n, s, mid)
        <3>1. nn # NullPtr => nn \in F /\ m1.start[nn] \in Nat
            BY <1>1, <1>2, <2>1, <2>2, <2>10 DEF Linked
        <3>2. m1.prev[pre] \in Slots /\ m1.end[m1.prev[pre]] < s
            BY <1>1, <1>8, <1>12, <2>1, <2>7, <2>10
        <3>3. m1.end[pre] = m1.start[n] /\ m1.start[pre] = s /\ m1.end[n] = mid
            BY <1>12, <2>1, <2>10
        <3>4. nn # NullPtr => mid < m1.start[nn]
            BY <2>2, <2>7, <2>10, <3>1
        <3> QED BY <2>7, <3>2, <3>3, <3>4 DEF Absorbable
    <2>12. Absorbed(m1, F \ {succ}, A, {n} \cup {succ}, n, m2)
        BY <2>6, <2>8, <2>9, <2>11, Absorbing
    <2>13. Sound(m2, F \ {succ}, A, {succ}) /\ m2.maxpos = a.maxpos
           /\ \A x \in A : SameRange(a, m2, x)
        <3>1. ({n} \cup {succ}) \ {n} = {succ}
            BY <2>9
        <3> QED BY <2>6, <2>12, <3>1 DEF Absorbed, SameRanges, SameRange
    <2>14. /\ \A b \in Slots \ {pre} : SameRange(m1, m2, b)
           /\ m2.start[pre] = s /\ m2.end[pre] = mid
           /\ \A b \in Slots : /\ m2.next[b] = IF b = n THEN NullPtr ELSE m1.next[b]
                               /\ m2.prev[b] = IF b = n THEN NullPtr ELSE m1.prev[b]
        BY <1>1, <1>4, <2>2, <2>8, <2>10, AbsorbFields
    <2>15. m2.start[succ] = mid /\ m2.end[succ] = e
           /\ m2.next[pre] = nn /\ m2.prev[pre] = a.prev[pre]
        BY <1>1, <1>4, <1>12, <2>1, <2>2, <2>7, <2>9, <2>10, <2>14 DEF SameRange
    <2>16. Absorbable(m2, pre, succ, s, e)
        <3>1. m2.end[m2.prev[pre]] < s
            <4>1. a.prev[pre] \in Slots /\ a.prev[pre] # pre
                <5>1. a.end[a.prev[pre]] < a.start[pre] /\ a.start[pre] < a.end[pre]
                    BY <1>8, <1>12, <2>2 DEF Sound, Tiled
                <5>2. a.prev[pre] \in Slots
                    BY <1>1, <2>10
                <5> QED BY <1>1, <1>4, <5>1, <5>2
            <4> QED BY <1>8, <1>12, <2>1, <2>10, <2>14, <2>15, <4>1 DEF SameRange
        <3>2. nn # NullPtr => e < m2.start[nn]
            <4>1. nn # NullPtr => nn \in Slots
                BY <1>1, <1>2, <2>1, <2>2 DEF Linked
            <4>2. nn # NullPtr => nn # pre
                <5>1. nn = pre /\ nn # NullPtr => e < s
                    BY <2>1, <2>7, <2>10
                <5> QED BY <2>2, <2>10, <5>1
            <4> QED BY <2>7, <2>14, <4>1, <4>2 DEF SameRange
        <3> QED BY <2>14, <2>15, <3>1, <3>2 DEF Absorbable
    <2>17. PICK m3 : m3 = Absorb(m2, pre, succ, s, e)
        OBVIOUS
    <2>18. Absorbed(m2, F \ {succ}, A, {succ}, succ, m3)
        <3>1. succ \in {succ}
            OBVIOUS
        <3> QED BY <2>9, <2>13, <2>16, <2>17, <3>1, Absorbing
    <2>19. m3 = c
        <3>1. Bfree(SetRange(m1, pre, s, e), n) = SetRange(m2, pre, s, e)
            BY <1>1, <1>4, <2>2, <2>8, <2>10, FreeThenWiden
        <3> QED BY <2>4, <2>17, <3>1 DEF Absorb
    <2>20. GivenBack(a, A, F \ {succ}, c)
        <3>1. {succ} \ {succ} = {}
            OBVIOUS
        <3> QED BY <2>13, <2>18, <2>19, <3>1 DEF Absorbed, GivenBack, SameRange
    <2> QED BY <1>1, <2>20
<1> QED BY <1>7, <1>9, <1>11, <1>12
------------------------------------------------------------------------------
(***************************************************************************)
(* Counting                                                                *)
(***************************************************************************)
LEMMA CountFrom ==
    ASSUME NEW i \in Nat, NEW n \in Nat
    PROVE  IsFiniteSet(i .. i + n - 1) /\ Cardinality(i .. i + n - 1) = n
<1>1. PICK j \in Int : j = i + n - 1
    OBVIOUS
<1>2. IsFiniteSet(i .. j) /\ Cardinality(i .. j) = IF i > j THEN 0 ELSE j - i + 1
    BY FS_Interval
<1>3. (IF i > j THEN 0 ELSE j - i + 1) = n
    BY <1>1
<1> QED BY <1>1, <1>2, <1>3

LEMMA CountUnion ==
    ASSUME NEW S, NEW T, IsFiniteSet(S), IsFiniteSet(T)
    PROVE  IsFiniteSet(S \cup T) /\ Cardinality(S \cup T) <= Cardinality(S) + Cardinality(T)
<1>1. /\ IsFiniteSet(S \cup T)
      /\ Cardinality(S \cup T) = Cardinality(S) + Cardinality(T) - Cardinality(S \cap T)
    BY FS_Union
<1>2. IsFiniteSet(S \cap T)
    BY FS_Intersection
<1>3. Cardinality(S \cap T) \in Nat /\ Cardinality(S) \in Nat /\ Cardinality(T) \in Nat
    BY <1>2, FS_CardinalityType
<1> QED BY <1>1, <1>3

\* No more slots were taken than are in use and given back.
LEMMA PoolCount ==
    ASSUME NEW a \in Areas, NEW U, IsFiniteSet(U), Pool(a, U), a.maxpos <= NSlots
    PROVE  a.maxpos <= Cardinality(U) + Len(a.freeno)
<1> DEFINE back == {a.freeno[i] : i \in 1 .. Len(a.freeno)}
           f == [i \in 1 .. Len(a.freeno) |-> a.freeno[i]]
<1>1. a.maxpos \in Nat /\ a.freeno \in Seq(Slots) /\ Len(a.freeno) \in Nat
    BY LenProperties DEF Areas
<1>2. 0 .. a.maxpos - 1 \subseteq U \cup back
    BY <1>1, HeapAssumption DEF Pool, Slots
<1>3. IsFiniteSet(1 .. Len(a.freeno)) /\ Cardinality(1 .. Len(a.freeno)) = Len(a.freeno)
    <2>1. 1 + Len(a.freeno) - 1 = Len(a.freeno)
        BY <1>1
    <2>2. IsFiniteSet(1 .. 1 + Len(a.freeno) - 1)
          /\ Cardinality(1 .. 1 + Len(a.freeno) - 1) = Len(a.freeno)
        BY <1>1, CountFrom
    <2> QED BY <2>1, <2>2
<1>4. f \in Surjection(1 .. Len(a.freeno), back)
    BY DEF Surjection
<1>5. IsFiniteSet(back) /\ Cardinality(back) <= Len(a.freeno)
    <2> HIDE DEF f, back
    <2> QED BY <1>3, <1>4, FS_Surjection
<1> HIDE DEF back
<1>6. IsFiniteSet(U \cup back) /\ Cardinality(U \cup back) <= Cardinality(U) + Cardinality(back)
    BY <1>5, CountUnion
<1>7. Cardinality(0 .. a.maxpos - 1) = a.maxpos
    <2>1. 0 + a.maxpos - 1 = a.maxpos - 1
        BY <1>1
    <2>2. Cardinality(0 .. 0 + a.maxpos - 1) = a.maxpos
        BY <1>1, CountFrom
    <2> QED BY <2>1, <2>2
<1>8. Cardinality(0 .. a.maxpos - 1) <= Cardinality(U \cup back)
    BY <1>2, <1>6, FS_Subset
<1>9. Cardinality(U) \in Nat /\ Cardinality(back) \in Nat /\ Cardinality(U \cup back) \in Nat
    BY <1>5, <1>6, FS_CardinalityType
<1> QED BY <1>1, <1>5, <1>6, <1>7, <1>8, <1>9

\* A call takes two slots at most, and there are two: one free block more than ranges in
\* use, at most, and the two heads.
LEMMA RoomThere ==
    ASSUME NEW a, NEW F, NEW A, Sound(a, F, A, {}), a.maxpos <= 2 * MaxLive + 3,
           Cardinality(A) < MaxLive
    PROVE  Room(a, 2)
<1>1. /\ IsFiniteSet(F) /\ IsFiniteSet(A) /\ Cardinality(F) <= Cardinality(A) + 1
      /\ Cardinality(F) \in Nat /\ Cardinality(A) \in Nat
    BY FewFree, FS_CardinalityType
<1>2. IsFiniteSet({Free, Alloc}) /\ Cardinality({Free, Alloc}) <= 2
    <2>1. {Free, Alloc} = 0 .. 0 + 2 - 1
        BY DEF Free, Alloc
    <2>2. IsFiniteSet(0 .. 0 + 2 - 1) /\ Cardinality(0 .. 0 + 2 - 1) = 2
        BY CountFrom
    <2> QED BY <2>1, <2>2
<1>3. IsFiniteSet({Free, Alloc} \cup F) /\ Cardinality({Free, Alloc} \cup F) <= 2 + Cardinality(F)
    <2>1. Cardinality({Free, Alloc}) \in Nat
        BY <1>2, FS_CardinalityType
    <2>2. IsFiniteSet({Free, Alloc} \cup F)
          /\ Cardinality({Free, Alloc} \cup F) <= Cardinality({Free, Alloc}) + Cardinality(F)
        BY <1>1, <1>2, CountUnion
    <2>3. Cardinality({Free, Alloc} \cup F) \in Nat
        BY <2>2, FS_CardinalityType
    <2> QED BY <1>1, <1>2, <2>1, <2>2, <2>3
<1>4. PICK U : U = ({Free, Alloc} \cup F) \cup A
    OBVIOUS
<1>5. IsFiniteSet(U) /\ Cardinality(U) \in Nat
      /\ Cardinality(U) <= 2 + Cardinality(F) + Cardinality(A)
    <2>1. IsFiniteSet(U) /\ Cardinality(U) <= Cardinality({Free, Alloc} \cup F) + Cardinality(A)
        BY <1>1, <1>3, <1>4, CountUnion
    <2>2. Cardinality({Free, Alloc} \cup F) \in Nat /\ Cardinality(U) \in Nat
        BY <1>3, <2>1, FS_CardinalityType
    <2> QED BY <1>1, <1>3, <2>1, <2>2
<1>6. Pool(a, U)
    <2>1. InUse(F, A, {}) = U
        BY <1>4 DEF InUse
    <2> QED BY <2>1 DEF Sound
<1>7. a \in Areas /\ a.maxpos <= NSlots /\ a.maxpos \in Nat /\ Len(a.freeno) \in Nat
    <2>1. a \in Areas /\ a.freeno \in Seq(Slots) /\ a.maxpos \in Nat
        BY DEF Sound, Areas
    <2> QED BY <2>1, LenProperties, HeapAssumption
<1>8. a.maxpos <= Cardinality(U) + Len(a.freeno)
    BY <1>5, <1>6, <1>7, PoolCount
<1>9. Cardinality(A) + 1 <= MaxLive /\ MaxLive \in Nat
    BY <1>1, HeapAssumption
<1>10. PICK u, f, d, l \in Nat : u = Cardinality(U) /\ f = Cardinality(F)
                                /\ d = Cardinality(A) /\ l = Len(a.freeno)
    BY <1>1, <1>5, <1>7
<1>11. a.maxpos + 2 <= 2 * MaxLive + 3 + l
    <2>1. a.maxpos <= u + l /\ u <= 2 + f + d /\ f <= d + 1 /\ d + 1 <= MaxLive
        BY <1>1, <1>5, <1>8, <1>9, <1>10
    <2> QED BY <1>7, <1>9, <2>1
<1> QED BY <1>10, <1>11 DEF Room

\* No two blocks have one range, so there are as many as ranges handed out.
LEMMA RangesCount ==
    ASSUME NEW a, NEW F, NEW A, Sound(a, F, A, {})
    PROVE  Cardinality({RangeIn(a, b) : b \in A}) = Cardinality(A)
<1> DEFINE O == {RangeIn(a, b) : b \in A}
           f == [b \in A |-> RangeIn(a, b)]
<1>1. IsFiniteSet(A) /\ \A b \in A : a.start[b] \in Nat /\ a.end[b] \in Nat
    BY FewFree, SoundSlots
<1>2. Tiled(a.start, a.end, F \cup A)
    BY DEF Sound
<1>3. ASSUME NEW b \in A, NEW d \in A, RangeIn(a, b) = RangeIn(a, d) PROVE b = d
    <2>1. a.start[b] = a.start[d] /\ a.end[b] = a.end[d] /\ a.start[b] < a.end[b]
        BY <1>2, <1>3 DEF RangeIn, Tiled
    <2> QED BY <1>1, <1>2, <2>1 DEF Tiled
<1>4. IsInjective(f)
    BY <1>3 DEF IsInjective
<1>5. f \in Surjection(A, O) /\ f \in Injection(A, O)
    BY <1>4 DEF Surjection, Injection
<1> HIDE DEF O, f
<1>6. Cardinality(O) = Cardinality(A)
    BY <1>1, <1>5, FS_Surjection
<1> QED BY <1>6 DEF O
------------------------------------------------------------------------------
(***************************************************************************)
(* The invariant holds initially                                           *)
(***************************************************************************)
LEMMA InitHolds == PmmInit => IInv
<1> SUFFICES ASSUME PmmInit PROVE IInv
    OBVIOUS
<1> USE SlotsNotNull, HeapNumbers
<1>1. 2 \in Slots /\ Free = 0 /\ Alloc = 1 /\ NSlots \in Nat /\ MaxLive \in Nat
    BY HeapAssumption DEF Slots, Free, Alloc
<1>2. PICK a : a = area
    OBVIOUS
<1>3. /\ a.freeno = << >> /\ a.maxpos = 3
      /\ \A b \in Slots : /\ a.start[b] = IF b = 2 THEN HeapLo ELSE 0
                          /\ a.end[b] = IF b = 2 THEN HeapHi ELSE 0
                          /\ a.size[b] = 0
                          /\ a.prev[b] = IF b = 2 THEN Free ELSE NullPtr
                          /\ a.next[b] = IF b = Free THEN 2 ELSE NullPtr
    BY <1>2 DEF PmmInit
<1>4. a \in Areas
    BY <1>1, <1>2 DEF PmmInit, Areas, Pointer
<1>5. Numbered(a)
    BY <1>3 DEF Numbered
<1>6. Linked(a, Free, {2})
    <2>1. /\ Free \in Slots /\ {2} \subseteq Slots /\ Free \notin {2}
          /\ a.next[Free] = 2 /\ a.next[2] = NullPtr /\ a.prev[2] = Free
        BY <1>1, <1>3
    <2>2. ASSUME NEW T \in SUBSET {2}, T # {} PROVE \E x \in T : a.prev[x] \notin T
        <3>1. 2 \in T /\ Free \notin T
            <4>1. PICK x \in T : TRUE
                BY <2>2
            <4>2. x = 2 /\ Free # 2
                BY <1>1
            <4> QED BY <4>1, <4>2
        <3> QED BY <2>1, <3>1
    <2> QED BY <2>1, <2>2 DEF Linked
<1>7. Linked(a, Alloc, {})
    BY <1>1, <1>3 DEF Linked
<1>8. Parted({2}, {}, {})
    BY <1>1 DEF Parted
<1>9. Pool(a, InUse({2}, {}, {}))
    <2>1. InUse({2}, {}, {}) = {0, 1, 2} /\ Len(a.freeno) = 0
        BY <1>1, <1>3 DEF InUse
    <2>2. \A b \in Slots : b < 3 <=> b \in {0, 1, 2}
        BY DEF Slots
    <2>3. \A b \in Slots \ {0, 1, 2} : a.next[b] = NullPtr
        BY <1>1, <1>3
    <2> QED BY <1>3, <2>1, <2>2, <2>3 DEF Pool
<1>10. Tiled(a.start, a.end, {2})
    BY <1>1, <1>3 DEF Tiled
<1>11. Sized(a, 2) /\ Merged(a, {2})
    BY <1>1, <1>3 DEF Sized, Merged
<1>12. Sound(a, {2}, {}, {})
    BY <1>4, <1>5, <1>6, <1>7, <1>8, <1>9, <1>10, <1>11 DEF Sound
<1>13. Holds(a, {2}, {})
    <2>1. Cardinality({}) = 0
        BY FS_EmptySet
    <2>2. owned = {}
        BY DEF PmmInit
    <2> QED BY <1>1, <1>3, <1>12, <2>1, <2>2 DEF Holds
<1>14. halted = FALSE /\ tangled = FALSE
    BY DEF PmmInit
<1> QED BY <1>1, <1>2, <1>13, <1>14 DEF IInv
------------------------------------------------------------------------------
(***************************************************************************)
(* The searches of kalloc and kfree, and the checks at their end           *)
(***************************************************************************)
\* kalloc finds a free block that can serve the request, if there is one.
LEMMA ServingFree ==
    ASSUME NEW F, NEW A, Sound(area, F, A, {}), NEW size \in Sizes
    PROVE  /\ \A b \in Serving(size) : b \in F /\ Serves(area, b, size)
           /\ \A b \in F : Serves(area, b, size) => Serving(size) # {}
<1> DEFINE set == {b \in Slots : Serves(area, b, size)}
<1>1. area \in Areas /\ Linked(area, Free, F) /\ NullPtr \notin set /\ F \subseteq Slots
    BY SlotsNotNull DEF Sound, Linked
<1>2. Serving(size) = First(area, area.next[Free], set)
    BY DEF Serving
<1> HIDE DEF set
<1>3. /\ First(area, area.next[Free], set) \subseteq F \cap set
      /\ F \cap set # {} => First(area, area.next[Free], set) # {}
    BY <1>1, FirstInList
<1> QED BY <1>1, <1>2, <1>3 DEF set

\* kfree finds an allocated block with the address it was given.
LEMMA FoundUsed ==
    ASSUME NEW F, NEW A, Sound(area, F, A, {}), NEW ptr
    PROVE  /\ \A b \in Found(ptr) : b \in A /\ area.start[b] = ptr
           /\ \A b \in A : area.start[b] = ptr => Found(ptr) # {}
<1> DEFINE set == {b \in Slots : area.start[b] = ptr}
<1>1. area \in Areas /\ Linked(area, Alloc, A) /\ NullPtr \notin set /\ A \subseteq Slots
    BY SlotsNotNull DEF Sound, Linked
<1>2. Found(ptr) = First(area, area.next[Alloc], set)
    BY DEF Found
<1> HIDE DEF set
<1>3. /\ First(area, area.next[Alloc], set) \subseteq A \cap set
      /\ A \cap set # {} => First(area, area.next[Alloc], set) # {}
    BY <1>1, FirstInList
<1> QED BY <1>1, <1>2, <1>3 DEF set

\* There is a place for every block in the free list, and kfree finds one.
LEMMA BehindPlace ==
    ASSUME NEW a, NEW F, NEW A, NEW n, Sound(a, F, A, {n})
    PROVE  Behind(a, n) # {} /\ \A pre \in Behind(a, n) : Place(a, F, pre, n)
<1> DEFINE set == {l \in Slots :
                     /\ a.end[l] <= a.start[n]
                     /\ a.next[l] # NullPtr => a.start[a.next[l]] >= a.end[n]}
<1>1. /\ a \in Areas /\ F \subseteq Slots /\ n \in Slots /\ n \notin F /\ NullPtr \notin Slots
      /\ Free \in Slots /\ \A x \in Slots : a.start[x] \in Nat /\ a.end[x] \in Nat
    BY SoundFacts, HeapNumbers
<1>2. Linked(a, Free, F) /\ Merged(a, F)
    BY DEF Sound
<1>3. Behind(a, n) = First(a, Free, set)
    BY DEF Behind
<1>4. NullPtr \notin set
    BY <1>1
<1>5. (F \cup {Free}) \cap set # {}
    <2> DEFINE low == {l \in F \cup {Free} : a.end[l] <= a.start[n]}
               E == {a.end[l] : l \in low}
    <2>1. PICK k \in E : \A j \in E : j <= k
        <3>1. E \subseteq Nat /\ \A j \in E : j <= a.start[n]
            BY <1>1
        <3>2. a.end[Free] \in E
            BY <1>1, <1>2 DEF Merged
        <3> HIDE DEF E
        <3> QED BY <1>1, <3>1, <3>2, GreatestNumber
    <2>2. PICK l \in low : a.end[l] = k
        BY <2>1
    <2>3. ASSUME a.next[l] # NullPtr PROVE a.start[a.next[l]] >= a.end[n]
        <3>1. PICK s : s = a.next[l]
            OBVIOUS
        <3>2. s \in F /\ a.end[l] < a.start[s] /\ s \in Slots
            BY <1>1, <1>2, <2>3, <3>1 DEF Linked, Merged
        <3>3. s # n /\ a.start[s] < a.end[s] /\ (a.end[n] <= a.start[s] \/ a.end[s] <= a.start[n])
            BY <1>1, <3>2 DEF Sound, Tiled
        <3>4. a.end[s] > a.start[n]
            BY <1>1, <2>1, <2>2, <3>2, <3>3
        <3> QED BY <1>1, <3>1, <3>2, <3>3, <3>4
    <2> QED BY <1>1, <2>2, <2>3
<1> HIDE DEF set
<1>6. /\ First(a, Free, set) \subseteq (F \cup {Free}) \cap set
      /\ (F \cup {Free}) \cap set # {} => First(a, Free, set) # {}
    BY <1>1, <1>2, <1>4, FirstFromHead
<1>7. \A pre \in (F \cup {Free}) \cap set : Place(a, F, pre, n)
    BY DEF set, Place
<1> QED BY <1>3, <1>5, <1>6, <1>7

\* The checks pass on sound lists unless the first block is handed out with its wrong size.
LEMMA ChecksHold ==
    ASSUME NEW a, NEW F, NEW A, Sound(a, F, A, {}), NEW lo, NEW hi,
           \A b \in A : a.start[b] = lo => a.end[b] = hi,
           \A b \in A : RangeIn(a, b) # Whole
    PROVE  Checks(a, lo, hi)
<1>1. /\ a \in Areas /\ F \subseteq Slots /\ A \subseteq Slots /\ NullPtr \notin Slots
      /\ \A x \in Slots : a.start[x] \in Nat /\ a.end[x] \in Nat
    BY SoundSlots, SlotsNotNull
<1>2. Linked(a, Free, F) /\ Linked(a, Alloc, A) /\ Merged(a, F)
    BY DEF Sound
<1>3. Blocks(a, Free) = F /\ Ends(a, Free) /\ Blocks(a, Alloc) = A /\ Ends(a, Alloc)
    BY <1>1, <1>2, ListIsWalk
<1>4. CheckFreeblock(a)
    <2>1. ASSUME NEW b \in F, a.next[b] # NullPtr PROVE a.start[a.next[b]] >= a.end[b]
        <3>1. a.next[b] \in F /\ a.end[b] < a.start[a.next[b]]
            BY <1>2, <2>1 DEF Linked, Merged
        <3> QED BY <1>1, <3>1
    <2> QED BY <1>3, <2>1 DEF CheckFreeblock
<1>5. ASSUME NEW b \in A PROVE a.size[b] # 0 /\ Zeros(a.size[b]) <= Zeros(a.start[b])
    <2>1. Sized(a, b) /\ Aligned(a, b) /\ HeapLo <= a.start[b] /\ a.start[b] < a.end[b]
        BY DEF Sound, Tiled
    <2>2. ~(a.start[b] = HeapLo /\ a.end[b] = HeapHi)
        BY DEF RangeIn, Whole
    <2>3. PICK size, at : size = a.end[b] - a.start[b] /\ at = a.start[b]
        OBVIOUS
    <2>4. a.size[b] = size
        BY <2>1, <2>2, <2>3 DEF Sized
    <2>5. size \in Nat \ {0} /\ at \in Nat \ {0} /\ at % AlignOf(size) = 0
        BY <1>1, <2>1, <2>3, HeapNumbers DEF Aligned
    <2>6. Zeros(size) <= Zeros(at)
        BY <2>5, AlignedZeros
    <2> QED BY <2>3, <2>4, <2>5, <2>6
<1>6. CheckAllocblock(a, lo, hi)
    BY <1>3, <1>5 DEF CheckAllocblock
<1> QED BY <1>4, <1>6 DEF Checks
------------------------------------------------------------------------------
(***************************************************************************)
(* Steps                                                                   *)
(***************************************************************************)
\* Heap and kalloc align the same way.
LEMMA AlignSame == \A size : HP!Align(size) = AlignOf(size)
BY DEF HP!Align, AlignOf, HP!PowerFor, PowerFor, HP!TwoTo, TwoTo

\* kalloc keeps the invariant, and what it hands out is one of the ranges Heap allows.
LEMMA KallocStep ==
    ASSUME IInv, NEW size \in Sizes, Kalloc(size)
    PROVE  IInv' /\ HP!Alloc(size)
<1> USE SlotsNotNull, HeapNumbers
<1>1. ~tangled /\ ~halted /\ tangled' = tangled /\ Cardinality(owned) < MaxLive
    BY DEF Kalloc
<1>2. PICK F, A \in SUBSET Slots : Holds(area, F, A)
    BY <1>1 DEF IInv
<1>3. /\ Sound(area, F, A, {}) /\ area.maxpos <= 2 * MaxLive + 3
      /\ owned = {RangeIn(area, x) : x \in A}
    BY <1>2 DEF Holds
<1>4. Cardinality(A) < MaxLive
    BY <1>1, <1>3, RangesCount
<1>5. Room(area, 2)
    BY <1>3, <1>4, RoomThere
<1>6. PICK b, lo, hi :
        /\ b \in Serving(size)
        /\ lo = ValidAddress(area.start[b], size) /\ hi = lo + size
        /\ area' = Take(area, b, lo, hi)
        /\ owned' = owned \cup {[start |-> lo, end |-> hi]}
        /\ last' = [size |-> size, ret |-> lo]
        /\ halted' = ~Checks(area', lo, hi)
    BY DEF Kalloc
<1>7. size \in Nat \ {0}
    BY HeapAssumption
<1>8. b \in F /\ Serves(area, b, size)
    BY <1>3, <1>6, ServingFree
<1>9. /\ area.start[b] \in Nat /\ area.end[b] \in Nat /\ HeapLo <= area.start[b]
      /\ area.end[b] <= HeapHi
    BY <1>3, <1>8, SoundSlots DEF Sound, Tiled
<1>10. lo \in Nat /\ area.start[b] <= lo /\ lo % AlignOf(size) = 0
    <2>1. area.start[b] \in Nat \ {0}
        BY <1>9
    <2>2. /\ ValidAddress(area.start[b], size) \in Nat
          /\ ValidAddress(area.start[b], size) >= area.start[b]
          /\ ValidAddress(area.start[b], size) % AlignOf(size) = 0
        BY <1>7, <2>1, ValidAddressLeast
    <2> QED BY <1>6, <1>9, <2>2
<1>11. hi \in Nat /\ hi - lo = size /\ lo < hi /\ hi <= area.end[b]
    BY <1>6, <1>7, <1>8, <1>10 DEF Serves
<1>12. PICK n \in Slots, F2 \in SUBSET Slots : HandedOut(area, A, n, lo, hi, F2, area')
    <2>1. hi - lo \in Sizes /\ lo % AlignOf(hi - lo) = 0
        BY <1>10, <1>11
    <2> QED BY <1>3, <1>5, <1>6, <1>8, <1>10, <1>11, <2>1, Taking
<1>13. /\ Sound(area', F2, A \cup {n}, {}) /\ n \notin A /\ area'.maxpos <= 2 * MaxLive + 3
       /\ area'.start[n] = lo /\ area'.end[n] = hi
       /\ \A x \in A : area'.start[x] = area.start[x] /\ area'.end[x] = area.end[x]
    BY <1>12 DEF HandedOut, SameRange
<1>14. owned' = {RangeIn(area', x) : x \in A \cup {n}}
    <2>1. \A x \in A : RangeIn(area', x) = RangeIn(area, x)
        BY <1>13 DEF RangeIn
    <2>2. RangeIn(area', n) = [start |-> lo, end |-> hi]
        BY <1>13 DEF RangeIn
    <2> QED BY <1>3, <1>6, <2>1, <2>2
<1>15. Cardinality(A \cup {n}) <= MaxLive
    <2>1. IsFiniteSet(A)
        BY <1>3, FewFree
    <2>2. Cardinality(A \cup {n}) = Cardinality(A) + 1 /\ Cardinality(A) \in Nat
        BY <1>13, <2>1, FS_AddElement, FS_CardinalityType
    <2> QED BY <1>4, <2>2, HeapAssumption
<1>16. Holds(area, F2, A \cup {n})'
    BY <1>13, <1>14, <1>15 DEF Holds
<1>17. halted' => Whole \in owned'
    <2> SUFFICES ASSUME Whole \notin owned' PROVE ~halted'
        OBVIOUS
    <2>1. \A x \in A \cup {n} : RangeIn(area', x) # Whole
        BY <1>14
    <2>2. ASSUME NEW x \in A \cup {n}, area'.start[x] = lo PROVE area'.end[x] = hi
        <3>1. Tiled(area'.start, area'.end, F2 \cup (A \cup {n}))
            BY <1>13 DEF Sound
        <3>2. area'.start[x] < area'.end[x]
            BY <3>1 DEF Tiled
        <3>3. x # n => area'.end[x] <= lo \/ hi <= area'.start[x]
            BY <1>13, <3>1 DEF Tiled
        <3>4. x \in Slots /\ area'.start[x] \in Nat /\ area'.end[x] \in Nat
            BY <1>13, SoundSlots
        <3>5. x = n
            BY <1>10, <1>11, <2>2, <3>2, <3>3, <3>4
        <3> QED BY <1>13, <3>5
    <2>3. Checks(area', lo, hi)
        BY <1>13, <2>1, <2>2, ChecksHold
    <2> QED BY <1>6, <2>3
<1>18. IInv'
    <2>1. halted' \in BOOLEAN /\ tangled' \in BOOLEAN
        BY <1>1, <1>6 DEF IInv
    <2>2. A \cup {n} \in SUBSET Slots
        OBVIOUS
    <2> QED BY <1>16, <1>17, <2>1, <2>2 DEF IInv
<1>19. HP!Range(lo, size) \in HP!Fits(size)
    <2>1. lo \in HeapLo .. HeapHi - size
        BY <1>7, <1>9, <1>10, <1>11
    <2>2. lo % HP!Align(size) = 0
        BY <1>10, AlignSame
    <2>3. ASSUME NEW o \in owned PROVE HP!Disjoint(HP!Range(lo, size), o)
        <3>1. PICK x \in A : o = RangeIn(area, x)
            BY <1>3
        <3>2. x # b /\ x \in F \cup A /\ b \in F \cup A
            BY <1>3, <1>8, SoundSlots
        <3>3. area.end[b] <= area.start[x] \/ area.end[x] <= area.start[b]
            BY <1>3, <3>2 DEF Sound, Tiled
        <3>4. x \in Slots /\ area.start[x] \in Nat /\ area.end[x] \in Nat
            BY <1>3, SoundSlots
        <3>5. hi <= area.start[x] \/ area.end[x] <= lo
            BY <1>9, <1>10, <1>11, <3>3, <3>4
        <3> QED BY <1>6, <3>1, <3>5 DEF HP!Disjoint, HP!Range, RangeIn
    <2> QED BY <2>1, <2>2, <2>3 DEF HP!Fits
<1>20. HP!Alloc(size)
    <2>1. HP!Range(lo, size) = [start |-> lo, end |-> hi]
        BY <1>6 DEF HP!Range
    <2> QED BY <1>6, <1>19, <2>1 DEF HP!Alloc
<1> QED BY <1>18, <1>20

\* If kalloc returns NULL then no aligned range of the size is left.
LEMMA KallocFailsStep ==
    ASSUME IInv, NEW size \in Sizes, KallocFails(size)
    PROVE  IInv' /\ HP!AllocFails(size)
<1>1. /\ ~tangled /\ ~halted /\ Serving(size) = {}
      /\ last' = [size |-> size, ret |-> NullPtr]
      /\ UNCHANGED <<area, owned, halted, tangled>>
    BY DEF KallocFails
<1>2. IInv'
    BY <1>1 DEF IInv, Holds
<1>3. PICK F, A \in SUBSET Slots : Holds(area, F, A)
    BY <1>1 DEF IInv
<1>4. Sound(area, F, A, {}) /\ owned = {RangeIn(area, x) : x \in A}
    BY <1>3 DEF Holds
<1>5. size \in Nat \ {0}
    BY HeapAssumption
<1>6. ASSUME NEW lo \in HeapLo .. HeapHi - size, lo % HP!Align(size) = 0,
             \A o \in owned : HP!Disjoint(HP!Range(lo, size), o)
      PROVE  FALSE
    <2>1. PICK hi \in Nat : hi = lo + size
        BY <1>5, HeapNumbers
    <2>2. lo \in Nat /\ HeapLo <= lo /\ lo < hi /\ hi <= HeapHi
        BY <1>5, <2>1, HeapNumbers
    <2>3. ASSUME NEW x \in A PROVE area.end[x] <= lo \/ hi <= area.start[x]
        <3>1. HP!Disjoint(HP!Range(lo, size), RangeIn(area, x))
            BY <1>4, <1>6
        <3> QED BY <2>1, <3>1 DEF HP!Disjoint, HP!Range, RangeIn
    <2>4. PICK f \in F : area.start[f] <= lo /\ hi <= area.end[f]
        BY <1>4, <2>2, <2>3, GapIsFree
    <2>5. area.start[f] \in Nat \ {0} /\ area.end[f] \in Nat
        <3>1. HeapLo <= area.start[f] /\ area.start[f] \in Nat /\ area.end[f] \in Nat
            BY <1>4, SoundSlots DEF Sound, Tiled
        <3> QED BY <3>1, HeapNumbers
    <2>6. /\ ValidAddress(area.start[f], size) \in Nat
          /\ \A m \in Nat : m % AlignOf(size) = 0 /\ m >= area.start[f]
                              => ValidAddress(area.start[f], size) <= m
        BY <1>5, <2>5, ValidAddressLeast
    <2>7. ValidAddress(area.start[f], size) <= lo
        <3>1. lo % AlignOf(size) = 0
            BY <1>6, AlignSame
        <3> QED BY <2>2, <2>4, <2>6, <3>1
    <2>8. Serves(area, f, size)
        BY <1>5, <2>1, <2>2, <2>4, <2>5, <2>6, <2>7 DEF Serves
    <2> QED BY <1>1, <1>4, <2>8, ServingFree
<1>7. HP!Fits(size) = {}
    BY <1>6 DEF HP!Fits
<1> QED BY <1>1, <1>2, <1>7 DEF HP!AllocFails

\* kfree keeps the invariant, and takes back the range it is given.
LEMMA KfreeStep ==
    ASSUME IInv, NEW r \in owned, Kfree(r)
    PROVE  IInv' /\ HP!Free(r)
<1> USE SlotsNotNull, HeapNumbers
<1>1. ~tangled /\ ~halted /\ owned' = owned \ {r} /\ last' = last
    BY DEF Kfree
<1>2. HP!Free(r)
    BY <1>1 DEF HP!Free
<1>3. PICK F, A \in SUBSET Slots : Holds(area, F, A)
    BY <1>1 DEF IInv
<1>4. /\ Sound(area, F, A, {}) /\ area.maxpos <= 2 * MaxLive + 3
      /\ owned = {RangeIn(area, x) : x \in A} /\ Cardinality(A) <= MaxLive
    BY <1>3 DEF Holds
<1>5. PICK b, out :
        /\ b \in Found(r.start) /\ out = Bdelete(area, b)
        /\ \/ Behind(out, b) = {}
           \/ \E pre \in Behind(out, b) : /\ area' = BinsertMerge(out, pre, b)
                                          /\ tangled' = Tangles(out, pre, b)
        /\ halted' = ~Checks(area', area.start[b], area.end[b])
    BY DEF Kfree
<1>6. /\ \A x \in F \cup A : area.start[x] \in Nat /\ area.end[x] \in Nat
      /\ Tiled(area.start, area.end, F \cup A)
    BY <1>4, SoundSlots DEF Sound
<1>7. b \in A /\ area.start[b] = r.start
    BY <1>4, <1>5, FoundUsed
<1>8. \A x \in A : area.start[x] = area.start[b] => x = b
    <2> SUFFICES ASSUME NEW x \in A, area.start[x] = area.start[b], x # b PROVE FALSE
        OBVIOUS
    <2>1. area.start[x] < area.end[x] /\ area.start[b] < area.end[b]
        BY <1>6, <1>7 DEF Tiled
    <2>2. area.end[x] <= area.start[b] \/ area.end[b] <= area.start[x]
        BY <1>6, <1>7 DEF Tiled
    <2> QED BY <1>6, <1>7, <2>1, <2>2
<1>9. r = RangeIn(area, b)
    <2>1. PICK x \in A : r = RangeIn(area, x)
        BY <1>4
    <2>2. r.start = area.start[x]
        BY <2>1 DEF RangeIn
    <2> QED BY <1>7, <1>8, <2>1, <2>2
<1>10. Sound(out, F, A \ {b}, {b}) /\ SameRanges(area, out) /\ SamePool(area, out)
    BY <1>4, <1>5, <1>7, TakeBack
<1>11. PICK pre \in Behind(out, b) : /\ area' = BinsertMerge(out, pre, b)
                                     /\ tangled' = Tangles(out, pre, b)
    BY <1>5, <1>10, BehindPlace
<1>12. Place(out, F, pre, b)
    BY <1>10, <1>11, BehindPlace
<1>13. halted' \in BOOLEAN /\ tangled' \in BOOLEAN
    BY <1>5, <1>11 DEF Tangles
<1>14. CASE tangled'
    BY <1>2, <1>13, <1>14 DEF IInv
<1>15. CASE ~tangled'
    <2>1. ~Tangles(out, pre, b)
        BY <1>11, <1>15
    <2>2. PICK F2 \in SUBSET Slots : GivenBack(out, A \ {b}, F2, area')
        BY <1>10, <1>11, <1>12, <2>1, Merging
    <2>3. /\ Sound(area', F2, A \ {b}, {}) /\ area'.maxpos = area.maxpos
          /\ \A x \in A \ {b} : area'.start[x] = area.start[x] /\ area'.end[x] = area.end[x]
        BY <1>10, <2>2 DEF GivenBack, SameRanges, SameRange, SamePool
    <2>4. owned' = {RangeIn(area', x) : x \in A \ {b}}
        <3>1. \A x \in A \ {b} : RangeIn(area', x) = RangeIn(area, x)
            BY <2>3 DEF RangeIn
        <3>2. \A x \in A \ {b} : RangeIn(area, x) # RangeIn(area, b)
            BY <1>8 DEF RangeIn
        <3> QED BY <1>1, <1>4, <1>7, <1>9, <3>1, <3>2
    <2>5. Cardinality(A \ {b}) <= MaxLive
        <3>1. IsFiniteSet(A)
            BY <1>4, FewFree
        <3>2. Cardinality(A \ {b}) <= Cardinality(A) /\ Cardinality(A) \in Nat
              /\ Cardinality(A \ {b}) \in Nat
            <4>1. IsFiniteSet(A \ {b}) /\ Cardinality(A \ {b}) <= Cardinality(A)
                BY <3>1, FS_Subset
            <4> QED BY <3>1, <4>1, FS_CardinalityType
        <3> QED BY <1>4, <3>2, HeapAssumption
    <2>6. Holds(area, F2, A \ {b})'
        BY <1>4, <2>3, <2>4, <2>5 DEF Holds
    <2>7. \A x \in A \ {b} : RangeIn(area', x) # Whole
        <3> SUFFICES ASSUME NEW x \in A \ {b}, RangeIn(area', x) = Whole PROVE FALSE
            OBVIOUS
        <3>1. area.start[x] = HeapLo /\ area.end[x] = HeapHi
            BY <2>3 DEF RangeIn, Whole
        <3>2. HeapLo <= area.start[b] /\ area.start[b] < area.end[b] /\ area.end[b] <= HeapHi
            BY <1>6, <1>7 DEF Tiled
        <3>3. area.end[x] <= area.start[b] \/ area.end[b] <= area.start[x]
            BY <1>6, <1>7 DEF Tiled
        <3> QED BY <1>6, <1>7, <3>1, <3>2, <3>3
    <2>8. Checks(area', area.start[b], area.end[b])
        <3>1. \A x \in A \ {b} : area'.start[x] # area.start[b]
            BY <1>8, <2>3
        <3> QED BY <2>3, <2>7, <3>1, ChecksHold
    <2>9. ~halted'
        BY <1>5, <2>8
    <2>10. A \ {b} \in SUBSET Slots
        OBVIOUS
    <2> QED BY <1>2, <1>13, <2>6, <2>9, <2>10 DEF IInv
<1> QED BY <1>2, <1>13, <1>14, <1>15
------------------------------------------------------------------------------
(***************************************************************************)
(* Theorems                                                                *)
(***************************************************************************)
\* The invariant: until the lists are tangled they are sound, with the ranges clients
\* have, and a check failed only if the whole heap is handed out.
THEOREM IInvTheorem == PmmSpec => []IInv
<1>1. IInv /\ [PmmNext]_pmmVars => IInv'
    <2> SUFFICES ASSUME IInv, [PmmNext]_pmmVars PROVE IInv'
        OBVIOUS
    <2>1. CASE \E size \in Sizes : Kalloc(size)
        BY <2>1, KallocStep
    <2>2. CASE \E size \in Sizes : KallocFails(size)
        BY <2>2, KallocFailsStep
    <2>3. CASE \E r \in owned : Kfree(r)
        BY <2>3, KfreeStep
    <2>4. CASE UNCHANGED pmmVars
        BY <2>4 DEF IInv, Holds, pmmVars
    <2> QED BY <2>1, <2>2, <2>3, <2>4 DEF PmmNext
<1> QED BY <1>1, InitHolds, PTL DEF PmmSpec

\* No structure is in FreeAllocNo[] twice.
LEMMA UnusedCount ==
    ASSUME NEW a \in Areas, NEW U, Pool(a, U)
    PROVE  Cardinality(Range(a.freeno)) = Len(a.freeno)
<1> DEFINE I == 1 .. Len(a.freeno)
           R == Range(a.freeno)
           f == [i \in I |-> a.freeno[i]]
<1>1. Len(a.freeno) \in Nat /\ R = {a.freeno[i] : i \in I}
    <2>1. a.freeno \in Seq(Slots)
        BY DEF Areas
    <2> QED BY <2>1, LenProperties DEF Range
<1>2. IsFiniteSet(I) /\ Cardinality(I) = Len(a.freeno)
    <2>1. 1 + Len(a.freeno) - 1 = Len(a.freeno)
        BY <1>1
    <2>2. IsFiniteSet(1 .. 1 + Len(a.freeno) - 1)
          /\ Cardinality(1 .. 1 + Len(a.freeno) - 1) = Len(a.freeno)
        BY <1>1, CountFrom
    <2> QED BY <2>1, <2>2
<1>3. f \in [I -> R] /\ \A x \in R : \E i \in I : f[i] = x
    BY <1>1
<1>4. f \in Surjection(I, R)
    BY <1>3 DEF Surjection
<1>5. IsInjective(f)
    BY DEF IsInjective, Pool
<1>6. f \in Injection(I, R)
    BY <1>3, <1>5 DEF Injection
<1> HIDE DEF I, R, f
<1>7. Cardinality(R) = Cardinality(I)
    BY <1>2, <1>4, <1>6, FS_Surjection
<1> QED BY <1>2, <1>7 DEF R

\* What the invariant says of the area is what PmmInv asks for.
LEMMA HoldsIsExact ==
    ASSUME NEW F, NEW A, Holds(area, F, A), {halted, tangled} \subseteq BOOLEAN
    PROVE  PmmTypeOK /\ WellLinked /\ ListsExact /\ SlotsExact
<1>1. /\ Sound(area, F, A, {}) /\ area.maxpos <= 2 * MaxLive + 3
      /\ owned = {RangeIn(area, x) : x \in A}
    BY DEF Holds
<1>2. /\ area \in Areas /\ Numbered(area) /\ Linked(area, Free, F) /\ Linked(area, Alloc, A)
      /\ Parted(F, A, {}) /\ Pool(area, InUse(F, A, {})) /\ Merged(area, F)
      /\ Tiled(area.start, area.end, F \cup A)
    BY <1>1 DEF Sound
<1>3. /\ F \subseteq Slots /\ A \subseteq Slots /\ F \cap A = {}
      /\ {Free, Alloc} \cap (F \cup A) = {} /\ {Free, Alloc} \subseteq Slots
      /\ \A b \in Slots : area.start[b] \in Nat /\ area.end[b] \in Nat
    BY <1>1, SoundSlots, SlotsNotNull
<1>4. FreeBlocks = F /\ AllocBlocks = A /\ Ends(area, Free) /\ Ends(area, Alloc)
    BY <1>2, ListIsWalk DEF FreeBlocks, AllocBlocks
<1>5. PmmTypeOK
    <2>1. {area.start, area.end, area.size} \subseteq [Slots -> 0 .. HeapHi]
        BY <1>2 DEF Areas, Numbered
    <2>2. {area.prev, area.next} \subseteq [Slots -> Slots \cup {NullPtr}]
        BY <1>2 DEF Areas, Pointer
    <2>3. area.freeno \in Seq(Slots) /\ area.maxpos \in 0 .. 2 * MaxLive + 3
        BY <1>1, <1>2, HeapAssumption DEF Areas
    <2> QED BY <2>1, <2>2, <2>3 DEF PmmTypeOK
<1>6. WellLinked
    <2>1. \A b \in F \cup {Free} : area.next[b] # NullPtr => area.prev[area.next[b]] = b
        BY <1>2 DEF Linked
    <2>2. \A b \in A \cup {Alloc} : area.next[b] # NullPtr => area.prev[area.next[b]] = b
        BY <1>2 DEF Linked
    <2>3. Blocks(area, Free) = F /\ Blocks(area, Alloc) = A
        BY <1>4 DEF FreeBlocks, AllocBlocks
    <2> QED BY <1>4, <2>1, <2>2, <2>3 DEF WellLinked
<1>7. ListsExact
    <2>1. owned = {RangeOf(b) : b \in AllocBlocks}
        BY <1>1, <1>4 DEF RangeIn, RangeOf
    <2>2. \A b \in F : area.next[b] # NullPtr => area.end[b] < area.start[area.next[b]]
        BY <1>2 DEF Merged
    <2>3. ASSUME NEW x \in HeapLo .. HeapHi - 1
          PROVE  \E b \in F \cup A :
                    {c \in F \cup A : area.start[c] <= x /\ x < area.end[c]} = {b}
        <3>1. PICK b \in F \cup A : area.start[b] <= x /\ x < area.end[b]
            BY <1>2 DEF Tiled
        <3>2. ASSUME NEW c \in F \cup A, area.start[c] <= x, x < area.end[c] PROVE c = b
            <4>1. c # b => area.end[b] <= area.start[c] \/ area.end[c] <= area.start[b]
                BY <1>2 DEF Tiled
            <4>2. b \in Slots /\ c \in Slots /\ x \in Int
                BY <1>3, HeapNumbers
            <4> QED BY <1>3, <3>1, <3>2, <4>1, <4>2
        <3> QED BY <3>1, <3>2
    <2> QED BY <1>4, <2>1, <2>2, <2>3 DEF ListsExact
<1>8. SlotsExact
    <2>1. PICK unused : unused = Range(area.freeno)
        OBVIOUS
    <2>2. unused = {area.freeno[i] : i \in 1 .. Len(area.freeno)} /\ unused \subseteq Slots
        <3>1. area.freeno \in Seq(Slots)
            BY <1>2 DEF Areas
        <3>2. area.freeno \in [1 .. Len(area.freeno) -> Slots]
            BY <3>1, LenProperties
        <3> QED BY <2>1, <3>2 DEF Range
    <2>3. PICK U : U = InUse(F, A, {})
        OBVIOUS
    <2>4. U = {Free, Alloc} \cup F \cup A /\ U \subseteq Slots
        BY <1>3, <2>3 DEF InUse
    <2>5. \A b \in Slots : b < area.maxpos <=> b \in U \cup unused
        BY <1>2, <2>2, <2>3 DEF Pool
    <2>6. unused \cap U = {}
        BY <1>2, <2>2, <2>3 DEF Pool
    <2>7. 0 .. area.maxpos - 1 = U \cup unused
        <3>1. area.maxpos \in Nat /\ area.maxpos <= NSlots /\ NSlots \in Nat
            BY <1>1, <1>2, HeapAssumption DEF Areas
        <3>2. 0 .. area.maxpos - 1 = {b \in Slots : b < area.maxpos}
            BY <3>1 DEF Slots
        <3> QED BY <2>2, <2>4, <2>5, <3>2
    <2>8. Cardinality(unused) = Len(area.freeno)
        BY <1>2, <2>1, UnusedCount
    <2> QED BY <1>3, <1>4, <2>1, <2>4, <2>6, <2>7, <2>8 DEF SlotsExact
<1> QED BY <1>5, <1>6, <1>7, <1>8

\* Every byte of the heap is in one block, every block structure in one list or given back,
\* and the links and types are in order, until a kfree tangles the lists.
THEOREM PmmInvTheorem == PmmSpec => []PmmInv
<1>1. IInv => PmmInv
    BY HoldsIsExact DEF IInv, PmmInv
<1> QED BY <1>1, IInvTheorem, PTL

\* check_freeblock and check_allocblock do not fail before the lists are tangled, unless the
\* whole heap is handed out in the block that pmm_init gave the size 0.
THEOREM ChecksTheorem == PmmSpec => []ChecksPass
<1>1. IInv => ChecksPass
    BY DEF IInv, ChecksPass, Whole
<1> QED BY <1>1, IInvTheorem, PTL

\* Until then kalloc and kfree implement Heap: what kalloc returns is aligned and overlaps
\* no range in use, and it returns NULL only if no aligned range of the size is left.
THEOREM HeapTheorem == PmmSpec => HeapUntilTangled
<1>1. PmmInit => HP!Init
    BY DEF PmmInit, HP!Init
<1>2. IInv /\ [PmmNext]_pmmVars => [tangled' \/ HP!Next]_<<owned, last>>
    <2> SUFFICES ASSUME IInv, [PmmNext]_pmmVars
                 PROVE  [tangled' \/ HP!Next]_<<owned, last>>
        OBVIOUS
    <2>1. ASSUME NEW size \in Sizes, Kalloc(size) PROVE HP!Next
        BY <2>1, KallocStep DEF HP!Next
    <2>2. ASSUME NEW size \in Sizes, KallocFails(size) PROVE HP!Next
        BY <2>2, KallocFailsStep DEF HP!Next
    <2>3. ASSUME NEW r \in owned, Kfree(r) PROVE HP!Next
        BY <2>3, KfreeStep DEF HP!Next
    <2>4. CASE UNCHANGED pmmVars
        BY <2>4 DEF pmmVars
    <2> QED BY <2>1, <2>2, <2>3, <2>4 DEF PmmNext
<1> QED BY <1>1, <1>2, IInvTheorem, PTL DEF PmmSpec, HeapUntilTangled
=============================================================================
