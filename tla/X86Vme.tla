------------------------------- MODULE X86Vme -------------------------------
(***************************************************************************)
(* Virtual memory of the x86-qemu machine: the page tables of vme.c, cr3   *)
(* and the page fault of cte.c, with the TLB of each processor.  mem holds *)
(* the page tables; an address space is the table above the first level,   *)
(* as->ptr being its only entry, which is how ptwalk and teardown see it.  *)
(* An address is the path of its indices, <<0, level-1, level-2>>.  The    *)
(* kernel's tables are those of the 32-bit build, with two levels.         *)
(*                                                                         *)
(* In that build _vme_init turns paging on in the bootstrap processor and  *)
(* nothing does in another: a processor without paging may load cr3 when   *)
(* it returns to a context, but has no translations, and what a program    *)
(* does there is not modelled.  _map and _unprotect run on any processor.  *)
(*                                                                         *)
(* Of the callers it is assumed that _vme_init runs on the bootstrap       *)
(* processor, that an address space is torn down when no processor has it  *)
(* loaded, and loaded when it is protected.                                *)
(***************************************************************************)
EXTENDS Naturals, FiniteSets, Sequences

CONSTANTS
    Spaces,         \* the _AddressSpace objects
    Kernel,         \* the one _vme_init builds kpt in
    Processors,
    Bsp,            \* the bootstrap processor, which calls _vme_init
    Tables,         \* the pages pgalloc may return
    Index,          \* indices into a page table
    UserPaths,      \* the pages of uvm_area
    KernelPaths,    \* the pages of the other vm_areas
    UserFrame,      \* a page of the program
    Ident(_)        \* the frame of a kernel page: its own address

Paths == UserPaths \cup KernelPaths

ASSUME VmeAssumption ==
    /\ Spaces \cap Tables = {} /\ Kernel \notin Spaces \cup Tables
    /\ 0 \notin Tables \cup Spaces \cup {Kernel}
    /\ IsFiniteSet(Index) /\ 0 \in Index
    /\ Paths \subseteq {0} \X Index \X Index /\ KernelPaths # {}
    /\ \A p \in UserPaths, k \in KernelPaths : p[2] # k[2]
    /\ UserFrame # 0
    /\ Bsp \in Processors

Absent == [p |-> FALSE, u |-> FALSE, w |-> FALSE, to |-> 0]
Zero == [i \in Index |-> Absent]

VARIABLES
    mem,        \* the page tables
    free,       \* the pages pgalloc has left
    unmade,     \* the kernel pages _vme_init has still to map
    live,       \* the address spaces the program has protected and not torn down
    cr3,        \* per processor: the table loaded, 0 before the first
    paging,     \* the processors with CR0_PG set
    tlb,        \* per processor: path -> entry, for some paths
    halted,     \* a panic
    unmapped    \* history, per processor: paths unmapped since it loaded cr3

vmeVars == <<mem, free, unmade, live, cr3, paging, tlb, halted, unmapped>>
------------------------------------------------------------------------------
(***************************************************************************)
(* ptwalk, pgallocz and teardown                                           *)
(***************************************************************************)
\* A walk: the memory and the free pages it leaves, and the table it has reached, which
\* is NULL when pgalloc has found nothing.
Null == 0
At(m, f, t) == [mem |-> m, free |-> f, at |-> t]
Start(s) == At(mem, free, s)

\* An entry for table f, with the flags a walk is made with besides PTE_P.
KernelFlags == {"W"}
UserFlags == {"W", "U"}
Link(flags, f) == [p |-> TRUE, u |-> "U" \in flags, w |-> "W" \in flags, to |-> f]

\* A new page f in entry i of table t.
Hang(m, t, i, flags, f) == [m EXCEPT ![f] = Zero, ![t][i] = Link(flags, f)]

\* pgallocz: pgalloc may return any page it has.
Pgallocz(st, i, flags) ==
    IF st.free = {} THEN {At(st.mem, {}, Null)}
    ELSE {At(Hang(st.mem, st.at, i, flags, f), st.free \ {f}, f) : f \in st.free}

Level(st, i, flags) ==
    IF st.at = Null THEN {st}
    ELSE IF st.mem[st.at][i].p THEN {At(st.mem, st.free, st.mem[st.at][i].to)}
    ELSE Pgallocz(st, i, flags)

\* The walks ptwalk may make to the last table.
Ptwalk(s, path, flags) ==
    UNION {Level(st, path[2], flags) : st \in Level(Start(s), path[1], flags)}

\* The tables below a table, through entries that are present and for the user.
Below(m, t) == {m[t][i].to : i \in {j \in Index : m[t][j].p /\ m[t][j].u}}

\* Faulty variant of TornDown: the first level is all there is.
TornDownTop(m, s) == Below(m, s)

\* What teardown frees: two levels of tables, not the pages they map.
TornDown(m, s) == Below(m, s) \cup UNION {Below(m, t) : t \in Below(m, s)}

\* What the processor finds on a walk of the tables below the one in cr3.
Leaf(m, t, path) ==
    LET e == m[t][path[2]]
        l == m[e.to][path[3]]
    IN  IF e.p /\ l.p THEN [p |-> TRUE, u |-> e.u /\ l.u, w |-> e.w /\ l.w, to |-> l.to]
        ELSE Absent

TopIn(m, s) == m[s][0].to
Top(s) == TopIn(mem, s)
------------------------------------------------------------------------------
(***************************************************************************)
(* _vme_init: the kernel's page tables, a page at a time, and with the     *)
(* last of them paging in the processor that makes them.                   *)
(***************************************************************************)
VmeInit ==
    /\ mem = [t \in Tables \cup Spaces \cup {Kernel} |-> Zero] /\ free = Tables
    /\ unmade = KernelPaths
    /\ live = {}
    /\ cr3 = [c \in Processors |-> 0] /\ paging = {}
    /\ tlb = [c \in Processors |-> << >>]
    /\ halted = FALSE
    /\ unmapped = [c \in Processors |-> {}]

\* A walk ends in a panic; what it has hung into the tables stays there.
Panic(t) ==
    /\ mem' = t.mem /\ free' = t.free
    /\ halted' = TRUE
    /\ UNCHANGED <<unmade, live, cr3, paging, tlb, unmapped>>

KernelEntry(path) == [p |-> TRUE, u |-> FALSE, w |-> TRUE, to |-> Ident(path)]

InitPage(path) ==
    /\ ~halted /\ path \in unmade
    /\ \E t \in Ptwalk(Kernel, path, KernelFlags) :
       IF t.at = Null THEN Panic(t)
       ELSE /\ mem' = [t.mem EXCEPT ![t.at][path[3]] = KernelEntry(path)]
            /\ free' = t.free
            /\ unmade' = unmade \ {path}
            /\ IF unmade' = {}
               THEN cr3' = [cr3 EXCEPT ![Bsp] = TopIn(t.mem, Kernel)] /\ paging' = paging \cup {Bsp}
               ELSE UNCHANGED <<cr3, paging>>
            /\ UNCHANGED <<live, tlb, halted, unmapped>>
------------------------------------------------------------------------------
(***************************************************************************)
(* The calls of am.h                                                       *)
(***************************************************************************)
KernelTop == {p[2] : p \in KernelPaths}

\* The entries a new top level starts with.
KernelEntries ==
    [i \in Index |-> IF i \in KernelTop THEN mem[Top(Kernel)][i] ELSE Absent]

Protect(s) ==
    /\ ~halted /\ unmade = {} /\ s \notin live
    /\ \/ free = {} /\ Panic(Start(s))
       \/ \E f \in free :
            /\ mem' = [mem EXCEPT ![f] = KernelEntries,
                         ![s][0] = [p |-> TRUE, u |-> TRUE, w |-> FALSE, to |-> f]]
            /\ free' = free \ {f}
            /\ live' = live \cup {s}
            /\ UNCHANGED <<unmade, cr3, paging, tlb, halted, unmapped>>

\* as->ptr keeps its value; what a free page contains does not matter.
Unprotect(s) ==
    /\ ~halted /\ s \in live /\ \A c \in Processors : cr3[c] # Top(s)
    /\ mem' = [t \in DOMAIN mem |-> IF t \in TornDown(mem, s) THEN Zero ELSE mem[t]]
    /\ free' = free \cup TornDown(mem, s)
    /\ live' = live \ {s}
    /\ UNCHANGED <<unmade, cr3, paging, tlb, halted, unmapped>>

UserEntry(write) == [p |-> TRUE, u |-> TRUE, w |-> write, to |-> UserFrame]

\* Faulty variant: mapping a mapped page is not refused.
MapOver(s, path, write) ==
    /\ ~halted /\ s \in live
    /\ \E t \in Ptwalk(s, path, UserFlags) :
       IF t.at = Null THEN Panic(t)
       ELSE /\ mem' = [t.mem EXCEPT ![t.at][path[3]] = UserEntry(write)]
            /\ free' = t.free
            /\ UNCHANGED <<unmade, live, cr3, paging, tlb, halted, unmapped>>

\* _map with a protection; the second ptwalk finds what the first has made.
Map(s, path, write) ==
    /\ ~halted /\ s \in live
    /\ \E t \in Ptwalk(s, path, UserFlags) :
       IF t.at = Null \/ t.mem[t.at][path[3]].p THEN Panic(t)
       ELSE /\ mem' = [t.mem EXCEPT ![t.at][path[3]] = UserEntry(write)]
            /\ free' = t.free
            /\ UNCHANGED <<unmade, live, cr3, paging, tlb, halted, unmapped>>

\* _map with _PROT_NONE; no TLB is told.
Unmap(s, path) ==
    /\ ~halted /\ s \in live
    /\ \E t \in Ptwalk(s, path, UserFlags) :
       IF t.at = Null \/ ~t.mem[t.at][path[3]].p THEN Panic(t)
       ELSE /\ mem' = [t.mem EXCEPT ![t.at][path[3]] = Absent]
            /\ free' = t.free
            /\ unmapped' = [c \in Processors |-> IF cr3[c] = Top(s) THEN unmapped[c] \cup {path}
                                           ELSE unmapped[c]]
            /\ UNCHANGED <<unmade, live, cr3, paging, tlb, halted>>
------------------------------------------------------------------------------
(***************************************************************************)
(* The processors                                                          *)
(***************************************************************************)
\* Faulty variant: the TLB outlives the address space.
SetCr3Keeps(c, s) ==
    /\ ~halted /\ unmade = {} /\ s \in live \cup {Kernel} /\ cr3[c] # Top(s)
    /\ cr3' = [cr3 EXCEPT ![c] = Top(s)]
    /\ unmapped' = [unmapped EXCEPT ![c] = {}]
    /\ UNCHANGED <<mem, free, unmade, live, paging, tlb, halted>>

\* __am_irq_handle returns to a context of another address space, on any processor.
SetCr3(c, s) ==
    /\ ~halted /\ unmade = {} /\ s \in live \cup {Kernel}
    /\ cr3' = [cr3 EXCEPT ![c] = Top(s)]
    /\ tlb' = [tlb EXCEPT ![c] = << >>]
    /\ unmapped' = [unmapped EXCEPT ![c] = {}]
    /\ UNCHANGED <<mem, free, unmade, live, paging, halted>>

\* The translation a processor with paging uses.
Entry(c, path) == IF path \in DOMAIN tlb[c] THEN tlb[c][path] ELSE Leaf(mem, cr3[c], path)

\* A user program runs, in an address space that translates its addresses.
UserRuns(c) == ~halted /\ c \in paging /\ \E s \in live : cr3[c] = Top(s)

\* A user program reads or writes a page it may access.
Access(c, path) ==
    /\ UserRuns(c)
    /\ LET e == Entry(c, path)
       IN  /\ e.p /\ e.u
           /\ tlb' = [tlb EXCEPT ![c] = [q \in DOMAIN @ \cup {path} |->
                                             IF q = path THEN e ELSE @[q]]]
    /\ UNCHANGED <<mem, free, unmade, live, cr3, paging, halted, unmapped>>

\* The page fault of an access it may not make: bit 0 of the error code says that
\* the page is present, bit 1 that it was a write.
Faults(c, path, write) ==
    LET e == Entry(c, path) IN UserRuns(c) /\ ~(e.p /\ e.u /\ (write => e.w))
Cause(c, path, write) ==
    (IF Entry(c, path).p THEN {"NONE"} ELSE {}) \cup {IF write THEN "WRITE" ELSE "READ"}

VmeNext ==
    \/ \E p \in KernelPaths : InitPage(p)
    \/ \E s \in Spaces :
          \/ Protect(s) \/ Unprotect(s)
          \/ \E p \in UserPaths : Unmap(s, p) \/ \E w \in BOOLEAN : Map(s, p, w)
    \/ \E c \in Processors :
          \/ \E s \in Spaces \cup {Kernel} : SetCr3(c, s)
          \/ \E p \in Paths : Access(c, p)

VmeSpec == VmeInit /\ [][VmeNext]_vmeVars
------------------------------------------------------------------------------
(***************************************************************************)
(* Properties                                                              *)
(***************************************************************************)
Entries == [p : BOOLEAN, u : BOOLEAN, w : BOOLEAN, to : Tables \cup {UserFrame, 0} \cup {Ident(k) : k \in KernelPaths}]

VmeTypeOK ==
    /\ DOMAIN mem = Tables \cup Spaces \cup {Kernel}
    /\ \A t \in DOMAIN mem : mem[t] \in [Index -> Entries]
    /\ free \subseteq Tables /\ live \subseteq Spaces /\ unmade \subseteq KernelPaths
    /\ cr3 \in [Processors -> Tables \cup {0}] /\ paging \subseteq {Bsp}
    /\ \A c \in Processors : DOMAIN tlb[c] \subseteq Paths /\ unmapped[c] \subseteq UserPaths
    /\ halted \in BOOLEAN

\* Every table pgalloc has handed out is the kernel's or is reached from one address
\* space by one path: none leaks, whatever was mapped, unmapped and torn down in
\* which order, and no two address spaces share a table that one could free.
TablesOwned ==
    LET of(s) == TornDown(mem, s)
        hung(t) == {mem[t][i].to : i \in {j \in Index : mem[t][j].p}}
        kernel == hung(Kernel) \cup UNION {hung(t) : t \in hung(Kernel)}
    IN  /\ Tables \ free = kernel \cup UNION {of(s) : s \in live}
        /\ \A s \in live : of(s) \cap kernel = {}
        /\ \A s, r \in live : s # r => of(s) \cap of(r) = {}
        /\ \A s \in live, i, j \in Index \ KernelTop :
              LET top == mem[Top(s)]
              IN  top[i].p => /\ top[i].to # Top(s)
                              /\ top[j].p /\ top[j].to = top[i].to => i = j

\* Whatever a program maps, every address space has the whole kernel, for the kernel
\* only: traps find their code in the address space that happens to be loaded.
KernelIntact ==
    \A s \in live \cup {Kernel}, k \in KernelPaths \ unmade :
        Leaf(mem, Top(s), k) = KernelEntry(k)

\* In any order of calls, with a pgalloc that fails in the middle of some of them, tables
\* neither leak nor are shared, and every address space keeps the kernel.
VmeInv == VmeTypeOK /\ TablesOwned /\ KernelIntact

\* _map never tells a TLB, whichever processor calls it, and yet the one with paging
\* uses a translation that the tables do not have only for a page unmapped since it
\* loaded cr3.
StaleOnlyUnmapped ==
    \A c \in Processors : \A p \in DOMAIN tlb[c] :
        tlb[c][p] = Leaf(mem, cr3[c], p) \/ p \in unmapped[c]

\* tests/amtest/src/tests/vm.c:30 prints "[not present]" for a cause with _PROT_NONE.
NotPresent ==
    \A c \in Processors, p \in UserPaths, w \in BOOLEAN :
        Faults(c, p, w) /\ "NONE" \in Cause(c, p, w) => ~Leaf(mem, cr3[c], p).p

\* The tables implement the maps of AddrSpace: tables below the ones of a map,
\* allocated and left behind by earlier calls, never show.
Unmapped == [to |-> 0, w |-> FALSE]
MapOf(s) ==
    [v \in UserPaths |-> LET l == Leaf(mem, Top(s), v) IN
                         IF l.p /\ l.u THEN [to |-> l.to, w |-> l.w] ELSE Unmapped]
Maps == [s \in Spaces |-> IF s \in live THEN MapOf(s) ELSE [v \in UserPaths |-> Unmapped]]

Abstract == INSTANCE AddrSpace WITH
    UserPages <- UserPaths, Frames <- {UserFrame}, maps <- Maps, stopped <- halted

ImplementsMaps == Abstract!ASSpec
=============================================================================
