# Verification of OperatingSystem2

TLA+ specifications of the operating-system labs in this repository and of the
parts of its abstract machine they stand on, their model checking with TLC, and
proofs checked by TLAPS. Line numbers refer to the files of the repository.

## 1. Inventory

### 1.1 Components

Paths are below `kernel/src`, `abstract-machine/am/src` (AM) or
`abstract-machine/libs` where they do not start at the top.

| Component | Source | State it keeps | Operations | What makes it correct |
|---|---|---|---|---|
| Locks and interrupt masking | `spinlock.c` | lock word per lock; `intrdepth`, `intena` per processor | `push_cli`, `pop_cli`, `sp_lock`, `sp_unlock` | interrupts off while a lock is held; the nesting count is the number of locks |
| Semaphores | `semaphore.c` | `val`, `waiter[]`, `wnum`, a lock | `sem_init`, `sem_wait`, `sem_signal` | no unit lost or invented, no lost wake-up, no double wake-up |
| Bracket checker | `semaphore.c:9-33`, `kernel/bracketcheck/bracketcheck.c` | the printed brackets | `P(empty) ( V(fill)`, `P(fill) ) V(empty)` | depth stays within 0..5; brackets keep coming |
| Threads and scheduler | `kmt.c` | ring of tasks with `status`, `ctx`, `ct`, `lk`; `currents[]` | `kmt_context_save`, `kmt_schedule`, `kmt_create`, `kmt_teardown` | a thread runs on one processor at a time and resumes where it was interrupted |
| Trap dispatch and handlers | `os.c` | `irq_head` | `os_init`, `os_run`, `os_trap`, `on_irq` | contexts are saved before anything else, the scheduler decides what runs next |
| Physical memory | `pmm.c` | free list, allocated list, block area | `kalloc`, `kfree`, `pmm_init` | ranges are aligned and disjoint, nothing leaks, NULL only when nothing fits |
| Key-value store | `libkvdb/kvdb.c` | data file, journal, mutex, file locks | `kvdb_open` with `recover`, `kvdb_put`, `kvdb_get`, `kvdb_close` | a put is atomic over a crash and durable once it has returned; operations exclude each other |
| System call profiler | `sperf/sperf.c` | table of names and times | parse a line of `strace`, report | every call is in one report; ends with its child |
| Boot of the processors | AM `x86/qemu/mpe.c`, `trm.c`, `boot/` | boot record, `ap_ready`, the boot stack | `_mpe_init`, `othercpu_entry`, `_halt` | every processor enters the kernel once, on a stack of its own; a halt stops all |
| Context and trap entry | AM `x86/qemu/cte.c` | saved registers | `__am_irq_handle`, `_yield`, `_kcontext`, `_intr_read`, `_intr_write` | what is saved is what is resumed; the cause of an event is the right one |
| Virtual memory of x86-qemu | AM `x86/qemu/vme.c` | page tables, `cr3`, the TLBs | `_vme_init`, `_protect`, `_unprotect`, `_map`, `ptwalk`, `teardown` | tables mean what was mapped, none leaks, the kernel is in all of them |
| Virtual memory of native | AM `native/vme.c` | shared lists of mappings, host mappings per process | `_map`, `__am_switch` | a process has the pages of the address space it is in and no others |
| Key queue of native | AM `native/devices/input.c`, `native/ioe.c` | ring of 1024 codes, `init_flag` | event thread, `__am_input_read`, `_ioe_init` | keys are read in order and once |
| Division of klib | `klib/src/int64.c` | none | `__divdi3`, `__udivdi3`, `__umoddi3`, ... | quotient and remainder |
| Coroutines | `libco/co.c` | none | none: the library is a stub | - |
| Demos, bundled applications | `amgame`, `abstract-machine/apps` | - | - | other projects' programs |

### 1.2 How they interact

The bootstrap processor comes through the loader into `main`
(`kernel/framework/main.c`), which installs `os->trap`, runs `os->init` and then
`_mpe_init`: it starts the other processors one after the other and all call
`os->run`. `os_init` calls `pmm->init` and `kmt->init`; the latter registers
`kmt_context_save` (seq INT_MIN) and `kmt_schedule` (seq INT_MAX) with `on_irq`
and creates four producers and five consumers. A processor enters the kernel
through a trap (timer, device or `_yield`), which pushes the registers on the
stack of the current thread and calls `os_trap`; the context the last handler
returns is loaded, with its `cr3` if there is virtual memory. Threads call
`sem_wait` and `sem_signal`, which use spin locks; `sem_wait` gives up the
processor with `_yield`, and `sem_signal` on another processor sets the sleeper's
status that `kmt_schedule` polls. The trap's own `kmt_context_save` takes the
lock of the current task, the lock `sem_signal` holds to wake it.

On the native platform a processor is a forked process, address spaces are lists
in memory that the processes share, and the event thread of SDL shares the key
ring with all contexts of the program, which an interrupt switches on one host
thread. libkvdb and sperf are programs of the host: processes and threads that
share two files and `flock`, and a parent and a child that share a pipe.

### 1.3 Hard behaviours

* Interleavings of processors at every lock operation, and of traps with thread
  code on the same processor; `sem->lock` is released before `_yield`
  (`semaphore.c:63`), the status a scheduler reads is protected by nothing
  (`kmt.c:126`), `intrdepth` is shared by all threads of a processor.
* Interrupts that arrive late: processors that are started or stopped while they
  start, run, spin or stop others themselves.
* Lists of the memory manager that are spliced by hand, with merging; page tables
  that are built by walks which may fail in the middle; TLBs nobody tells.
* The journal of libkvdb has a crash point after every write, in recovery, too;
  `flock` belongs to a handle that threads share.
* Interrupts that let a second context into a critical section of a recursive
  mutex; a ring whose ends meet.
* Numbers at their limits: shifts by a whole word, a mask with a zero too many,
  0 divided by 0.

The list with source lines and the properties that answer to each is under
"hazards" in `PROJECT.json`; those without a property are in section 5.

## 2. Modules

    BracketCheck      what bracketcheck.c accepts (abstract)
       ^ refines
    Semaphore         semaphores and their threads, all interleavings
       ^ extends, refines
    Kmt               processors, traps, saved contexts, scheduler, masking

    Heap              what kalloc and kfree promise (abstract)
       ^ refines
    Pmm               block lists and block area

    KvStore           what libkvdb promises (abstract)
       ^ refines, until certain deaths of the process
    Kvdb              data file, journal, recovery, deaths
    KvLocks           mutexes and file locks of its threads and processes
    KvInt             the numbers in its files

    Boot              boot record, loader, _mpe_init, _halt
    Irq               handler registration and dispatch
       both composed by MCMachine

    AddrSpace         what _protect, _map, _unprotect promise (abstract)
       ^ refines
    X86Vme            page tables, cr3, TLBs, page faults

    NativeVme         lists of mappings and host mappings
    KeyQueue          ring, event thread, interrupts, late initialisation
    Sperf             pipe, accounting, reports
    Int64             division of double words
       these four and KvInt composed by MCHosted

    SemaphoreProofs, KmtProofs, PmmProofs, KvdbProofs, KvLocksProofs,
    MachineProofs (of Boot, Irq and X86Vme),
    HostedProofs (of NativeVme, KeyQueue, Sperf, Int64 and KvInt)
                                    theorems
    Powers                          powers of two, for Heap, Pmm and Int64
    Numbers                         facts about numbers, sets of them, powers
                                    of two and walks, for the proofs

    MCKmt, MCPmm, MCKvdb, MCKvLocks, MCX86Vme, MCMachine, MCHosted
                                    instances for TLC

Definitions named as "faulty variant" in the modules are not used by any
specification. They are mistakes one could plausibly make in the code, and each
property is known to fail when the definition behind the variant is replaced by
it ("mutants" in `PROJECT.json`).

### 2.1 Semaphore

One thread is in one program point at a time; `pc[t]` names the next operation,
and the comment at the top of the module lists them with their source. Each
`sp_lock` is two steps, the `push_cli` (`WaitEnter`, `SigEnter`: the last moment
a trap can come) and the successful `_atomic_xchg` (`WaitAcquire`,
`SigAcquire`). Between the lock and the unlock of a semaphore every statement
that other threads can observe is an action of its own: decrement and test
(`WaitDec`), lock of the own task, status and waiter (`WaitBlock`), increment
and choice (`SigInc`), the three lines of the wake-up, and the shift of
`waiter[]` (`SigRemove`). `status` is read by the scheduler without a lock, so
`Resume` may come between any two of them.

`lk[t]`, the lock in the task, has three possible holders: `sem_wait` of the
task, `sem_signal` of another thread, and `kmt_context_save` in a trap on the
processor of the task (`SaveBegin`, `SaveEnd`).

Abstracted: names, debug output; which waiter is the one of least `ct` (left
open here, exact in `Kmt`); spinning (a blocked action).

### 2.2 Kmt

`Kmt` extends `Semaphore` with processors. A thread's step is taken by the
processor that runs it (`LockStep`, `UnlockStep`, `PlainStep`), with the effect
of `push_cli` and `pop_cli` on that processor. A trap saves a context
(`EnterTrap`), `SaveLock` and `SaveUnlock` are `kmt_context_save`, and
`kmt_schedule` takes one step per iteration of its loop (`SchedSkip`), reading a
status another processor may change in between, until it picks (`SchedPick`).
`stack[c]` says on whose stack a processor executes: it changes only when the
trap returns, later than `current[c]`.

What the code does and a reader may not expect, reproduced in the model:

* `_intr_read()` returns 0 or 1, and is masked with `FL_IF = 0x200`
  (`spinlock.c:9,16`). `intena` is always 0 and `pop_cli` never enables
  interrupts. `OnceOffAlwaysOff` states the consequence.
* A running thread stays `T_READY`; `T_RUNNING` is used for the main threads only.
* `ct` is exact up to the bound `MaxCt` and "at least" beyond it; when a choice
  depends on larger values, every outcome is allowed.

### 2.3 Pmm and Heap

The block area is one record: a field of the structure in slot `b` is
`area.next[b]`, `area.start[b]` and so on; `freeno` is the stack `FreeAllocNo[]`,
and `maxpos` is as in the code. `Blink`, `Bdelete`, `BinsertPlain`,
`BinsertMerge`, `Balloc` and `Bfree` are functions on it and compose as the calls
do. In particular `Bdelete` leaves the pointers of the removed block, as the code
does, and `BinsertPlain` behind the last block of a list leaves `next` of the new
one. `Kalloc` and `Kfree` are one action each: both hold `glb_lock` from the first
look at a list to the last, with interrupts off, and every other access to the
lists is at boot. The slab allocator is compiled out.

A loop along a list is `Walk(a, b)`, a function of the number of steps; `Blocks`
are the blocks such a loop meets, `Ends` says that it comes to an end, and `First`
is where a search stops. (They are recursive functions and not RECURSIVE operators,
so that they can be reasoned about.)

The checks that `_DEBUG` compiles in are part of both actions; `halted` says that
one of them failed. `tangled` records the one kind of step after which the free
list is not what it should be: a `kfree` that puts a block behind the last free
block, without merging, while the freed block still has a `next` in the allocated
list, into which the free list then runs on (`Tangles`). It takes a heap whose end
has been handed out. The model stops there.

`Heap` is the promise: an aligned range that overlaps nothing handed out, and
NULL for a size only if there is no such range of this size (`last` is the size
asked for and the answer). `HeapUntilTangled` says that `Pmm` keeps it.

### 2.4 Boot and Irq

`where[c]` in `Boot` is the place a processor is at between the jump of the boot
record and `user_entry`. `__am_lapic_bootap` sends an interrupt (`ipi`) that
`Deliver` lets arrive at any later time, also at a processor that is running: it
starts again at the boot record. `Halt` may be called by any processor that runs
code of the program, and by several. All processors come through the loader on
the one boot stack, which is why the handshake over `ap_ready` matters.

`Irq` has `on_irq` on a sequence: `Stop` is where its loop ends, `Inserted` the
three cases after it. `os_trap` calls the handlers one step at a time.
Registrations come in any order after the two of `kmt_init`, and all before the
first trap, as `os_init` has it. Without the two of `kmt_init` the tail case of
`on_irq`, which does not compare, would put a second handler behind the first
whatever its seq; the first handler of the kernel has INT_MIN, so this cannot
show.

### 2.5 Kvdb and KvStore

`Kvdb` keeps the two files and the locals of `kvdb_put` and `recover`; `pc` names
the next write. The data file is the table of records (`rec`) and cells that hold
a key or a value (`data`); the journal is a sequence of entries (`log`) and the
count in its head (`nr`). Each write of the code is an action of its own, and
`Crash` may take the place of the next one, at the points the instance lists in
`CrashPoints`. Loops over the table or the journal that write nothing are one
step in `kvdb_put` and `kvdb_get`; in `recover`, which writes inside its loop,
each slot is a step.

What the code does and the model reproduces:

* The end character is the last byte of an entry. An entry of which everything
  else is written ends the file one byte early (`end` is FALSE). `Reads` says what
  `recover` then finds in its buffer: the end character of the entry before, or,
  at the first entry, anything.
* An entry whose record is there already stays in use (`RecoverFinds`).
* After a replay the loop goes on (`RecoverDisables` leads back to `rec_scan`),
  with an entry that is FREE by now, over the free slots and then over the data
  area: `RecoverRunsOn`, which leaves no cell as it was. A recovery that is
  killed before that can be followed by a good one.
* A killed recovery leaves its offsets in free slots, and a later one may leave
  its loop at such a slot, as the offsets are compared and the status is not.

`marks` is a history variable: at which points of `Marking` (a short entry, a
record whose entry is not disabled yet) a process has died, and `free_slot` when
the last case above has happened. The properties say by it until when they
hold.

`KvStore` is a map with atomic puts. A put takes effect with the write of its
record, by `kvdb_put` or by `recover`; a put cut off earlier is dropped when the
next recovery ends.

Keys and values have one unit of length. `data` also says of a value which key it
belongs to, for the properties only.

### 2.6 KvLocks and KvInt

`KvLocks` has the threads that use libkvdb, each with a handle. `flock` belongs to
the handle: a thread whose handle has the file gets through, and its unlock
unlocks for all threads of the handle. `kvdb_put` and `kvdb_get` give up the
mutex, the data file and the journal in this order, `recover` the two files the
other way round. Of what is done inside only the count in the head of the journal
is kept, which `kvdb_put` reads and writes back. `Die` takes a process with its
handle away at any point. `kvdb_open` writes the head of a new journal before it
takes any lock (`init`).

`KvInt` is `Int2Str` with its masks, and the reading back of its bytes. `Kvdb`
stores offsets without it, which is what the code does as long as they are below
16 MiB (`SmallOffsetsTheorem`).

### 2.7 X86Vme and AddrSpace

`mem` holds the tables, an address space being a table above the first level with
`as->ptr` for its only entry. `_vme_init` maps the pages of the kernel one by one
(`InitPage`), and after the last loads `cr3` and turns paging on (`unmade` are the
pages left; the model takes them in any order). It does so in the processor that
calls it, the bootstrap processor (`Bsp`), and in the 32-bit build nothing turns
paging on in another: `paging` is empty or has `Bsp` in it. The other processors
call `_map`, `_protect` and `_unprotect` like the first, and may load `cr3` when
they return to a context (`SetCr3`), but they have no TLB and translate nothing;
what a user program does on one of them is not modelled (section 5). `Ptwalk` is the walk with its allocations: at each
`Level` it follows the entry, hangs in a new page (`Pgallocz`), or stops where
`pgalloc` finds nothing, and leaves what it has hung in. `TornDown` are the
tables `teardown` frees. A processor with paging uses its TLB where that has a translation
and the tables of `cr3` otherwise (`Entry`); loading `cr3` empties the TLB, and
nothing else does. `AddrSpace` is a partial map per address space.

Of the callers it is assumed that `_vme_init` is called on the bootstrap processor
(`vme.c:90` panics on another), and that an address space is protected when it is
loaded and loaded nowhere when it is torn down.

### 2.8 NativeVme, KeyQueue, Sperf, Int64

`NativeVme`: `link` are the lists with their heads, `host` what `shm_mmap` has
put into each process. `_map` and `__am_switch` are one action each; a
`list_foreach` on a list with a circle never ends (`endless`). What it comes across
(`ReachedIn`) is the least set with the first node that has the next of every node
in it.

`KeyQueue`: every statement of `__am_input_read` and of the event thread that the
other can observe is a step. `Interrupt` gives the host thread to another context
of the program, wherever the first is. The mutex has an owner, which is a host
thread, and a depth.

`Sperf`: lines with a kind, a name and the microseconds of the call, a pipe of
bounded length, a child that may fail to start, exit or be killed at any time (it
is "gone" when neither strace nor the program under it is left: either has the
pipe open, and the parent reads until nobody has), and
a parent that reports when a second is over. Whether one is, is left open, and so
is the order in which `qsort` leaves entries of the same time.

`Int64` calculates on words of `WordBits` bits as the code does on 32, with the
shifts by words and the special cases of the code; `Loop` has `r`, `q` and `carry`
after each round of its loop.

### 2.9 The instances with stages

`MCMachine` and `MCHosted` compose modules that share no state. `stage` says
which of them a behaviour is about; the others stay where they start. What is
checked of one is not checked in combination with another, as nothing in the
code connects them.

## 3. Model checking

| Run | Instance | Checked | States |
|---|---|---|---|
| `kmt` | 2 producers, 2 consumers, 2 processors, buffer 1, `MaxCt` 1 | `SemInv`, `KmtInv`, `StackExclusive`, `ContextFresh`; `BracketSpec`, `SemRefinement`, `ResumeOnlyIfWoken`, `OnceOffAlwaysOff`; `Progress` | 65 639 |
| `pmm` | heap [32,52), sizes 3, 4, 8, 20, up to four ranges out | `PmmInv`, `ChecksPass`; `HeapUntilTangled` | 7 268 |
| `kvdb` | two keys and values, 4 puts, 2 deaths, at every point | `OffsetsSound`, `JournalSettled`, `SearchEnds`; `KvStoreUntilRuin` | 266 495 |
| `kv_locks` | three threads on one, two and three handles, 5 calls, a death | `Exclusion`, `NoLockLeft`, `CountKept`; `Finishes` | 171 914 |
| `machine` | three processors; four handlers besides the kernel's | `BootStack`, `EnterOnce`, `WorldStops`, `AllEnter`, `HaltEnds`; `Ordered`, `TrapOrder`, `NoneLost` | 4 229 |
| `vme` | two address spaces with two pages each, six tables of which `_vme_init` takes two, two processors, one with paging | `VmeInv`, `StaleOnlyUnmapped`; `ImplementsMaps` | 16 029 |
| `hosted` | stages, see below | `HostMatches`, `EndlessByRemap`; `OneMutex`, `KeysInOrder`, `AllRead`; `CountedOnce`, `EndsAfterChild`; `DivisionExact`; `OffsetsKept` | 286 845 |

`SemInv`, `KmtInv`, `PmmInv`, `VmeInv`, `OffsetsSound`, `TrapOrder`,
`HostMatches`, `OneMutex` and `DivisionExact` are conjunctions of named parts,
each with a comment of its own where it is defined; the types of a module are
among them. What is only a consequence of a checked property, or an inductive
invariant of which the runs check the consequences (`BracketDepth`,
`TaskLockOwner`, `LockedMeansMasked`, `BootInv`, `LocksInv`, `HeadAssert`,
`JournalCounted`, `KvdbTypeOK`), is proved and has no run.

Runs that show a disagreement between the code and what its text says:

| Run | Property | Says | Outcome |
|---|---|---|---|
| `pmm_full` | `ChecksNeverFail` | assertion of `check_freeblock` | fails once the end of the heap has been handed out |
| `kvdb_returns` | `NothingReturns` | `kvdb.c:324`: a death before the entry is disabled does no harm | an old value comes back at a restart |
| `kvdb_recover` | `RecoverEnds` | `kvdb.c:96`: the record is written where a place is found | the loop writes on and does not end |
| `kv_open` | `HeadKept` | `kvdb.c:140`: a journal that is not initialized is initialized | a second process initializes one that has been used |
| `vme_fault` | `NotPresent` | `tests/amtest/src/tests/vm.c:30`: `_PROT_NONE` in the cause is "[not present]" | the bit says the opposite |

Bounds and why they are enough.

* `kmt`: two producers and two consumers with a buffer of one let both sleep on
  the same semaphore while a third thread wakes one of them: the choice and the
  shift of `waiter[]` matter, and so do `val` from -2 to 1. Two processors give
  every pair of a waker and a sleeper, and of a scheduler and a running thread;
  four threads give each processor two. `MaxCt` 1 tells a thread that ran from
  one that did not. The proofs cover the rest.
* `pmm`: the sizes make all four cases of `kalloc` and all of `binsert` occur. A
  request of 20 takes the whole heap, and one of 4 or 8 can take its end, so the
  states `tangled` is about are reached, and so is the block of size 0 of
  `pmm_init`. 32 is aligned for every size, as the heap of the machine is.
  `NSlots` is 2 * `MaxLive` + 3, what the proof says is enough. `View`
  identifies states that differ in the slot numbers of blocks only.
* `kvdb`: two keys fill a table of two slots (`NRecords`), so that replays meet
  used, matching and free slots; with four puts (`MaxPuts`) a key is written
  twice before and after a death, journal entries are used again, and the journal
  grows to three. Two deaths (`MaxCrashes`) give a death in the recovery from a
  death. What `free_slot` stands for takes more deaths than that, so that the runs
  do not come to it; the proofs are of any number of deaths.
* `kv_locks`: three threads are the least with two on one handle and one on
  another; five calls (`MaxCalls`) let two of them open and all three work; a
  death (`MaxDeaths`) is of a process that may hold any of the locks.
* `machine`: with three processors (`NCPU`) one is started while one has entered
  and one is off, and one stops two others. Four more handlers, two of them with
  the extreme keys of the kernel's own, come before, behind and between those.
* `vme`: the two pages of a space are below different level-1 entries, so that
  each map may need a table; two spaces could use six tables, and four are left
  for them. The second processor has no paging, as in the machine; it loads address
  spaces, which keeps them from being torn down. `View` identifies states that differ
  only in which pages the tables are in, as the trees below the address spaces tell
  all a call can find.
* `hosted`: two processes, two address spaces, two vas; a ring of 3
  (`KeyQueueLen`) laps with 4 keys (`MaxKeys`) and two contexts are switched twice
  (`MaxSwitches`), into a critical section and back; four lines (`MaxLines`) of
  two names through a pipe of two (`PipeLines`) give two reports with a reset
  between them and a line that has to wait; words of three bits have every
  difference of leading zeros and all ten special cases of the division, on all
  pairs of numbers; `Int2Str` on every pair of bits below 2^31.

Fairness:

* `Kmt!Fairness`: processors do not stop (weak fairness of the steps of threads,
  of trap handling and of the start), interrupts keep arriving while they are
  enabled (weak fairness of `Interrupt`: the local APIC timer is periodic), and a
  thread about to enter `sp_lock` with interrupts on gets to its `cli` eventually
  (strong fairness of that step: a timer tick does not come between every two
  instructions). No fairness is assumed of lock acquisition or of the scheduler's
  choice. Progress is of all threads together. A single thread can starve when
  the number of processors does not divide the number of threads: `round` makes
  `kmt_schedule` skip the first suitable thread, and it may be the same one every
  time.
* `BootFairness`, used by `MachineSpec`: processors run on and interrupts that
  were sent arrive. Nobody has to call `_halt`.
* `KvLocks!FairSpec`: a thread inside of an operation runs on; weak fairness is
  enough for `Finishes` as calls are bounded. Callers call as they like.
* `HostedSpec`, as `KeySpec` and `SperfSpec` have it: host threads run on, the
  event thread when it has got an event, and the parent of sperf. No key is
  ever pressed of necessity, and the program under strace need not end.

`kmt` and `pmm_full` check for deadlock. The others do not: there the
model stops where the code loops for ever or has switched the machine off
(`put_stuck`, `ruined`, `spin`, `halted`, `endless`), after a `tangled`
list, where nobody has to go on
(a database that is closed, a division that is done), or at a bound.

## 4. Proofs

Each proof module EXTENDS the module it is about. The pattern is the same
everywhere: an inductive invariant (`Init => Inv`, `Inv /\ [Next]_vars => Inv'`,
one step per action), of which the listed properties are consequences. All
are for any values of the constants that the assumptions admit.

**SemaphoreProofs**, of `SemSpec`, for any finite disjoint sets of producers and
consumers and any positive buffer:

* `SemInvariant`: `SemInv` is inductive. Its parts: the lock word agrees with the
  program counters (`LockInv`); a thread is T_WAITING only in the second half of
  a blocking P (`StatusInv`); the chosen index stays valid (`PickInv`);
  `waiter[]` lists the sleepers, once each, and the one just woken
  (`WaitersListed`); a negative `val` counts the sleepers (`SleepCount`); `val`
  plus the units in flight is what may still be printed (`Balance`).
* `BracketTheorem`: conservation bounds the depth from both sides. The bound
  alone is not inductive: it needs to know who has passed a P and not yet
  printed.
* `BracketRefinement`: each print is a step of `BracketCheck`, everything else
  stutters.
* `TaskLockTheorem`: one holder of a task lock; `ResumeTheorem`: nobody leaves a
  blocking P while its entry could still be woken.

The counting lemmas (`TakenStep`, `OwedStep`, `WakingStep`, `BlockedStep`) say how
the cardinality of the sets in the invariant changes when one thread moves.

**KmtProofs**, of `KmtSpec`, for any number of threads from two and one to eight
processors (`MAX_CPU`):

* `KmtInvariant`: `SemInv`, `TaskLockOwner` and `KmtInv` together are inductive.
  `HomeStacks` (threads never leave the processor of their id) excludes shared
  stacks; `MaskInv` and `DepthCountsLocks` follow the interrupt flag and the
  nesting count through locks, traps and switches; `TrapInv`, `ContextFresh` and
  `SavingInv` say where a saved thread stands.
* `KmtRefinesSemaphore`: every step of a processor is a step of `Semaphore` or
  leaves its variables alone, so that what is proved there holds here
  (`KmtBracketTheorem`, `KmtResumeTheorem`).
* `KmtInvTheorem`, `StackTheorem`, `NoPanicTheorem`, `MaskTheorem`,
  `DepthTheorem`, `ContextTheorem`, `OnceOffTheorem`: consequences.

**KvdbProofs**, of `KvdbSpec`, for any keys and values, any table, any number of
puts and deaths and any points of death:

* `JournalInvariant`: types; every entry was counted before it was written, by a
  put of its own (`CountInv`); an entry without its end comes of the put at work
  or of a death (`ShortInv`). `KvdbTypes`, `CountedTheorem` and `SearchTheorem`
  follow.
* `StoreInvariant` (`StoreInv`): why no offset ever leads to the wrong bytes. New
  bytes are written above all that the *table* refers to, whereas what must stay
  intact is also what the *journal* refers to. So every entry that may be replayed
  must be covered by a record of its key that lies at least as far out, or be the
  one that a put or `recover` is at work on (`CoverInv`). That needs in turn what
  a scan of `recover` has passed (`ScanInv`), that the table has no gaps and no
  two records of a key (`TableInv`), what the last put has reserved (`PutInv`,
  `LastInv`), and that all offsets somebody may follow are good (`RefsGood`). It
  holds until `free_slot`: a recovery that leaves its loop at a slot not in use
  takes an entry for covered that is not. `RecordsTheorem` and `LogTheorem` follow
  (`OffsetsTheorem`).
* `CleanInvariant` (`CleanInv`): until a mark, at most one entry is to be
  replayed, and it is of the last put. `SettledTheorem` follows, and
  `KvStoreTheorem`: each write of a record is the moment a put takes effect in
  `KvStore`, until a process dies at a point of `Marking` or `recover` runs over
  the data area.

**KvLocksProofs**, of `Spec` of `KvLocks`, for any threads, handles and ways to
share them: `LocksInvariant` (who holds the mutex and, on a handle of one thread,
the files) gives `ExclusionTheorem`, `NoLockLeftTheorem` and `CountTheorem`.

**PmmProofs**, of `PmmSpec`, for any heap, any sizes and any number of ranges, as
long as the area has room for `2 * MaxLive + 3` structures:

* `IInvTheorem`: `IInv` is inductive. It says that, unless `tangled`, the free and
  the allocated list are two sets of slots F and A such that (`Holds`)
  * `next` and `prev` agree on each, lead nowhere else, and every part of it has a
    block whose predecessor is outside (`Linked`). This well-foundedness rules out
    circles and unreachable blocks without a path to follow, so that inserting and
    deleting in the middle disturb only what is next to the place;
  * the slots below `maxpos` are the heads, F, A and `freeno`, each once (`Pool`,
    `Parted`), and a slot in none of the lists has no `next`, which is why a
    structure from `balloc` may end a list;
  * the ranges of F and A partition the heap (`Tiled`), sizes are right (`Sized`),
    what is in A is aligned (`Aligned`), and between two neighbours of F is a gap
    (`Merged`).

  `Sound` has a third set N, of blocks in neither list: `kalloc` and `kfree` are
  proved through the states in between, one list operation at a time.
* `PmmInvTheorem` and `ChecksTheorem` follow. That the area never overflows is a
  count: between two free blocks there is an allocated one, so F has at most one
  more than A (`RoomThere`, `RangesCount`).
* `HeapTheorem`: `Pmm` implements `Heap`. The free block a search stops at gives an
  aligned range disjoint from all that is owned (`KallocStep`); and where no free
  block serves, no range would fit, since a range disjoint from A lies inside one
  block of F (`KallocFailsStep`); the search may take the first block only
  because `ValidAddress` is the least aligned address in it.

The walk lemmas (`FoundUsed`, `BehindPlace`, `ServingFree`) say of each loop of
the code where in the two sets it stops. `ChecksTheorem` has the exception of the
property: the size 0 `pmm_init` computes.

**MachineProofs**, of `BootSpec` for any number of processors, of `IrqSpec` for
any handlers, and of `VmeSpec` for any address spaces, processors, tables and
pages, as long as no user page shares a level-1 entry with one of the kernel:

* `BootInvariant` relates the flag, the loop counter and the interrupts on their
  way, because a flag that is set says nothing unless only one processor can set
  it. `BootStackTheorem`, `EnterOnceTheorem`, `WorldStopsTheorem` follow.
* `IrqInvariant`: the list begins with `kmt_context_save` and ends with
  `kmt_schedule`, so every registration finds its place between two handlers
  (`Between`), and order and membership are kept; `OrderedTheorem`,
  `HeadAssertTheorem`, `NoneLostTheorem`, `SaveFirstTheorem`,
  `ScheduleDecidesTheorem` (`TrapTheorem`) follow.
* `VmeInvariant`: `VmeIInv` is inductive. `VmeInv` alone is not, as it does not say
  where a table is that a walk may come to. `Shape` does: the top level of every
  address space in use, and of the kernel's once it has one, is a table of its own
  (`TopsOk`); below its own entries hang tables with the flags of their walk
  (`SubsOk`), each in one place only (`Apart`), and there are no others in use
  (`Reached`). The other entries of a top level are the kernel's, all of them
  (`KernelShared`), and the last level has the pages of the program or of the
  kernel (`LeavesOk`). Each way to change a table has a lemma that says which
  translations it leaves alone: hanging in a table (`HangTop`, `HangSub`), setting
  an entry (`SetLeaf`), a new address space (`NewSpace`), one torn down (`Torn`).
  The walks are compositions of these (`KernelWalk`, `UserWalk`). `TlbOk` relates
  a TLB to the tables: what it has is present, and the same as in the tables or
  unmapped since; a new mapping is of a page that was not present, so it makes
  nothing stale. `Loaded` says what `cr3` may be: 0 in a processor that has loaded
  nothing yet, whose TLB is empty, or else the tables of an address space in use.
* `VmeInvTheorem` and `StaleTheorem` follow. `VmeRefinement`: `X86Vme` implements
  `AddrSpace`. A call sets one translation of one address space (`MapEffect`) or
  panics with all of them as they were (`RefineWalk`).

**HostedProofs**:

* `KeySpec`, for any ring, keys, contexts and interrupts: `KeyInvariant` says which
  window of the keys pressed the ring contains, at which place, and how many whole
  rings have been lost. `MutexTheorem`, `OneEventThreadTheorem` (`OneMutexTheorem`)
  and `KeysInOrderTheorem` follow.
* `NativeSpec`, for any processes, address spaces, pages and vas:
  `NativeInvariant`. Until an address space is in use on two processes or a va is
  mapped twice, whatever the host has mapped for a process is in the list in use and
  marked there (`HostInv`), which is what the loop of `__am_switch` needs to undo it,
  and no other process marks in that list (`ApartInv`). `HostMatchesTheorem`
  follows. For `EndlessTheorem` two lemmas say what a node put in front does to a
  list: a new one is added to what is reached (`ReachedInserted`), and from one that
  was in the list already one only comes back to it (`ReachedAgain`).
* `SperfSpec`, for any names, times and lengths: `SperfInvariant`. The microseconds
  of the table are counted as a set of pairs (`Units`): a line adds as many as it
  has, to its entry or to a new one (`RecordedAdds`), sorting is a bijection of them
  (`SortedKeeps`), clearing leaves none. No entry has more than all together, so a
  percentage is from 0 to 100 unless the total is 0 (`RatioGood`). `CountedTheorem`
  follows.
* `OffsetsTheorem`: `OffsetsKept` for every number of 32 bits; TLC tries pairs of
  bits of 31. `SmallOffsetsTheorem`: a number below 2^24 is read back as written.
* `DivisionTheorem`: `DivisionExact` for all arguments and words of any length from
  two bits on; TLC tries three. The loop keeps `Divided`: the digits of the dividend
  that have been used are the quotient so far times the divisor and `r`, and `q`
  holds the digits to come and then the quotient, less the last digit, which is the
  carry. It starts so because the shifts by words are shifts of the whole
  (`DoubleShifts`). `MayShift` says when the loop may run: the quotient has at most
  `sr` digits, and the divisor is at most half a double word, or else `sr` is 1 and
  so is the first digit of the dividend, without which the comparison by the sign of
  `d - r - 1` would go wrong. The counts of leading zeros give `sr` such a value or
  a divisor that is larger than the dividend (`HighWords`, `LowDivisor`,
  `CountDifference`). `UdivmodExact` has all the cases, `SignedAnswer` the signs.

**Numbers** has facts the library lacks in a form that can be cited: least and
greatest elements, and functions that are defined by iteration. The library's
theorem on recursive definitions takes an operator as a parameter; `Iteration` is
what the walks, the powers of two and the loop of the division need of it, for a
step that is a function. `QuotientIs` says when two numbers are the quotient and
the remainder.

Assumptions on constants are `ThreadAssumption`, `BufSizeAssumption`,
`KmtAssumption`, `HeapAssumption`, `KvdbAssumption`, `KvLocksAssumption`, `BootAssumption`,
`IrqAssumption`, `VmeAssumption`, `NativeAssumption`, `KeyAssumption`,
`SperfAssumption` and `WordBitsAssumption`. TLC evaluates all of them in the runs.

Only model-checked is what is about fairness, which the prover does not reach:
`Progress`, `Finishes`, `AllEnter`, `HaltEnds`, `AllRead`, `EndsAfterChild`.

### What the properties leave to the callers and the circumstances

* `X86Vme`: see 2.7. `HostMatches`: no address space is in use on
  two processors, and no va is mapped twice; otherwise `is_mapped`, which belongs
  to the list, is wrong for one of them. `EndlessByRemap` says what a second
  mapping does.
* `KeysInOrder` and `OneMutex`: no interrupt comes within the read or the
  late initialisation. With one the code reads a key twice, or starts two event
  threads.
* `HaltEnds`: a single caller. Two that call `_halt` may stop each other, and
  then the machine stays on.
* `Exclusion`, `CountKept`: see the comments there; two processes with several
  threads each can overlap, as the unlock of one thread unlocks for the others.
* `PmmInv`, `HeapUntilTangled`: until a list is `tangled`; `ChecksPass`: but for
  the range that is the whole heap.
* `OffsetsSound`: but for `free_slot`. `JournalSettled`,
  `KvStoreUntilRuin`: until a mark. `SearchEnds`: no death between the two writes
  of a new entry.
* `OffsetsSound`, `KvStoreUntilRuin` and the theorems on them (`RecordsTheorem`,
  `LogTheorem`, `OffsetsTheorem` of `KvdbProofs`, `KvStoreTheorem`): data files below
  16 MiB. Beyond, `Int2Str` loses bits of an offset (`kvdb.c:167`), and a record or
  an entry leads to other bytes.
* `StaleOnlyUnmapped`: of the processor with paging, the only one that has
  translations.
* `EndsAfterChild`: strace and the program are both gone. A program that outlives
  its strace keeps the pipe open, and the parent reads on.

Three properties say how far a fault of the code goes and would not fail on the
fault itself: `SearchEnds` (only a death within a new entry makes a search endless),
`EndlessByRemap` (only a second mapping makes a circle) and `OffsetsKept` (only the
bits 24 to 27 are lost). They fail when the damage goes further.

## 5. Not modelled

Hazards that no property covers:

* `kvdb.c:93`: a recovery that stops at a slot not in use, with the offsets an
  earlier one has left in it, goes on to the next entries, which no recovery does
  after a replay otherwise. `free_slot` records it, and what is proved of offsets
  ends there.
* `kmt.c:115`: single threads may starve (see "Fairness"). A property would say
  that they do not, and the code does not promise it.
* `kmt.c:127`: `ct` would overflow after 2^31 choices; the code against it is
  commented out. `kmt.c:58`: the ring of tasks is linked in `kmt_init` and
  `kmt_create`, which run before any other processor has left `os_init`.
* `kmt.c:76`: `kmt_teardown` frees the middle of a block and leaves the thread in
  the ring, and `kmt.c:83`: the API table sets `.spin_lock` twice and
  `.spin_unlock` never. Nobody calls either.
* `pmm.c:584`: a block of size 0 at the end; `pmm.c:157`: addresses of 32 bits.
  The heaps of the machine do not come near either.
* `cte.c:43`: contexts of the kernel keep the `cr3` that happens to be loaded;
  `main` does not initialise virtual memory, so no context of the kernel has one.
* `sperf.c:131`: a time is read without its seconds, which changes the numbers in
  a report and nothing the model keeps.
* `vme.c:113`: paging is turned on in the bootstrap processor only. `cte.c:93` loads
  `cr3` on whichever processor a user context is resumed, and on another than the
  first the program would run on physical addresses, outside of what `_map` and
  `AddrSpace` say. The model has no memory accesses on such a processor. The kernel
  never calls `_vme_init`, and `amtest` runs its test of virtual memory on one
  processor.
* `input.c:10`: the mutex is in the heap of processor 0 only; the model is of
  processor 0.

Components and details:

* The bundled applications (`apps`: fceux, litenes, microbench, coremark,
  dhrystone and others) are programs of other projects that were ported to this
  machine: emulators and benchmarks of single programs, without state they share
  with anything here. They are most of the lines of the repository, so the share
  of all lines that the modules model is small.
* Demos, console output, drawing and device registers: straight code. `libco` is a
  stub.
* `_SLAB_ASSIST` is undefined, so the slab code is not compiled. Registers, idt
  and event decoding carry no state of the kernel's own.
* Uninitialised pointers in fresh memory (`task->next`, `irq->next`) are taken as
  NULL: at boot the machine's memory is zero and nothing has been freed.
* libkvdb: keys longer than a unit, so also the comparison with a buffer that has
  no end mark (`kvdb.c:199`) and the value returned without one (`kvdb.c:357`);
  reads of a file that is still empty, whose buffers are taken not to look like an
  entry in use; loss of power, that is, writes that `fsync` has not reached yet.
  Locks and files are modelled apart: `Kvdb` takes it that one process works on
  the files at a time, which `Exclusion` shows for handles of one thread each and
  for one handle.
* sperf: the search for `strace` on the PATH and the layout of a report. klib: the
  stubs `__clzsi2` and `__ctzsi2`, which halt.
* native: protections of pages, `_ucontext`, `_halt` on SDL_QUIT, the table of key
  codes.

## 6. Plan

Done: the kernel's threads, semaphores and traps; memory manager; handlers;
libkvdb with its journal, locks and numbers; boot; virtual memory of both
platforms; key queue; sperf; division. What could follow, in this order:

1. Loss of power in `Kvdb`: a write buffer per file that `fsync` empties, and
   deaths that lose any part of it.
2. `Kvdb` and `KvLocks` in one module, to show what two processes with several
   threads each do to the files, not only to the count.
3. Several event threads and a full SDL queue in `KeyQueue`.
