--------------------------------- MODULE Kmt ---------------------------------
(***************************************************************************)
(* The kernel's threads on its processors: kernel/src/kmt.c (saving and    *)
(* scheduling), kernel/src/spinlock.c (interrupts and nesting of locks),   *)
(* os_run and os_trap of kernel/src/os.c, running the producer/consumer    *)
(* threads of Semaphore on NCPU processors.                                *)
(*                                                                         *)
(* A step of a thread is now a step of the processor that runs it.  The    *)
(* mode of a processor says where it is:                                   *)
(*                                                                         *)
(*   boot     os_run, before _intr_write(1)                                *)
(*   idle     the loop at the end of os_run                                *)
(*   thread   the code of current[c]                                       *)
(*   save     os_trap, about to lock current->lk in kmt_context_save       *)
(*   saving   kmt_context_save, holding current->lk                        *)
(*   sched    the loop of kmt_schedule                                     *)
(*   panic    stopped by a failed assertion of pop_cli                     *)
(***************************************************************************)
EXTENDS Semaphore

CONSTANTS
    NCPU,           \* _ncpu()
    NThreads,       \* thread_num after kmt_init
    MaxCt           \* bound: a ct of MaxCt stands for MaxCt or more

CPUs == 0 .. NCPU - 1

ASSUME KmtAssumption ==
    /\ NCPU \in 1 .. 8
    /\ NThreads \in Nat \ {0, 1}
    /\ Threads = 0 .. NThreads - 1
    /\ MaxCt \in Nat

VARIABLES
    mode,       \* mode[c]: see above
    current,    \* currents[c]: a thread, or Main
    stack,      \* whose stack processor c runs on (its stack pointer)
    frame,      \* the context the trap entry pushed on that stack
    round,      \* `round' of kmt_schedule, NCPU standing for NCPU or more
    ie,         \* the interrupt flag of processor c
    intrdepth,  \* intrdepths[c]
    intena,     \* intenas[c]
    ctx,        \* task->ctx: the program point and the flag it resumes with
    ct          \* task->ct

cpuVars == <<mode, current, stack, frame, round, ie, intrdepth, intena>>
taskVars == <<ctx, ct>>
kmtVars == <<semVars, cpuVars, taskVars>>

Main == -1                      \* id of the mainthread of every processor
Tasks == Threads \cup {Main}
Contexts == [pc : PCs, ie : BOOLEAN]

\* task->next: kmt_create links the threads into a ring in creation order.
NextThread(t) == (t + 1) % NThreads

\* The processor a thread is bound to by the test on id in kmt_schedule.
Home(t) == t % NCPU

\* _intr_read() returns the flag as 0 or 1.
IntrRead(c) == IF ie[c] THEN 1 ELSE 0

\* Variant of MaskFlIf: the mask the returned value calls for.
MaskBitZero(r) == r % 2

\* `& FL_IF' of push_cli and pop_cli: FL_IF is 0x200.
MaskFlIf(r) == (r \div 512) % 2

KmtInit ==
    /\ SemInit
    /\ mode = [c \in CPUs |-> "boot"]
    /\ current = [c \in CPUs |-> Main]
    /\ stack = [c \in CPUs |-> Main]
    /\ frame = [c \in CPUs |-> [pc |-> "wait", ie |-> FALSE]]
    /\ round = [c \in CPUs |-> 0]
    /\ ie = [c \in CPUs |-> FALSE]
    /\ intrdepth = [c \in CPUs |-> 0]
    /\ intena = [c \in CPUs |-> 0]
    /\ ctx = [t \in Threads |-> [pc |-> "wait", ie |-> TRUE]]
    /\ ct = [t \in Threads |-> 0]
------------------------------------------------------------------------------
(***************************************************************************)
(* push_cli and pop_cli, called by sp_lock and sp_unlock.                  *)
(***************************************************************************)
PushCli(c) ==
    /\ ie' = [ie EXCEPT ![c] = FALSE]
    /\ intena' = [intena EXCEPT ![c] =
                     IF intrdepth[c] = 0 THEN MaskFlIf(IntrRead(c)) ELSE @]
    /\ intrdepth' = [intrdepth EXCEPT ![c] = @ + 1]

\* The two assertions of pop_cli.
PopCliAsserts(c) ==
    /\ MaskFlIf(IntrRead(c)) = 0
    /\ intrdepth[c] - 1 >= 0

\* Afterwards the processor goes on in mode m, unless an assertion failed.
PopCli(c, m) ==
    /\ intrdepth' = [intrdepth EXCEPT ![c] = @ - 1]
    /\ ie' = [ie EXCEPT ![c] =
                 @ \/ (PopCliAsserts(c) /\ intrdepth[c] = 1 /\ intena[c] # 0)]
    /\ mode' = [mode EXCEPT ![c] = IF PopCliAsserts(c) THEN m ELSE "panic"]
    /\ UNCHANGED intena

(***************************************************************************)
(* Steps of the thread a processor runs.                                   *)
(***************************************************************************)
\* The waiter sem_signal wakes: of the least ct, and the last of those.  A
\* saturated ct is at least as large as any other; among saturated ones any
\* may be the least.
Choices(t) ==
    LET w == waiter[GivesTo(t)]
        exact == {i \in 1 .. Len(w) : ct[w[i]] < MaxCt}
    IN  IF Len(w) = 0 THEN {0}
        ELSE IF exact = {} THEN 1 .. Len(w)
        ELSE {i \in exact : \A j \in exact :
                 ct[w[i]] < ct[w[j]] \/ (ct[w[i]] = ct[w[j]] /\ j <= i)}

\* sp_lock: its push_cli, and for the inner lock of a pair also its xchg
\* (interrupts are off already, so nothing can come between the two).
LockStep(c) ==
    /\ mode[c] = "thread"
    /\ LET t == current[c]
       IN  WaitEnter(t) \/ WaitLock(t) \/ SigEnter(t) \/ SigLock(t)
    /\ PushCli(c)
    /\ UNCHANGED <<mode, current, stack, frame, round, taskVars>>

\* sp_unlock: the lock is released, then pop_cli.
UnlockStep(c) ==
    /\ mode[c] = "thread"
    /\ LET t == current[c]
       IN  WaitBlock(t) \/ WaitRelease(t) \/ SigUnlock(t) \/ SigRelease(t)
    /\ PopCli(c, "thread")
    /\ UNCHANGED <<current, stack, frame, round, taskVars>>

\* Everything else a thread does.
PlainStep(c) ==
    /\ mode[c] = "thread"
    /\ LET t == current[c]
       IN  \/ WaitAcquire(t) \/ WaitDec(t) \/ PrintBracket(t)
           \/ SigAcquire(t)
           \/ \E no \in Choices(t) : SigInc(t, no)
           \/ SigWake(t) \/ SigRemove(t)
    /\ UNCHANGED <<cpuVars, taskVars>>

ThreadStep(c) == LockStep(c) \/ UnlockStep(c) \/ PlainStep(c)

(***************************************************************************)
(* os_run: interrupts on, then an empty loop.                              *)
(***************************************************************************)
RunEnable(c) ==
    /\ mode[c] = "boot"
    /\ ie' = [ie EXCEPT ![c] = TRUE]
    /\ mode' = [mode EXCEPT ![c] = "idle"]
    /\ UNCHANGED <<semVars, current, stack, frame, round, intrdepth, intena,
                   taskVars>>

(***************************************************************************)
(* Traps.  The entry pushes the context of the interrupted code, os_trap   *)
(* turns interrupts off and calls the handlers in the order of irq_head.   *)
(***************************************************************************)
EnterTrap(c, resumeAt) ==
    /\ frame' = [frame EXCEPT ![c] = [pc |-> resumeAt, ie |-> ie[c]]]
    /\ ie' = [ie EXCEPT ![c] = FALSE]
    /\ mode' = [mode EXCEPT ![c] = "save"]
    /\ UNCHANGED <<semVars, current, stack, round, intrdepth, intena, taskVars>>

\* A timer or device interrupt.
Interrupt(c) ==
    /\ ie[c]
    /\ \/ mode[c] = "idle" /\ EnterTrap(c, frame[c].pc)
       \/ mode[c] = "thread" /\ EnterTrap(c, pc[current[c]])

\* _yield() in sem_wait: execution resumes behind it.
Yield(c) ==
    /\ mode[c] = "thread"
    /\ At(current[c], "yield")
    /\ EnterTrap(c, "print")

\* kmt_context_save up to the acquisition of current->lk (the lock of a
\* mainthread is only ever taken by its own processor).
SaveLock(c) ==
    /\ mode[c] = "save"
    /\ IF current[c] = Main THEN UNCHANGED semVars ELSE SaveBegin(current[c])
    /\ PushCli(c)
    /\ mode' = [mode EXCEPT ![c] = "saving"]
    /\ UNCHANGED <<current, stack, frame, round, taskVars>>

\* Faulty variants of SaveUnlock: the lock is kept; the context is not stored.
SaveUnlockKeeps(c) ==
    /\ mode[c] = "saving"
    /\ ctx' = IF current[c] = Main THEN ctx
              ELSE [ctx EXCEPT ![current[c]] = frame[c]]
    /\ PopCli(c, "sched")
    /\ round' = [round EXCEPT ![c] = 0]
    /\ UNCHANGED <<semVars, current, stack, frame, ct>>
SaveUnlockForgets(c) ==
    /\ mode[c] = "saving"
    /\ IF current[c] = Main THEN UNCHANGED semVars ELSE SaveEnd(current[c])
    /\ PopCli(c, "sched")
    /\ round' = [round EXCEPT ![c] = 0]
    /\ UNCHANGED <<current, stack, frame, ctx, ct>>

\* current->ctx=c and the release of current->lk.  The context of a mainthread
\* is saved too, but no mainthread is ever scheduled again.
SaveUnlock(c) ==
    /\ mode[c] = "saving"
    /\ IF current[c] = Main
         THEN UNCHANGED <<semVars, ctx>>
         ELSE /\ SaveEnd(current[c])
              /\ ctx' = [ctx EXCEPT ![current[c]] = frame[c]]
    /\ PopCli(c, "sched")
    /\ round' = [round EXCEPT ![c] = 0]
    /\ UNCHANGED <<current, stack, frame, ct>>

(***************************************************************************)
(* kmt_schedule: one action per iteration of its loop.                     *)
(***************************************************************************)
\* current=current->next, starting from all_thread[0] on a mainthread.
Candidate(c) == NextThread(IF current[c] = Main THEN 0 ELSE current[c])

\* Faulty variants of Accepts: threads of other processors; sleeping threads.
AcceptsForeign(c) == status[Candidate(c)] = "READY" /\ round[c] + 1 >= NCPU
AcceptsAsleep(c) == Home(Candidate(c)) = c /\ round[c] + 1 >= NCPU

\* The loop condition is false.
Accepts(c) ==
    /\ Home(Candidate(c)) = c
    /\ status[Candidate(c)] = "READY"
    /\ round[c] + 1 >= NCPU

SchedSkip(c) ==
    /\ mode[c] = "sched"
    /\ ~Accepts(c)
    /\ current' = [current EXCEPT ![c] = Candidate(c)]
    /\ round' = [round EXCEPT ![c] = IF @ < NCPU THEN @ + 1 ELSE @]
    /\ UNCHANGED <<semVars, mode, stack, frame, ie, intrdepth, intena, taskVars>>

\* The candidate's context is returned to the trap exit, which resumes it.
SchedPick(c) ==
    LET t == Candidate(c)
    IN  /\ mode[c] = "sched"
        /\ Accepts(c)
        /\ current' = [current EXCEPT ![c] = t]
        /\ round' = [round EXCEPT ![c] = 0]
        /\ ct' = [ct EXCEPT ![t] = IF @ < MaxCt THEN @ + 1 ELSE @]
        /\ stack' = [stack EXCEPT ![c] = t]
        /\ pc' = [pc EXCEPT ![t] = ctx[t].pc]
        /\ ie' = [ie EXCEPT ![c] = ctx[t].ie]
        /\ mode' = [mode EXCEPT ![c] = "thread"]
        /\ UNCHANGED <<val, waiter, semlock, lk, status, pick, bra,
                       frame, intrdepth, intena, ctx>>

TrapStep(c) ==
    \/ Yield(c) \/ SaveLock(c) \/ SaveUnlock(c) \/ SchedSkip(c) \/ SchedPick(c)

CpuStep(c) == RunEnable(c) \/ ThreadStep(c) \/ TrapStep(c)

KmtNext == \E c \in CPUs : CpuStep(c) \/ Interrupt(c)

KmtSpec == KmtInit /\ [][KmtNext]_kmtVars

\* A processor never stops executing; timer interrupts keep coming; and after
\* an interrupt returns, the interrupted code gets on before the next tick: a
\* thread at the entry of sp_lock reaches its cli eventually.
Fairness ==
    \A c \in CPUs :
        /\ WF_kmtVars(RunEnable(c))
        /\ WF_kmtVars(ThreadStep(c))
        /\ SF_kmtVars(LockStep(c) /\ ie[c])
        /\ WF_kmtVars(TrapStep(c))
        /\ WF_kmtVars(Interrupt(c))

FairKmtSpec == KmtSpec /\ Fairness
------------------------------------------------------------------------------
(***************************************************************************)
(* Properties                                                              *)
(***************************************************************************)
Modes == {"boot", "idle", "thread", "save", "saving", "sched", "panic"}

\* The types of the state of the processors.
KmtTypeOK ==
    /\ SemTypeOK
    /\ mode \in [CPUs -> Modes]
    /\ current \in [CPUs -> Tasks]
    /\ stack \in [CPUs -> Tasks]
    /\ frame \in [CPUs -> Contexts]
    /\ round \in [CPUs -> 0 .. NCPU]
    /\ ie \in [CPUs -> BOOLEAN]
    /\ intrdepth \in [CPUs -> Int]
    /\ intena \in [CPUs -> {0, 1}]
    /\ ctx \in [Threads -> Contexts]
    /\ ct \in [Threads -> 0 .. MaxCt]

\* os.c:44 (the stack of current must not be modified by another processor
\* during a trap): no two processors ever execute on the stack of the same
\* thread, although a running thread stays T_READY and kmt_schedule picks
\* READY threads without a lock.
StackExclusive ==
    \A c, d \in CPUs : stack[c] = stack[d] /\ stack[c] # Main => c = d

\* kmt_context_save stores the context in the task whose stack it lies on:
\* current names the interrupted task for as long as `current->ctx=c' is to come.
SaveOwnContext ==
    \A c \in CPUs : mode[c] \in {"thread", "save", "saving"} => stack[c] = current[c]

\* The context kmt_schedule hands out (kmt.c:136) is the one the thread was
\* last interrupted with: whenever a thread is off the processors, or waits in
\* kmt_schedule to be left, its ctx continues exactly where its pc stands.
OnCpu(t) == \E c \in CPUs : mode[c] \in {"thread", "save", "saving"} /\ stack[c] = t
ResumePoint(t) == IF At(t, "yield") THEN "print" ELSE pc[t]
ContextFresh == \A t \in Threads : ~OnCpu(t) => ctx[t].pc = ResumePoint(t)

\* The locks a thread at program point l holds or spins for.
LocksAt(l) == IF l \in Interruptible THEN 0
              ELSE IF l \in {"wait_block", "sig_wake", "sig_unlk"} THEN 2 ELSE 1

\* The locks processor c holds or spins for.
LocksOf(c) == CASE mode[c] = "saving" -> 1
                [] mode[c] = "thread" -> LocksAt(pc[current[c]])
                [] OTHER -> 0

\* intrdepth counts exactly the locks its processor holds or spins for, over
\* nested locks, traps and switches between threads that share the counter.
DepthCountsLocks == \A c \in CPUs : intrdepth[c] = LocksOf(c)

\* Interrupts are off whenever a processor holds or spins for a lock and all
\* through a trap: the handler's own sp_lock(&current->lk) cannot deadlock
\* with the code it interrupted.
LockedMeansMasked ==
    \A c \in CPUs : ie[c] => /\ mode[c] \in {"idle", "thread"}
                             /\ LocksOf(c) = 0

\* The assertions of pop_cli (spinlock.c:17 and spinlock.c:19) never fail.
NoPanic == \A c \in CPUs : mode[c] # "panic"

\* _intr_read returns 0 or 1 and FL_IF is 0x200, so intena is always 0 and
\* pop_cli never turns interrupts back on: a thread that has taken a lock once
\* is never preempted again, and its saved contexts never enable interrupts.
OnceOffAlwaysOff ==
    [][/\ \A c \in CPUs : mode[c] = "thread" /\ mode'[c] = "thread" /\ ie'[c] => ie[c]
       /\ \A t \in Threads : ctx'[t].ie => ctx[t].ie]_kmtVars

\* Threads never migrate: the test id%_ncpu()==_cpu() of kmt_schedule is what
\* keeps processors off each other's stacks.
HomeStacks ==
    \A c \in CPUs :
        /\ stack[c] # Main => Home(stack[c]) = c
        /\ mode[c] = "thread" => stack[c] # Main
        /\ mode[c] \in {"boot", "idle"} => stack[c] = Main /\ current[c] = Main

\* Only code that has never taken a lock runs with interrupts on.
MaskInv ==
    /\ \A c \in CPUs :
          /\ intena[c] = 0
          /\ ie[c] => \/ mode[c] = "idle"
                      \/ mode[c] = "thread" /\ At(current[c], "wait")
          /\ mode[c] \in {"save", "saving"} /\ frame[c].ie /\ current[c] # Main
                => frame[c].pc = "wait"
    /\ \A t \in Threads : ctx[t].ie => ctx[t].pc = "wait"

\* A thread in a trap, or off the processors, stands outside of its critical
\* sections; the context being saved resumes it where it stands.
TrapInv ==
    /\ \A c \in CPUs : mode[c] \in {"save", "saving"} /\ current[c] # Main =>
          /\ pc[current[c]] \in Interruptible
          /\ frame[c].pc = ResumePoint(current[c])
    /\ \A t \in Threads : ~OnCpu(t) => pc[t] \in Interruptible

\* The lock of a task is held for the trap handler exactly while the handler
\* is in kmt_context_save for that task.
SavingInv ==
    \A t \in Threads : lk[t] = "save" <=>
        \E c \in CPUs : mode[c] = "saving" /\ current[c] = t

\* The inductive invariant of the processors.
KmtInv ==
    /\ KmtTypeOK
    /\ HomeStacks
    /\ SaveOwnContext
    /\ MaskInv
    /\ TrapInv
    /\ ContextFresh
    /\ SavingInv
    /\ DepthCountsLocks
    /\ NoPanic

\* The processors run the threads as the interleaving of Semaphore says: every
\* step of a processor is a step of that module or leaves its state alone.
SemRefinement == SemSpec

\* The producers and consumers together never come to a halt: brackets are
\* printed again and again, on every fair execution of the processors.
Progress == []<><<bra' # bra>>_kmtVars
=============================================================================
