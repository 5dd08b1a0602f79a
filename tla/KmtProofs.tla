------------------------------ MODULE KmtProofs ------------------------------
(***************************************************************************)
(* Kmt for any number of processors and threads: the inductive invariant   *)
(* of the processors, the refinement of Semaphore, and with it the bracket *)
(* theorem for the whole of traps, scheduler, locks and semaphores.        *)
(***************************************************************************)
EXTENDS Kmt, SemaphoreProofs

(***************************************************************************)
(* What one step of a thread does, as seen from its processor              *)
(***************************************************************************)
LEMMA ThreadMoves ==
    ASSUME SemInv, TaskLockOwner, NEW t \in Threads, SemThread(t)
    PROVE  /\ \A u \in Threads : u # t => pc'[u] = pc[u]
           /\ \A u \in Threads : lk'[u] = "save" <=> lk[u] = "save"
           /\ lk[t] # "save"
<1> DEFINE Effect == /\ \A u \in Threads : u # t => pc'[u] = pc[u]
                     /\ \A u \in Threads : lk'[u] = "save" <=> lk[u] = "save"
                     /\ lk[t] # "save"
<1>a. /\ lk[t] = "save" => pc[t] \in Interruptible
      /\ lk[t] = "wait" <=> pc[t] = "wait_block"
    BY DEF TaskLockOwner, At
<1>b. pc \in [Threads -> PCs] /\ lk \in [Threads -> LkHolders]
    BY DEF SemInv, SemTypeOK
<1> USE DEF Goto, At, Interruptible
<1>1. CASE WaitEnter(t) BY <1>1, <1>b DEF WaitEnter, Running
<1>2. CASE WaitAcquire(t) BY <1>2, <1>a, <1>b DEF WaitAcquire
<1>3. CASE WaitDec(t) BY <1>3, <1>a, <1>b DEF WaitDec
<1>4. CASE WaitLock(t) BY <1>4, <1>b DEF WaitLock
<1>5. CASE WaitBlock(t) BY <1>5, <1>a, <1>b DEF WaitBlock
<1>6. CASE WaitRelease(t) BY <1>6, <1>a, <1>b DEF WaitRelease
<1>7. CASE Resume(t) BY <1>7, <1>b DEF Resume, Running
<1>8. CASE PrintBracket(t) BY <1>8, <1>b DEF PrintBracket, Running
<1>9. CASE SigEnter(t) BY <1>9, <1>b DEF SigEnter, Running
<1>10. CASE SigAcquire(t) BY <1>10, <1>a, <1>b DEF SigAcquire
<1>11. ASSUME NEW no \in 0 .. Len(waiter[GivesTo(t)]), SigInc(t, no)
       PROVE  Effect
    <2>1. pc[t] = "sig_inc" /\ lk' = lk /\ \E l \in PCs : pc' = [pc EXCEPT ![t] = l]
        BY <1>11 DEF SigInc, PCs
    <2> QED BY <2>1, <1>a, <1>b
<1>12. CASE SigLock(t)
    <2>1. pc[t] = "sig_lk" /\ pc' = [pc EXCEPT ![t] = "sig_wake"]
          /\ lk[Target(t)] = "free" /\ lk' = [lk EXCEPT ![Target(t)] = "signal"]
        BY <1>12 DEF SigLock
    <2> QED BY <2>1, <1>a, <1>b
<1>13. CASE SigWake(t) BY <1>13, <1>a, <1>b DEF SigWake
<1>14. CASE SigUnlock(t)
    <2>1. /\ pc[t] = "sig_unlk" /\ pc' = [pc EXCEPT ![t] = "sig_rm"]
          /\ lk' = [lk EXCEPT ![Target(t)] = "free"]
        BY <1>14 DEF SigUnlock
    <2>2. Target(t) \in Threads
        BY <2>1, TargetFacts DEF SemInv
    <2>3. lk[Target(t)] = "signal"
        BY <2>1, <2>2 DEF TaskLockOwner
    <2> QED BY <2>1, <2>3, <1>a, <1>b
<1>15. CASE SigRemove(t) BY <1>15, <1>a, <1>b DEF SigRemove
<1>16. CASE SigRelease(t) BY <1>16, <1>a, <1>b DEF SigRelease
<1> QED BY <1>1, <1>2, <1>3, <1>4, <1>5, <1>6, <1>7, <1>8, <1>9, <1>10, <1>11, <1>12,
           <1>13, <1>14, <1>15, <1>16
        DEF SemThread, SemWait, SemSignal

\* sp_lock takes a thread one lock deeper, out of reach of interrupts.
LEMMA LockDepth ==
    ASSUME SemInv, NEW t \in Threads,
           WaitEnter(t) \/ WaitLock(t) \/ SigEnter(t) \/ SigLock(t)
    PROVE  /\ LocksAt(pc'[t]) = LocksAt(pc[t]) + 1
           /\ LocksAt(pc[t]) \in Nat
           /\ pc'[t] \notin Interruptible
<1>1. pc \in [Threads -> PCs]
    BY DEF SemInv, SemTypeOK
<1>2. \/ pc[t] = "wait" /\ pc'[t] = "wait_acq"
      \/ pc[t] = "wait_lk" /\ pc'[t] = "wait_block"
      \/ pc[t] = "sig" /\ pc'[t] = "sig_acq"
      \/ pc[t] = "sig_lk" /\ pc'[t] = "sig_wake"
    BY <1>1 DEF WaitEnter, WaitLock, SigEnter, SigLock, Goto, At
<1> QED BY <1>2 DEF LocksAt, Interruptible

\* sp_unlock takes it one lock back; it was out of reach of interrupts.
LEMMA UnlockDepth ==
    ASSUME SemInv, NEW t \in Threads,
           WaitBlock(t) \/ WaitRelease(t) \/ SigUnlock(t) \/ SigRelease(t)
    PROVE  /\ LocksAt(pc'[t]) = LocksAt(pc[t]) - 1
           /\ LocksAt(pc[t]) \in Nat \ {0}
           /\ pc[t] # "wait"
<1>1. pc \in [Threads -> PCs]
    BY DEF SemInv, SemTypeOK
<1>2. \/ pc[t] = "wait_block" /\ pc'[t] = "block_rel"
      \/ pc[t] = "wait_rel" /\ pc'[t] = "print"
      \/ pc[t] = "block_rel" /\ pc'[t] = "yield"
      \/ pc[t] = "sig_unlk" /\ pc'[t] = "sig_rm"
      \/ pc[t] = "sig_rel" /\ pc'[t] = "wait"
    BY <1>1 DEF WaitBlock, WaitRelease, SigUnlock, SigRelease, Goto, At
<1> QED BY <1>2 DEF LocksAt, Interruptible

\* Everything else leaves the depth of the locks alone.
LEMMA PlainDepth ==
    ASSUME SemInv, NEW t \in Threads,
           \/ WaitAcquire(t) \/ WaitDec(t) \/ PrintBracket(t) \/ SigAcquire(t)
           \/ \E no \in Nat : SigInc(t, no)
           \/ SigWake(t) \/ SigRemove(t)
    PROVE  /\ LocksAt(pc'[t]) = LocksAt(pc[t])
           /\ pc[t] # "wait"
<1>1. pc \in [Threads -> PCs]
    BY DEF SemInv, SemTypeOK
<1>2. ASSUME NEW no \in Nat, SigInc(t, no)
      PROVE  pc[t] = "sig_inc" /\ pc'[t] \in {"sig_lk", "sig_rel"}
    BY <1>1, <1>2 DEF SigInc, Goto, At
<1>3. \/ pc[t] = "wait_acq" /\ pc'[t] = "wait_dec"
      \/ pc[t] = "wait_dec" /\ pc'[t] \in {"wait_lk", "wait_rel"}
      \/ pc[t] = "print" /\ pc'[t] = "sig"
      \/ pc[t] = "sig_acq" /\ pc'[t] = "sig_inc"
      \/ pc[t] = "sig_inc" /\ pc'[t] \in {"sig_lk", "sig_rel"}
      \/ pc[t] = "sig_wake" /\ pc'[t] = "sig_unlk"
      \/ pc[t] = "sig_rm" /\ pc'[t] = "sig_rel"
    BY <1>1, <1>2 DEF WaitAcquire, WaitDec, PrintBracket, SigAcquire, SigWake, SigRemove,
                      Goto, At
<1> QED BY <1>3 DEF LocksAt, Interruptible

(***************************************************************************)
(* Where the threads are                                                   *)
(***************************************************************************)
LEMMA NextThreadType ==
    ASSUME NEW t \in Threads
    PROVE  NextThread(t) \in Threads
<1>1. NThreads \in Nat \ {0} /\ t \in Nat /\ Threads = 0 .. NThreads - 1
    BY KmtAssumption
<1>2. (t + 1) % NThreads \in 0 .. NThreads - 1
    BY <1>1
<1> QED BY <1>1, <1>2 DEF NextThread

\* The mainthreads, whose id is -1, are not in the ring.
LEMMA MainNoThread == Main \notin Threads
BY KmtAssumption DEF Main

\* kmt_schedule only ever looks at threads of the ring.
LEMMA CandidateType ==
    ASSUME KmtTypeOK, NEW c \in CPUs
    PROVE  Candidate(c) \in Threads
<1>1. 0 \in Threads
    BY KmtAssumption
<1>2. current[c] = Main \/ current[c] \in Threads
    BY DEF KmtTypeOK, Tasks
<1> QED BY <1>1, <1>2, NextThreadType DEF Candidate

\* A processor that runs a thread, or saves its context, is the home of that
\* thread and runs on its stack.
LEMMA AtHome ==
    ASSUME KmtTypeOK, HomeStacks, SaveOwnContext, NEW c \in CPUs,
           mode[c] \in {"thread", "save", "saving"}, current[c] # Main
    PROVE  /\ current[c] \in Threads
           /\ stack[c] = current[c]
           /\ Home(current[c]) = c
BY DEF KmtTypeOK, Tasks, HomeStacks, SaveOwnContext

\* In thread mode current is a thread, never the mainthread.
LEMMA ThreadMode ==
    ASSUME KmtTypeOK, HomeStacks, SaveOwnContext, NEW c \in CPUs, mode[c] = "thread"
    PROVE  current[c] # Main
BY DEF HomeStacks, SaveOwnContext

\* The thread a processor in kmt_schedule may pick is on no processor, and no
\* trap handler holds its lock.
LEMMA CandidateOff ==
    ASSUME KmtInv, NEW c \in CPUs, mode[c] = "sched", NEW t \in Threads, Home(t) = c
    PROVE  ~OnCpu(t) /\ lk[t] # "save"
<1>1. ASSUME NEW d \in CPUs, mode[d] \in {"thread", "save", "saving"}, stack[d] = t
      PROVE  FALSE
    <2>1. Home(t) = d
        BY <1>1, MainNoThread DEF KmtInv, HomeStacks
    <2> QED BY <1>1, <2>1
<1>2. ASSUME NEW d \in CPUs, mode[d] = "saving", current[d] = t
      PROVE  FALSE
    BY <1>1, <1>2 DEF KmtInv, SaveOwnContext
<1> QED BY <1>1, <1>2 DEF OnCpu, KmtInv, SavingInv

(***************************************************************************)
(* Refinement: a step of a processor is a step of Semaphore or a stutter   *)
(***************************************************************************)
LEMMA ThreadStepIsSem ==
    ASSUME KmtTypeOK, HomeStacks, SaveOwnContext, SemTypeOK, NEW c \in CPUs, ThreadStep(c)
    PROVE  current[c] \in Threads /\ SemThread(current[c])
<1>1. mode[c] = "thread"
    BY DEF ThreadStep, LockStep, UnlockStep, PlainStep
<1>2. current[c] \in Threads
    BY <1>1, ThreadMode, AtHome
<1> DEFINE t == current[c]
<1>3. ASSUME NEW no \in Choices(t), SigInc(t, no)
      PROVE  SemThread(t)
    <2>1. waiter[GivesTo(t)] \in Seq(Threads)
        BY DEF SemTypeOK, GivesTo, Sems
    <2>2. Len(waiter[GivesTo(t)]) \in Nat
        BY <2>1
    <2>3. no \in 0 .. Len(waiter[GivesTo(t)])
        BY <2>2 DEF Choices
    <2> QED BY <1>3, <2>3 DEF SemThread, SemSignal
<1> QED BY <1>2, <1>3 DEF ThreadStep, LockStep, UnlockStep, PlainStep, SemThread,
                          SemWait, SemSignal

\* Every step of a processor is a step of the semaphores or leaves their state
\* alone: the step simulation of SemRefinement.
LEMMA CpuStepIsSem ==
    ASSUME SemInv, KmtInv, [KmtNext]_kmtVars
    PROVE  [SemNext]_semVars
<1>1. CASE UNCHANGED kmtVars
    BY <1>1 DEF kmtVars
<1>2. ASSUME NEW c \in CPUs, CpuStep(c) \/ Interrupt(c)
      PROVE  [SemNext]_semVars
    <2>1. CASE RunEnable(c)
        BY <2>1 DEF RunEnable
    <2>2. CASE ThreadStep(c)
        BY <2>2, ThreadStepIsSem DEF KmtInv, SemInv, SemNext
    <2>3. CASE Interrupt(c) \/ Yield(c)
        BY <2>3 DEF Interrupt, Yield, EnterTrap
    <2>4. CASE SaveLock(c)
        BY <2>4, AtHome DEF SaveLock, KmtInv, SemNext
    <2>5. CASE SaveUnlock(c)
        <3>1. CASE current[c] = Main
            BY <2>5, <3>1 DEF SaveUnlock
        <3>2. CASE current[c] # Main
            BY <2>5, <3>2, AtHome DEF SaveUnlock, KmtInv, SemNext
        <3> QED BY <3>1, <3>2
    <2>6. CASE SchedSkip(c)
        BY <2>6 DEF SchedSkip
    <2>7. CASE SchedPick(c)
        <3> DEFINE t == Candidate(c)
        <3>1. /\ t \in Threads /\ mode[c] = "sched" /\ Home(t) = c /\ status[t] = "READY"
              /\ pc' = [pc EXCEPT ![t] = ctx[t].pc]
              /\ UNCHANGED <<val, waiter, semlock, lk, status, pick, bra>>
            BY <2>7, CandidateType DEF SchedPick, Accepts, KmtInv
        <3> HIDE DEF t
        <3>2. ctx[t].pc = ResumePoint(t) /\ lk[t] # "save"
            BY <3>1, CandidateOff DEF KmtInv, ContextFresh
        <3>3. CASE pc[t] = "yield"
            <4>1. Resume(t)
                BY <3>1, <3>2, <3>3 DEF Resume, ResumePoint, At, Goto, Running
            <4> QED BY <3>1, <4>1 DEF SemNext, SemThread, SemWait
        <3>4. CASE pc[t] # "yield"
            <4>1. pc' = pc
                BY <3>1, <3>2, <3>4 DEF ResumePoint, At, SemInv, SemTypeOK
            <4> QED BY <3>1, <4>1 DEF semVars
        <3> QED BY <3>3, <3>4
    <2> QED BY <1>2, <2>1, <2>2, <2>3, <2>4, <2>5, <2>6, <2>7 DEF CpuStep, TrapStep
<1> QED BY <1>1, <1>2 DEF KmtNext

(***************************************************************************)
(* The invariant of the processors                                         *)
(***************************************************************************)
LEMMA KmtInvInit == KmtInit => KmtInv
<1> SUFFICES ASSUME KmtInit PROVE KmtInv
    OBVIOUS
<1>1. SemTypeOK
    BY TypeInit DEF KmtInit
<1>2. NCPU \in Nat /\ MaxCt \in Nat
    BY KmtAssumption
<1>3. KmtTypeOK
    BY <1>1, <1>2 DEF KmtInit, KmtTypeOK, Modes, Tasks, Contexts, PCs
<1>4. HomeStacks /\ SaveOwnContext
    BY DEF KmtInit, HomeStacks, SaveOwnContext
<1>5. MaskInv
    BY DEF KmtInit, MaskInv
<1>6. TrapInv /\ ContextFresh
    BY DEF KmtInit, SemInit, TrapInv, ContextFresh, ResumePoint, Interruptible, At
<1>7. SavingInv
    BY DEF KmtInit, SemInit, SavingInv
<1>8. DepthCountsLocks /\ NoPanic
    BY DEF KmtInit, DepthCountsLocks, NoPanic, LocksOf
<1> QED BY <1>3, <1>4, <1>5, <1>6, <1>7, <1>8 DEF KmtInv

\* What sp_lock, sp_unlock and the rest do to the state of their processor.
LEMMA ThreadStepEffect ==
    ASSUME SemInv, KmtInv, NEW c \in CPUs, ThreadStep(c)
    PROVE  /\ UNCHANGED <<mode, current, stack, frame, round, ctx, ct, intena>>
           /\ mode[c] = "thread"
           /\ ie' = [ie EXCEPT ![c] = FALSE]
           /\ intrdepth' = [intrdepth EXCEPT ![c] = LocksAt(pc'[current[c]])]
<1> DEFINE t == current[c]
<1>1. mode[c] = "thread"
    BY DEF ThreadStep, LockStep, UnlockStep, PlainStep
<1>2. t \in Threads
    BY <1>1, ThreadMode, AtHome DEF KmtInv
<1>3. /\ intrdepth[c] = LocksAt(pc[t]) /\ intena[c] = 0
      /\ ie[c] => pc[t] = "wait"
    BY <1>1 DEF KmtInv, DepthCountsLocks, LocksOf, MaskInv, At
<1>4. /\ ie \in [CPUs -> BOOLEAN] /\ intena \in [CPUs -> {0, 1}]
      /\ intrdepth \in [CPUs -> Int] /\ mode \in [CPUs -> Modes]
    BY DEF KmtInv, KmtTypeOK
<1>5. CASE LockStep(c)
    <2>1. /\ LocksAt(pc'[t]) = LocksAt(pc[t]) + 1
          /\ WaitEnter(t) \/ WaitLock(t) \/ SigEnter(t) \/ SigLock(t)
        BY <1>2, <1>5, LockDepth DEF LockStep
    <2>2. MaskFlIf(IntrRead(c)) = 0
        BY DEF MaskFlIf, IntrRead
    <2>3. PushCli(c) /\ UNCHANGED <<mode, current, stack, frame, round, ctx, ct>>
        BY <1>5 DEF LockStep, taskVars
    <2>4. intena' = intena
        BY <1>3, <1>4, <2>2, <2>3 DEF PushCli
    <2> QED BY <1>1, <1>3, <2>1, <2>3, <2>4 DEF PushCli
<1>6. CASE UnlockStep(c)
    <2>1. /\ LocksAt(pc'[t]) = LocksAt(pc[t]) - 1 /\ LocksAt(pc[t]) \in Nat \ {0}
          /\ pc[t] # "wait"
        BY <1>2, <1>6, UnlockDepth DEF UnlockStep
    <2>2. ~ie[c] /\ PopCliAsserts(c)
        BY <1>3, <2>1 DEF PopCliAsserts, MaskFlIf, IntrRead
    <2>3. PopCli(c, "thread") /\ UNCHANGED <<current, stack, frame, round, ctx, ct>>
        BY <1>6 DEF UnlockStep, taskVars
    <2>4. mode' = mode /\ ie' = [ie EXCEPT ![c] = FALSE]
        BY <1>1, <1>3, <1>4, <2>2, <2>3 DEF PopCli
    <2> QED BY <1>1, <1>3, <2>1, <2>3, <2>4 DEF PopCli
<1>7. CASE PlainStep(c)
    <2>1. waiter[GivesTo(t)] \in Seq(Threads)
        BY DEF SemInv, SemTypeOK, GivesTo, Sems
    <2>2. Len(waiter[GivesTo(t)]) \in Nat
        BY <2>1
    <2>3. Choices(t) \subseteq Nat
        BY <2>2 DEF Choices
    <2>4. LocksAt(pc'[t]) = LocksAt(pc[t]) /\ pc[t] # "wait"
        BY <1>2, <1>7, <2>3, PlainDepth DEF PlainStep
    <2>5. UNCHANGED <<mode, current, stack, frame, round, ctx, ct, intena, ie, intrdepth>>
        BY <1>7 DEF PlainStep, cpuVars, taskVars
    <2>6. ie' = [ie EXCEPT ![c] = FALSE] /\ intrdepth' = [intrdepth EXCEPT ![c] = LocksAt(pc'[t])]
        BY <1>3, <1>4, <2>4, <2>5
    <2> QED BY <1>1, <2>5, <2>6
<1> QED BY <1>5, <1>6, <1>7 DEF ThreadStep

\* The processor invariant is kept by every step of thread code: sp_lock and
\* sp_unlock with their push_cli and pop_cli, and the plain steps.
LEMMA ThreadStepInv ==
    ASSUME SemInv, SemInv', TaskLockOwner, KmtInv, NEW c \in CPUs, ThreadStep(c)
    PROVE  KmtInv'
<1> DEFINE t == current[c]
<1>1. /\ UNCHANGED <<mode, current, stack, frame, round, ctx, ct, intena>>
      /\ mode[c] = "thread"
      /\ ie' = [ie EXCEPT ![c] = FALSE]
      /\ intrdepth' = [intrdepth EXCEPT ![c] = LocksAt(pc'[t])]
    BY ThreadStepEffect
<1>2. t \in Threads /\ SemThread(t) /\ stack[c] = t /\ Home(t) = c
    BY <1>1, ThreadStepIsSem, ThreadMode, AtHome DEF KmtInv, SemInv
<1>3. /\ \A u \in Threads : u # t => pc'[u] = pc[u]
      /\ \A u \in Threads : lk'[u] = "save" <=> lk[u] = "save"
    BY <1>2, ThreadMoves
<1>4. \A d \in CPUs : mode[d] \in {"thread", "save", "saving"} /\ current[d] = t => d = c
    BY <1>2, AtHome, MainNoThread DEF KmtInv
<1>5. OnCpu(t)
    BY <1>1, <1>2 DEF OnCpu
<1> HIDE DEF t
<1>6. KmtTypeOK'
    <2>1. LocksAt(pc'[t]) \in Int
        BY DEF LocksAt
    <2> QED BY <1>1, <2>1 DEF KmtInv, KmtTypeOK, SemInv
<1>7. HomeStacks' /\ SaveOwnContext' /\ NoPanic'
    BY <1>1 DEF KmtInv, HomeStacks, SaveOwnContext, NoPanic
<1>8. \A d \in CPUs : ie'[d] => ie[d] /\ d # c
    BY <1>1 DEF KmtInv, KmtTypeOK
<1>9. \A d \in CPUs : d # c /\ mode[d] \in {"thread", "save", "saving"} /\ current[d] # Main
          => pc'[current[d]] = pc[current[d]]
    BY <1>3, <1>4, AtHome DEF KmtInv
<1>10. MaskInv'
    <2>1. \A d \in CPUs : ie'[d] => \/ mode[d] = "idle"
                                    \/ mode[d] = "thread" /\ pc'[current[d]] = "wait"
        BY <1>8, <1>9, ThreadMode DEF KmtInv, MaskInv, At
    <2> QED BY <1>1, <2>1 DEF KmtInv, MaskInv, At
<1>11. \A u \in Threads : ~OnCpu(u) => pc'[u] = pc[u]
    BY <1>3, <1>5
<1>12. \A u \in Threads : OnCpu(u)' <=> OnCpu(u)
    BY <1>1 DEF OnCpu
<1>13. TrapInv'
    BY <1>1, <1>9, <1>11, <1>12 DEF KmtInv, TrapInv, ResumePoint, At
<1>14. ContextFresh'
    BY <1>1, <1>11, <1>12 DEF KmtInv, ContextFresh, ResumePoint, At
<1>15. SavingInv'
    BY <1>1, <1>3 DEF KmtInv, SavingInv
<1>16. DepthCountsLocks'
    <2> SUFFICES ASSUME NEW d \in CPUs PROVE (intrdepth[d] = LocksOf(d))'
        BY DEF DepthCountsLocks
    <2>1. CASE d = c
        <3>1. intrdepth'[c] = LocksAt(pc'[t])
            BY <1>1 DEF KmtInv, KmtTypeOK
        <3> QED BY <1>1, <2>1, <3>1 DEF LocksOf, t
    <2>2. CASE d # c
        <3>1. intrdepth'[d] = intrdepth[d] /\ intrdepth[d] = LocksOf(d)
            BY <1>1, <2>2 DEF KmtInv, KmtTypeOK, DepthCountsLocks
        <3>2. mode[d] = "thread" => pc'[current[d]] = pc[current[d]]
            BY <1>9, <2>2, ThreadMode DEF KmtInv
        <3> QED BY <1>1, <3>1, <3>2 DEF LocksOf
    <2> QED BY <2>1, <2>2
<1> QED BY <1>6, <1>7, <1>10, <1>13, <1>14, <1>15, <1>16 DEF KmtInv

\* Steps between idle loop, thread and trap entry.
LEMMA RunEnableInv ==
    ASSUME SemInv', KmtInv, NEW c \in CPUs, RunEnable(c)
    PROVE  KmtInv'
<1>1. /\ mode[c] = "boot" /\ mode' = [mode EXCEPT ![c] = "idle"]
      /\ ie' = [ie EXCEPT ![c] = TRUE]
      /\ UNCHANGED <<pc, lk, current, stack, frame, round, intrdepth, intena, ctx, ct>>
    BY DEF RunEnable, semVars, taskVars
<1>2. KmtTypeOK'
    BY <1>1 DEF KmtInv, KmtTypeOK, SemInv, Modes
<1>3. HomeStacks' /\ SaveOwnContext' /\ NoPanic'
    BY <1>1 DEF KmtInv, KmtTypeOK, HomeStacks, SaveOwnContext, NoPanic
<1>4. MaskInv'
    BY <1>1 DEF KmtInv, KmtTypeOK, MaskInv, At
<1>5. \A u \in Threads : OnCpu(u)' <=> OnCpu(u)
    BY <1>1 DEF KmtInv, KmtTypeOK, OnCpu
<1>6. TrapInv' /\ ContextFresh'
    BY <1>1, <1>5 DEF KmtInv, KmtTypeOK, TrapInv, ContextFresh, ResumePoint, At
<1>7. SavingInv'
    BY <1>1 DEF KmtInv, KmtTypeOK, SavingInv
<1>8. DepthCountsLocks'
    BY <1>1 DEF KmtInv, KmtTypeOK, DepthCountsLocks, LocksOf
<1> QED BY <1>2, <1>3, <1>4, <1>6, <1>7, <1>8 DEF KmtInv

\* A trap pushes the context of the code it interrupts: that code is the idle
\* loop, a thread before its first lock, or the yield of a blocked thread.
LEMMA EnterTrapInv ==
    ASSUME SemInv', KmtInv, NEW c \in CPUs, NEW l \in PCs, EnterTrap(c, l),
           \/ mode[c] = "idle"
           \/ mode[c] = "thread" /\ ie[c] /\ l = pc[current[c]]
           \/ mode[c] = "thread" /\ At(current[c], "yield") /\ l = "print"
    PROVE  KmtInv'
<1>1. /\ mode' = [mode EXCEPT ![c] = "save"] /\ ie' = [ie EXCEPT ![c] = FALSE]
      /\ frame' = [frame EXCEPT ![c] = [pc |-> l, ie |-> ie[c]]]
      /\ UNCHANGED <<pc, lk, current, stack, round, intrdepth, intena, ctx, ct>>
    BY DEF EnterTrap, semVars, taskVars
<1>2. KmtTypeOK'
    BY <1>1 DEF KmtInv, KmtTypeOK, SemInv, Modes, Contexts
<1>3. HomeStacks' /\ SaveOwnContext' /\ NoPanic'
    BY <1>1 DEF KmtInv, KmtTypeOK, HomeStacks, SaveOwnContext, NoPanic
<1>4. frame'[c].pc = l /\ frame'[c].ie = ie[c]
    BY <1>1 DEF KmtInv, KmtTypeOK
<1>5. current[c] # Main => mode[c] = "thread"
    BY DEF KmtInv, HomeStacks
<1>6. ie[c] => mode[c] = "idle" \/ (mode[c] = "thread" /\ pc[current[c]] = "wait")
    BY DEF KmtInv, MaskInv, At
<1>7. MaskInv'
    <2>1. current[c] # Main /\ ie[c] => l = "wait"
        BY <1>5, <1>6 DEF At
    <2> QED BY <1>1, <1>4, <2>1 DEF KmtInv, KmtTypeOK, MaskInv, At
<1>8. \A u \in Threads : OnCpu(u)' <=> OnCpu(u)
    <2>1. mode[c] = "idle" => stack[c] \notin Threads
        BY MainNoThread DEF KmtInv, HomeStacks
    <2> QED BY <1>1, <2>1 DEF KmtInv, KmtTypeOK, OnCpu
<1>9. current[c] # Main => /\ pc[current[c]] \in Interruptible
                           /\ l = ResumePoint(current[c])
    BY <1>5, <1>6 DEF ResumePoint, At, Interruptible
<1>10. TrapInv'
    BY <1>1, <1>4, <1>8, <1>9 DEF KmtInv, KmtTypeOK, TrapInv, ResumePoint, At
<1>11. ContextFresh'
    BY <1>1, <1>8 DEF KmtInv, ContextFresh, ResumePoint, At
<1>12. SavingInv'
    BY <1>1 DEF KmtInv, KmtTypeOK, SavingInv
<1>13. DepthCountsLocks'
    <2>1. LocksOf(c) = 0
        BY <1>5, <1>9, ThreadMode DEF KmtInv, LocksOf, LocksAt
    <2> QED BY <1>1, <2>1 DEF KmtInv, KmtTypeOK, DepthCountsLocks, LocksOf
<1> QED BY <1>2, <1>3, <1>7, <1>10, <1>11, <1>12, <1>13 DEF KmtInv

\* It is kept by both ways into a trap: an interrupt and _yield().
LEMMA TrapEntryInv ==
    ASSUME SemInv, SemInv', KmtInv, NEW c \in CPUs, Interrupt(c) \/ Yield(c)
    PROVE  KmtInv'
<1>1. CASE mode[c] = "idle" /\ EnterTrap(c, frame[c].pc)
    <2>1. frame[c].pc \in PCs
        BY DEF KmtInv, KmtTypeOK, Contexts
    <2> QED BY <1>1, <2>1, EnterTrapInv
<1>2. CASE ie[c] /\ mode[c] = "thread" /\ EnterTrap(c, pc[current[c]])
    <2>1. pc[current[c]] \in PCs
        BY <1>2, ThreadMode, AtHome DEF KmtInv, SemInv, SemTypeOK
    <2> QED BY <1>2, <2>1, EnterTrapInv
<1>3. CASE Yield(c)
    <2>1. "print" \in PCs
        BY DEF PCs
    <2> QED BY <1>3, <2>1, EnterTrapInv DEF Yield
<1> QED BY <1>1, <1>2, <1>3 DEF Interrupt

\* It is kept when kmt_context_save takes the lock of the current task.
LEMMA SaveLockInv ==
    ASSUME SemInv, SemInv', KmtInv, NEW c \in CPUs, SaveLock(c)
    PROVE  KmtInv'
<1>1. /\ mode[c] = "save" /\ mode' = [mode EXCEPT ![c] = "saving"]
      /\ pc' = pc
      /\ UNCHANGED <<current, stack, frame, round, ctx, ct>>
      /\ PushCli(c)
    BY DEF SaveLock, SaveBegin, semVars, taskVars
<1>2. intrdepth[c] = 0 /\ ~ie[c] /\ intena[c] = 0
    BY <1>1 DEF KmtInv, DepthCountsLocks, LocksOf, MaskInv
<1>3. /\ ie' = ie /\ intena' = intena /\ intrdepth' = [intrdepth EXCEPT ![c] = 1]
    <2>1. MaskFlIf(IntrRead(c)) = 0
        BY DEF MaskFlIf, IntrRead
    <2> QED BY <1>1, <1>2, <2>1 DEF PushCli, KmtInv, KmtTypeOK
<1>4. /\ current[c] = Main => lk' = lk
      /\ current[c] # Main => lk[current[c]] = "free" /\ lk' = [lk EXCEPT ![current[c]] = "save"]
    BY DEF SaveLock, SaveBegin, semVars
<1>5. KmtTypeOK'
    BY <1>1, <1>3 DEF KmtInv, KmtTypeOK, SemInv, Modes
<1>6. HomeStacks' /\ SaveOwnContext' /\ NoPanic'
    BY <1>1 DEF KmtInv, KmtTypeOK, HomeStacks, SaveOwnContext, NoPanic
<1>7. MaskInv'
    BY <1>1, <1>2, <1>3 DEF KmtInv, KmtTypeOK, MaskInv, At
<1>8. \A u \in Threads : OnCpu(u)' <=> OnCpu(u)
    BY <1>1 DEF KmtInv, KmtTypeOK, OnCpu
<1>9. TrapInv' /\ ContextFresh'
    BY <1>1, <1>8 DEF KmtInv, KmtTypeOK, TrapInv, ContextFresh, ResumePoint, At
<1>10. SavingInv'
    <2>1. \A d \in CPUs : mode'[d] = "saving" <=> d = c \/ mode[d] = "saving"
        BY <1>1 DEF KmtInv, KmtTypeOK
    <2>2. CASE current[c] = Main
        BY <1>1, <1>4, <2>1, <2>2, MainNoThread DEF KmtInv, SavingInv
    <2>3. CASE current[c] # Main
        <3>1. \A u \in Threads : lk'[u] = "save" <=> u = current[c] \/ lk[u] = "save"
            BY <1>4, <2>3 DEF SemInv, SemTypeOK
        <3> QED BY <1>1, <2>1, <3>1 DEF KmtInv, SavingInv
    <2> QED BY <2>2, <2>3
<1>11. DepthCountsLocks'
    BY <1>1, <1>3 DEF KmtInv, KmtTypeOK, DepthCountsLocks, LocksOf
<1> QED BY <1>5, <1>6, <1>7, <1>9, <1>10, <1>11 DEF KmtInv

\* It is kept when kmt_context_save stores the context and releases the lock.
LEMMA SaveUnlockInv ==
    ASSUME SemInv, SemInv', KmtInv, NEW c \in CPUs, SaveUnlock(c)
    PROVE  KmtInv'
<1>1. /\ mode[c] = "saving" /\ pc' = pc
      /\ UNCHANGED <<current, stack, frame, ct>>
      /\ PopCli(c, "sched") /\ round' = [round EXCEPT ![c] = 0]
    BY DEF SaveUnlock, SaveEnd, semVars
<1>2. intrdepth[c] = 1 /\ ~ie[c] /\ intena[c] = 0
    BY <1>1 DEF KmtInv, DepthCountsLocks, LocksOf, MaskInv
<1>3. PopCliAsserts(c)
    BY <1>2 DEF PopCliAsserts, MaskFlIf, IntrRead
<1>4. /\ mode' = [mode EXCEPT ![c] = "sched"] /\ ie' = ie /\ intena' = intena
      /\ intrdepth' = [intrdepth EXCEPT ![c] = 0]
    BY <1>1, <1>2, <1>3 DEF PopCli, KmtInv, KmtTypeOK
<1>5. /\ current[c] = Main => lk' = lk /\ ctx' = ctx
      /\ current[c] # Main => /\ lk' = [lk EXCEPT ![current[c]] = "free"]
                              /\ ctx' = [ctx EXCEPT ![current[c]] = frame[c]]
    BY DEF SaveUnlock, SaveEnd, semVars
<1>6. ctx' \in [Threads -> Contexts]
    BY <1>5 DEF KmtInv, KmtTypeOK
<1>7. KmtTypeOK'
    <2>1. NCPU \in Nat
        BY KmtAssumption
    <2> QED BY <1>1, <1>4, <1>6, <2>1 DEF KmtInv, KmtTypeOK, SemInv, Modes
<1>8. HomeStacks' /\ SaveOwnContext' /\ NoPanic'
    BY <1>1, <1>4 DEF KmtInv, KmtTypeOK, HomeStacks, SaveOwnContext, NoPanic
<1>9. current[c] # Main => /\ current[c] \in Threads /\ stack[c] = current[c]
                           /\ pc[current[c]] \in Interruptible
                           /\ frame[c].pc = ResumePoint(current[c])
                           /\ frame[c].ie => frame[c].pc = "wait"
    BY <1>1, AtHome DEF KmtInv, TrapInv, MaskInv
<1>10. MaskInv'
    <2>1. \A u \in Threads : ctx'[u].ie => ctx'[u].pc = "wait"
        BY <1>5, <1>9 DEF KmtInv, KmtTypeOK, MaskInv
    <2> QED BY <1>1, <1>4, <2>1 DEF KmtInv, KmtTypeOK, MaskInv, At
<1>11. \A u \in Threads : OnCpu(u) /\ u # current[c] => OnCpu(u)'
    <2> SUFFICES ASSUME NEW u \in Threads, u # current[c],
                        NEW d \in CPUs, mode[d] \in {"thread", "save", "saving"}, stack[d] = u
                 PROVE  OnCpu(u)'
        BY DEF OnCpu
    <2>1. d # c
        BY <1>1 DEF KmtInv, SaveOwnContext
    <2> QED BY <1>1, <1>4, <2>1 DEF KmtInv, KmtTypeOK, OnCpu
<1>12. TrapInv'
    <2>1. \A u \in Threads : ~OnCpu(u)' => pc[u] \in Interruptible
        <3>1. \A u \in Threads : ~OnCpu(u) => pc[u] \in Interruptible
            BY DEF KmtInv, TrapInv
        <3> QED BY <1>9, <1>11, <3>1, MainNoThread
    <2> QED BY <1>1, <1>4, <2>1 DEF KmtInv, KmtTypeOK, TrapInv, ResumePoint, At
<1>13. ContextFresh'
    <2>1. \A u \in Threads : u # current[c] => ctx'[u] = ctx[u]
        BY <1>5 DEF KmtInv, KmtTypeOK
    <2>2. current[c] # Main => ctx'[current[c]] = frame[c]
        BY <1>5, <1>9 DEF KmtInv, KmtTypeOK
    <2>3. \A u \in Threads : ResumePoint(u)' = ResumePoint(u)
        BY <1>1 DEF ResumePoint, At
    <2> QED BY <1>9, <1>11, <2>1, <2>2, <2>3, MainNoThread DEF KmtInv, ContextFresh
<1>14. SavingInv'
    <2>1. \A d \in CPUs : mode'[d] = "saving" <=> d # c /\ mode[d] = "saving"
        BY <1>4 DEF KmtInv, KmtTypeOK
    <2>2. CASE current[c] = Main
        BY <1>1, <1>5, <2>1, <2>2, MainNoThread DEF KmtInv, SavingInv
    <2>3. CASE current[c] # Main
        <3>1. \A u \in Threads : lk'[u] = "save" <=> u # current[c] /\ lk[u] = "save"
            BY <1>5, <2>3 DEF SemInv, SemTypeOK
        <3>2. \A d \in CPUs : mode[d] = "saving" /\ current[d] = current[c] => d = c
            BY <1>1, <2>3, AtHome DEF KmtInv
        <3> QED BY <1>1, <2>1, <3>1, <3>2 DEF KmtInv, SavingInv
    <2> QED BY <2>2, <2>3
<1>15. DepthCountsLocks'
    BY <1>1, <1>4 DEF KmtInv, KmtTypeOK, DepthCountsLocks, LocksOf
<1> QED BY <1>7, <1>8, <1>10, <1>12, <1>13, <1>14, <1>15 DEF KmtInv

\* It is kept when kmt_schedule moves on to the next thread of the ring.
LEMMA SchedSkipInv ==
    ASSUME SemInv', KmtInv, NEW c \in CPUs, SchedSkip(c)
    PROVE  KmtInv'
<1>1. /\ mode[c] = "sched"
      /\ current' = [current EXCEPT ![c] = Candidate(c)]
      /\ round' = [round EXCEPT ![c] = IF @ < NCPU THEN @ + 1 ELSE @]
      /\ UNCHANGED <<pc, lk, mode, stack, frame, ie, intrdepth, intena, ctx, ct>>
    BY DEF SchedSkip, semVars, taskVars
<1>2. Candidate(c) \in Threads
    BY CandidateType DEF KmtInv
<1>3. KmtTypeOK'
    <2>1. NCPU \in Nat
        BY KmtAssumption
    <2>2. round' \in [CPUs -> 0 .. NCPU]
        BY <1>1, <2>1 DEF KmtInv, KmtTypeOK
    <2>3. current' \in [CPUs -> Tasks]
        BY <1>1, <1>2 DEF KmtInv, KmtTypeOK, Tasks
    <2> QED BY <1>1, <2>2, <2>3 DEF KmtInv, KmtTypeOK, SemInv
<1>4. \A d \in CPUs : d # c => current'[d] = current[d]
    BY <1>1 DEF KmtInv, KmtTypeOK
<1>5. HomeStacks' /\ SaveOwnContext' /\ NoPanic'
    BY <1>1, <1>4 DEF KmtInv, HomeStacks, SaveOwnContext, NoPanic
<1>6. \A d \in CPUs : ie[d] => d # c
    BY <1>1 DEF KmtInv, MaskInv
<1>7. MaskInv'
    BY <1>1, <1>4, <1>6 DEF KmtInv, MaskInv, At
<1>8. TrapInv' /\ ContextFresh'
    BY <1>1, <1>4 DEF KmtInv, TrapInv, ContextFresh, ResumePoint, At, OnCpu
<1>9. SavingInv'
    <2>1. \A d \in CPUs : mode[d] = "saving" => d # c /\ current'[d] = current[d]
        BY <1>1, <1>4
    <2> QED BY <1>1, <2>1 DEF KmtInv, SavingInv
<1>10. DepthCountsLocks'
    BY <1>1, <1>4 DEF KmtInv, DepthCountsLocks, LocksOf
<1> QED BY <1>3, <1>5, <1>7, <1>8, <1>9, <1>10 DEF KmtInv

\* It is kept when kmt_schedule picks a thread and the trap returns to it: the
\* test on the id means that no other processor is on the stack of that thread.
LEMMA SchedPickInv ==
    ASSUME SemInv, SemInv', KmtInv, NEW c \in CPUs, SchedPick(c)
    PROVE  KmtInv'
<1> DEFINE t == Candidate(c)
<1>1. /\ mode[c] = "sched" /\ Home(t) = c
      /\ current' = [current EXCEPT ![c] = t]
      /\ stack' = [stack EXCEPT ![c] = t]
      /\ round' = [round EXCEPT ![c] = 0]
      /\ ct' = [ct EXCEPT ![t] = IF @ < MaxCt THEN @ + 1 ELSE @]
      /\ pc' = [pc EXCEPT ![t] = ctx[t].pc]
      /\ ie' = [ie EXCEPT ![c] = ctx[t].ie]
      /\ mode' = [mode EXCEPT ![c] = "thread"]
      /\ UNCHANGED <<lk, frame, intrdepth, intena, ctx>>
    BY DEF SchedPick, Accepts
<1>2. t \in Threads
    BY CandidateType DEF KmtInv
<1> HIDE DEF t
<1>3. ~OnCpu(t) /\ lk[t] # "save"
    BY <1>1, <1>2, CandidateOff
<1>4. /\ ctx[t].pc = ResumePoint(t) /\ pc[t] \in Interruptible
      /\ ctx[t].ie => ctx[t].pc = "wait"
    BY <1>2, <1>3 DEF KmtInv, ContextFresh, TrapInv, MaskInv
<1>5. pc'[t] = ctx[t].pc /\ pc'[t] \in Interruptible
      /\ \A u \in Threads : u # t => pc'[u] = pc[u]
    BY <1>1, <1>2, <1>4 DEF SemInv, SemTypeOK, ResumePoint, At, Interruptible
<1>6. \A d \in CPUs : d # c => /\ current'[d] = current[d] /\ stack'[d] = stack[d]
                               /\ mode'[d] = mode[d] /\ ie'[d] = ie[d]
    BY <1>1 DEF KmtInv, KmtTypeOK
<1>7. mode'[c] = "thread" /\ current'[c] = t /\ stack'[c] = t /\ ie'[c] = ctx[t].ie
    BY <1>1 DEF KmtInv, KmtTypeOK
<1>8. KmtTypeOK'
    <2>1. NCPU \in Nat /\ MaxCt \in Nat
        BY KmtAssumption
    <2>2. round' \in [CPUs -> 0 .. NCPU] /\ ct' \in [Threads -> 0 .. MaxCt]
        <3>1. ct \in [Threads -> 0 .. MaxCt] /\ round \in [CPUs -> 0 .. NCPU]
            BY DEF KmtInv, KmtTypeOK
        <3>2. (IF ct[t] < MaxCt THEN ct[t] + 1 ELSE ct[t]) \in 0 .. MaxCt
            BY <1>2, <2>1, <3>1
        <3>3. ct' \in [Threads -> 0 .. MaxCt]
            BY <1>1, <3>1, <3>2
        <3>4. 0 \in 0 .. NCPU
            BY <2>1
        <3> QED BY <1>1, <3>1, <3>3, <3>4
    <2>3. current' \in [CPUs -> Tasks] /\ stack' \in [CPUs -> Tasks]
        BY <1>1, <1>2 DEF KmtInv, KmtTypeOK, Tasks
    <2>4. ctx[t].ie \in BOOLEAN
        BY <1>2 DEF KmtInv, KmtTypeOK, Contexts
    <2>5. ie' \in [CPUs -> BOOLEAN] /\ mode' \in [CPUs -> Modes]
        BY <1>1, <2>4 DEF KmtInv, KmtTypeOK, Modes
    <2> QED BY <1>1, <2>2, <2>3, <2>5 DEF KmtInv, KmtTypeOK, SemInv
<1>9. t # Main
    BY <1>2, MainNoThread
<1>10. HomeStacks' /\ SaveOwnContext' /\ NoPanic'
    BY <1>1, <1>6, <1>7, <1>9 DEF KmtInv, HomeStacks, SaveOwnContext, NoPanic
<1>11. \A d \in CPUs : d # c /\ mode[d] \in {"thread", "save", "saving"} /\ current[d] # Main
          => pc'[current[d]] = pc[current[d]]
    <2>1. \A d \in CPUs : mode[d] \in {"thread", "save", "saving"} => stack[d] # t
        BY <1>3 DEF OnCpu
    <2> QED BY <1>5, <2>1, AtHome DEF KmtInv
<1>12. MaskInv'
    <2>1. \A d \in CPUs : ie'[d] => \/ mode'[d] = "idle"
                                    \/ mode'[d] = "thread" /\ pc'[current'[d]] = "wait"
        BY <1>4, <1>5, <1>6, <1>7, <1>11, ThreadMode DEF KmtInv, MaskInv, At
    <2> QED BY <1>1, <1>6, <1>7, <2>1 DEF KmtInv, MaskInv, At
<1>13. \A u \in Threads : OnCpu(u)' <=> u = t \/ OnCpu(u)
    BY <1>1, <1>6, <1>7 DEF OnCpu
<1>14. \A u \in Threads : ~OnCpu(u)' => pc'[u] = pc[u]
    BY <1>5, <1>13
<1>15. TrapInv'
    <2>1. \A d \in CPUs : mode'[d] \in {"save", "saving"} => d # c
        BY <1>7
    <2> QED BY <1>1, <1>6, <1>11, <1>13, <1>14, <2>1 DEF KmtInv, TrapInv, ResumePoint, At
<1>16. ContextFresh'
    BY <1>1, <1>13, <1>14 DEF KmtInv, ContextFresh, ResumePoint, At
<1>17. SavingInv'
    <2>1. \A d \in CPUs : mode'[d] = "saving" <=> mode[d] = "saving"
        BY <1>1, <1>6, <1>7
    <2>2. \A d \in CPUs : mode[d] = "saving" => current'[d] = current[d]
        BY <1>1, <1>6
    <2> QED BY <1>1, <2>1, <2>2 DEF KmtInv, SavingInv
<1>18. DepthCountsLocks'
    <2> SUFFICES ASSUME NEW d \in CPUs PROVE (intrdepth[d] = LocksOf(d))'
        BY DEF DepthCountsLocks
    <2>1. intrdepth'[d] = intrdepth[d] /\ intrdepth[d] = LocksOf(d)
        BY <1>1 DEF KmtInv, DepthCountsLocks
    <2>2. CASE d = c
        BY <1>1, <1>5, <1>7, <2>1, <2>2 DEF LocksOf, LocksAt
    <2>3. CASE d # c
        <3>1. mode[d] = "thread" => pc'[current[d]] = pc[current[d]]
            BY <1>11, <2>3, ThreadMode DEF KmtInv
        <3> QED BY <1>6, <2>1, <2>3, <3>1 DEF LocksOf
    <2> QED BY <2>2, <2>3
<1> QED BY <1>8, <1>10, <1>12, <1>15, <1>16, <1>17, <1>18 DEF KmtInv

(***************************************************************************)
(* The theorems                                                            *)
(***************************************************************************)
\* Everything at once: the invariants of threads and of processors support
\* each other.
AllInv == SemInv /\ TaskLockOwner /\ KmtInv

\* The invariant holds when os_run starts.
LEMMA AllInvInit == KmtInit => AllInv
BY SemInvInit, OwnerInit, KmtInvInit DEF KmtInit, AllInv

\* The invariant of semaphores and processors together is inductive.
LEMMA AllInvStep == AllInv /\ [KmtNext]_kmtVars => AllInv'
<1> SUFFICES ASSUME AllInv, [KmtNext]_kmtVars PROVE AllInv'
    OBVIOUS
<1>1. [SemNext]_semVars
    BY CpuStepIsSem DEF AllInv
<1>2. SemInv'
    BY <1>1, SemInvStep DEF AllInv
<1>3. TaskLockOwner'
    BY <1>1, OwnerStepInv DEF AllInv, SemInv
<1>4. CASE UNCHANGED kmtVars
    <2>1. UNCHANGED <<pc, lk, mode, current, stack, frame, round, ie, intrdepth, intena, ctx, ct>>
        BY <1>4 DEF kmtVars, semVars, cpuVars, taskVars
    <2>2. KmtTypeOK'
        BY <1>2, <2>1 DEF AllInv, KmtInv, KmtTypeOK, SemInv
    <2>3. HomeStacks' /\ SaveOwnContext' /\ NoPanic' /\ MaskInv'
        BY <2>1 DEF AllInv, KmtInv, HomeStacks, SaveOwnContext, NoPanic, MaskInv, At
    <2>4. TrapInv' /\ ContextFresh' /\ SavingInv' /\ DepthCountsLocks'
        BY <2>1 DEF AllInv, KmtInv, TrapInv, ContextFresh, SavingInv, DepthCountsLocks,
                    OnCpu, ResumePoint, At, LocksOf
    <2> QED BY <1>2, <1>3, <2>2, <2>3, <2>4 DEF AllInv, KmtInv
<1>5. ASSUME NEW c \in CPUs, CpuStep(c) \/ Interrupt(c)
      PROVE  KmtInv'
    BY <1>2, <1>5, RunEnableInv, ThreadStepInv, TrapEntryInv, SaveLockInv, SaveUnlockInv,
       SchedSkipInv, SchedPickInv DEF AllInv, CpuStep, TrapStep
<1> QED BY <1>2, <1>3, <1>4, <1>5 DEF AllInv, KmtNext

\* The invariant of semaphores and processors holds in every state: locks, traps
\* and the scheduler on any number of processors and threads.
THEOREM KmtInvariant == KmtSpec => []AllInv
BY AllInvInit, AllInvStep, PTL DEF KmtSpec

\* The processors implement the interleaving semantics of Semaphore.
THEOREM KmtRefinesSemaphore == KmtSpec => SemRefinement
<1>1. KmtInit => SemInit
    BY DEF KmtInit
<1>2. AllInv /\ [KmtNext]_kmtVars => [SemNext]_semVars
    BY CpuStepIsSem DEF AllInv
<1> QED BY <1>1, <1>2, KmtInvariant, PTL DEF KmtSpec, SemRefinement, SemSpec

\* bracketcheck.c:24 for the whole kernel: the bound holds on any number of
\* processors, whatever is interrupted, saved and scheduled where.
THEOREM KmtBracketTheorem == KmtSpec => []BracketDepth
BY KmtRefinesSemaphore, BracketTheorem, PTL DEF SemRefinement

\* No two processors ever share the stack of a thread.
THEOREM StackTheorem == KmtSpec => []StackExclusive
<1>1. AllInv => StackExclusive
    BY DEF AllInv, KmtInv, HomeStacks, StackExclusive
<1> QED BY <1>1, KmtInvariant, PTL

\* The assertions of pop_cli (spinlock.c:17 and 19) never fail.
THEOREM NoPanicTheorem == KmtSpec => []NoPanic
<1>1. AllInv => NoPanic
    BY DEF AllInv, KmtInv
<1> QED BY <1>1, KmtInvariant, PTL

\* Interrupts are off wherever a lock is held or spun for.
THEOREM MaskTheorem == KmtSpec => []LockedMeansMasked
<1>1. AllInv => LockedMeansMasked
    BY DEF AllInv, KmtInv, MaskInv, LockedMeansMasked, LocksOf, LocksAt, Interruptible, At
<1> QED BY <1>1, KmtInvariant, PTL

\* kmt_schedule only ever hands out the latest context of a thread.
THEOREM ContextTheorem == KmtSpec => []ContextFresh
<1>1. AllInv => ContextFresh
    BY DEF AllInv, KmtInv
<1> QED BY <1>1, KmtInvariant, PTL

\* The invariant of the processors by itself: what a trap saves, who is on which stack and
\* which locks are counted fit together in every state.
THEOREM KmtInvTheorem == KmtSpec => []KmtInv
<1>1. AllInv => KmtInv
    BY DEF AllInv
<1> QED BY <1>1, KmtInvariant, PTL

\* intrdepth counts the locks of its processor, however many threads share it.
THEOREM DepthTheorem == KmtSpec => []DepthCountsLocks
<1>1. AllInv => DepthCountsLocks
    BY DEF AllInv, KmtInv
<1> QED BY <1>1, KmtInvariant, PTL

\* Interrupts are on in a thread only if its saved context has them on.
FromContext ==
    \A c \in CPUs :
        /\ mode[c] = "thread" /\ ie[c] => ctx[current[c]].ie
        /\ mode[c] \in {"save", "saving"} /\ current[c] # Main /\ frame[c].ie
              => ctx[current[c]].ie

\* Processors in a thread, or saving one, are in different threads.
LEMMA CurrentDiffers ==
    ASSUME AllInv, NEW c \in CPUs, NEW d \in CPUs, c # d, current[c] # Main,
           mode[c] \in {"thread", "save", "saving"}, mode[d] \in {"thread", "save", "saving"}
    PROVE  current[c] # current[d]
BY DEF AllInv, KmtInv, HomeStacks, SaveOwnContext

\* What a step of processor c leaves of the others, and what it does to contexts.
LEMMA OthersKept ==
    ASSUME AllInv, NEW c \in CPUs, CpuStep(c) \/ Interrupt(c), NEW d \in CPUs, d # c
    PROVE  /\ mode'[d] = mode[d] /\ ie'[d] = ie[d] /\ frame'[d] = frame[d]
           /\ current'[d] = current[d]
BY DEF AllInv, KmtInv, KmtTypeOK, CpuStep, Interrupt, RunEnable, ThreadStep, LockStep, UnlockStep,
       PlainStep, TrapStep, Yield, EnterTrap, SaveLock, SaveUnlock, SchedSkip, SchedPick, PushCli,
       PopCli, cpuVars

\* A context is only ever replaced by the frame of the trap that saves it.
LEMMA ContextChange ==
    ASSUME AllInv, NEW c \in CPUs, CpuStep(c) \/ Interrupt(c), NEW t \in Threads
    PROVE  \/ ctx'[t] = ctx[t]
           \/ /\ mode[c] = "saving" /\ current[c] = t /\ current[c] # Main
              /\ ctx'[t] = frame[c] /\ mode'[c] # "thread"
BY MainNoThread
   DEF AllInv, KmtInv, KmtTypeOK, CpuStep, Interrupt, RunEnable, ThreadStep, LockStep, UnlockStep,
       PlainStep, TrapStep, Yield, EnterTrap, SaveLock, SaveUnlock, SchedSkip, SchedPick, PopCli,
       taskVars
\* What a step of processor c does to its own interrupt flag.
LEMMA FlagChange ==
    ASSUME AllInv, NEW c \in CPUs, CpuStep(c) \/ Interrupt(c)
    PROVE  /\ mode'[c] = "thread" /\ mode[c] = "thread" =>
                 current'[c] = current[c] /\ (ie'[c] => ie[c])
           /\ mode'[c] = "thread" /\ mode[c] # "thread" =>
                 current'[c] \in Threads /\ ie'[c] = ctx[current'[c]].ie /\ ctx' = ctx
           /\ mode'[c] \in {"save", "saving"} =>
                 /\ current'[c] = current[c] /\ ctx' = ctx
                 /\ \/ mode[c] \in {"save", "saving"} /\ frame'[c] = frame[c]
                    \/ mode[c] = "thread" /\ frame'[c].ie = ie[c]
                    \/ mode[c] = "idle"
<1> USE DEF AllInv, KmtInv, KmtTypeOK
<1>1. CASE LockStep(c) \/ UnlockStep(c) \/ PlainStep(c)
    BY <1>1 DEF LockStep, UnlockStep, PlainStep, PushCli, PopCli, MaskInv, cpuVars, taskVars
<1>2. CASE Interrupt(c) \/ Yield(c)
    BY <1>2 DEF Interrupt, Yield, EnterTrap, taskVars
<1>3. CASE RunEnable(c) \/ SaveLock(c) \/ SaveUnlock(c) \/ SchedSkip(c)
    BY <1>3 DEF RunEnable, SaveLock, SaveUnlock, SchedSkip, PushCli, PopCli, taskVars
<1>4. CASE SchedPick(c)
    BY <1>4, CandidateType DEF SchedPick
<1> QED BY <1>1, <1>2, <1>3, <1>4 DEF CpuStep, ThreadStep, TrapStep

LEMMA FromContextStep == AllInv /\ FromContext /\ [KmtNext]_kmtVars => FromContext'
<1> SUFFICES ASSUME AllInv, FromContext, [KmtNext]_kmtVars PROVE FromContext'
    OBVIOUS
<1>1. CASE UNCHANGED kmtVars
    BY <1>1 DEF kmtVars, cpuVars, taskVars, FromContext
<1>2. ASSUME NEW c \in CPUs, CpuStep(c) \/ Interrupt(c) PROVE FromContext'
    <2>1. ASSUME NEW d \in CPUs, d # c
          PROVE  /\ mode'[d] = "thread" /\ ie'[d] => ctx'[current'[d]].ie
                 /\ mode'[d] \in {"save", "saving"} /\ current'[d] # Main /\ frame'[d].ie
                       => ctx'[current'[d]].ie
        <3>1. /\ mode'[d] = mode[d] /\ ie'[d] = ie[d] /\ frame'[d] = frame[d]
              /\ current'[d] = current[d]
            BY <1>2, <2>1, OthersKept
        <3>2. ASSUME mode[d] \in {"thread", "save", "saving"}, current[d] # Main
              PROVE  ctx'[current[d]] = ctx[current[d]]
            <4>1. current[d] \in Threads
                BY <3>2 DEF AllInv, KmtInv, KmtTypeOK, Tasks
            <4>2. ~(mode[c] = "saving" /\ current[c] = current[d])
                BY <2>1, <3>2, CurrentDiffers
            <4> QED BY <1>2, <4>1, <4>2, ContextChange
        <3>3. mode[d] = "thread" => current[d] # Main
            BY ThreadMode DEF AllInv, KmtInv
        <3> QED BY <3>1, <3>2, <3>3 DEF FromContext
    <2>2. mode'[c] = "thread" /\ ie'[c] => ctx'[current'[c]].ie
        <3> SUFFICES ASSUME mode'[c] = "thread", ie'[c] PROVE ctx'[current'[c]].ie
            OBVIOUS
        <3>1. CASE mode[c] = "thread"
            <4>1. current'[c] = current[c] /\ ctx[current[c]].ie
                BY <1>2, <3>1, FlagChange DEF FromContext
            <4>2. current[c] \in Threads
                BY <3>1, ThreadMode DEF AllInv, KmtInv, KmtTypeOK, Tasks
            <4>3. ctx'[current[c]] = ctx[current[c]]
                BY <1>2, <3>1, <4>2, ContextChange
            <4> QED BY <4>1, <4>3
        <3>2. CASE mode[c] # "thread"
            BY <1>2, <3>2, FlagChange
        <3> QED BY <3>1, <3>2
    <2>3. mode'[c] \in {"save", "saving"} /\ current'[c] # Main /\ frame'[c].ie
             => ctx'[current'[c]].ie
        <3> SUFFICES ASSUME mode'[c] \in {"save", "saving"}, current'[c] # Main, frame'[c].ie
                     PROVE  ctx'[current'[c]].ie
            OBVIOUS
        <3>1. /\ current'[c] = current[c] /\ ctx' = ctx
              /\ \/ mode[c] \in {"save", "saving"} /\ frame'[c] = frame[c]
                 \/ mode[c] = "thread" /\ frame'[c].ie = ie[c]
                 \/ mode[c] = "idle"
            BY <1>2, FlagChange
        <3>2. mode[c] # "idle"
            BY <3>1 DEF AllInv, KmtInv, HomeStacks
        <3> QED BY <3>1, <3>2 DEF FromContext
    <2> QED BY <2>1, <2>2, <2>3 DEF FromContext
<1> QED BY <1>1, <1>2 DEF KmtNext

\* What the mask of push_cli and pop_cli comes to, on any number of processors: interrupts
\* never come back on in a thread, and no context is saved that would turn them on.
THEOREM OnceOffTheorem == KmtSpec => OnceOffAlwaysOff
<1> DEFINE Off ==
        /\ \A c \in CPUs : mode[c] = "thread" /\ mode'[c] = "thread" /\ ie'[c] => ie[c]
        /\ \A t \in Threads : ctx'[t].ie => ctx[t].ie
<1>1. KmtInit => FromContext
    BY DEF KmtInit, FromContext
<1>2. AllInv /\ FromContext /\ [KmtNext]_kmtVars => [Off]_kmtVars
    <2> SUFFICES ASSUME AllInv, FromContext, NEW c \in CPUs, CpuStep(c) \/ Interrupt(c)
                 PROVE  Off
        BY DEF KmtNext
    <2>1. ASSUME NEW d \in CPUs, mode[d] = "thread", mode'[d] = "thread", ie'[d] PROVE ie[d]
        BY <2>1, OthersKept, FlagChange
    <2>2. ASSUME NEW t \in Threads, ctx'[t].ie PROVE ctx[t].ie
        BY <2>2, ContextChange DEF FromContext
    <2> QED BY <2>1, <2>2
<1> QED BY <1>1, <1>2, FromContextStep, KmtInvariant, PTL DEF KmtSpec, OnceOffAlwaysOff

\* semaphore.c:64: whoever goes on behind a blocking P has been taken off the waiters, on the
\* processors as in the interleavings of Semaphore.
THEOREM KmtResumeTheorem == KmtSpec => ResumeOnlyIfWoken
BY KmtRefinesSemaphore, ResumeTheorem, PTL DEF SemRefinement
=============================================================================
