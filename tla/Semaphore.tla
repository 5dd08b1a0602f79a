------------------------------ MODULE Semaphore ------------------------------
(***************************************************************************)
(* The semaphores of kernel/src/semaphore.c, used by its producer and      *)
(* consumer threads.  Threads interleave at every lock operation of        *)
(* sem_wait and sem_signal; which thread a processor runs is left open     *)
(* here (Kmt.tla adds processors, traps and the scheduler).                *)
(*                                                                         *)
(* A thread's pc names the next thing it does:                             *)
(*                                                                         *)
(*   wait        call sem_wait: push_cli of sp_lock(&sem->lock)            *)
(*   wait_acq    spin on sem->lock                                         *)
(*   wait_dec    --sem->val<0                                              *)
(*   wait_lk     spin on current->lk                                       *)
(*   wait_block  status, waiter[], release of current->lk                  *)
(*   block_rel   release sem->lock, having blocked                         *)
(*   yield       _yield(), or asleep in it                                 *)
(*   wait_rel    release sem->lock, not having blocked                     *)
(*   print       printf("(") or printf(")")                                *)
(*   sig         call sem_signal: push_cli of sp_lock(&sem->lock)          *)
(*   sig_acq     spin on sem->lock                                         *)
(*   sig_inc     val+1 and the choice of a waiter                          *)
(*   sig_lk      spin on the lock of the chosen waiter                     *)
(*   sig_wake    set its status to T_READY                                 *)
(*   sig_unlk    release its lock                                          *)
(*   sig_rm      shift of waiter[]                                         *)
(*   sig_rel     release sem->lock                                         *)
(***************************************************************************)
EXTENDS Integers, Sequences, FiniteSets

CONSTANTS
    Producers,      \* threads running producer()
    Consumers,      \* threads running consumer()
    BufSize,        \* initial value of `empty' (5 in kmt_init)
    NoThread        \* owner of a lock nobody holds

ASSUME ThreadAssumption ==
    /\ IsFiniteSet(Producers) /\ IsFiniteSet(Consumers)
    /\ Producers \cap Consumers = {}
    /\ NoThread \notin Producers \cup Consumers
ASSUME BufSizeAssumption == BufSize \in Nat \ {0}

VARIABLES
    pc,         \* pc[t]: see above
    val,        \* sem->val
    waiter,     \* sem->waiter[0..wnum-1]
    semlock,    \* sem->lock: the thread that holds it
    lk,         \* task->lk: who holds it, see LkHolders
    status,     \* task->status
    pick,       \* `no' of the sem_signal a thread is in, 0 outside of it
    bra         \* number of '(' minus number of ')' printed so far

semVars == <<pc, val, waiter, semlock, lk, status, pick, bra>>

Threads == Producers \cup Consumers
Sems == {"empty", "fill"}

\* The semaphore a thread's P() takes from and the one its V() gives to.
TakesFrom(t) == IF t \in Producers THEN "empty" ELSE "fill"
GivesTo(t) == IF t \in Producers THEN "fill" ELSE "empty"

\* A task's lock is held by sem_wait of the task itself, by the sem_signal
\* that wakes it, or by kmt_context_save on the processor that runs it.
LkHolders == {"free", "wait", "signal", "save"}

PCs == {"wait", "wait_acq", "wait_dec", "wait_lk", "wait_block", "block_rel",
        "yield", "wait_rel", "print", "sig", "sig_acq", "sig_inc", "sig_lk",
        "sig_wake", "sig_unlk", "sig_rm", "sig_rel"}

\* Outside of sp_lock ... sp_unlock: the only places where interrupts can be
\* enabled, hence where a thread can be inside the trap handler.
Interruptible == {"wait", "yield", "print", "sig"}

At(t, l) == pc[t] = l
Goto(t, l) == pc' = [pc EXCEPT ![t] = l]

\* Faulty variant of Shifted: the loop starts one entry too late.
ShiftedLate(w, no) ==
    [i \in 1 .. Len(w) - 1 |-> IF i <= no THEN w[i] ELSE w[i + 1]]

\* sem->waiter after the loop that shifts down everything behind entry no.
Shifted(w, no) ==
    [i \in 1 .. Len(w) - 1 |-> IF i < no THEN w[i] ELSE w[i + 1]]

\* The thread a signalling thread has chosen to wake.
Target(t) == waiter[GivesTo(t)][pick[t]]
------------------------------------------------------------------------------
SemInit ==
    /\ pc = [t \in Threads |-> "wait"]
    /\ val = [s \in Sems |-> IF s = "empty" THEN BufSize ELSE 0]
    /\ waiter = [s \in Sems |-> << >>]
    /\ semlock = [s \in Sems |-> NoThread]
    /\ lk = [t \in Threads |-> "free"]
    /\ status = [t \in Threads |-> "READY"]
    /\ pick = [t \in Threads |-> 0]
    /\ bra = 0

\* A thread runs its own code only while it is not being trapped.
Running(t) == lk[t] # "save"

(***************************************************************************)
(* sem_wait                                                                *)
(***************************************************************************)
WaitEnter(t) ==
    /\ At(t, "wait") /\ Running(t)
    /\ Goto(t, "wait_acq")
    /\ UNCHANGED <<val, waiter, semlock, lk, status, pick, bra>>

WaitAcquire(t) ==
    /\ At(t, "wait_acq")
    /\ semlock[TakesFrom(t)] = NoThread
    /\ semlock' = [semlock EXCEPT ![TakesFrom(t)] = t]
    /\ Goto(t, "wait_dec")
    /\ UNCHANGED <<val, waiter, lk, status, pick, bra>>

\* Faulty variant of WaitDec: the last unit is given out twice.
WaitDecLate(t) ==
    /\ At(t, "wait_dec")
    /\ val' = [val EXCEPT ![TakesFrom(t)] = @ - 1]
    /\ Goto(t, IF val'[TakesFrom(t)] < -1 THEN "wait_lk" ELSE "wait_rel")
    /\ UNCHANGED <<waiter, semlock, lk, status, pick, bra>>

WaitDec(t) ==
    /\ At(t, "wait_dec")
    /\ val' = [val EXCEPT ![TakesFrom(t)] = @ - 1]
    /\ Goto(t, IF val'[TakesFrom(t)] < 0 THEN "wait_lk" ELSE "wait_rel")
    /\ UNCHANGED <<waiter, semlock, lk, status, pick, bra>>

WaitLock(t) ==
    /\ At(t, "wait_lk")
    /\ lk[t] = "free"
    /\ lk' = [lk EXCEPT ![t] = "wait"]
    /\ Goto(t, "wait_block")
    /\ UNCHANGED <<val, waiter, semlock, status, pick, bra>>

WaitBlock(t) ==
    /\ At(t, "wait_block")
    /\ status' = [status EXCEPT ![t] = "WAITING"]
    /\ waiter' = [waiter EXCEPT ![TakesFrom(t)] = Append(@, t)]
    /\ lk' = [lk EXCEPT ![t] = "free"]
    /\ Goto(t, "block_rel")
    /\ UNCHANGED <<val, semlock, pick, bra>>

\* Both unlocks of sem_wait; after the blocking one the thread yields.
WaitRelease(t) ==
    /\ pc[t] \in {"wait_rel", "block_rel"}
    /\ semlock' = [semlock EXCEPT ![TakesFrom(t)] = NoThread]
    /\ Goto(t, IF At(t, "wait_rel") THEN "print" ELSE "yield")
    /\ UNCHANGED <<val, waiter, lk, status, pick, bra>>

\* Faulty variant of Resume: the scheduler ignores T_WAITING.
ResumeEarly(t) ==
    /\ At(t, "yield") /\ Running(t)
    /\ Goto(t, "print")
    /\ UNCHANGED <<val, waiter, semlock, lk, status, pick, bra>>

\* _yield() returns: the scheduler only ever picks threads that are T_READY.
Resume(t) ==
    /\ At(t, "yield") /\ Running(t)
    /\ status[t] = "READY"
    /\ Goto(t, "print")
    /\ UNCHANGED <<val, waiter, semlock, lk, status, pick, bra>>

(***************************************************************************)
(* The body of producer() and consumer() between P and V.                  *)
(***************************************************************************)
PrintBracket(t) ==
    /\ At(t, "print") /\ Running(t)
    /\ bra' = IF t \in Producers THEN bra + 1 ELSE bra - 1
    /\ Goto(t, "sig")
    /\ UNCHANGED <<val, waiter, semlock, lk, status, pick>>

(***************************************************************************)
(* sem_signal                                                              *)
(***************************************************************************)
SigEnter(t) ==
    /\ At(t, "sig") /\ Running(t)
    /\ Goto(t, "sig_acq")
    /\ UNCHANGED <<val, waiter, semlock, lk, status, pick, bra>>

SigAcquire(t) ==
    /\ At(t, "sig_acq")
    /\ semlock[GivesTo(t)] = NoThread
    /\ semlock' = [semlock EXCEPT ![GivesTo(t)] = t]
    /\ Goto(t, "sig_inc")
    /\ UNCHANGED <<val, waiter, lk, status, pick, bra>>

\* Faulty variant of SigInc: a single waiter is overlooked.
SigIncLosesOne(t, no) ==
    /\ At(t, "sig_inc")
    /\ val' = [val EXCEPT ![GivesTo(t)] = @ + 1]
    /\ IF Len(waiter[GivesTo(t)]) > 1
         THEN no \in 1 .. Len(waiter[GivesTo(t)]) /\ Goto(t, "sig_lk")
         ELSE Goto(t, "sig_rel")
    /\ pick' = [pick EXCEPT ![t] = IF Len(waiter[GivesTo(t)]) > 1 THEN no ELSE 0]
    /\ UNCHANGED <<waiter, semlock, lk, status, bra>>

\* val+1; if there are waiters, no is the index of the one to wake.  The code
\* takes the one scheduled least often (Kmt.tla); here it may be any.
SigInc(t, no) ==
    /\ At(t, "sig_inc")
    /\ val' = [val EXCEPT ![GivesTo(t)] = @ + 1]
    /\ IF Len(waiter[GivesTo(t)]) > 0
         THEN /\ no \in 1 .. Len(waiter[GivesTo(t)])
              /\ Goto(t, "sig_lk")
         ELSE /\ no = 0
              /\ Goto(t, "sig_rel")
    /\ pick' = [pick EXCEPT ![t] = no]
    /\ UNCHANGED <<waiter, semlock, lk, status, bra>>

SigLock(t) ==
    /\ At(t, "sig_lk")
    /\ lk[Target(t)] = "free"
    /\ lk' = [lk EXCEPT ![Target(t)] = "signal"]
    /\ Goto(t, "sig_wake")
    /\ UNCHANGED <<val, waiter, semlock, status, pick, bra>>

\* Faulty variant of SigWake: the first waiter instead of the chosen one.
SigWakeFirst(t) ==
    /\ At(t, "sig_wake")
    /\ status' = [status EXCEPT ![Head(waiter[GivesTo(t)])] = "READY"]
    /\ Goto(t, "sig_unlk")
    /\ UNCHANGED <<val, waiter, semlock, lk, pick, bra>>

SigWake(t) ==
    /\ At(t, "sig_wake")
    /\ status' = [status EXCEPT ![Target(t)] = "READY"]
    /\ Goto(t, "sig_unlk")
    /\ UNCHANGED <<val, waiter, semlock, lk, pick, bra>>

\* The woken thread may run already: kmt_schedule reads status without lk.
SigUnlock(t) ==
    /\ At(t, "sig_unlk")
    /\ lk' = [lk EXCEPT ![Target(t)] = "free"]
    /\ Goto(t, "sig_rm")
    /\ UNCHANGED <<val, waiter, semlock, status, pick, bra>>

SigRemove(t) ==
    /\ At(t, "sig_rm")
    /\ waiter' = [waiter EXCEPT ![GivesTo(t)] = Shifted(@, pick[t])]
    /\ pick' = [pick EXCEPT ![t] = 0]
    /\ Goto(t, "sig_rel")
    /\ UNCHANGED <<val, semlock, lk, status, bra>>

SigRelease(t) ==
    /\ At(t, "sig_rel")
    /\ semlock' = [semlock EXCEPT ![GivesTo(t)] = NoThread]
    /\ Goto(t, "wait")
    /\ UNCHANGED <<val, waiter, lk, status, pick, bra>>

(***************************************************************************)
(* The trap handler on the processor that runs t: kmt_context_save takes   *)
(* current->lk, so it contends with the sem_signal that wakes t.           *)
(***************************************************************************)
SaveBegin(t) ==
    /\ pc[t] \in Interruptible
    /\ lk[t] = "free"
    /\ lk' = [lk EXCEPT ![t] = "save"]
    /\ UNCHANGED <<pc, val, waiter, semlock, status, pick, bra>>

SaveEnd(t) ==
    /\ lk[t] = "save"
    /\ lk' = [lk EXCEPT ![t] = "free"]
    /\ UNCHANGED <<pc, val, waiter, semlock, status, pick, bra>>
------------------------------------------------------------------------------
SemWait(t) ==
    \/ WaitEnter(t) \/ WaitAcquire(t) \/ WaitDec(t) \/ WaitLock(t)
    \/ WaitBlock(t) \/ WaitRelease(t) \/ Resume(t)

SemSignal(t) ==
    \/ SigEnter(t) \/ SigAcquire(t)
    \/ \E no \in 0 .. Len(waiter[GivesTo(t)]) : SigInc(t, no)
    \/ SigLock(t) \/ SigWake(t) \/ SigUnlock(t) \/ SigRemove(t)
    \/ SigRelease(t)

SemThread(t) == SemWait(t) \/ PrintBracket(t) \/ SemSignal(t)

SemNext == \E t \in Threads : SemThread(t) \/ SaveBegin(t) \/ SaveEnd(t)

SemSpec == SemInit /\ [][SemNext]_semVars
------------------------------------------------------------------------------
(***************************************************************************)
(* Properties                                                              *)
(***************************************************************************)
\* The types of the state of the semaphores and their threads.
SemTypeOK ==
    /\ pc \in [Threads -> PCs]
    /\ val \in [Sems -> Int]
    /\ waiter \in [Sems -> Seq(Threads)]
    /\ semlock \in [Sems -> Threads \cup {NoThread}]
    /\ lk \in [Threads -> LkHolders]
    /\ status \in [Threads -> {"READY", "WAITING"}]
    /\ pick \in [Threads -> Nat]
    /\ bra \in Int

\* Program points between the acquisition and the release of sem->lock.
WaitHolds == {"wait_dec", "wait_lk", "wait_block", "block_rel", "wait_rel"}
SigHolds == {"sig_inc", "sig_lk", "sig_wake", "sig_unlk", "sig_rm", "sig_rel"}

\* Whoever is between the lock and the unlock of a semaphore owns its lock
\* word, and the word is free when nobody is: xchg in sp_lock and sp_unlock
\* excludes sem_wait and sem_signal on the same semaphore from each other.
LockInv ==
    /\ \A t \in Threads :
          /\ pc[t] \in WaitHolds <=> semlock[TakesFrom(t)] = t
          /\ pc[t] \in SigHolds <=> semlock[GivesTo(t)] = t

\* A thread is T_WAITING only from its own sem_wait up to the sem_signal that
\* wakes it.
StatusInv ==
    \A t \in Threads : status[t] = "WAITING" => pc[t] \in {"block_rel", "yield"}

\* The index sem_signal chose before the wake-up stays an index of waiter[].
PickInv ==
    \A t \in Threads :
        pc[t] \in {"sig_lk", "sig_wake", "sig_unlk", "sig_rm"}
            => pick[t] \in 1 .. Len(waiter[GivesTo(t)])

\* waiter[s][i] is being taken out: its thread is awake already.
LeavingAt(s, i) ==
    \E g \in Threads : /\ GivesTo(g) = s /\ pick[g] = i
                       /\ pc[g] \in {"sig_unlk", "sig_rm"}

\* waiter[] lists the sleepers of the semaphore, each once, and the thread
\* that a sem_signal between its wake-up and its shift loop has just woken:
\* no thread is asleep and unlisted, none is listed twice or while awake.
WaitersListed ==
    \A s \in Sems :
        /\ \A i, j \in 1 .. Len(waiter[s]) : waiter[s][i] = waiter[s][j] => i = j
        /\ \A i \in 1 .. Len(waiter[s]) :
              /\ TakesFrom(waiter[s][i]) = s
              /\ status[waiter[s][i]] = "WAITING" \/ LeavingAt(s, i)
        /\ \A t \in Threads : (TakesFrom(t) = s /\ status[t] = "WAITING") =>
              \E i \in 1 .. Len(waiter[s]) : waiter[s][i] = t /\ ~LeavingAt(s, i)

\* Asleep in sem_wait, or bound to be.
Blocked(s) == {t \in Threads : /\ TakesFrom(t) = s
                               /\ \/ pc[t] \in {"wait_lk", "wait_block"}
                                  \/ status[t] = "WAITING"}
\* In sem_signal, with one of them chosen but not awake yet.
WakingAt == {"sig_lk", "sig_wake"}
Waking(s) == {t \in Threads : GivesTo(t) = s /\ pc[t] \in WakingAt}

\* No wake-up is lost and none is spent twice: a negative val counts the
\* threads blocked on the semaphore, the ones being woken right now apart.
SleepCount ==
    \A s \in Sems :
        Cardinality(Blocked(s)) =
            (IF val[s] < 0 THEN -val[s] ELSE 0) + Cardinality(Waking(s))

\* Past the decrement of sem_wait, bracket not printed yet.
TakenAt == {"wait_lk", "wait_block", "block_rel", "yield", "wait_rel", "print"}
Taken(s) == {t \in Threads : TakesFrom(t) = s /\ pc[t] \in TakenAt}

\* Bracket printed, increment of sem_signal still to come.
OwedAt == {"sig", "sig_acq", "sig_inc"}
Owed(s) == {t \in Threads : GivesTo(t) = s /\ pc[t] \in OwedAt}

\* What a semaphore counts: the brackets its takers may still print.
Resource(s) == IF s = "fill" THEN bra ELSE BufSize - bra

\* Conservation: val plus the units threads hold in flight is the number of
\* brackets that may still be printed.
Balance ==
    \A s \in Sems :
        Resource(s) = val[s] + Cardinality(Taken(s)) + Cardinality(Owed(s))

\* The inductive invariant: what makes BracketDepth hold after every step.
SemInv ==
    /\ SemTypeOK
    /\ LockInv
    /\ StatusInv
    /\ PickInv
    /\ WaitersListed
    /\ SleepCount
    /\ Balance

\* bracketcheck.c:24 assert(bra>=0&&bra<=5): the depth of the printed brackets
\* never leaves the capacity of the buffer, whatever the interleaving.
BracketDepth == bra >= 0 /\ bra <= BufSize

\* The sequence of brackets the threads print is one bracketcheck.c accepts:
\* the semaphores implement the bounded counter of BracketCheck.
BC == INSTANCE BracketCheck WITH MaxDepth <- BufSize, depth <- bra
BracketSpec == BC!Spec

\* The lock of a task (kmt.c:93, semaphore.c:56, semaphore.c:92) has one holder
\* at a time, known from the program counters: the task's own sem_wait, one
\* sem_signal that wakes it, or the trap handler outside critical sections.
TaskLockOwner ==
    \A t \in Threads :
        /\ lk[t] = "wait" <=> At(t, "wait_block")
        /\ lk[t] = "signal" <=>
              \E g \in Threads : pc[g] \in {"sig_wake", "sig_unlk"} /\ Target(g) = t
        /\ lk[t] = "save" => pc[t] \in Interruptible

\* A thread leaves the yield of a blocking sem_wait (semaphore.c:64) only after
\* a sem_signal took it off waiter[] or is about to: never with its own entry
\* still standing for a later sem_signal to wake.
ResumeOnlyIfWoken ==
    [][\A t \in Threads : At(t, "yield") /\ pc'[t] = "print" =>
          \A i \in 1 .. Len(waiter[TakesFrom(t)]) :
             waiter[TakesFrom(t)][i] = t => LeavingAt(TakesFrom(t), i)]_semVars
=============================================================================
