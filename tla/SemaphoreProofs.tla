--------------------------- MODULE SemaphoreProofs ---------------------------
(***************************************************************************)
(* The bracket theorem of Semaphore for any number of producers and        *)
(* consumers and any buffer size.                                          *)
(***************************************************************************)
EXTENDS Semaphore, FiniteSetTheorems, SequenceTheorems, TLAPS

(***************************************************************************)
(* Counting                                                                *)
(***************************************************************************)
LEMMA ThreadsFinite == IsFiniteSet(Threads)
BY ThreadAssumption, FS_Union DEF Threads

\* Two sets of threads that differ in t at most: how their sizes relate.
LEMMA CountDiff ==
    ASSUME NEW A \in SUBSET Threads, NEW B \in SUBSET Threads, NEW t,
           A \ {t} = B \ {t}
    PROVE  /\ Cardinality(A) \in Nat
           /\ Cardinality(B) \in Nat
           /\ Cardinality(B) = Cardinality(A) + (IF t \in B THEN 1 ELSE 0)
                                              - (IF t \in A THEN 1 ELSE 0)
<1>1. IsFiniteSet(A) /\ IsFiniteSet(B)
    BY ThreadsFinite, FS_Subset
<1>2. Cardinality(A) \in Nat /\ Cardinality(B) \in Nat
    BY <1>1, FS_CardinalityType
<1>3. Cardinality(A \ {t}) = IF t \in A THEN Cardinality(A) - 1 ELSE Cardinality(A)
    BY <1>1, FS_RemoveElement
<1>4. Cardinality(B \ {t}) = IF t \in B THEN Cardinality(B) - 1 ELSE Cardinality(B)
    BY <1>1, FS_RemoveElement
<1> QED BY <1>2, <1>3, <1>4

\* What a step of the program counter of t does to the number of threads at
\* given program points that take from, or give to, a semaphore.
LEMMA TakenStep ==
    ASSUME NEW t \in Threads, NEW l \in PCs, NEW s \in Sems,
           SemTypeOK, Goto(t, l)
    PROVE  /\ Cardinality(Taken(s)) \in Nat
           /\ Cardinality(Taken(s)') \in Nat
           /\ Cardinality(Taken(s)') = Cardinality(Taken(s))
                + (IF TakesFrom(t) = s /\ l \in TakenAt THEN 1 ELSE 0)
                - (IF TakesFrom(t) = s /\ pc[t] \in TakenAt THEN 1 ELSE 0)
<1>1. Taken(s) \in SUBSET Threads /\ Taken(s)' \in SUBSET Threads
    BY DEF Taken
<1>2. Taken(s) \ {t} = Taken(s)' \ {t}
    BY DEF Taken, Goto, SemTypeOK
<1>3. (t \in Taken(s) <=> TakesFrom(t) = s /\ pc[t] \in TakenAt)
      /\ (t \in Taken(s)' <=> TakesFrom(t) = s /\ l \in TakenAt)
    BY DEF Taken, Goto, SemTypeOK
<1>4. /\ Cardinality(Taken(s)) \in Nat
      /\ Cardinality(Taken(s)') \in Nat
      /\ Cardinality(Taken(s)') = Cardinality(Taken(s))
           + (IF t \in Taken(s)' THEN 1 ELSE 0) - (IF t \in Taken(s) THEN 1 ELSE 0)
    BY <1>1, <1>2, CountDiff
<1> QED BY <1>3, <1>4

\* A step of one thread moves it into or out of the set of those that owe an
\* increment to a semaphore, and nobody else.
LEMMA OwedStep ==
    ASSUME NEW t \in Threads, NEW l \in PCs, NEW s \in Sems,
           SemTypeOK, Goto(t, l)
    PROVE  /\ Cardinality(Owed(s)) \in Nat
           /\ Cardinality(Owed(s)') \in Nat
           /\ Cardinality(Owed(s)') = Cardinality(Owed(s))
                + (IF GivesTo(t) = s /\ l \in OwedAt THEN 1 ELSE 0)
                - (IF GivesTo(t) = s /\ pc[t] \in OwedAt THEN 1 ELSE 0)
<1>1. Owed(s) \in SUBSET Threads /\ Owed(s)' \in SUBSET Threads
    BY DEF Owed
<1>2. Owed(s) \ {t} = Owed(s)' \ {t}
    BY DEF Owed, Goto, SemTypeOK
<1>3. (t \in Owed(s) <=> GivesTo(t) = s /\ pc[t] \in OwedAt)
      /\ (t \in Owed(s)' <=> GivesTo(t) = s /\ l \in OwedAt)
    BY DEF Owed, Goto, SemTypeOK
<1>4. /\ Cardinality(Owed(s)) \in Nat
      /\ Cardinality(Owed(s)') \in Nat
      /\ Cardinality(Owed(s)') = Cardinality(Owed(s))
           + (IF t \in Owed(s)' THEN 1 ELSE 0) - (IF t \in Owed(s) THEN 1 ELSE 0)
    BY <1>1, <1>2, CountDiff
<1> QED BY <1>3, <1>4

\* The same for the set of threads that are waking a sleeper.
LEMMA WakingStep ==
    ASSUME NEW t \in Threads, NEW l \in PCs, NEW s \in Sems,
           SemTypeOK, Goto(t, l)
    PROVE  /\ Cardinality(Waking(s)) \in Nat
           /\ Cardinality(Waking(s)') \in Nat
           /\ Cardinality(Waking(s)') = Cardinality(Waking(s))
                + (IF GivesTo(t) = s /\ l \in WakingAt THEN 1 ELSE 0)
                - (IF GivesTo(t) = s /\ pc[t] \in WakingAt THEN 1 ELSE 0)
<1>1. Waking(s) \in SUBSET Threads /\ Waking(s)' \in SUBSET Threads
    BY DEF Waking
<1>2. Waking(s) \ {t} = Waking(s)' \ {t}
    BY DEF Waking, Goto, SemTypeOK
<1>3. (t \in Waking(s) <=> GivesTo(t) = s /\ pc[t] \in WakingAt)
      /\ (t \in Waking(s)' <=> GivesTo(t) = s /\ l \in WakingAt)
    BY DEF Waking, Goto, SemTypeOK
<1>4. /\ Cardinality(Waking(s)) \in Nat
      /\ Cardinality(Waking(s)') \in Nat
      /\ Cardinality(Waking(s)') = Cardinality(Waking(s))
           + (IF t \in Waking(s)' THEN 1 ELSE 0) - (IF t \in Waking(s) THEN 1 ELSE 0)
    BY <1>1, <1>2, CountDiff
<1> QED BY <1>3, <1>4

(***************************************************************************)
(* The shift loop of sem_signal: the entry at no goes, the others stay.    *)
(***************************************************************************)
LEMMA ShiftedSeq ==
    ASSUME NEW S, NEW w \in Seq(S), NEW no \in 1 .. Len(w)
    PROVE  /\ Shifted(w, no) \in Seq(S)
           /\ Len(Shifted(w, no)) = Len(w) - 1
           /\ \A i \in 1 .. Len(w) - 1 :
                 Shifted(w, no)[i] = IF i < no THEN w[i] ELSE w[i + 1]
<1>1. Len(w) - 1 \in Nat
    OBVIOUS
<1>2. \A i \in 1 .. Len(w) - 1 : (IF i < no THEN w[i] ELSE w[i + 1]) \in S
    BY ElementOfSeq
<1> QED BY <1>1, <1>2 DEF Shifted

(***************************************************************************)
(* Type correctness                                                        *)
(***************************************************************************)
LEMMA TypeInit == SemInit => SemTypeOK
BY BufSizeAssumption DEF SemInit, SemTypeOK, PCs, LkHolders, Sems

\* Every step of sem_wait, sem_signal and the trap handler keeps the types.
LEMMA TypeStep ==
    ASSUME SemTypeOK, PickInv, [SemNext]_semVars
    PROVE  SemTypeOK'
<1> USE DEF SemTypeOK, PCs, LkHolders, Sems, Goto, At, TakesFrom, GivesTo
<1>1. CASE UNCHANGED semVars
    BY <1>1 DEF semVars
<1> SUFFICES ASSUME NEW t \in Threads, SemThread(t) \/ SaveBegin(t) \/ SaveEnd(t)
             PROVE  SemTypeOK'
    BY <1>1 DEF SemNext
<1>2. CASE WaitEnter(t) BY <1>2 DEF WaitEnter
<1>3. CASE WaitAcquire(t) BY <1>3 DEF WaitAcquire
<1>4. CASE WaitDec(t) BY <1>4 DEF WaitDec
<1>5. CASE WaitLock(t) BY <1>5 DEF WaitLock
<1>6. CASE WaitBlock(t) BY <1>6 DEF WaitBlock
<1>7. CASE WaitRelease(t) BY <1>7 DEF WaitRelease
<1>8. CASE Resume(t) BY <1>8 DEF Resume
<1>9. CASE PrintBracket(t) BY <1>9 DEF PrintBracket
<1>10. CASE SigEnter(t) BY <1>10 DEF SigEnter
<1>11. CASE SigAcquire(t) BY <1>11 DEF SigAcquire
<1>12. ASSUME NEW no \in 0 .. Len(waiter[GivesTo(t)]), SigInc(t, no)
       PROVE  SemTypeOK'
    <2>1. no \in Nat
        OBVIOUS
    <2>2. pc' \in [Threads -> PCs]
        BY <1>12 DEF SigInc
    <2>3. val' \in [Sems -> Int] /\ pick' \in [Threads -> Nat]
        BY <1>12, <2>1 DEF SigInc
    <2> QED BY <1>12, <2>2, <2>3 DEF SigInc
<1>13. CASE SigLock(t) BY <1>13 DEF SigLock
<1>14. CASE SigWake(t) BY <1>14 DEF SigWake
<1>15. CASE SigUnlock(t) BY <1>15 DEF SigUnlock
<1>16. CASE SigRemove(t)
    <2>1. pick[t] \in 1 .. Len(waiter[GivesTo(t)])
        BY <1>16 DEF SigRemove, PickInv
    <2>2. Shifted(waiter[GivesTo(t)], pick[t]) \in Seq(Threads)
        BY <2>1, ShiftedSeq
    <2> QED BY <1>16, <2>2 DEF SigRemove
<1>17. CASE SigRelease(t) BY <1>17 DEF SigRelease
<1>18. CASE SaveBegin(t) BY <1>18 DEF SaveBegin
<1>19. CASE SaveEnd(t) BY <1>19 DEF SaveEnd
<1> QED BY <1>2, <1>3, <1>4, <1>5, <1>6, <1>7, <1>8, <1>9, <1>10, <1>11, <1>12,
           <1>13, <1>14, <1>15, <1>16, <1>17, <1>18, <1>19
        DEF SemThread, SemWait, SemSignal

(***************************************************************************)
(* Mutual exclusion by sem->lock                                           *)
(***************************************************************************)
LEMMA LockStepInv ==
    ASSUME SemTypeOK, LockInv, [SemNext]_semVars
    PROVE  LockInv'
<1> USE DEF SemTypeOK, LockInv, Goto, At, TakesFrom, GivesTo, WaitHolds, SigHolds, Sems
<1>1. CASE UNCHANGED semVars
    BY <1>1 DEF semVars
<1> SUFFICES ASSUME NEW t \in Threads, SemThread(t) \/ SaveBegin(t) \/ SaveEnd(t)
             PROVE  LockInv'
    BY <1>1 DEF SemNext
<1>2. CASE WaitEnter(t) BY <1>2 DEF WaitEnter
<1>3. CASE WaitAcquire(t)
    <2> SUFFICES ASSUME NEW u \in Threads
                 PROVE  (/\ pc[u] \in WaitHolds <=> semlock[TakesFrom(u)] = u
                         /\ pc[u] \in SigHolds <=> semlock[GivesTo(u)] = u)'
        OBVIOUS
    <2>1. t # NoThread /\ u # NoThread
        BY ThreadAssumption DEF Threads
    <2>2. CASE u = t BY <1>3, <2>1, <2>2 DEF WaitAcquire
    <2>3. CASE u # t BY <1>3, <2>1, <2>3 DEF WaitAcquire
    <2> QED BY <2>2, <2>3
<1>4. CASE WaitDec(t) BY <1>4 DEF WaitDec
<1>5. CASE WaitLock(t) BY <1>5 DEF WaitLock
<1>6. CASE WaitBlock(t) BY <1>6 DEF WaitBlock
<1>7. CASE WaitRelease(t)
    <2> SUFFICES ASSUME NEW u \in Threads
                 PROVE  (/\ pc[u] \in WaitHolds <=> semlock[TakesFrom(u)] = u
                         /\ pc[u] \in SigHolds <=> semlock[GivesTo(u)] = u)'
        OBVIOUS
    <2>1. t # NoThread /\ u # NoThread
        BY ThreadAssumption DEF Threads
    <2>2. CASE u = t BY <1>7, <2>1, <2>2 DEF WaitRelease
    <2>3. CASE u # t BY <1>7, <2>1, <2>3 DEF WaitRelease
    <2> QED BY <2>2, <2>3
<1>8. CASE Resume(t) BY <1>8 DEF Resume
<1>9. CASE PrintBracket(t) BY <1>9 DEF PrintBracket
<1>10. CASE SigEnter(t) BY <1>10 DEF SigEnter
<1>11. CASE SigAcquire(t)
    <2> SUFFICES ASSUME NEW u \in Threads
                 PROVE  (/\ pc[u] \in WaitHolds <=> semlock[TakesFrom(u)] = u
                         /\ pc[u] \in SigHolds <=> semlock[GivesTo(u)] = u)'
        OBVIOUS
    <2>1. t # NoThread /\ u # NoThread
        BY ThreadAssumption DEF Threads
    <2>2. CASE u = t BY <1>11, <2>1, <2>2 DEF SigAcquire
    <2>3. CASE u # t BY <1>11, <2>1, <2>3 DEF SigAcquire
    <2> QED BY <2>2, <2>3
<1>12. ASSUME NEW no \in 0 .. Len(waiter[GivesTo(t)]), SigInc(t, no)
       PROVE  LockInv'
    BY <1>12 DEF SigInc
<1>13. CASE SigLock(t) BY <1>13 DEF SigLock
<1>14. CASE SigWake(t) BY <1>14 DEF SigWake
<1>15. CASE SigUnlock(t) BY <1>15 DEF SigUnlock
<1>16. CASE SigRemove(t) BY <1>16 DEF SigRemove
<1>17. CASE SigRelease(t)
    <2> SUFFICES ASSUME NEW u \in Threads
                 PROVE  (/\ pc[u] \in WaitHolds <=> semlock[TakesFrom(u)] = u
                         /\ pc[u] \in SigHolds <=> semlock[GivesTo(u)] = u)'
        OBVIOUS
    <2>1. t # NoThread /\ u # NoThread
        BY ThreadAssumption DEF Threads
    <2>2. CASE u = t BY <1>17, <2>1, <2>2 DEF SigRelease
    <2>3. CASE u # t BY <1>17, <2>1, <2>3 DEF SigRelease
    <2> QED BY <2>2, <2>3
<1>18. CASE SaveBegin(t) BY <1>18 DEF SaveBegin
<1>19. CASE SaveEnd(t) BY <1>19 DEF SaveEnd
<1> QED BY <1>2, <1>3, <1>4, <1>5, <1>6, <1>7, <1>8, <1>9, <1>10, <1>11, <1>12,
           <1>13, <1>14, <1>15, <1>16, <1>17, <1>18, <1>19
        DEF SemThread, SemWait, SemSignal

(***************************************************************************)
(* Sleepers                                                                *)
(***************************************************************************)
LEMMA StatusStepInv ==
    ASSUME SemTypeOK, LockInv, StatusInv, [SemNext]_semVars
    PROVE  StatusInv'
<1> USE DEF SemTypeOK, StatusInv, Goto, At
<1>1. CASE UNCHANGED semVars
    BY <1>1 DEF semVars
<1> SUFFICES ASSUME NEW t \in Threads, SemThread(t) \/ SaveBegin(t) \/ SaveEnd(t)
             PROVE  StatusInv'
    BY <1>1 DEF SemNext
<1>2. CASE WaitEnter(t) BY <1>2 DEF WaitEnter
<1>3. CASE WaitAcquire(t) BY <1>3 DEF WaitAcquire
<1>4. CASE WaitDec(t) BY <1>4 DEF WaitDec
<1>5. CASE WaitLock(t) BY <1>5 DEF WaitLock
<1>6. CASE WaitBlock(t) BY <1>6 DEF WaitBlock
<1>7. CASE WaitRelease(t) BY <1>7 DEF WaitRelease
<1>8. CASE Resume(t) BY <1>8 DEF Resume
<1>9. CASE PrintBracket(t) BY <1>9 DEF PrintBracket
<1>10. CASE SigEnter(t) BY <1>10 DEF SigEnter
<1>11. CASE SigAcquire(t) BY <1>11 DEF SigAcquire
<1>12. ASSUME NEW no \in 0 .. Len(waiter[GivesTo(t)]), SigInc(t, no)
       PROVE  StatusInv'
    BY <1>12 DEF SigInc
<1>13. CASE SigLock(t) BY <1>13 DEF SigLock
<1>14. CASE SigWake(t) BY <1>14 DEF SigWake
<1>15. CASE SigUnlock(t) BY <1>15 DEF SigUnlock
<1>16. CASE SigRemove(t) BY <1>16 DEF SigRemove
<1>17. CASE SigRelease(t) BY <1>17 DEF SigRelease
<1>18. CASE SaveBegin(t) BY <1>18 DEF SaveBegin
<1>19. CASE SaveEnd(t) BY <1>19 DEF SaveEnd
<1> QED BY <1>2, <1>3, <1>4, <1>5, <1>6, <1>7, <1>8, <1>9, <1>10, <1>11, <1>12,
           <1>13, <1>14, <1>15, <1>16, <1>17, <1>18, <1>19
        DEF SemThread, SemWait, SemSignal

\* Two threads are never inside the same semaphore.
LEMMA Exclusion ==
    ASSUME LockInv, NEW t \in Threads, NEW u \in Threads
    PROVE  /\ pc[t] \in WaitHolds /\ pc[u] \in WaitHolds /\ TakesFrom(t) = TakesFrom(u)
                => t = u
           /\ pc[t] \in SigHolds /\ pc[u] \in SigHolds /\ GivesTo(t) = GivesTo(u)
                => t = u
           /\ ~(pc[t] \in WaitHolds /\ pc[u] \in SigHolds /\ TakesFrom(t) = GivesTo(u))
BY DEF LockInv, WaitHolds, SigHolds

\* The waiter sem_signal chose stays in waiter[]: nobody else changes the list
\* while the lock of the semaphore is held.
LEMMA PickStepInv ==
    ASSUME SemTypeOK, LockInv, PickInv, [SemNext]_semVars
    PROVE  PickInv'
<1> USE DEF SemTypeOK, PickInv, Goto, At, TakesFrom, GivesTo, Sems
<1>1. CASE UNCHANGED semVars
    BY <1>1 DEF semVars
<1> SUFFICES ASSUME NEW t \in Threads, SemThread(t) \/ SaveBegin(t) \/ SaveEnd(t)
             PROVE  PickInv'
    BY <1>1 DEF SemNext
<1>2. CASE WaitEnter(t) BY <1>2 DEF WaitEnter
<1>3. CASE WaitAcquire(t) BY <1>3 DEF WaitAcquire
<1>4. CASE WaitDec(t) BY <1>4 DEF WaitDec
<1>5. CASE WaitLock(t) BY <1>5 DEF WaitLock
<1>6. CASE WaitBlock(t)
    <2>1. \A w \in Seq(Threads) : Len(Append(w, t)) = Len(w) + 1
        OBVIOUS
    <2>2. waiter'[TakesFrom(t)] = Append(waiter[TakesFrom(t)], t)
          /\ \A s \in Sems \ {TakesFrom(t)} : waiter'[s] = waiter[s]
        BY <1>6 DEF WaitBlock
    <2>3. \A s \in Sems : Len(waiter[s]) \in Nat /\ Len(waiter'[s]) \in Nat
                           /\ Len(waiter'[s]) >= Len(waiter[s])
        BY <2>1, <2>2
    <2> QED BY <1>6, <2>3 DEF WaitBlock
<1>7. CASE WaitRelease(t) BY <1>7 DEF WaitRelease
<1>8. CASE Resume(t) BY <1>8 DEF Resume
<1>9. CASE PrintBracket(t) BY <1>9 DEF PrintBracket
<1>10. CASE SigEnter(t) BY <1>10 DEF SigEnter
<1>11. CASE SigAcquire(t) BY <1>11 DEF SigAcquire
<1>12. ASSUME NEW no \in 0 .. Len(waiter[GivesTo(t)]), SigInc(t, no)
       PROVE  PickInv'
    BY <1>12 DEF SigInc
<1>13. CASE SigLock(t) BY <1>13 DEF SigLock
<1>14. CASE SigWake(t) BY <1>14 DEF SigWake
<1>15. CASE SigUnlock(t) BY <1>15 DEF SigUnlock
<1>16. CASE SigRemove(t)
    <2> SUFFICES ASSUME NEW u \in Threads,
                        pc'[u] \in {"sig_lk", "sig_wake", "sig_unlk", "sig_rm"}
                 PROVE  pick'[u] \in 1 .. Len(waiter'[GivesTo(u)])
        OBVIOUS
    <2>1. u # t
        BY <1>16 DEF SigRemove
    <2>2. GivesTo(u) # GivesTo(t)
        BY <1>16, <2>1, Exclusion DEF SigRemove, SigHolds
    <2> QED BY <1>16, <2>1, <2>2 DEF SigRemove
<1>17. CASE SigRelease(t) BY <1>17 DEF SigRelease
<1>18. CASE SaveBegin(t) BY <1>18 DEF SaveBegin
<1>19. CASE SaveEnd(t) BY <1>19 DEF SaveEnd
<1> QED BY <1>2, <1>3, <1>4, <1>5, <1>6, <1>7, <1>8, <1>9, <1>10, <1>11, <1>12,
           <1>13, <1>14, <1>15, <1>16, <1>17, <1>18, <1>19
        DEF SemThread, SemWait, SemSignal

\* Steps that leave waiter[] and status alone, and start or end no removal.
LEMMA ListedFrame ==
    ASSUME SemTypeOK, WaitersListed, waiter' = waiter, status' = status,
           NEW t \in Threads, NEW l \in PCs, Goto(t, l),
           pc[t] \in {"sig_unlk", "sig_rm"} <=> l \in {"sig_unlk", "sig_rm"},
           \A u \in Threads : u # t => pick'[u] = pick[u],
           pick'[t] = pick[t] \/ l \notin {"sig_unlk", "sig_rm"}
    PROVE  WaitersListed'
<1>1. \A s, i : LeavingAt(s, i)' <=> LeavingAt(s, i)
    BY DEF LeavingAt, Goto, SemTypeOK
<1> QED BY <1>1 DEF WaitersListed

\* waiter[] keeps listing the sleepers: the append of sem_wait and the shift
\* loop of sem_signal, step by step.
LEMMA ListedStepInv ==
    ASSUME SemTypeOK, LockInv, StatusInv, PickInv, WaitersListed, [SemNext]_semVars
    PROVE  WaitersListed'
<1>1. CASE UNCHANGED semVars
    BY <1>1 DEF semVars, WaitersListed, LeavingAt
<1> SUFFICES ASSUME NEW t \in Threads, SemThread(t) \/ SaveBegin(t) \/ SaveEnd(t)
             PROVE  WaitersListed'
    BY <1>1 DEF SemNext
<1>2. CASE WaitEnter(t)
    <2>1. Goto(t, "wait_acq") /\ "wait_acq" \in PCs
        BY <1>2 DEF WaitEnter, PCs
    <2> QED BY <1>2, <2>1, ListedFrame DEF WaitEnter, At
<1>3. CASE WaitAcquire(t)
    <2>1. Goto(t, "wait_dec") /\ "wait_dec" \in PCs
        BY <1>3 DEF WaitAcquire, PCs
    <2> QED BY <1>3, <2>1, ListedFrame DEF WaitAcquire, At
<1>4. CASE WaitDec(t)
    <2>1. PICK l \in {"wait_lk", "wait_rel"} : Goto(t, l)
        BY <1>4 DEF WaitDec
    <2>2. l \in PCs /\ l \notin {"sig_unlk", "sig_rm"}
          /\ pc[t] \notin {"sig_unlk", "sig_rm"}
        BY <1>4, <2>1 DEF WaitDec, At, PCs
    <2> QED BY <1>4, <2>1, <2>2, ListedFrame DEF WaitDec, SemTypeOK
<1>5. CASE WaitLock(t)
    <2>1. Goto(t, "wait_block") /\ "wait_block" \in PCs
        BY <1>5 DEF WaitLock, PCs
    <2> QED BY <1>5, <2>1, ListedFrame DEF WaitLock, At
<1>6. CASE WaitBlock(t)
    <2> DEFINE s0 == TakesFrom(t)
    <2>1. s0 \in Sems /\ status[t] = "READY" /\ At(t, "wait_block")
        BY <1>6 DEF WaitBlock, SemTypeOK, StatusInv, TakesFrom, Sems, At
    <2>2. /\ waiter' = [waiter EXCEPT ![s0] = Append(@, t)]
          /\ status' = [status EXCEPT ![t] = "WAITING"]
          /\ pick' = pick
          /\ pc' = [pc EXCEPT ![t] = "block_rel"]
        BY <1>6 DEF WaitBlock, Goto
    <2>3. \A s, i : LeavingAt(s, i)' <=> LeavingAt(s, i)
        BY <2>1, <2>2 DEF LeavingAt, SemTypeOK, At
    <2>4. \A i : ~LeavingAt(s0, i)
        BY <2>1, Exclusion DEF LeavingAt, At, SigHolds, WaitHolds
    <2>5. \A i \in 1 .. Len(waiter[s0]) : waiter[s0][i] # t
        BY <2>1, <2>4 DEF WaitersListed
    <2>6. /\ waiter[s0] \in Seq(Threads)
          /\ Len(waiter'[s0]) = Len(waiter[s0]) + 1
          /\ waiter'[s0][Len(waiter[s0]) + 1] = t
          /\ \A i \in 1 .. Len(waiter[s0]) : waiter'[s0][i] = waiter[s0][i]
        BY <2>1, <2>2 DEF SemTypeOK
    <2>7. \A s \in Sems : s # s0 =>
              waiter'[s] = waiter[s] /\ \A u \in Threads :
                  TakesFrom(u) = s => status'[u] = status[u]
        BY <2>2 DEF SemTypeOK
    <2> HIDE DEF s0
    <2> SUFFICES ASSUME NEW s \in Sems
                 PROVE  (/\ \A i, j \in 1 .. Len(waiter[s]) :
                               waiter[s][i] = waiter[s][j] => i = j
                         /\ \A i \in 1 .. Len(waiter[s]) :
                               /\ TakesFrom(waiter[s][i]) = s
                               /\ status[waiter[s][i]] = "WAITING" \/ LeavingAt(s, i)
                         /\ \A u \in Threads :
                               (TakesFrom(u) = s /\ status[u] = "WAITING") =>
                                  \E i \in 1 .. Len(waiter[s]) :
                                     waiter[s][i] = u /\ ~LeavingAt(s, i))'
        BY DEF WaitersListed
    <2>8. CASE s # s0
        <3>1. \A i \in 1 .. Len(waiter[s]) : waiter[s][i] \in Threads
            BY ElementOfSeq DEF SemTypeOK
        <3> QED BY <2>3, <2>7, <2>8, <3>1 DEF WaitersListed
    <2>9. CASE s = s0
        <3>1. \A i \in 1 .. Len(waiter[s0]) : waiter[s0][i] \in Threads
            BY <2>6, ElementOfSeq
        <3>2. \A i, j \in 1 .. Len(waiter'[s0]) : waiter'[s0][i] = waiter'[s0][j] => i = j
            <4>1. \A i, j \in 1 .. Len(waiter[s0]) : waiter[s0][i] = waiter[s0][j] => i = j
                BY <2>1 DEF WaitersListed
            <4>2. Len(waiter[s0]) \in Nat
                BY <2>6
            <4> QED BY <2>5, <2>6, <4>1, <4>2
        <3>3. \A i \in 1 .. Len(waiter'[s0]) :
                  TakesFrom(waiter'[s0][i]) = s0 /\ status'[waiter'[s0][i]] = "WAITING"
            BY <2>1, <2>2, <2>4, <2>6, <3>1 DEF WaitersListed, SemTypeOK, s0
        <3>4. \A u \in Threads : (TakesFrom(u) = s0 /\ status'[u] = "WAITING") =>
                  \E i \in 1 .. Len(waiter'[s0]) : waiter'[s0][i] = u
            <4> SUFFICES ASSUME NEW u \in Threads, TakesFrom(u) = s0, status'[u] = "WAITING"
                         PROVE  \E i \in 1 .. Len(waiter'[s0]) : waiter'[s0][i] = u
                OBVIOUS
            <4>1. CASE u = t
                BY <2>6, <4>1
            <4>2. CASE u # t
                <5>1. status[u] = "WAITING"
                    BY <2>2, <4>2 DEF SemTypeOK
                <5>2. PICK i \in 1 .. Len(waiter[s0]) : waiter[s0][i] = u
                    BY <2>1, <5>1 DEF WaitersListed
                <5> QED BY <2>6, <5>2
            <4> QED BY <4>1, <4>2
        <3> QED BY <2>3, <2>4, <2>9, <3>2, <3>3, <3>4
    <2> QED BY <2>8, <2>9
<1>7. CASE WaitRelease(t)
    <2>1. PICK l \in {"print", "yield"} : Goto(t, l)
        BY <1>7 DEF WaitRelease
    <2>2. l \in PCs /\ l \notin {"sig_unlk", "sig_rm"}
          /\ pc[t] \notin {"sig_unlk", "sig_rm"}
        BY <1>7, <2>1 DEF WaitRelease, At, PCs
    <2> QED BY <1>7, <2>1, <2>2, ListedFrame DEF WaitRelease, SemTypeOK
<1>8. CASE Resume(t)
    <2>1. Goto(t, "print") /\ "print" \in PCs
        BY <1>8 DEF Resume, PCs
    <2> QED BY <1>8, <2>1, ListedFrame DEF Resume, At
<1>9. CASE PrintBracket(t)
    <2>1. Goto(t, "sig") /\ "sig" \in PCs
        BY <1>9 DEF PrintBracket, PCs
    <2> QED BY <1>9, <2>1, ListedFrame DEF PrintBracket, At
<1>10. CASE SigEnter(t)
    <2>1. Goto(t, "sig_acq") /\ "sig_acq" \in PCs
        BY <1>10 DEF SigEnter, PCs
    <2> QED BY <1>10, <2>1, ListedFrame DEF SigEnter, At
<1>11. CASE SigAcquire(t)
    <2>1. Goto(t, "sig_inc") /\ "sig_inc" \in PCs
        BY <1>11 DEF SigAcquire, PCs
    <2> QED BY <1>11, <2>1, ListedFrame DEF SigAcquire, At
<1>12. ASSUME NEW no \in 0 .. Len(waiter[GivesTo(t)]), SigInc(t, no)
       PROVE  WaitersListed'
    <2>1. PICK l \in {"sig_lk", "sig_rel"} : Goto(t, l)
        BY <1>12 DEF SigInc
    <2>2. l \in PCs /\ l \notin {"sig_unlk", "sig_rm"}
          /\ pc[t] \notin {"sig_unlk", "sig_rm"}
        BY <1>12, <2>1 DEF SigInc, At, PCs
    <2> QED BY <1>12, <2>1, <2>2, ListedFrame DEF SigInc, SemTypeOK
<1>13. CASE SigLock(t)
    <2>1. Goto(t, "sig_wake") /\ "sig_wake" \in PCs
        BY <1>13 DEF SigLock, PCs
    <2> QED BY <1>13, <2>1, ListedFrame DEF SigLock, At
<1>14. CASE SigWake(t)
    <2> DEFINE s0 == GivesTo(t)
    <2> DEFINE no == pick[t]
    <2>1. /\ s0 \in Sems /\ no \in 1 .. Len(waiter[s0]) /\ At(t, "sig_wake")
          /\ waiter[s0] \in Seq(Threads)
        BY <1>14 DEF SigWake, PickInv, At, GivesTo, Sems, SemTypeOK
    <2>2. /\ waiter' = waiter
          /\ status' = [status EXCEPT ![waiter[s0][no]] = "READY"]
          /\ pick' = pick
          /\ pc' = [pc EXCEPT ![t] = "sig_unlk"]
        BY <1>14 DEF SigWake, Goto, Target
    <2>3. \A i : ~LeavingAt(s0, i)
        BY <2>1, Exclusion DEF LeavingAt, At, SigHolds
    <2>4. \A i : LeavingAt(s0, i)' <=> i = no
        BY <2>1, <2>2, <2>3 DEF LeavingAt, SemTypeOK, At
    <2>5. \A s, i : s # s0 => (LeavingAt(s, i)' <=> LeavingAt(s, i))
        BY <2>2 DEF LeavingAt, SemTypeOK
    <2>6. waiter[s0][no] \in Threads /\ TakesFrom(waiter[s0][no]) = s0
        BY <2>1, ElementOfSeq DEF WaitersListed
    <2>7. \A u \in Threads : u # waiter[s0][no] => status'[u] = status[u]
        BY <2>2 DEF SemTypeOK
    <2>8. status'[waiter[s0][no]] # "WAITING"
        BY <2>2, <2>6 DEF SemTypeOK
    <2> HIDE DEF s0, no
    <2> SUFFICES ASSUME NEW s \in Sems
                 PROVE  (/\ \A i, j \in 1 .. Len(waiter[s]) :
                               waiter[s][i] = waiter[s][j] => i = j
                         /\ \A i \in 1 .. Len(waiter[s]) :
                               /\ TakesFrom(waiter[s][i]) = s
                               /\ status[waiter[s][i]] = "WAITING" \/ LeavingAt(s, i)
                         /\ \A u \in Threads :
                               (TakesFrom(u) = s /\ status[u] = "WAITING") =>
                                  \E i \in 1 .. Len(waiter[s]) :
                                     waiter[s][i] = u /\ ~LeavingAt(s, i))'
        BY DEF WaitersListed
    <2>9. \A i \in 1 .. Len(waiter[s]) : waiter[s][i] \in Threads
        BY ElementOfSeq DEF SemTypeOK
    <2>10. CASE s # s0
        BY <2>2, <2>5, <2>6, <2>7, <2>9, <2>10 DEF WaitersListed
    <2>11. CASE s = s0
        <3>1. \A i \in 1 .. Len(waiter[s0]) :
                  TakesFrom(waiter[s0][i]) = s0 /\ (status'[waiter[s0][i]] = "WAITING" \/ i = no)
            BY <2>1, <2>3, <2>7, <2>9, <2>11 DEF WaitersListed
        <3>2. \A u \in Threads : (TakesFrom(u) = s0 /\ status'[u] = "WAITING") =>
                  \E i \in 1 .. Len(waiter[s0]) : waiter[s0][i] = u /\ i # no
            BY <2>1, <2>7, <2>8 DEF WaitersListed
        <3>3. \A i, j \in 1 .. Len(waiter[s0]) : waiter[s0][i] = waiter[s0][j] => i = j
            BY <2>1 DEF WaitersListed
        <3> QED BY <2>2, <2>4, <2>11, <3>1, <3>2, <3>3
    <2> QED BY <2>10, <2>11
<1>15. CASE SigUnlock(t)
    <2>1. Goto(t, "sig_rm") /\ "sig_rm" \in PCs
        BY <1>15 DEF SigUnlock, PCs
    <2> QED BY <1>15, <2>1, ListedFrame DEF SigUnlock, At
<1>16. CASE SigRemove(t)
    <2> DEFINE s0 == GivesTo(t)
    <2> DEFINE no == pick[t]
    <2> DEFINE w == waiter[s0]
    <2>1. /\ s0 \in Sems /\ no \in 1 .. Len(w) /\ At(t, "sig_rm") /\ w \in Seq(Threads)
        BY <1>16 DEF SigRemove, PickInv, At, GivesTo, Sems, SemTypeOK
    <2>2. /\ waiter' = [waiter EXCEPT ![s0] = Shifted(w, no)]
          /\ status' = status
          /\ pick' = [pick EXCEPT ![t] = 0]
          /\ pc' = [pc EXCEPT ![t] = "sig_rel"]
        BY <1>16 DEF SigRemove, Goto
    <2>3. \A i : LeavingAt(s0, i) <=> i = no
        BY <2>1, Exclusion DEF LeavingAt, At, SigHolds
    <2>4. \A i : ~LeavingAt(s0, i)'
        BY <2>1, <2>2, Exclusion DEF LeavingAt, SemTypeOK, At, SigHolds
    <2>5. \A s, i : s # s0 => (LeavingAt(s, i)' <=> LeavingAt(s, i))
        BY <2>2 DEF LeavingAt, SemTypeOK
    <2>6. /\ waiter'[s0] \in Seq(Threads)
          /\ Len(waiter'[s0]) = Len(w) - 1
          /\ \A i \in 1 .. Len(w) - 1 : waiter'[s0][i] = IF i < no THEN w[i] ELSE w[i + 1]
        BY <2>1, <2>2, ShiftedSeq DEF SemTypeOK
    <2>7. \A s \in Sems : s # s0 => waiter'[s] = waiter[s]
        BY <2>2 DEF SemTypeOK
    <2>8. /\ \A i, j \in 1 .. Len(w) : w[i] = w[j] => i = j
          /\ \A i \in 1 .. Len(w) : TakesFrom(w[i]) = s0 /\ (status[w[i]] = "WAITING" \/ i = no)
          /\ \A u \in Threads : (TakesFrom(u) = s0 /\ status[u] = "WAITING") =>
                 \E i \in 1 .. Len(w) : w[i] = u /\ i # no
        BY <2>1, <2>3 DEF WaitersListed
    <2>9. Len(w) \in Nat
        BY <2>1
    <2> HIDE DEF s0, no, w
    <2> SUFFICES ASSUME NEW s \in Sems
                 PROVE  (/\ \A i, j \in 1 .. Len(waiter[s]) :
                               waiter[s][i] = waiter[s][j] => i = j
                         /\ \A i \in 1 .. Len(waiter[s]) :
                               /\ TakesFrom(waiter[s][i]) = s
                               /\ status[waiter[s][i]] = "WAITING" \/ LeavingAt(s, i)
                         /\ \A u \in Threads :
                               (TakesFrom(u) = s /\ status[u] = "WAITING") =>
                                  \E i \in 1 .. Len(waiter[s]) :
                                     waiter[s][i] = u /\ ~LeavingAt(s, i))'
        BY DEF WaitersListed
    <2>10. CASE s # s0
        BY <2>2, <2>5, <2>7, <2>10 DEF WaitersListed
    <2>11. CASE s = s0
        <3>1. \A i, j \in 1 .. Len(w) - 1 : waiter'[s0][i] = waiter'[s0][j] => i = j
            <4> SUFFICES ASSUME NEW i \in 1 .. Len(w) - 1, NEW j \in 1 .. Len(w) - 1,
                                waiter'[s0][i] = waiter'[s0][j]
                         PROVE  i = j
                OBVIOUS
            <4>1. /\ i \in 1 .. Len(w) /\ i + 1 \in 1 .. Len(w)
                  /\ j \in 1 .. Len(w) /\ j + 1 \in 1 .. Len(w)
                BY <2>9
            <4>2. PICK k \in {i, i + 1} : w[k] = waiter'[s0][i] /\ (k = i <=> i < no)
                BY <2>6, <4>1
            <4>3. PICK m \in {j, j + 1} : w[m] = waiter'[s0][j] /\ (m = j <=> j < no)
                BY <2>6, <4>1
            <4>4. k = m
                BY <2>8, <4>1, <4>2, <4>3
            <4> QED BY <2>1, <4>2, <4>3, <4>4
        <3>2. \A i \in 1 .. Len(w) - 1 :
                  TakesFrom(waiter'[s0][i]) = s0 /\ status[waiter'[s0][i]] = "WAITING"
            <4> SUFFICES ASSUME NEW i \in 1 .. Len(w) - 1
                         PROVE  TakesFrom(waiter'[s0][i]) = s0
                                /\ status[waiter'[s0][i]] = "WAITING"
                OBVIOUS
            <4>1. i \in 1 .. Len(w) /\ i + 1 \in 1 .. Len(w)
                BY <2>9
            <4>2. PICK k \in {i, i + 1} : w[k] = waiter'[s0][i] /\ (k = i <=> i < no)
                BY <2>6
            <4>3. k # no
                BY <2>1, <4>2
            <4> QED BY <2>8, <4>1, <4>2, <4>3
        <3>3. \A u \in Threads : (TakesFrom(u) = s0 /\ status[u] = "WAITING") =>
                  \E i \in 1 .. Len(w) - 1 : waiter'[s0][i] = u
            <4> SUFFICES ASSUME NEW u \in Threads, TakesFrom(u) = s0, status[u] = "WAITING"
                         PROVE  \E i \in 1 .. Len(w) - 1 : waiter'[s0][i] = u
                OBVIOUS
            <4>1. PICK k \in 1 .. Len(w) : w[k] = u /\ k # no
                BY <2>8
            <4>2. CASE k < no
                <5>1. k \in 1 .. Len(w) - 1
                    BY <2>1, <2>9, <4>2
                <5> QED BY <2>6, <4>1, <4>2, <5>1
            <4>3. CASE ~(k < no)
                <5>1. k - 1 \in 1 .. Len(w) - 1 /\ ~(k - 1 < no) /\ (k - 1) + 1 = k
                    BY <2>1, <2>9, <4>1, <4>3
                <5> QED BY <2>6, <4>1, <5>1
            <4> QED BY <4>2, <4>3
        <3> QED BY <2>2, <2>4, <2>6, <2>11, <3>1, <3>2, <3>3
    <2> QED BY <2>10, <2>11
<1>17. CASE SigRelease(t)
    <2>1. Goto(t, "wait") /\ "wait" \in PCs
        BY <1>17 DEF SigRelease, PCs
    <2> QED BY <1>17, <2>1, ListedFrame DEF SigRelease, At
<1>18. CASE SaveBegin(t)
    BY <1>18 DEF SaveBegin, WaitersListed, LeavingAt
<1>19. CASE SaveEnd(t)
    BY <1>19 DEF SaveEnd, WaitersListed, LeavingAt
<1> QED BY <1>2, <1>3, <1>4, <1>5, <1>6, <1>7, <1>8, <1>9, <1>10, <1>11, <1>12,
           <1>13, <1>14, <1>15, <1>16, <1>17, <1>18, <1>19
        DEF SemThread, SemWait, SemSignal

(***************************************************************************)
(* Conservation of the units of a semaphore                                *)
(***************************************************************************)
\* The unit of s that t holds in flight at program point l, if any.
InFlight(t, l, s) ==
    IF \/ TakesFrom(t) = s /\ l \in TakenAt
       \/ GivesTo(t) = s /\ l \in OwedAt THEN 1 ELSE 0

\* A step of t keeps the balance if val and the brackets make up for what it
\* puts in flight or takes out of it.
LEMMA BalanceMove ==
    ASSUME SemTypeOK, SemTypeOK', Balance,
           NEW t \in Threads, NEW l \in PCs, Goto(t, l),
           \A s \in Sems : Resource(s)' - val'[s] =
               Resource(s) - val[s] + InFlight(t, l, s) - InFlight(t, pc[t], s)
    PROVE  Balance'
<1> SUFFICES ASSUME NEW s \in Sems
             PROVE  Resource(s)' = val'[s] + Cardinality(Taken(s)') + Cardinality(Owed(s)')
    BY DEF Balance
<1> DEFINE a == Cardinality(Taken(s))
<1> DEFINE a1 == Cardinality(Taken(s)')
<1> DEFINE o == Cardinality(Owed(s))
<1> DEFINE o1 == Cardinality(Owed(s)')
<1>1. /\ a \in Nat /\ a1 \in Nat
      /\ a1 = a + (IF TakesFrom(t) = s /\ l \in TakenAt THEN 1 ELSE 0)
                - (IF TakesFrom(t) = s /\ pc[t] \in TakenAt THEN 1 ELSE 0)
    BY TakenStep
<1>2. /\ o \in Nat /\ o1 \in Nat
      /\ o1 = o + (IF GivesTo(t) = s /\ l \in OwedAt THEN 1 ELSE 0)
                - (IF GivesTo(t) = s /\ pc[t] \in OwedAt THEN 1 ELSE 0)
    BY OwedStep
<1>3. Resource(s) = val[s] + a + o
    BY DEF Balance
<1>4. val[s] \in Int /\ val'[s] \in Int /\ Resource(s) \in Int /\ Resource(s)' \in Int
    BY BufSizeAssumption DEF SemTypeOK, Resource
<1>5. TakesFrom(t) # GivesTo(t)
    BY DEF TakesFrom, GivesTo
<1>6. a1 + o1 = a + o + InFlight(t, l, s) - InFlight(t, pc[t], s)
    <2> HIDE DEF a, a1, o, o1
    <2> QED BY <1>1, <1>2, <1>5 DEF InFlight
<1>7. InFlight(t, l, s) \in Int /\ InFlight(t, pc[t], s) \in Int
    BY DEF InFlight
<1>8. Resource(s)' - val'[s] = Resource(s) - val[s] + InFlight(t, l, s) - InFlight(t, pc[t], s)
    OBVIOUS
<1> HIDE DEF a, a1, o, o1
<1> QED
    <2>1. Resource(s)' = val'[s] + a1 + o1
        BY <1>1, <1>2, <1>3, <1>4, <1>6, <1>7, <1>8
    <2> QED BY <2>1 DEF a1, o1

\* The conservation of units over every step: each one moves a unit between
\* val, a thread in flight and the printed brackets.
LEMMA BalanceStepInv ==
    ASSUME SemTypeOK, SemTypeOK', Balance, [SemNext]_semVars
    PROVE  Balance'
<1> USE DEF Resource, SemTypeOK, At, TakesFrom, GivesTo, TakenAt, OwedAt, Sems, InFlight
<1>1. CASE UNCHANGED semVars
    BY <1>1 DEF semVars, Taken, Owed, Balance
<1> SUFFICES ASSUME NEW t \in Threads, SemThread(t) \/ SaveBegin(t) \/ SaveEnd(t)
             PROVE  Balance'
    BY <1>1 DEF SemNext
<1>2. CASE WaitEnter(t)
    <2>1. Goto(t, "wait_acq") /\ "wait_acq" \in PCs
        BY <1>2 DEF WaitEnter, PCs
    <2>2. \A s \in Sems : Resource(s)' - val'[s] =
              Resource(s) - val[s] + InFlight(t, "wait_acq", s) - InFlight(t, pc[t], s)
        BY <1>2, BufSizeAssumption DEF WaitEnter
    <2> QED BY <2>1, <2>2, BalanceMove
<1>3. CASE WaitAcquire(t)
    <2>1. Goto(t, "wait_dec") /\ "wait_dec" \in PCs
        BY <1>3 DEF WaitAcquire, PCs
    <2>2. \A s \in Sems : Resource(s)' - val'[s] =
              Resource(s) - val[s] + InFlight(t, "wait_dec", s) - InFlight(t, pc[t], s)
        BY <1>3, BufSizeAssumption DEF WaitAcquire
    <2> QED BY <2>1, <2>2, BalanceMove
<1>4. CASE WaitDec(t)
    <2>1. PICK l \in {"wait_lk", "wait_rel"} : Goto(t, l)
        BY <1>4 DEF WaitDec
    <2>2. l \in PCs
        BY DEF PCs
    <2>3. \A s \in Sems : Resource(s)' - val'[s] =
              Resource(s) - val[s] + InFlight(t, l, s) - InFlight(t, pc[t], s)
        BY <1>4, <2>1, BufSizeAssumption DEF WaitDec
    <2> QED BY <2>1, <2>2, <2>3, BalanceMove
<1>5. CASE WaitLock(t)
    <2>1. Goto(t, "wait_block") /\ "wait_block" \in PCs
        BY <1>5 DEF WaitLock, PCs
    <2>2. \A s \in Sems : Resource(s)' - val'[s] =
              Resource(s) - val[s] + InFlight(t, "wait_block", s) - InFlight(t, pc[t], s)
        BY <1>5, BufSizeAssumption DEF WaitLock
    <2> QED BY <2>1, <2>2, BalanceMove
<1>6. CASE WaitBlock(t)
    <2>1. Goto(t, "block_rel") /\ "block_rel" \in PCs
        BY <1>6 DEF WaitBlock, PCs
    <2>2. \A s \in Sems : Resource(s)' - val'[s] =
              Resource(s) - val[s] + InFlight(t, "block_rel", s) - InFlight(t, pc[t], s)
        BY <1>6, BufSizeAssumption DEF WaitBlock
    <2> QED BY <2>1, <2>2, BalanceMove
<1>7. CASE WaitRelease(t)
    <2>1. PICK l \in {"print", "yield"} : Goto(t, l)
        BY <1>7 DEF WaitRelease
    <2>2. l \in PCs
        BY DEF PCs
    <2>3. \A s \in Sems : Resource(s)' - val'[s] =
              Resource(s) - val[s] + InFlight(t, l, s) - InFlight(t, pc[t], s)
        BY <1>7, <2>1, BufSizeAssumption DEF WaitRelease, Goto
    <2> QED BY <2>1, <2>2, <2>3, BalanceMove
<1>8. CASE Resume(t)
    <2>1. Goto(t, "print") /\ "print" \in PCs
        BY <1>8 DEF Resume, PCs
    <2>2. \A s \in Sems : Resource(s)' - val'[s] =
              Resource(s) - val[s] + InFlight(t, "print", s) - InFlight(t, pc[t], s)
        BY <1>8, BufSizeAssumption DEF Resume
    <2> QED BY <2>1, <2>2, BalanceMove
<1>9. CASE PrintBracket(t)
    <2>1. Goto(t, "sig") /\ "sig" \in PCs
        BY <1>9 DEF PrintBracket, PCs
    <2>2. \A s \in Sems : Resource(s)' - val'[s] =
              Resource(s) - val[s] + InFlight(t, "sig", s) - InFlight(t, pc[t], s)
        BY <1>9, BufSizeAssumption DEF PrintBracket
    <2> QED BY <2>1, <2>2, BalanceMove
<1>10. CASE SigEnter(t)
    <2>1. Goto(t, "sig_acq") /\ "sig_acq" \in PCs
        BY <1>10 DEF SigEnter, PCs
    <2>2. \A s \in Sems : Resource(s)' - val'[s] =
              Resource(s) - val[s] + InFlight(t, "sig_acq", s) - InFlight(t, pc[t], s)
        BY <1>10, BufSizeAssumption DEF SigEnter
    <2> QED BY <2>1, <2>2, BalanceMove
<1>11. CASE SigAcquire(t)
    <2>1. Goto(t, "sig_inc") /\ "sig_inc" \in PCs
        BY <1>11 DEF SigAcquire, PCs
    <2>2. \A s \in Sems : Resource(s)' - val'[s] =
              Resource(s) - val[s] + InFlight(t, "sig_inc", s) - InFlight(t, pc[t], s)
        BY <1>11, BufSizeAssumption DEF SigAcquire
    <2> QED BY <2>1, <2>2, BalanceMove
<1>12. ASSUME NEW no \in 0 .. Len(waiter[GivesTo(t)]), SigInc(t, no)
       PROVE  Balance'
    <2>1. PICK l \in {"sig_lk", "sig_rel"} : Goto(t, l)
        BY <1>12 DEF SigInc
    <2>2. l \in PCs
        BY DEF PCs
    <2>3. \A s \in Sems : Resource(s)' - val'[s] =
              Resource(s) - val[s] + InFlight(t, l, s) - InFlight(t, pc[t], s)
        <3>1. /\ val' = [val EXCEPT ![GivesTo(t)] = @ + 1]
              /\ bra' = bra /\ pc[t] = "sig_inc"
            BY <1>12 DEF SigInc
        <3>2. \A s \in Sems : InFlight(t, l, s) = 0
                  /\ InFlight(t, pc[t], s) = IF GivesTo(t) = s THEN 1 ELSE 0
            BY <3>1
        <3>3. \A s \in Sems : val'[s] = IF GivesTo(t) = s THEN val[s] + 1 ELSE val[s]
            BY <3>1
        <3>4. \A s \in Sems : val[s] \in Int /\ Resource(s)' = Resource(s) /\ Resource(s) \in Int
            BY <3>1, BufSizeAssumption
        <3> HIDE DEF InFlight, Resource, SemTypeOK, GivesTo, TakesFrom, Sems
        <3> QED BY <3>2, <3>3, <3>4
    <2> QED BY <2>1, <2>2, <2>3, BalanceMove
<1>13. CASE SigLock(t)
    <2>1. Goto(t, "sig_wake") /\ "sig_wake" \in PCs
        BY <1>13 DEF SigLock, PCs
    <2>2. \A s \in Sems : Resource(s)' - val'[s] =
              Resource(s) - val[s] + InFlight(t, "sig_wake", s) - InFlight(t, pc[t], s)
        BY <1>13, BufSizeAssumption DEF SigLock
    <2> QED BY <2>1, <2>2, BalanceMove
<1>14. CASE SigWake(t)
    <2>1. Goto(t, "sig_unlk") /\ "sig_unlk" \in PCs
        BY <1>14 DEF SigWake, PCs
    <2>2. \A s \in Sems : Resource(s)' - val'[s] =
              Resource(s) - val[s] + InFlight(t, "sig_unlk", s) - InFlight(t, pc[t], s)
        BY <1>14, BufSizeAssumption DEF SigWake
    <2> QED BY <2>1, <2>2, BalanceMove
<1>15. CASE SigUnlock(t)
    <2>1. Goto(t, "sig_rm") /\ "sig_rm" \in PCs
        BY <1>15 DEF SigUnlock, PCs
    <2>2. \A s \in Sems : Resource(s)' - val'[s] =
              Resource(s) - val[s] + InFlight(t, "sig_rm", s) - InFlight(t, pc[t], s)
        BY <1>15, BufSizeAssumption DEF SigUnlock
    <2> QED BY <2>1, <2>2, BalanceMove
<1>16. CASE SigRemove(t)
    <2>1. Goto(t, "sig_rel") /\ "sig_rel" \in PCs
        BY <1>16 DEF SigRemove, PCs
    <2>2. \A s \in Sems : Resource(s)' - val'[s] =
              Resource(s) - val[s] + InFlight(t, "sig_rel", s) - InFlight(t, pc[t], s)
        BY <1>16, BufSizeAssumption DEF SigRemove
    <2> QED BY <2>1, <2>2, BalanceMove
<1>17. CASE SigRelease(t)
    <2>1. Goto(t, "wait") /\ "wait" \in PCs
        BY <1>17 DEF SigRelease, PCs
    <2>2. \A s \in Sems : Resource(s)' - val'[s] =
              Resource(s) - val[s] + InFlight(t, "wait", s) - InFlight(t, pc[t], s)
        BY <1>17, BufSizeAssumption DEF SigRelease
    <2> QED BY <2>1, <2>2, BalanceMove
<1>18. CASE SaveBegin(t)
    BY <1>18 DEF SaveBegin, Taken, Owed, Balance
<1>19. CASE SaveEnd(t)
    BY <1>19 DEF SaveEnd, Taken, Owed, Balance
<1> QED BY <1>2, <1>3, <1>4, <1>5, <1>6, <1>7, <1>8, <1>9, <1>10, <1>11, <1>12,
           <1>13, <1>14, <1>15, <1>16, <1>17, <1>18, <1>19
        DEF SemThread, SemWait, SemSignal

(***************************************************************************)
(* A negative val counts the sleepers                                      *)
(***************************************************************************)
Bound == {"wait_lk", "wait_block"}
Deficit(v) == IF v < 0 THEN -v ELSE 0

\* A step of t that changes nobody's status.
LEMMA BlockedStep ==
    ASSUME SemTypeOK, NEW t \in Threads, NEW l \in PCs, NEW s \in Sems,
           Goto(t, l), status' = status, status[t] # "WAITING"
    PROVE  /\ Cardinality(Blocked(s)) \in Nat
           /\ Cardinality(Blocked(s)') \in Nat
           /\ Cardinality(Blocked(s)') = Cardinality(Blocked(s))
                + (IF TakesFrom(t) = s /\ l \in Bound THEN 1 ELSE 0)
                - (IF TakesFrom(t) = s /\ pc[t] \in Bound THEN 1 ELSE 0)
<1>1. Blocked(s) \in SUBSET Threads /\ Blocked(s)' \in SUBSET Threads
    BY DEF Blocked
<1>2. Blocked(s) \ {t} = Blocked(s)' \ {t}
    BY DEF Blocked, Goto, SemTypeOK
<1>3. (t \in Blocked(s) <=> TakesFrom(t) = s /\ pc[t] \in Bound)
      /\ (t \in Blocked(s)' <=> TakesFrom(t) = s /\ l \in Bound)
    BY DEF Blocked, Goto, SemTypeOK, Bound
<1>4. /\ Cardinality(Blocked(s)) \in Nat
      /\ Cardinality(Blocked(s)') \in Nat
      /\ Cardinality(Blocked(s)') = Cardinality(Blocked(s))
           + (IF t \in Blocked(s)' THEN 1 ELSE 0) - (IF t \in Blocked(s) THEN 1 ELSE 0)
    BY <1>1, <1>2, CountDiff
<1> QED BY <1>3, <1>4

\* Steps that leave Blocked and Waking alone.
LEMMA SleepFrame ==
    ASSUME SemTypeOK, SleepCount, val' = val,
           NEW t \in Threads, NEW l \in PCs, Goto(t, l),
           \A s \in Sems : Blocked(s)' = Blocked(s),
           pc[t] \in WakingAt <=> l \in WakingAt
    PROVE  SleepCount'
<1>1. \A s \in Sems : Waking(s)' = Waking(s)
    BY DEF Waking, Goto, SemTypeOK
<1> QED BY <1>1 DEF SleepCount

\* The count of sleepers agrees with a negative val over every step.
LEMMA SleepStepInv ==
    ASSUME SemTypeOK, LockInv, StatusInv, PickInv, WaitersListed, SleepCount, [SemNext]_semVars
    PROVE  SleepCount'
<1>1. CASE UNCHANGED semVars
    BY <1>1 DEF semVars, Blocked, Waking, SleepCount
<1> SUFFICES ASSUME NEW t \in Threads, SemThread(t) \/ SaveBegin(t) \/ SaveEnd(t)
             PROVE  SleepCount'
    BY <1>1 DEF SemNext
<1>2. CASE WaitEnter(t)
    <2>1. Goto(t, "wait_acq") /\ "wait_acq" \in PCs
        BY <1>2 DEF WaitEnter, PCs
    <2>2. \A s \in Sems : Blocked(s)' = Blocked(s)
        BY <1>2, <2>1 DEF WaitEnter, Blocked, Goto, At, SemTypeOK
    <2>3. pc[t] \in WakingAt <=> "wait_acq" \in WakingAt
        BY <1>2 DEF WaitEnter, At, WakingAt
    <2> QED BY <1>2, <2>1, <2>2, <2>3, SleepFrame DEF WaitEnter
<1>3. CASE WaitAcquire(t)
    <2>1. Goto(t, "wait_dec") /\ "wait_dec" \in PCs
        BY <1>3 DEF WaitAcquire, PCs
    <2>2. \A s \in Sems : Blocked(s)' = Blocked(s)
        BY <1>3, <2>1 DEF WaitAcquire, Blocked, Goto, At, SemTypeOK
    <2>3. pc[t] \in WakingAt <=> "wait_dec" \in WakingAt
        BY <1>3 DEF WaitAcquire, At, WakingAt
    <2> QED BY <1>3, <2>1, <2>2, <2>3, SleepFrame DEF WaitAcquire
<1>4. CASE WaitDec(t)
    <2> DEFINE s0 == TakesFrom(t)
    <2>1. /\ pc[t] = "wait_dec" /\ s0 \in Sems /\ status[t] # "WAITING"
          /\ val' = [val EXCEPT ![s0] = @ - 1] /\ status' = status
        BY <1>4 DEF WaitDec, At, StatusInv, TakesFrom, Sems
    <2>2. PICK l \in {"wait_lk", "wait_rel"} :
             Goto(t, l) /\ (l = "wait_lk" <=> val'[s0] < 0)
        BY <1>4 DEF WaitDec
    <2>3. l \in PCs /\ l \notin WakingAt /\ pc[t] \notin WakingAt
        BY <2>1 DEF PCs, WakingAt
    <2> SUFFICES ASSUME NEW s \in Sems
                 PROVE  Cardinality(Blocked(s)') = Deficit(val'[s]) + Cardinality(Waking(s)')
        BY DEF SleepCount, Deficit
    <2>4. Cardinality(Waking(s)') = Cardinality(Waking(s)) /\ Cardinality(Waking(s)) \in Nat
        BY <2>2, <2>3, WakingStep
    <2>5. Cardinality(Blocked(s)) = Deficit(val[s]) + Cardinality(Waking(s))
        BY DEF SleepCount, Deficit
    <2>6. /\ Cardinality(Blocked(s)) \in Nat /\ Cardinality(Blocked(s)') \in Nat
          /\ Cardinality(Blocked(s)') = Cardinality(Blocked(s))
                + (IF s0 = s /\ l = "wait_lk" THEN 1 ELSE 0)
        <3>1. l \in Bound <=> l = "wait_lk"
            BY DEF Bound
        <3>2. pc[t] \notin Bound
            BY <2>1 DEF Bound
        <3> QED BY <2>1, <2>2, <2>3, <3>1, <3>2, BlockedStep
    <2>7. val[s] \in Int /\ val'[s] = IF s = s0 THEN val[s] - 1 ELSE val[s]
        BY <2>1 DEF SemTypeOK
    <2> HIDE DEF s0
    <2> QED BY <2>2, <2>4, <2>5, <2>6, <2>7 DEF Deficit
<1>5. CASE WaitLock(t)
    <2>1. Goto(t, "wait_block") /\ "wait_block" \in PCs
        BY <1>5 DEF WaitLock, PCs
    <2>2. \A s \in Sems : Blocked(s)' = Blocked(s)
        BY <1>5, <2>1 DEF WaitLock, Blocked, Goto, At, SemTypeOK
    <2>3. pc[t] \in WakingAt <=> "wait_block" \in WakingAt
        BY <1>5 DEF WaitLock, At, WakingAt
    <2> QED BY <1>5, <2>1, <2>2, <2>3, SleepFrame DEF WaitLock
<1>6. CASE WaitBlock(t)
    <2>1. Goto(t, "block_rel") /\ "block_rel" \in PCs
        BY <1>6 DEF WaitBlock, PCs
    <2>2. \A s \in Sems : Blocked(s)' = Blocked(s)
        BY <1>6, <2>1 DEF WaitBlock, Blocked, Goto, At, SemTypeOK
    <2>3. pc[t] \in WakingAt <=> "block_rel" \in WakingAt
        BY <1>6 DEF WaitBlock, At, WakingAt
    <2> QED BY <1>6, <2>1, <2>2, <2>3, SleepFrame DEF WaitBlock
<1>7. CASE WaitRelease(t)
    <2>1. PICK l \in {"print", "yield"} : Goto(t, l)
        BY <1>7 DEF WaitRelease
    <2>2. l \in PCs
        BY DEF PCs
    <2>3. \A s \in Sems : Blocked(s)' = Blocked(s)
        BY <1>7, <2>1 DEF WaitRelease, Blocked, Goto, SemTypeOK
    <2>4. pc[t] \in WakingAt <=> l \in WakingAt
        BY <1>7 DEF WaitRelease, WakingAt
    <2> QED BY <1>7, <2>1, <2>2, <2>3, <2>4, SleepFrame DEF WaitRelease
<1>8. CASE Resume(t)
    <2>1. Goto(t, "print") /\ "print" \in PCs
        BY <1>8 DEF Resume, PCs
    <2>2. \A s \in Sems : Blocked(s)' = Blocked(s)
        BY <1>8, <2>1 DEF Resume, Blocked, Goto, At, SemTypeOK
    <2>3. pc[t] \in WakingAt <=> "print" \in WakingAt
        BY <1>8 DEF Resume, At, WakingAt
    <2> QED BY <1>8, <2>1, <2>2, <2>3, SleepFrame DEF Resume
<1>9. CASE PrintBracket(t)
    <2>1. Goto(t, "sig") /\ "sig" \in PCs
        BY <1>9 DEF PrintBracket, PCs
    <2>2. \A s \in Sems : Blocked(s)' = Blocked(s)
        BY <1>9, <2>1 DEF PrintBracket, Blocked, Goto, At, SemTypeOK
    <2>3. pc[t] \in WakingAt <=> "sig" \in WakingAt
        BY <1>9 DEF PrintBracket, At, WakingAt
    <2> QED BY <1>9, <2>1, <2>2, <2>3, SleepFrame DEF PrintBracket
<1>10. CASE SigEnter(t)
    <2>1. Goto(t, "sig_acq") /\ "sig_acq" \in PCs
        BY <1>10 DEF SigEnter, PCs
    <2>2. \A s \in Sems : Blocked(s)' = Blocked(s)
        BY <1>10, <2>1 DEF SigEnter, Blocked, Goto, At, SemTypeOK
    <2>3. pc[t] \in WakingAt <=> "sig_acq" \in WakingAt
        BY <1>10 DEF SigEnter, At, WakingAt
    <2> QED BY <1>10, <2>1, <2>2, <2>3, SleepFrame DEF SigEnter
<1>11. CASE SigAcquire(t)
    <2>1. Goto(t, "sig_inc") /\ "sig_inc" \in PCs
        BY <1>11 DEF SigAcquire, PCs
    <2>2. \A s \in Sems : Blocked(s)' = Blocked(s)
        BY <1>11, <2>1 DEF SigAcquire, Blocked, Goto, At, SemTypeOK
    <2>3. pc[t] \in WakingAt <=> "sig_inc" \in WakingAt
        BY <1>11 DEF SigAcquire, At, WakingAt
    <2> QED BY <1>11, <2>1, <2>2, <2>3, SleepFrame DEF SigAcquire
<1>12. ASSUME NEW no \in 0 .. Len(waiter[GivesTo(t)]), SigInc(t, no)
       PROVE  SleepCount'
    <2> DEFINE s0 == GivesTo(t)
    <2> DEFINE w == waiter[s0]
    <2>1. /\ pc[t] = "sig_inc" /\ s0 \in Sems /\ status[t] # "WAITING"
          /\ val' = [val EXCEPT ![s0] = @ + 1] /\ status' = status
          /\ w \in Seq(Threads)
        BY <1>12 DEF SigInc, At, StatusInv, GivesTo, Sems, SemTypeOK
    <2>2. PICK l \in {"sig_lk", "sig_rel"} :
             Goto(t, l) /\ (l = "sig_lk" <=> Len(w) > 0)
        BY <1>12 DEF SigInc
    <2>3. l \in PCs /\ l \notin Bound /\ pc[t] \notin Bound /\ pc[t] \notin WakingAt
        BY <2>1 DEF PCs, WakingAt, Bound
    \* Nobody else is inside s0: all that are blocked on it sleep and are listed.
    <2>4. \A u \in Threads : TakesFrom(u) = s0 => pc[u] \notin Bound
        BY <2>1, Exclusion DEF Bound, WaitHolds, SigHolds
    <2>5. \A i : ~LeavingAt(s0, i)
        BY <2>1, Exclusion DEF LeavingAt, SigHolds
    <2>6. Waking(s0) = {}
        BY <2>1, Exclusion DEF Waking, WakingAt, SigHolds
    <2>7. Len(w) > 0 <=> Blocked(s0) # {}
        <3>1. ASSUME Len(w) > 0 PROVE Blocked(s0) # {}
            <4>1. 1 \in 1 .. Len(w)
                BY <2>1, <3>1
            <4>2. /\ w[1] \in Threads /\ TakesFrom(w[1]) = s0
                  /\ status[w[1]] = "WAITING"
                BY <2>1, <2>5, <4>1, ElementOfSeq DEF WaitersListed
            <4> QED BY <4>2 DEF Blocked
        <3>2. ASSUME Blocked(s0) # {} PROVE Len(w) > 0
            <4>1. PICK u \in Blocked(s0) : TRUE
                BY <3>2
            <4>2. u \in Threads /\ TakesFrom(u) = s0 /\ status[u] = "WAITING"
                BY <2>4 DEF Blocked, Bound
            <4>3. PICK i \in 1 .. Len(w) : w[i] = u
                BY <2>1, <4>2 DEF WaitersListed
            <4> QED BY <2>1, <4>3
        <3> QED BY <3>1, <3>2
    <2>8. Len(w) > 0 <=> val[s0] < 0
        <3>1. Blocked(s0) \in SUBSET Threads
            BY DEF Blocked
        <3>2. /\ IsFiniteSet(Blocked(s0))
              /\ Cardinality(Blocked(s0)) = 0 <=> Blocked(s0) = {}
            BY <3>1, ThreadsFinite, FS_Subset, FS_EmptySet
        <3>3. Cardinality(Waking(s0)) = 0
            BY <2>6, FS_EmptySet
        <3>4. Cardinality(Blocked(s0)) = Deficit(val[s0])
            BY <2>1, <3>3 DEF SleepCount, Deficit, SemTypeOK
        <3>5. val[s0] \in Int
            BY <2>1 DEF SemTypeOK
        <3> QED BY <2>7, <3>2, <3>4, <3>5 DEF Deficit
    <2> SUFFICES ASSUME NEW s \in Sems
                 PROVE  Cardinality(Blocked(s)') = Deficit(val'[s]) + Cardinality(Waking(s)')
        BY DEF SleepCount, Deficit
    <2>9. /\ Cardinality(Waking(s)) \in Nat /\ Cardinality(Waking(s)') \in Nat
          /\ Cardinality(Waking(s)') = Cardinality(Waking(s))
                + (IF s0 = s /\ l = "sig_lk" THEN 1 ELSE 0)
        <3>1. l \in WakingAt <=> l = "sig_lk"
            BY DEF WakingAt
        <3> QED BY <2>2, <2>3, <3>1, WakingStep
    <2>10. Cardinality(Blocked(s)) = Deficit(val[s]) + Cardinality(Waking(s))
        BY DEF SleepCount, Deficit
    <2>11. Cardinality(Blocked(s)') = Cardinality(Blocked(s))
           /\ Cardinality(Blocked(s)) \in Nat
        BY <2>1, <2>2, <2>3, BlockedStep
    <2>12. val[s] \in Int /\ val'[s] = IF s = s0 THEN val[s] + 1 ELSE val[s]
        BY <2>1 DEF SemTypeOK
    <2> HIDE DEF s0, w
    <2>13. CASE s # s0
        BY <2>9, <2>10, <2>11, <2>12, <2>13
    <2>14. CASE s = s0
        <3>1. val[s] < 0 => Deficit(val[s]) = Deficit(val'[s]) + 1
            BY <2>12, <2>14 DEF Deficit
        <3>2. ~(val[s] < 0) => Deficit(val[s]) = 0 /\ Deficit(val'[s]) = 0
            BY <2>12, <2>14 DEF Deficit
        <3>3. Deficit(val'[s]) \in Int
            BY <2>12, <2>14 DEF Deficit
        <3>4. l = "sig_lk" <=> val[s] < 0
            BY <2>2, <2>8, <2>14
        <3> QED BY <2>9, <2>10, <2>11, <2>14, <3>1, <3>2, <3>3, <3>4
    <2> QED BY <2>13, <2>14
<1>13. CASE SigLock(t)
    <2>1. Goto(t, "sig_wake") /\ "sig_wake" \in PCs
        BY <1>13 DEF SigLock, PCs
    <2>2. \A s \in Sems : Blocked(s)' = Blocked(s)
        BY <1>13, <2>1 DEF SigLock, Blocked, Goto, At, SemTypeOK
    <2>3. pc[t] \in WakingAt <=> "sig_wake" \in WakingAt
        BY <1>13 DEF SigLock, At, WakingAt
    <2> QED BY <1>13, <2>1, <2>2, <2>3, SleepFrame DEF SigLock
<1>14. CASE SigWake(t)
    <2> DEFINE s0 == GivesTo(t)
    <2> DEFINE u == waiter[s0][pick[t]]
    <2>1. /\ pc[t] = "sig_wake" /\ s0 \in Sems /\ pick[t] \in 1 .. Len(waiter[s0])
          /\ val' = val /\ Goto(t, "sig_unlk")
          /\ status' = [status EXCEPT ![u] = "READY"]
          /\ waiter[s0] \in Seq(Threads)
        BY <1>14 DEF SigWake, At, PickInv, GivesTo, Sems, Target, SemTypeOK
    <2>2. ~LeavingAt(s0, pick[t])
        BY <2>1, Exclusion DEF LeavingAt, SigHolds
    <2>3. /\ u \in Threads /\ TakesFrom(u) = s0 /\ status[u] = "WAITING"
          /\ pc[u] \notin Bound
        BY <2>1, <2>2, ElementOfSeq DEF WaitersListed, StatusInv, Bound
    <2>4. u # t
        BY <2>1, <2>3 DEF TakesFrom, GivesTo
    <2>5. "sig_unlk" \in PCs /\ "sig_unlk" \notin WakingAt /\ pc[t] \in WakingAt
        BY <2>1 DEF PCs, WakingAt
    <2> HIDE DEF u
    <2> SUFFICES ASSUME NEW s \in Sems
                 PROVE  Cardinality(Blocked(s)') = Deficit(val'[s]) + Cardinality(Waking(s)')
        BY DEF SleepCount, Deficit
    <2>6. /\ Cardinality(Waking(s)) \in Nat /\ Cardinality(Waking(s)') \in Nat
          /\ Cardinality(Waking(s)') = Cardinality(Waking(s)) - (IF s0 = s THEN 1 ELSE 0)
        BY <2>1, <2>5, WakingStep
    <2>7. Cardinality(Blocked(s)) = Deficit(val[s]) + Cardinality(Waking(s))
        BY DEF SleepCount, Deficit
    <2>8. /\ Cardinality(Blocked(s)) \in Nat /\ Cardinality(Blocked(s)') \in Nat
          /\ Cardinality(Blocked(s)') = Cardinality(Blocked(s)) - (IF s0 = s THEN 1 ELSE 0)
        <3>1. Blocked(s) \in SUBSET Threads /\ Blocked(s)' \in SUBSET Threads
            BY DEF Blocked
        <3>2. Blocked(s) \ {u} = Blocked(s)' \ {u}
            BY <2>1, <2>4 DEF Blocked, Goto, SemTypeOK
        <3>3. (u \in Blocked(s) <=> s = s0) /\ u \notin Blocked(s)'
            BY <2>1, <2>3, <2>4 DEF Blocked, Goto, SemTypeOK, Bound
        <3>4. /\ Cardinality(Blocked(s)) \in Nat
              /\ Cardinality(Blocked(s)') \in Nat
              /\ Cardinality(Blocked(s)') = Cardinality(Blocked(s))
                   + (IF u \in Blocked(s)' THEN 1 ELSE 0) - (IF u \in Blocked(s) THEN 1 ELSE 0)
            BY <3>1, <3>2, CountDiff
        <3> QED BY <3>3, <3>4
    <2>9. val[s] \in Int /\ val'[s] = val[s]
        BY <2>1 DEF SemTypeOK
    <2> HIDE DEF s0
    <2> QED BY <2>6, <2>7, <2>8, <2>9 DEF Deficit
<1>15. CASE SigUnlock(t)
    <2>1. Goto(t, "sig_rm") /\ "sig_rm" \in PCs
        BY <1>15 DEF SigUnlock, PCs
    <2>2. \A s \in Sems : Blocked(s)' = Blocked(s)
        BY <1>15, <2>1 DEF SigUnlock, Blocked, Goto, At, SemTypeOK
    <2>3. pc[t] \in WakingAt <=> "sig_rm" \in WakingAt
        BY <1>15 DEF SigUnlock, At, WakingAt
    <2> QED BY <1>15, <2>1, <2>2, <2>3, SleepFrame DEF SigUnlock
<1>16. CASE SigRemove(t)
    <2>1. Goto(t, "sig_rel") /\ "sig_rel" \in PCs
        BY <1>16 DEF SigRemove, PCs
    <2>2. \A s \in Sems : Blocked(s)' = Blocked(s)
        BY <1>16, <2>1 DEF SigRemove, Blocked, Goto, At, SemTypeOK
    <2>3. pc[t] \in WakingAt <=> "sig_rel" \in WakingAt
        BY <1>16 DEF SigRemove, At, WakingAt
    <2> QED BY <1>16, <2>1, <2>2, <2>3, SleepFrame DEF SigRemove
<1>17. CASE SigRelease(t)
    <2>1. Goto(t, "wait") /\ "wait" \in PCs
        BY <1>17 DEF SigRelease, PCs
    <2>2. \A s \in Sems : Blocked(s)' = Blocked(s)
        BY <1>17, <2>1 DEF SigRelease, Blocked, Goto, At, SemTypeOK
    <2>3. pc[t] \in WakingAt <=> "wait" \in WakingAt
        BY <1>17 DEF SigRelease, At, WakingAt
    <2> QED BY <1>17, <2>1, <2>2, <2>3, SleepFrame DEF SigRelease
<1>18. CASE SaveBegin(t)
    BY <1>18 DEF SaveBegin, Blocked, Waking, SleepCount
<1>19. CASE SaveEnd(t)
    BY <1>19 DEF SaveEnd, Blocked, Waking, SleepCount
<1> QED BY <1>2, <1>3, <1>4, <1>5, <1>6, <1>7, <1>8, <1>9, <1>10, <1>11, <1>12,
           <1>13, <1>14, <1>15, <1>16, <1>17, <1>18, <1>19
        DEF SemThread, SemWait, SemSignal

(***************************************************************************)
(* The inductive invariant, and what follows from it                       *)
(***************************************************************************)
LEMMA SemInvInit == SemInit => SemInv
<1> SUFFICES ASSUME SemInit PROVE SemInv
    OBVIOUS
<1>1. SemTypeOK
    BY TypeInit
<1>2. LockInv
    BY ThreadAssumption DEF SemInit, LockInv, WaitHolds, SigHolds, Threads, Sems, TakesFrom, GivesTo
<1>3. StatusInv /\ PickInv
    BY DEF SemInit, StatusInv, PickInv
<1>4. WaitersListed
    BY DEF SemInit, WaitersListed
<1>5. \A s \in Sems : Blocked(s) = {} /\ Waking(s) = {} /\ Taken(s) = {} /\ Owed(s) = {}
    BY DEF SemInit, Blocked, Waking, Taken, Owed, WakingAt, TakenAt, OwedAt
<1>6. SleepCount /\ Balance
    <2>1. \A s \in Sems : /\ Cardinality(Blocked(s)) = 0 /\ Cardinality(Waking(s)) = 0
                          /\ Cardinality(Taken(s)) = 0 /\ Cardinality(Owed(s)) = 0
        BY <1>5, FS_EmptySet
    <2>2. val["empty"] = BufSize /\ val["fill"] = 0 /\ bra = 0
        BY DEF SemInit, Sems
    <2>3. \A s \in Sems : Resource(s) = val[s] /\ val[s] \in Nat
        BY <2>2, BufSizeAssumption DEF Resource, Sems
    <2>4. SleepCount
        BY <2>1, <2>3 DEF SleepCount
    <2>5. Balance
        BY <2>1, <2>3 DEF Balance
    <2> QED BY <2>4, <2>5
<1> QED BY <1>1, <1>2, <1>3, <1>4, <1>6 DEF SemInv

\* The invariant is inductive.
LEMMA SemInvStep == SemInv /\ [SemNext]_semVars => SemInv'
BY TypeStep, LockStepInv, StatusStepInv, PickStepInv, ListedStepInv, SleepStepInv,
   BalanceStepInv DEF SemInv

\* SemInv holds in every state of every execution.
THEOREM SemInvariant == SemSpec => []SemInv
BY SemInvInit, SemInvStep, PTL DEF SemSpec

\* A taker that is blocked has already been counted among those in flight.
LEMMA ResourceNonNegative ==
    ASSUME SemInv, NEW s \in Sems
    PROVE  Resource(s) >= 0
<1>1. Blocked(s) \subseteq Taken(s)
    BY DEF SemInv, StatusInv, Blocked, Taken, TakenAt
<1>2. Taken(s) \in SUBSET Threads /\ Owed(s) \in SUBSET Threads
      /\ Waking(s) \in SUBSET Threads
    BY DEF Taken, Owed, Waking
<1>3. IsFiniteSet(Taken(s)) /\ IsFiniteSet(Owed(s)) /\ IsFiniteSet(Waking(s))
    BY <1>2, ThreadsFinite, FS_Subset
<1>4. /\ Cardinality(Blocked(s)) \in Nat
      /\ Cardinality(Blocked(s)) <= Cardinality(Taken(s))
      /\ Cardinality(Taken(s)) \in Nat
      /\ Cardinality(Owed(s)) \in Nat
      /\ Cardinality(Waking(s)) \in Nat
    BY <1>1, <1>3, FS_Subset, FS_CardinalityType
<1>5. val[s] \in Int
    BY DEF SemInv, SemTypeOK
<1>6. Resource(s) = val[s] + Cardinality(Taken(s)) + Cardinality(Owed(s))
    BY DEF SemInv, Balance
<1>7. Cardinality(Blocked(s)) = (IF val[s] < 0 THEN -val[s] ELSE 0) + Cardinality(Waking(s))
    BY DEF SemInv, SleepCount
<1> QED BY <1>4, <1>5, <1>6, <1>7

\* Conservation bounds the depth: a positive count of units on one side is one
\* on the other, and a negative val is covered by the sleepers.
LEMMA InvImpliesDepth == SemInv => BracketDepth
<1> SUFFICES ASSUME SemInv PROVE BracketDepth
    OBVIOUS
<1>1. Resource("fill") >= 0 /\ Resource("empty") >= 0
    BY ResourceNonNegative DEF Sems
<1>2. bra \in Int
    BY DEF SemInv, SemTypeOK
<1> QED BY <1>1, <1>2, BufSizeAssumption DEF Resource, BracketDepth

\* bracketcheck.c:24 never fails, for any number of threads and any buffer.
THEOREM BracketTheorem == SemSpec => []BracketDepth
BY SemInvariant, InvImpliesDepth, PTL

\* The semaphores implement the bounded counter of BracketCheck.
THEOREM BracketRefinement == SemSpec => BracketSpec
<1>1. SemInit => BC!Init
    BY DEF SemInit, BC!Init
<1>2. SemInv' => BracketDepth'
    BY InvImpliesDepth, PTL
<1>3. SemInv /\ SemInv' /\ [SemNext]_semVars => [BC!Next]_bra
    <2> SUFFICES ASSUME SemInv, SemInv', [SemNext]_semVars, bra' # bra
                 PROVE  BC!Next
        OBVIOUS
    <2>1. PICK t \in Threads : PrintBracket(t)
        BY DEF semVars, SemNext, SemThread, SemWait, SemSignal, WaitEnter, WaitAcquire,
               WaitDec, WaitLock, WaitBlock, WaitRelease, Resume, SigEnter, SigAcquire,
               SigInc, SigLock, SigWake, SigUnlock, SigRemove, SigRelease, SaveBegin, SaveEnd
    <2>2. BracketDepth /\ BracketDepth'
        BY <1>2, InvImpliesDepth
    <2>3. bra \in Int /\ bra' \in Int
        BY DEF SemInv, SemTypeOK
    <2> QED BY <2>1, <2>2, <2>3, BufSizeAssumption
            DEF PrintBracket, BracketDepth, BC!Next, BC!Open, BC!Close
<1> QED BY <1>1, <1>3, SemInvariant, PTL DEF SemSpec, BracketSpec, BC!Spec

(***************************************************************************)
(* The lock of a task                                                      *)
(***************************************************************************)
SigAt == {"sig_wake", "sig_unlk"}

\* The thread a sem_signal is waking takes from the semaphore it gives to.
LEMMA TargetFacts ==
    ASSUME SemTypeOK, PickInv, WaitersListed, NEW g \in Threads,
           pc[g] \in {"sig_lk", "sig_wake", "sig_unlk", "sig_rm"}
    PROVE  /\ Target(g) \in Threads
           /\ TakesFrom(Target(g)) = GivesTo(g)
<1>1. GivesTo(g) \in Sems /\ pick[g] \in 1 .. Len(waiter[GivesTo(g)])
    BY DEF PickInv, GivesTo, Sems
<1>2. waiter[GivesTo(g)] \in Seq(Threads)
    BY <1>1 DEF SemTypeOK
<1> QED BY <1>1, <1>2, ElementOfSeq DEF WaitersListed, Target

\* Two sem_signals never wake the same thread at the same time.
LEMMA TargetsDiffer ==
    ASSUME SemTypeOK, LockInv, PickInv, WaitersListed,
           NEW g \in Threads, pc[g] \in {"sig_lk", "sig_wake", "sig_unlk", "sig_rm"},
           NEW h \in Threads, pc[h] \in {"sig_lk", "sig_wake", "sig_unlk", "sig_rm"},
           Target(g) = Target(h)
    PROVE  g = h
BY TargetFacts, Exclusion DEF SigHolds

\* Steps that leave lk and every chosen target alone.
LEMMA OwnerFrame ==
    ASSUME SemTypeOK, TaskLockOwner, lk' = lk,
           NEW t \in Threads, NEW l \in PCs, Goto(t, l),
           pc[t] \notin {"wait_block"}, l \notin {"wait_block"},
           pc[t] \in SigAt <=> l \in SigAt,
           lk[t] = "save" => l \in Interruptible,
           \A g \in Threads : pc'[g] \in SigAt => Target(g)' = Target(g)
    PROVE  TaskLockOwner'
<1>1. \A g \in Threads : pc'[g] \in SigAt <=> pc[g] \in SigAt
    BY DEF Goto, SemTypeOK
<1> SUFFICES ASSUME NEW u \in Threads
             PROVE  (/\ lk[u] = "wait" <=> At(u, "wait_block")
                     /\ lk[u] = "signal" <=>
                           \E g \in Threads : pc[g] \in SigAt /\ Target(g) = u
                     /\ lk[u] = "save" => pc[u] \in Interruptible)'
    BY DEF TaskLockOwner, SigAt
<1>2. lk[u] = "wait" <=> pc[u] = "wait_block"
    BY DEF TaskLockOwner, At
<1>3. lk[u] = "signal" <=> \E g \in Threads : pc[g] \in SigAt /\ Target(g) = u
    BY DEF TaskLockOwner, SigAt
<1>4. lk[u] = "save" => pc[u] \in Interruptible
    BY DEF TaskLockOwner
<1>5. pc'[u] = IF u = t THEN l ELSE pc[u]
    BY DEF Goto, SemTypeOK
<1> QED BY <1>1, <1>2, <1>3, <1>4, <1>5 DEF At

\* One holder of a task lock at a time, step by step: sem_wait, sem_signal and
\* kmt_context_save exclude each other.
LEMMA OwnerStepInv ==
    ASSUME SemTypeOK, LockInv, PickInv, WaitersListed, TaskLockOwner, [SemNext]_semVars
    PROVE  TaskLockOwner'
<1>1. CASE UNCHANGED semVars
    BY <1>1 DEF semVars, TaskLockOwner, At, Target
<1> SUFFICES ASSUME NEW t \in Threads, SemThread(t) \/ SaveBegin(t) \/ SaveEnd(t)
             PROVE  TaskLockOwner'
    BY <1>1 DEF SemNext
<1>2. CASE WaitEnter(t)
    <2>1. Goto(t, "wait_acq") /\ "wait_acq" \in PCs
        BY <1>2 DEF WaitEnter, PCs
    <2>2. lk[t] = "save" => "wait_acq" \in Interruptible
        BY <1>2 DEF WaitEnter, TaskLockOwner, At, Running, Interruptible
    <2> QED BY <1>2, <2>1, <2>2, OwnerFrame DEF WaitEnter, At, SigAt, Target
<1>3. CASE WaitAcquire(t)
    <2>1. Goto(t, "wait_dec") /\ "wait_dec" \in PCs
        BY <1>3 DEF WaitAcquire, PCs
    <2>2. lk[t] = "save" => "wait_dec" \in Interruptible
        BY <1>3 DEF WaitAcquire, TaskLockOwner, At, Running, Interruptible
    <2> QED BY <1>3, <2>1, <2>2, OwnerFrame DEF WaitAcquire, At, SigAt, Target
<1>4. CASE WaitDec(t)
    <2>1. PICK l \in {"wait_lk", "wait_rel"} : Goto(t, l)
        BY <1>4 DEF WaitDec
    <2>2. l \in PCs
        BY DEF PCs
    <2>3. lk[t] = "save" => l \in Interruptible
        BY <1>4 DEF WaitDec, TaskLockOwner, At, Interruptible
    <2> QED BY <1>4, <2>1, <2>2, <2>3, OwnerFrame DEF WaitDec, At, SigAt, Target
<1>5. CASE WaitLock(t)
    <2>1. /\ pc' = [pc EXCEPT ![t] = "wait_block"] /\ pc[t] = "wait_lk"
          /\ lk[t] = "free" /\ lk' = [lk EXCEPT ![t] = "wait"]
          /\ \A g \in Threads : Target(g)' = Target(g)
        BY <1>5 DEF WaitLock, Goto, At, Target
    <2>2. \A g \in Threads : pc'[g] \in SigAt <=> pc[g] \in SigAt
        BY <2>1 DEF SigAt, SemTypeOK
    <2> SUFFICES ASSUME NEW u \in Threads
                 PROVE  (/\ lk[u] = "wait" <=> At(u, "wait_block")
                         /\ lk[u] = "signal" <=>
                               \E g \in Threads : pc[g] \in SigAt /\ Target(g) = u
                         /\ lk[u] = "save" => pc[u] \in Interruptible)'
        BY DEF TaskLockOwner, SigAt
    <2>3. lk[u] = "wait" <=> pc[u] = "wait_block"
        BY DEF TaskLockOwner, At
    <2>4. lk[u] = "signal" <=> \E g \in Threads : pc[g] \in SigAt /\ Target(g) = u
        BY DEF TaskLockOwner, SigAt
    <2>5. lk[u] = "save" => pc[u] \in Interruptible
        BY DEF TaskLockOwner
    <2> QED BY <2>1, <2>2, <2>3, <2>4, <2>5 DEF At, SemTypeOK
<1>6. CASE WaitBlock(t)
    <2>1. /\ pc' = [pc EXCEPT ![t] = "block_rel"] /\ pc[t] = "wait_block"
          /\ lk' = [lk EXCEPT ![t] = "free"] /\ pick' = pick
          /\ waiter' = [waiter EXCEPT ![TakesFrom(t)] = Append(@, t)]
        BY <1>6 DEF WaitBlock, Goto, At
    <2>2. \A g \in Threads : pc'[g] \in SigAt <=> pc[g] \in SigAt
        BY <2>1 DEF SigAt, SemTypeOK
    <2>3. ASSUME NEW g \in Threads, pc[g] \in SigAt
          PROVE  Target(g)' = Target(g)
        <3>1. GivesTo(g) # TakesFrom(t) /\ GivesTo(g) \in Sems
            BY <2>1, <2>3, Exclusion DEF SigAt, SigHolds, WaitHolds, GivesTo, Sems
        <3> QED BY <2>1, <3>1 DEF Target, SemTypeOK
    <2> SUFFICES ASSUME NEW u \in Threads
                 PROVE  (/\ lk[u] = "wait" <=> At(u, "wait_block")
                         /\ lk[u] = "signal" <=>
                               \E g \in Threads : pc[g] \in SigAt /\ Target(g) = u
                         /\ lk[u] = "save" => pc[u] \in Interruptible)'
        BY DEF TaskLockOwner, SigAt
    <2>4. lk[u] = "wait" <=> pc[u] = "wait_block"
        BY DEF TaskLockOwner, At
    <2>5. lk[u] = "signal" <=> \E g \in Threads : pc[g] \in SigAt /\ Target(g) = u
        BY DEF TaskLockOwner, SigAt
    <2>6. lk[u] = "save" => pc[u] \in Interruptible
        BY DEF TaskLockOwner
    <2>7. lk[t] = "wait"
        BY <2>1 DEF TaskLockOwner, At
    <2> QED BY <2>1, <2>2, <2>3, <2>4, <2>5, <2>6, <2>7 DEF At, SemTypeOK
<1>7. CASE WaitRelease(t)
    <2>1. PICK l \in {"print", "yield"} : Goto(t, l)
        BY <1>7 DEF WaitRelease
    <2>2. l \in PCs
        BY DEF PCs
    <2>3. lk[t] = "save" => l \in Interruptible
        BY <1>7 DEF WaitRelease, TaskLockOwner, At, Interruptible
    <2> QED BY <1>7, <2>1, <2>2, <2>3, OwnerFrame DEF WaitRelease, At, SigAt, Target
<1>8. CASE Resume(t)
    <2>1. Goto(t, "print") /\ "print" \in PCs
        BY <1>8 DEF Resume, PCs
    <2>2. lk[t] = "save" => "print" \in Interruptible
        BY <1>8 DEF Resume, TaskLockOwner, At, Running, Interruptible
    <2> QED BY <1>8, <2>1, <2>2, OwnerFrame DEF Resume, At, SigAt, Target
<1>9. CASE PrintBracket(t)
    <2>1. Goto(t, "sig") /\ "sig" \in PCs
        BY <1>9 DEF PrintBracket, PCs
    <2>2. lk[t] = "save" => "sig" \in Interruptible
        BY <1>9 DEF PrintBracket, TaskLockOwner, At, Running, Interruptible
    <2> QED BY <1>9, <2>1, <2>2, OwnerFrame DEF PrintBracket, At, SigAt, Target
<1>10. CASE SigEnter(t)
    <2>1. Goto(t, "sig_acq") /\ "sig_acq" \in PCs
        BY <1>10 DEF SigEnter, PCs
    <2>2. lk[t] = "save" => "sig_acq" \in Interruptible
        BY <1>10 DEF SigEnter, TaskLockOwner, At, Running, Interruptible
    <2> QED BY <1>10, <2>1, <2>2, OwnerFrame DEF SigEnter, At, SigAt, Target
<1>11. CASE SigAcquire(t)
    <2>1. Goto(t, "sig_inc") /\ "sig_inc" \in PCs
        BY <1>11 DEF SigAcquire, PCs
    <2>2. lk[t] = "save" => "sig_inc" \in Interruptible
        BY <1>11 DEF SigAcquire, TaskLockOwner, At, Running, Interruptible
    <2> QED BY <1>11, <2>1, <2>2, OwnerFrame DEF SigAcquire, At, SigAt, Target
<1>12. ASSUME NEW no \in 0 .. Len(waiter[GivesTo(t)]), SigInc(t, no)
       PROVE  TaskLockOwner'
    <2>1. PICK l \in {"sig_lk", "sig_rel"} : Goto(t, l)
        BY <1>12 DEF SigInc
    <2>2. l \in PCs /\ l \notin SigAt /\ pc[t] = "sig_inc"
        BY <1>12 DEF PCs, SigInc, At, SigAt
    <2>3. lk[t] # "save"
        BY <2>2 DEF TaskLockOwner, Interruptible
    <2>4. waiter' = waiter /\ lk' = lk /\ pick' = [pick EXCEPT ![t] = no]
        BY <1>12 DEF SigInc
    <2>5. \A g \in Threads : pc'[g] \in SigAt => Target(g)' = Target(g)
        BY <2>1, <2>2, <2>4 DEF Target, Goto, SemTypeOK
    <2> QED BY <2>1, <2>2, <2>3, <2>4, <2>5, OwnerFrame DEF SigAt
<1>13. CASE SigLock(t)
    <2> DEFINE v == Target(t)
    <2>1. /\ pc' = [pc EXCEPT ![t] = "sig_wake"] /\ pc[t] = "sig_lk"
          /\ lk[v] = "free" /\ lk' = [lk EXCEPT ![v] = "signal"]
          /\ \A g \in Threads : Target(g)' = Target(g)
        BY <1>13 DEF SigLock, Goto, At, Target
    <2>2. \A g \in Threads : pc'[g] \in SigAt <=> (g = t \/ pc[g] \in SigAt)
        BY <2>1 DEF SigAt, SemTypeOK
    <2>3. v \in Threads
        BY <2>1, TargetFacts
    <2> HIDE DEF v
    <2>4. Target(t) = v
        BY DEF v
    <2> SUFFICES ASSUME NEW u \in Threads
                 PROVE  (/\ lk[u] = "wait" <=> At(u, "wait_block")
                         /\ lk[u] = "signal" <=>
                               \E g \in Threads : pc[g] \in SigAt /\ Target(g) = u
                         /\ lk[u] = "save" => pc[u] \in Interruptible)'
        BY DEF TaskLockOwner, SigAt
    <2>5. lk[u] = "wait" <=> pc[u] = "wait_block"
        BY DEF TaskLockOwner, At
    <2>6. lk[u] = "signal" <=> \E g \in Threads : pc[g] \in SigAt /\ Target(g) = u
        BY DEF TaskLockOwner, SigAt
    <2>7. lk[u] = "save" => pc[u] \in Interruptible
        BY DEF TaskLockOwner
    <2>8. lk'[u] = IF u = v THEN "signal" ELSE lk[u]
        BY <2>1, <2>3 DEF SemTypeOK
    <2>9. pc'[u] = IF u = t THEN "sig_wake" ELSE pc[u]
        BY <2>1 DEF SemTypeOK
    <2>10. lk[t] # "wait" /\ lk[t] # "save" /\ pc[v] # "wait_block"
        BY <2>1, <2>3 DEF TaskLockOwner, At, Interruptible
    <2>11. u # v => (lk'[u] = "signal" <=>
                       \E g \in Threads : pc'[g] \in SigAt /\ Target(g)' = u)
        BY <2>1, <2>2, <2>4, <2>6, <2>8
    <2>12. \E g \in Threads : pc'[g] \in SigAt /\ Target(g)' = v
        BY <2>1, <2>2, <2>4
    <2>13. lk'[u] = "wait" <=> pc'[u] = "wait_block"
        BY <2>5, <2>8, <2>9, <2>10
    <2>14. lk'[u] = "save" => pc'[u] \in Interruptible
        BY <2>7, <2>8, <2>9, <2>10
    <2> QED BY <2>8, <2>11, <2>12, <2>13, <2>14 DEF At
<1>14. CASE SigWake(t)
    <2>1. Goto(t, "sig_unlk") /\ "sig_unlk" \in PCs
        BY <1>14 DEF SigWake, PCs
    <2>2. lk[t] = "save" => "sig_unlk" \in Interruptible
        BY <1>14 DEF SigWake, TaskLockOwner, At, Running, Interruptible
    <2> QED BY <1>14, <2>1, <2>2, OwnerFrame DEF SigWake, At, SigAt, Target
<1>15. CASE SigUnlock(t)
    <2> DEFINE v == Target(t)
    <2>1. /\ pc' = [pc EXCEPT ![t] = "sig_rm"] /\ pc[t] = "sig_unlk"
          /\ lk' = [lk EXCEPT ![v] = "free"]
          /\ \A g \in Threads : Target(g)' = Target(g)
        BY <1>15 DEF SigUnlock, Goto, At, Target
    <2>2. \A g \in Threads : pc'[g] \in SigAt <=> (g # t /\ pc[g] \in SigAt)
        BY <2>1 DEF SigAt, SemTypeOK
    <2>3. v \in Threads
        BY <2>1, TargetFacts
    <2>4. \A g \in Threads : pc[g] \in SigAt /\ Target(g) = v => g = t
        BY <2>1, TargetsDiffer DEF SigAt
    <2>5. lk[v] = "signal"
        BY <2>1, <2>3 DEF TaskLockOwner
    <2> HIDE DEF v
    <2>6. Target(t) = v
        BY DEF v
    <2> SUFFICES ASSUME NEW u \in Threads
                 PROVE  (/\ lk[u] = "wait" <=> At(u, "wait_block")
                         /\ lk[u] = "signal" <=>
                               \E g \in Threads : pc[g] \in SigAt /\ Target(g) = u
                         /\ lk[u] = "save" => pc[u] \in Interruptible)'
        BY DEF TaskLockOwner, SigAt
    <2>7. lk[u] = "wait" <=> pc[u] = "wait_block"
        BY DEF TaskLockOwner, At
    <2>8. lk[u] = "signal" <=> \E g \in Threads : pc[g] \in SigAt /\ Target(g) = u
        BY DEF TaskLockOwner, SigAt
    <2>9. lk[u] = "save" => pc[u] \in Interruptible
        BY DEF TaskLockOwner
    <2>10. lk'[u] = IF u = v THEN "free" ELSE lk[u]
        BY <2>1, <2>3 DEF SemTypeOK
    <2>11. pc'[u] = IF u = t THEN "sig_rm" ELSE pc[u]
        BY <2>1 DEF SemTypeOK
    <2>12. pc[v] # "wait_block" /\ lk[t] # "wait" /\ lk[t] # "save"
        BY <2>1, <2>3, <2>5 DEF TaskLockOwner, At, Interruptible
    <2>13. lk'[u] = "signal" <=> \E g \in Threads : pc'[g] \in SigAt /\ Target(g)' = u
        BY <2>1, <2>2, <2>4, <2>6, <2>8, <2>10
    <2>14. lk'[u] = "wait" <=> pc'[u] = "wait_block"
        BY <2>7, <2>10, <2>11, <2>12
    <2>15. lk'[u] = "save" => pc'[u] \in Interruptible
        BY <2>9, <2>10, <2>11, <2>12
    <2> QED BY <2>13, <2>14, <2>15 DEF At
<1>16. CASE SigRemove(t)
    <2>1. /\ Goto(t, "sig_rel") /\ "sig_rel" \in PCs /\ pc[t] = "sig_rm" /\ lk' = lk
          /\ waiter' = [waiter EXCEPT ![GivesTo(t)] = Shifted(@, pick[t])]
          /\ pick' = [pick EXCEPT ![t] = 0]
        BY <1>16 DEF SigRemove, PCs, At
    <2>2. lk[t] # "save"
        BY <2>1 DEF TaskLockOwner, Interruptible
    <2>3. ASSUME NEW g \in Threads, pc'[g] \in SigAt
          PROVE  Target(g)' = Target(g)
        <3>1. g # t /\ pc[g] \in SigAt
            BY <2>1, <2>3 DEF SigAt, Goto, SemTypeOK
        <3>2. GivesTo(g) # GivesTo(t)
            BY <2>1, <3>1, Exclusion DEF SigHolds, SigAt
        <3>3. GivesTo(g) \in Sems
            BY DEF GivesTo, Sems
        <3>4. pick'[g] = pick[g]
            BY <2>1, <3>1 DEF SemTypeOK
        <3>5. waiter'[GivesTo(g)] = waiter[GivesTo(g)]
            BY <2>1, <3>2, <3>3 DEF SemTypeOK
        <3> QED BY <3>4, <3>5 DEF Target
    <2> QED BY <2>1, <2>2, <2>3, OwnerFrame DEF SigAt
<1>17. CASE SigRelease(t)
    <2>1. Goto(t, "wait") /\ "wait" \in PCs
        BY <1>17 DEF SigRelease, PCs
    <2>2. lk[t] = "save" => "wait" \in Interruptible
        BY <1>17 DEF SigRelease, TaskLockOwner, At, Running, Interruptible
    <2> QED BY <1>17, <2>1, <2>2, OwnerFrame DEF SigRelease, At, SigAt, Target
<1>18. CASE SaveBegin(t)
    <2>1. /\ pc' = pc /\ lk' = [lk EXCEPT ![t] = "save"]
          /\ lk[t] = "free" /\ pc[t] \in Interruptible
          /\ \A g \in Threads : Target(g)' = Target(g)
        BY <1>18 DEF SaveBegin, Target
    <2> QED BY <2>1 DEF TaskLockOwner, SemTypeOK, At
<1>19. CASE SaveEnd(t)
    <2>1. /\ pc' = pc /\ lk' = [lk EXCEPT ![t] = "free"]
          /\ lk[t] = "save"
          /\ \A g \in Threads : Target(g)' = Target(g)
        BY <1>19 DEF SaveEnd, Target
    <2> QED BY <2>1 DEF TaskLockOwner, SemTypeOK, At
<1> QED BY <1>2, <1>3, <1>4, <1>5, <1>6, <1>7, <1>8, <1>9, <1>10, <1>11, <1>12,
           <1>13, <1>14, <1>15, <1>16, <1>17, <1>18, <1>19
        DEF SemThread, SemWait, SemSignal

\* All task locks are free at first.
LEMMA OwnerInit == SemInit => TaskLockOwner
BY DEF SemInit, TaskLockOwner, At, Interruptible

\* The holder of a task's lock is known from the program counters.
THEOREM TaskLockTheorem == SemSpec => []TaskLockOwner
<1>1. SemInv /\ TaskLockOwner /\ [SemNext]_semVars => TaskLockOwner'
    BY OwnerStepInv DEF SemInv
<1> QED BY <1>1, OwnerInit, SemInvariant, PTL DEF SemSpec

\* A thread goes on behind a blocking P only when its entry in waiter[] is
\* being removed or gone.
THEOREM ResumeTheorem == SemSpec => ResumeOnlyIfWoken
<1>1. SemInv /\ [SemNext]_semVars =>
        [\A t \in Threads : At(t, "yield") /\ pc'[t] = "print" =>
            \A i \in 1 .. Len(waiter[TakesFrom(t)]) :
               waiter[TakesFrom(t)][i] = t => LeavingAt(TakesFrom(t), i)]_semVars
    <2> SUFFICES ASSUME SemInv, SemNext, NEW t \in Threads, pc[t] = "yield", pc'[t] = "print",
                        NEW i \in 1 .. Len(waiter[TakesFrom(t)]),
                        waiter[TakesFrom(t)][i] = t
                 PROVE  LeavingAt(TakesFrom(t), i)
        BY DEF At
    <2>1. PICK u \in Threads : SemThread(u) \/ SaveBegin(u) \/ SaveEnd(u)
        BY DEF SemNext
    <2>2. u = t /\ Resume(t)
        BY <2>1 DEF SemInv, SemTypeOK, At, Goto, SemThread, SemWait, SemSignal, WaitEnter,
               WaitAcquire, WaitDec, WaitLock, WaitBlock, WaitRelease, Resume, PrintBracket,
               SigEnter, SigAcquire, SigInc, SigLock, SigWake, SigUnlock, SigRemove,
               SigRelease, SaveBegin, SaveEnd
    <2>3. status[t] # "WAITING" /\ TakesFrom(t) \in Sems
        BY <2>2 DEF Resume, TakesFrom, Sems
    <2> QED BY <2>3 DEF SemInv, WaitersListed
<1> QED BY <1>1, SemInvariant, PTL DEF SemSpec, ResumeOnlyIfWoken
=============================================================================
