---------------------------- MODULE KvLocksProofs ----------------------------
(***************************************************************************)
(* Proofs about KvLocks, for any threads, handles and ways to share them:  *)
(* who excludes whom, that no file stays locked, and that no count in the  *)
(* head of the journal is lost in the two uses that are safe.              *)
(***************************************************************************)
EXTENDS KvLocks, TLAPS

\* A step of a thread, a call included.
ThreadNext(t) ==
    Open(t) \/ Step(t) \/ Close(t) \/ \E o \in {"put", "get"} : Call(t, o)

\* The invariant excludes threads on the files as Exclusion says.
LEMMA ExclusionFromInv == LocksInv => Exclusion
<1> SUFFICES ASSUME LocksInv,
                    NEW s \in Threads, NEW t \in Threads,
                    s # t, pc[s] \in Inside, pc[t] \in Inside
             PROVE  use[s] # use[t] /\ (Shares(s) # {s} \/ Shares(t) # {t})
    BY DEF Exclusion
<1>1. mtx[use[s]] = s /\ mtx[use[t]] = t
    BY DEF LocksInv, MutexHeld
<1>2. use[s] # use[t]
    BY <1>1
<1>3. ~(Shares(s) = {s} /\ Shares(t) = {t})
    BY <1>2 DEF LocksInv, FilesHeld
<1> QED
    BY <1>2, <1>3

\* In the two safe uses nobody else is inside.
LEMMA AloneInside ==
    ASSUME LocksInv, OneHandle \/ OneThreadEach,
           NEW s \in Threads, NEW t \in Threads,
           pc[s] \in Inside, pc[t] \in Inside
    PROVE  s = t
<1> SUFFICES ASSUME s # t PROVE FALSE
    OBVIOUS
<1>1. use[s] # use[t] /\ (Shares(s) # {s} \/ Shares(t) # {t})
    BY ExclusionFromInv DEF Exclusion
<1>2. CASE OneHandle
    BY <1>1, <1>2 DEF OneHandle
<1>3. CASE OneThreadEach
  <2>1. \A r \in Threads : Shares(r) = {r}
      BY <1>3 DEF OneThreadEach, Shares
  <2> QED
      BY <1>1, <2>1
<1> QED
    BY <1>2, <1>3

LEMMA InitInv == Init => LocksInv
<1> SUFFICES ASSUME Init PROVE LocksInv
    OBVIOUS
<1> USE KvLocksAssumption DEF Init
<1>1. LocksTypeOK
    BY DEF LocksTypeOK, PCs, Inside
<1>2. MutexHeld
    BY DEF MutexHeld, Inside
<1>3. FilesHeld
    BY DEF FilesHeld, Inside
<1>4. CountInv
    BY DEF CountInv
<1> QED
    BY <1>1, <1>2, <1>3, <1>4 DEF LocksInv

\* Type correctness, one step per action.
LEMMA TypeStep ==
    ASSUME LocksTypeOK, [Next]_lockVars PROVE LocksTypeOK'
<1> USE KvLocksAssumption DEF LocksTypeOK, PCs, Inside, perThread, head
<1>1. CASE UNCHANGED lockVars
    BY <1>1 DEF lockVars
<1>2. ASSUME NEW t \in Threads, Open(t) PROVE LocksTypeOK'
    BY <1>2 DEF Open, Starts, Goes
<1>3. ASSUME NEW t \in Threads, NEW o \in {"put", "get"}, Call(t, o) PROVE LocksTypeOK'
    BY <1>3 DEF Call, Starts, Goes
<1>4. ASSUME NEW t \in Threads, WriteHead(t) PROVE LocksTypeOK'
    BY <1>4 DEF WriteHead, Goes
<1>5. ASSUME NEW t \in Threads, LockData(t) \/ LockJournal(t) PROVE LocksTypeOK'
    BY <1>5 DEF LockData, LockJournal, Flock, Goes
<1>6. ASSUME NEW t \in Threads, LockMutex(t) \/ UnlockMutex(t) PROVE LocksTypeOK'
    BY <1>6 DEF LockMutex, UnlockMutex, Goes
<1>7. ASSUME NEW t \in Threads, Reads(t) \/ ReadCount(t) \/ WriteCount(t) PROVE LocksTypeOK'
    BY <1>7 DEF Reads, ReadCount, WriteCount, Goes
<1>8. ASSUME NEW t \in Threads, UnlockFirst(t) \/ UnlockSecond(t) PROVE LocksTypeOK'
    BY <1>8 DEF UnlockFirst, UnlockSecond, Funlock, Goes
<1>9. ASSUME NEW t \in Threads, Close(t) PROVE LocksTypeOK'
    BY <1>9 DEF Close, Funlock
<1>10. ASSUME NEW h \in Handles, Die(h) PROVE LocksTypeOK'
    BY <1>10 DEF Die, Funlock
<1> QED
    BY <1>1, <1>2, <1>3, <1>4, <1>5, <1>6, <1>7, <1>8, <1>9, <1>10 DEF Next, Step

\* Who holds the mutex, one step per action.
LEMMA MutexStep ==
    ASSUME LocksTypeOK, MutexHeld, [Next]_lockVars PROVE MutexHeld'
<1> USE KvLocksAssumption DEF LocksTypeOK, MutexHeld, PCs, Inside, perThread, head
<1>1. CASE UNCHANGED lockVars
    BY <1>1 DEF lockVars
<1>2. ASSUME NEW t \in Threads, Open(t) PROVE MutexHeld'
    BY <1>2 DEF Open, Starts, Goes
<1>3. ASSUME NEW t \in Threads, NEW o \in {"put", "get"}, Call(t, o) PROVE MutexHeld'
    BY <1>3 DEF Call, Starts, Goes
<1>4. ASSUME NEW t \in Threads, WriteHead(t) \/ LockData(t) \/ LockJournal(t)
      PROVE  MutexHeld'
    BY <1>4 DEF WriteHead, LockData, LockJournal, Goes
<1>5. ASSUME NEW t \in Threads, LockMutex(t) PROVE MutexHeld'
    BY <1>5 DEF LockMutex, Goes
<1>6. ASSUME NEW t \in Threads, Reads(t) \/ ReadCount(t) \/ WriteCount(t) PROVE MutexHeld'
    BY <1>6 DEF Reads, ReadCount, WriteCount, Goes
<1>7. ASSUME NEW t \in Threads, UnlockMutex(t) PROVE MutexHeld'
    BY <1>7 DEF UnlockMutex, Goes
<1>8. ASSUME NEW t \in Threads, UnlockFirst(t) \/ UnlockSecond(t) PROVE MutexHeld'
    BY <1>8 DEF UnlockFirst, UnlockSecond, Goes
<1>9. ASSUME NEW t \in Threads, Close(t) PROVE MutexHeld'
    BY <1>9 DEF Close
<1>10. ASSUME NEW h \in Handles, Die(h) PROVE MutexHeld'
    BY <1>10 DEF Die
<1> QED
    BY <1>1, <1>2, <1>3, <1>4, <1>5, <1>6, <1>7, <1>8, <1>9, <1>10 DEF Next, Step

\* The files of a handle with one thread: nobody else unlocks them.
LEMMA FilesStep ==
    ASSUME LocksTypeOK, FilesHeld, [Next]_lockVars PROVE FilesHeld'
<1> USE KvLocksAssumption DEF LocksTypeOK, PCs, Inside, perThread, head
<1>1. CASE UNCHANGED lockVars
    BY <1>1 DEF lockVars, FilesHeld, Shares
<1> SUFFICES ASSUME Next, NEW r \in Threads, Shares(r) = {r}
             PROVE  /\ pc'[r] \in Inside \cup {"j", "m", "first"} => file'["data"] = use[r]
                    /\ pc'[r] \in Inside \cup {"m", "first"} => file'["jnl"] = use[r]
  <2>1. use' = use
      BY <1>1 DEF Next, Step, Open, Call, WriteHead, LockData, LockJournal, LockMutex, Reads,
         ReadCount, WriteCount, UnlockMutex, UnlockFirst, UnlockSecond, Close, Die, lockVars
  <2> QED
      BY <1>1, <2>1 DEF FilesHeld, Shares
<1>a. /\ pc[r] \in Inside \cup {"j", "m", "first"} => file["data"] = use[r]
      /\ pc[r] \in Inside \cup {"m", "first"} => file["jnl"] = use[r]
    BY DEF FilesHeld
<1>b. \A t \in Threads : t # r => use[t] # use[r]
    BY DEF Shares
<1> DEFINE Kept == /\ pc'[r] \in Inside \cup {"j", "m", "first"} => file'["data"] = use[r]
                   /\ pc'[r] \in Inside \cup {"m", "first"} => file'["jnl"] = use[r]
<1>2. ASSUME NEW t \in Threads, Open(t) PROVE Kept
    BY <1>2, <1>a DEF Open, Starts, Goes
<1>3. ASSUME NEW t \in Threads, NEW o \in {"put", "get"}, Call(t, o) PROVE Kept
    BY <1>3, <1>a DEF Call, Starts, Goes
<1>4. ASSUME NEW t \in Threads, WriteHead(t) PROVE Kept
    BY <1>4, <1>a DEF WriteHead, Goes
<1>5. ASSUME NEW t \in Threads, LockData(t) \/ LockJournal(t) PROVE Kept
    BY <1>5, <1>a, <1>b DEF LockData, LockJournal, Flock, Goes
<1>6. ASSUME NEW t \in Threads, LockMutex(t) \/ UnlockMutex(t) PROVE Kept
    BY <1>6, <1>a DEF LockMutex, UnlockMutex, Goes
<1>7. ASSUME NEW t \in Threads, Reads(t) \/ ReadCount(t) \/ WriteCount(t) PROVE Kept
    BY <1>7, <1>a DEF Reads, ReadCount, WriteCount, Goes
<1>8. ASSUME NEW t \in Threads, UnlockFirst(t) \/ UnlockSecond(t) PROVE Kept
    BY <1>8, <1>a, <1>b DEF UnlockFirst, UnlockSecond, Funlock, Goes
<1>9. ASSUME NEW t \in Threads, Close(t) PROVE Kept
    BY <1>9, <1>a, <1>b DEF Close, Funlock, Shares
<1>10. ASSUME NEW h \in Handles, Die(h) PROVE Kept
    BY <1>10, <1>a DEF Die, Funlock
<1> QED
    BY <1>2, <1>3, <1>4, <1>5, <1>6, <1>7, <1>8, <1>9, <1>10 DEF Next, Step

\* The count: only who is inside writes it, and nobody else is then.
LEMMA CountStep ==
    ASSUME LocksInv, [Next]_lockVars PROVE CountInv'
<1>0. use' = use /\ new' = new
    BY DEF Next, Step, Open, Call, WriteHead, LockData, LockJournal, LockMutex, Reads,
       ReadCount, WriteCount, UnlockMutex, UnlockFirst, UnlockSecond, Close, Die, lockVars
<1> SUFFICES ASSUME OneHandle \/ OneThreadEach, ~new
             PROVE  /\ headed' /\ nr' = added'
                    /\ \A t \in Threads : pc'[t] # "init" /\ (pc'[t] = "write" => seen'[t] = nr')
    BY <1>0 DEF CountInv, OneHandle, OneThreadEach
<1>a. /\ headed /\ nr = added
      /\ \A t \in Threads : pc[t] # "init" /\ (pc[t] = "write" => seen[t] = nr)
    BY DEF LocksInv, CountInv
<1>b. \A s, t \in Threads : pc[s] \in Inside /\ pc[t] \in Inside => s = t
    BY AloneInside
<1> DEFINE Counted ==
        /\ headed' /\ nr' = added'
        /\ \A t \in Threads : pc'[t] # "init" /\ (pc'[t] = "write" => seen'[t] = nr')
<1> USE DEF LocksInv, LocksTypeOK, PCs, Inside, perThread, head
<1>1. CASE UNCHANGED lockVars
    BY <1>1, <1>a DEF lockVars
<1>2. ASSUME NEW t \in Threads, Open(t) PROVE Counted
  <2>1. pc' = [pc EXCEPT ![t] = "d"] /\ seen' = seen /\ UNCHANGED head
      BY <1>2, <1>a DEF Open, Starts, Goes
  <2> QED
      BY <2>1, <1>a
<1>3. ASSUME NEW t \in Threads, NEW o \in {"put", "get"}, Call(t, o) PROVE Counted
    BY <1>3, <1>a DEF Call, Starts, Goes
<1>4. ASSUME NEW t \in Threads, WriteHead(t) PROVE Counted
    BY <1>4, <1>a DEF WriteHead, Goes
<1>5. ASSUME NEW t \in Threads, LockData(t) \/ LockJournal(t) PROVE Counted
    BY <1>5, <1>a DEF LockData, LockJournal, Goes
<1>6. ASSUME NEW t \in Threads, LockMutex(t) \/ UnlockMutex(t) PROVE Counted
    BY <1>6, <1>a DEF LockMutex, UnlockMutex, Goes
<1>7. ASSUME NEW t \in Threads, Reads(t) \/ ReadCount(t) PROVE Counted
    BY <1>7, <1>a DEF Reads, ReadCount, Goes
<1>8. ASSUME NEW t \in Threads, WriteCount(t) PROVE Counted
    BY <1>8, <1>a, <1>b DEF WriteCount, Goes
<1>9. ASSUME NEW t \in Threads, UnlockFirst(t) \/ UnlockSecond(t) PROVE Counted
    BY <1>9, <1>a DEF UnlockFirst, UnlockSecond, Goes
<1>10. ASSUME NEW t \in Threads, Close(t) PROVE Counted
    BY <1>10, <1>a DEF Close
<1>11. ASSUME NEW h \in Handles, Die(h) PROVE Counted
    BY <1>11, <1>a DEF Die
<1> QED
    BY <1>1, <1>2, <1>3, <1>4, <1>5, <1>6, <1>7, <1>8, <1>9, <1>10, <1>11 DEF Next, Step

\* A file stays locked only with a thread behind it, one step per action.
LEMMA LeftStep ==
    ASSUME LocksTypeOK, NoLockLeft, [Next]_lockVars PROVE NoLockLeft'
<1> USE KvLocksAssumption DEF LocksTypeOK, PCs, Inside, perThread, head
<1>0. CASE UNCHANGED lockVars
    BY <1>0 DEF lockVars, NoLockLeft, Holding
<1> SUFFICES ASSUME Next, NEW f \in {"data", "jnl"}, file'[f] # None
             PROVE  \E r \in Threads : use'[r] = file'[f] /\ Holding(r, f)'
    BY <1>0 DEF NoLockLeft
<1>a. ASSUME file[f] # None PROVE \E r \in Threads : use[r] = file[f] /\ Holding(r, f)
    BY <1>a DEF NoLockLeft
<1> DEFINE Backed == \E r \in Threads : use'[r] = file'[f] /\ Holding(r, f)'
<1>2. ASSUME NEW t \in Threads, Open(t) PROVE Backed
    BY <1>2, <1>a DEF Open, Starts, Goes, Holding
<1>3. ASSUME NEW t \in Threads, NEW o \in {"put", "get"}, Call(t, o) PROVE Backed
    BY <1>3, <1>a DEF Call, Starts, Goes, Holding
<1>4. ASSUME NEW t \in Threads, WriteHead(t) PROVE Backed
    BY <1>4, <1>a DEF WriteHead, Goes, Holding
<1>5. ASSUME NEW t \in Threads, LockData(t) \/ LockJournal(t) PROVE Backed
    BY <1>5, <1>a DEF LockData, LockJournal, Flock, Goes, Holding
<1>6. ASSUME NEW t \in Threads, LockMutex(t) \/ UnlockMutex(t) PROVE Backed
    BY <1>6, <1>a DEF LockMutex, UnlockMutex, Goes, Holding
<1>7. ASSUME NEW t \in Threads, Reads(t) \/ ReadCount(t) \/ WriteCount(t) PROVE Backed
    BY <1>7, <1>a DEF Reads, ReadCount, WriteCount, Goes, Holding
<1>8. ASSUME NEW t \in Threads, UnlockFirst(t) \/ UnlockSecond(t) PROVE Backed
    BY <1>8, <1>a DEF UnlockFirst, UnlockSecond, Funlock, Goes, Holding
<1>9. ASSUME NEW t \in Threads, Close(t) PROVE Backed
    BY <1>9, <1>a DEF Close, Funlock, Holding, Shares
<1>10. ASSUME NEW h \in Handles, Die(h) PROVE Backed
    BY <1>10, <1>a DEF Die, Funlock, Holding
<1> QED
    BY <1>2, <1>3, <1>4, <1>5, <1>6, <1>7, <1>8, <1>9, <1>10 DEF Next, Step

\* LocksInv is inductive.
THEOREM LocksInvariant == Spec => []LocksInv
<1>1. LocksInv /\ [Next]_lockVars => LocksInv'
    BY TypeStep, MutexStep, FilesStep, CountStep DEF LocksInv
<1> QED
    BY InitInv, <1>1, PTL DEF Spec

\* Threads of one handle exclude each other, and so do handles of one thread each.
THEOREM ExclusionTheorem == Spec => []Exclusion
<1>1. LocksInv => Exclusion
    BY ExclusionFromInv
<1> QED
    BY <1>1, LocksInvariant, PTL

\* Whoever unlocked what for whom, no file stays locked without an operation.
THEOREM NoLockLeftTheorem == Spec => []NoLockLeft
<1>1. Init => NoLockLeft
    BY DEF Init, NoLockLeft
<1>2. LocksInv /\ NoLockLeft /\ [Next]_lockVars => NoLockLeft'
    BY LeftStep DEF LocksInv
<1> QED
    BY <1>1, <1>2, LocksInvariant, PTL DEF Spec

\* Threads on one handle, or processes of one thread, lose no count of the journal.
THEOREM CountTheorem == Spec => []CountKept
<1>1. LocksInv => CountKept
    BY DEF LocksInv, CountInv, CountKept
<1> QED
    BY <1>1, LocksInvariant, PTL
=============================================================================
