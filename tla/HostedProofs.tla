---------------------------- MODULE HostedProofs ----------------------------
(***************************************************************************)
(* The parts that no kernel or device stands behind, for any constants:    *)
(* address spaces (NativeVme) and keys (KeyQueue) of the native platform,  *)
(* sperf, the division of klib, and the numbers of libkvdb.  Of each part  *)
(* with steps an inductive invariant, and the safety properties that       *)
(* follow from it.                                                         *)
(***************************************************************************)
EXTENDS NativeVme, KeyQueue, Sperf, Int64, KvInt, Numbers, FiniteSetTheorems, FunctionTheorems,
        TLAPS

(***************************************************************************)
(* The key queue                                                           *)
(***************************************************************************)
Slots == 0 .. KeyQueueLen - 1
Inside == {t \in Readers : pc[t] \in {"take", "advance", "unlock"}}

KeyTypes ==
    /\ initFlag \in Nat /\ inits \in Nat /\ pressed \in Nat /\ switches \in Nat
    /\ lock = Free \/ lock \in [owner : {"program", "event"}, depth : Nat \ {0}]
    /\ ring \in [Slots -> Nat] /\ keyF \in Slots /\ keyR \in Slots
    /\ running \in Readers
    /\ pc \in [Readers -> {"idle", "init", "create", "lock", "take", "advance", "unlock"}]
    /\ taken \in [Readers -> Nat] /\ slot \in [Readers -> Slots]
    /\ eventPc \in {"wait", "lock", "store", "bump", "unlock"} /\ got \in Seq(Nat)
    /\ inInit \in BOOLEAN /\ inRead \in BOOLEAN /\ lapped \in BOOLEAN

\* One context initialises, and nobody locks or presses a key before it is done.
StartInv ==
    ~inInit =>
        /\ \A t \in Readers : pc[t] \in {"init", "create"} => t = running
        /\ \/ initFlag = 1 /\ inits = 0 /\ \A t \in Readers : pc[t] \in {"idle", "init"}
           \/ /\ initFlag = 2 /\ inits = 0 /\ pc[running] = "create"
              /\ \A t \in Readers : t # running => pc[t] = "idle"
           \/ initFlag = 2 /\ inits = 1 /\ \A t \in Readers : pc[t] \notin {"init", "create"}
        /\ inits = 0 => lock = Free /\ eventPc = "wait"

\* The mutex is held by those who are between lock and unlock, once for each.
LockInv ==
    ~inInit =>
        /\ lock.owner = "event" <=> eventPc \in {"store", "bump", "unlock"}
        /\ lock.owner = "event" => lock.depth = 1
        /\ IsFiniteSet(Inside)
        /\ lock.owner = "program" => lock.depth = Cardinality(Inside)
        /\ lock.owner # "program" => Inside = {}
        /\ ~inRead => Inside \subseteq {running}

\* The number of the last key in the ring.
Stored == IF eventPc \in {"lock", "store", "bump"} THEN pressed - 1 ELSE pressed

\* A key has been taken off the ring and is not in `got` yet.
Held == pc[running] = "unlock" /\ taken[running] # KeyNone

GotInOrder ==
    \A i \in DOMAIN got :
        /\ i > 1 => got[i] > got[i - 1]
        /\ (got[i] - i) % KeyQueueLen = 0
        /\ ~lapped => got[i] = i

\* Key c is the last one read or lost, keys c + 1 to Stored wait in the ring.
Window(c) ==
    /\ c <= Stored /\ Stored - c < KeyQueueLen
    /\ keyF = c % KeyQueueLen /\ keyR = Stored % KeyQueueLen
    /\ \A k \in c .. Stored - 1 : ring[k % KeyQueueLen] = k + 1
    /\ eventPc = "bump" => ring[keyR] = pressed

\* What the reader has in hand, and the last key it has returned.
Reading(c) ==
    /\ pc[running] = "advance" => c < Stored /\ taken[running] = c + 1 /\ slot[running] = keyF
    /\ pc[running] = "unlock" => taken[running] \in {KeyNone, c}
    /\ LET n == IF Held THEN Len(got) + 1 ELSE Len(got)
       IN  /\ (c - n) % KeyQueueLen = 0
           /\ ~lapped => c = n
           /\ got # << >> => IF Held THEN got[Len(got)] < c ELSE got[Len(got)] <= c

OrderInv == Undisturbed => GotInOrder /\ \E c \in Nat : Window(c) /\ Reading(c)

KeyInv == KeyTypes /\ StartInv /\ LockInv /\ OrderInv
------------------------------------------------------------------------------
(***************************************************************************)
(* Arithmetic of the ring                                                  *)
(***************************************************************************)
LEMMA Division ==
    ASSUME NEW a \in Int
    PROVE  /\ a = KeyQueueLen * (a \div KeyQueueLen) + (a % KeyQueueLen)
           /\ a \div KeyQueueLen \in Int /\ a % KeyQueueLen \in Slots
BY KeyAssumption DEF Slots

LEMMA OneQuotient ==
    ASSUME NEW p \in Int, NEW q \in Int, NEW r \in Slots, NEW s \in Slots,
           KeyQueueLen * p + r = KeyQueueLen * q + s
    PROVE  p = q /\ r = s
<1>1. KeyQueueLen \in Int /\ KeyQueueLen > 0 /\ r \in Int /\ s \in Int
    BY KeyAssumption DEF Slots
<1>2. KeyQueueLen * (p - q) = s - r
    BY <1>1
<1>3. CASE p - q >= 1
    <2>1. KeyQueueLen * (p - q) >= KeyQueueLen
        BY <1>3, <1>1
    <2> QED BY <2>1, <1>2, KeyAssumption DEF Slots
<1>4. CASE p - q <= -1
    <2>1. KeyQueueLen * (p - q) <= -KeyQueueLen
        BY <1>4, <1>1
    <2> QED BY <2>1, <1>2, KeyAssumption DEF Slots
<1>5. CASE p - q = 0
    BY <1>5, <1>1, <1>2
<1> QED BY <1>3, <1>4, <1>5

LEMMA Remainder ==
    ASSUME NEW q \in Int, NEW r \in Slots
    PROVE  (KeyQueueLen * q + r) % KeyQueueLen = r
<1> DEFINE a == KeyQueueLen * q + r
<1>1. a \in Int
    BY KeyAssumption DEF Slots
<1>2. a = KeyQueueLen * q + r
    OBVIOUS
<1> HIDE DEF a
<1>3. a % KeyQueueLen = r
    BY <1>1, <1>2, Division, OneQuotient
<1> QED BY <1>3 DEF a

\* The index runs through the ring as the key numbers go up.
LEMMA NextSlot ==
    ASSUME NEW a \in Int
    PROVE  Successor(a % KeyQueueLen) = (a + 1) % KeyQueueLen
<1> DEFINE q == a \div KeyQueueLen
           r == a % KeyQueueLen
<1>1. a = KeyQueueLen * q + r /\ q \in Int /\ r \in Slots
    BY Division
<1> HIDE DEF q, r
<1>2. CASE r = KeyQueueLen - 1
    <2>1. /\ a + 1 = KeyQueueLen * (q + 1) + 0 /\ r + 1 = KeyQueueLen * 1 + 0
          /\ q + 1 \in Int /\ 1 \in Int /\ 0 \in Slots
        BY <1>1, <1>2, KeyAssumption DEF Slots
    <2>2. (a + 1) % KeyQueueLen = 0 /\ (r + 1) % KeyQueueLen = 0
        BY <2>1, Remainder
    <2> QED BY <2>2 DEF r, Successor
<1>3. CASE r # KeyQueueLen - 1
    <2>1. /\ a + 1 = KeyQueueLen * q + (r + 1) /\ r + 1 = KeyQueueLen * 0 + (r + 1)
          /\ 0 \in Int /\ r + 1 \in Slots
        BY <1>1, <1>3, KeyAssumption DEF Slots
    <2>2. (a + 1) % KeyQueueLen = r + 1 /\ (r + 1) % KeyQueueLen = r + 1
        BY <1>1, <2>1, Remainder
    <2> QED BY <2>2 DEF r, Successor
<1> QED BY <1>2, <1>3

\* Less than a ring apart, two keys have different slots.
LEMMA SlotsDiffer ==
    ASSUME NEW a \in Int, NEW b \in Int, a < b, b < a + KeyQueueLen
    PROVE  a % KeyQueueLen # b % KeyQueueLen
<1> SUFFICES ASSUME a % KeyQueueLen = b % KeyQueueLen PROVE FALSE
    OBVIOUS
<1> DEFINE p == a \div KeyQueueLen
           q == b \div KeyQueueLen
           r == a % KeyQueueLen
<1>1. /\ a = KeyQueueLen * p + r /\ b = KeyQueueLen * q + r
      /\ p \in Int /\ q \in Int /\ r \in Slots
    BY Division
<1> HIDE DEF p, q, r
<1>2. KeyQueueLen * p + (b - a) = KeyQueueLen * q + 0 /\ b - a \in Slots /\ 0 \in Slots
    BY <1>1, KeyAssumption DEF Slots
<1>3. b - a = 0
    BY <1>1, <1>2, OneQuotient
<1> QED BY <1>3

LEMMA WholeRing ==
    ASSUME NEW a \in Int
    PROVE  (a + KeyQueueLen) % KeyQueueLen = a % KeyQueueLen
<1> DEFINE q == a \div KeyQueueLen
           r == a % KeyQueueLen
<1>1. a = KeyQueueLen * q + r /\ q \in Int /\ r \in Slots
    BY Division
<1> HIDE DEF q, r
<1>2. a + KeyQueueLen = KeyQueueLen * (q + 1) + r /\ q + 1 \in Int
    BY <1>1, KeyAssumption DEF Slots
<1> QED BY <1>1, <1>2, Remainder DEF r

LEMMA ZeroSlot == 0 % KeyQueueLen = 0 /\ 0 \in Slots
<1>1. 0 = KeyQueueLen * 0 + 0 /\ 0 \in Slots /\ 0 \in Int
    BY KeyAssumption DEF Slots
<1> QED BY <1>1, Remainder
------------------------------------------------------------------------------
(***************************************************************************)
(* Types and the initial state                                             *)
(***************************************************************************)
LEMMA LockTypes ==
    ASSUME lock = Free \/ lock \in [owner : {"program", "event"}, depth : Nat \ {0}],
           NEW who \in {"program", "event"}
    PROVE  /\ Unlocked(who) = Free
              \/ Unlocked(who) \in [owner : {"program", "event"}, depth : Nat \ {0}]
           /\ Locked(who) = Free
              \/ Locked(who) \in [owner : {"program", "event"}, depth : Nat \ {0}]
<1>1. CASE lock = Free
    BY <1>1 DEF Free, Locked, Unlocked
<1>2. CASE lock \in [owner : {"program", "event"}, depth : Nat \ {0}]
    BY <1>2 DEF Free, Locked, Unlocked
<1> QED BY <1>1, <1>2

LEMMA SuccessorType == \A i \in Slots : Successor(i) \in Slots
BY Division DEF Successor, Slots

LEMMA TypesKept == KeyTypes /\ [KeyNext]_keyVars => KeyTypes'
<1> SUFFICES ASSUME KeyTypes, [KeyNext]_keyVars PROVE KeyTypes'
    OBVIOUS
<1> USE DEF KeyTypes
<1>1. ASSUME NEW t \in Readers, Call(t) PROVE KeyTypes'
    BY <1>1 DEF Call, At, Goes, initVars, ringVars, eventVars, keyHistory
<1>2. ASSUME NEW t \in Readers, IoeInit(t) PROVE KeyTypes'
    BY <1>2 DEF IoeInit, At, Goes, initVars, ringVars, eventVars, keyHistory
<1>3. ASSUME NEW t \in Readers, InputInit(t) PROVE KeyTypes'
    BY <1>3 DEF InputInit, At, Goes, initVars, ringVars, eventVars, keyHistory
<1>4. ASSUME NEW t \in Readers, ReadLock(t) PROVE KeyTypes'
    BY <1>4, LockTypes DEF ReadLock, At, Goes, initVars, ringVars, eventVars, keyHistory
<1>5. ASSUME NEW t \in Readers, Take(t) PROVE KeyTypes'
    <2>1. ring[keyF] \in Nat /\ KeyNone \in Nat /\ t \in Readers
        BY DEF KeyNone
    <2>2. taken' \in [Readers -> Nat] /\ slot' \in [Readers -> Slots]
        BY <1>5, <2>1 DEF Take
    <2>3. pc' = [pc EXCEPT ![t] = "advance"] \/ pc' = [pc EXCEPT ![t] = "unlock"]
        BY <1>5 DEF Take, Goes
    <2>4. pc' \in [Readers -> {"idle", "init", "create", "lock", "take", "advance", "unlock"}]
        BY <2>3
    <2> QED BY <1>5, <2>2, <2>4 DEF Take, initVars, ringVars, eventVars, keyHistory
<1>6. ASSUME NEW t \in Readers, Advance(t) PROVE KeyTypes'
    <2>1. keyF' \in Slots
        BY <1>6, SuccessorType DEF Advance
    <2> QED BY <1>6, <2>1 DEF Advance, At, Goes, initVars, ringVars, eventVars, keyHistory
<1>7. ASSUME NEW t \in Readers, ReadUnlock(t) PROVE KeyTypes'
    <2>1. got' \in Seq(Nat)
        BY <1>7 DEF ReadUnlock
    <2> QED BY <1>7, <2>1, LockTypes
            DEF ReadUnlock, At, Goes, initVars, ringVars, eventVars, keyHistory
<1>8. ASSUME NEW t \in Readers, Interrupt(t) PROVE KeyTypes'
    BY <1>8 DEF Interrupt, initVars, ringVars, eventVars
<1>9. CASE WaitEvent
    BY <1>9 DEF WaitEvent, initVars, ringVars, keyHistory
<1>10. CASE EventLock
    BY <1>10, LockTypes DEF EventLock, initVars, ringVars, keyHistory
<1>11. CASE Store
    BY <1>11 DEF Store, initVars, keyHistory
<1>12. CASE Bump
    BY <1>12, SuccessorType DEF Bump, initVars, keyHistory
<1>13. CASE EventUnlock
    BY <1>13, LockTypes DEF EventUnlock, initVars, ringVars, keyHistory
<1>14. CASE UNCHANGED keyVars
    BY <1>14 DEF keyVars
<1> QED BY <1>1, <1>2, <1>3, <1>4, <1>5, <1>6, <1>7, <1>8, <1>9, <1>10, <1>11, <1>12,
           <1>13, <1>14 DEF KeyNext, Reader, EventThread

LEMMA Starts == KeyInit => KeyInv
<1> SUFFICES ASSUME KeyInit PROVE KeyInv
    OBVIOUS
<1> USE DEF KeyInit
<1>1. KeyTypes
    <2>1. ring \in [Slots -> Nat] /\ taken \in [Readers -> Nat]
        BY DEF Slots, KeyNone
    <2>2. pc \in [Readers -> {"idle", "init", "create", "lock", "take", "advance", "unlock"}]
        OBVIOUS
    <2>3. slot \in [Readers -> Slots] /\ keyF \in Slots /\ keyR \in Slots
        BY ZeroSlot
    <2>4. got \in Seq(Nat)
        OBVIOUS
    <2> QED BY <2>1, <2>2, <2>3, <2>4 DEF KeyTypes
<1>2. StartInv
    BY DEF StartInv
<1>3. LockInv
    <2>1. Inside = {}
        BY DEF Inside
    <2> QED BY <2>1, FS_EmptySet DEF LockInv, Free
<1>4. OrderInv
    <2>1. GotInOrder
        BY DEF GotInOrder
    <2>2. Window(0)
        BY ZeroSlot, KeyAssumption DEF Window, Stored
    <2>3. Reading(0)
        BY ZeroSlot DEF Reading, Held
    <2> QED BY <2>1, <2>2, <2>3 DEF OrderInv
<1> QED BY <1>1, <1>2, <1>3, <1>4 DEF KeyInv
------------------------------------------------------------------------------
(***************************************************************************)
(* The initialisation and the mutex                                        *)
(***************************************************************************)
LEMMA StartKept == KeyTypes /\ StartInv /\ [KeyNext]_keyVars => StartInv'
<1> SUFFICES ASSUME KeyTypes, StartInv, [KeyNext]_keyVars, ~inInit' PROVE StartInv'
    BY DEF StartInv
<1> USE DEF KeyTypes, StartInv
<1>1. ASSUME NEW t \in Readers, Call(t) PROVE StartInv'
    BY <1>1 DEF Call, At, Goes, initVars, ringVars, eventVars, keyHistory
<1>2. ASSUME NEW t \in Readers, IoeInit(t) PROVE StartInv'
    BY <1>2 DEF IoeInit, At, Goes, initVars, ringVars, eventVars, keyHistory
<1>3. ASSUME NEW t \in Readers, InputInit(t) PROVE StartInv'
    BY <1>3 DEF InputInit, At, Goes, initVars, ringVars, eventVars, keyHistory
<1>4. ASSUME NEW t \in Readers, ReadLock(t) PROVE StartInv'
    <2>1. ~inInit /\ pc[t] = "lock" /\ t = running
        BY <1>4 DEF ReadLock, At, keyHistory
    <2>2. initFlag = 2 /\ inits = 1
        BY <2>1
    <2>3. /\ pc' = [pc EXCEPT ![t] = "take"]
          /\ UNCHANGED <<initFlag, inits, eventPc, running, inInit>>
        BY <1>4 DEF ReadLock, Goes, initVars, eventVars, keyHistory
    <2> QED BY <2>1, <2>2, <2>3
<1>5. ASSUME NEW t \in Readers, Take(t) PROVE StartInv'
    <2>1. pc' = [pc EXCEPT ![t] = "advance"] \/ pc' = [pc EXCEPT ![t] = "unlock"]
        BY <1>5 DEF Take, Goes
    <2> QED BY <1>5, <2>1 DEF Take, At, initVars, ringVars, eventVars, keyHistory
<1>6. ASSUME NEW t \in Readers, Advance(t) PROVE StartInv'
    BY <1>6 DEF Advance, At, Goes, initVars, eventVars, keyHistory
<1>7. ASSUME NEW t \in Readers, ReadUnlock(t) PROVE StartInv'
    BY <1>7 DEF ReadUnlock, At, Goes, initVars, ringVars, eventVars, keyHistory
<1>8. ASSUME NEW t \in Readers, Interrupt(t) PROVE StartInv'
    BY <1>8 DEF Interrupt, initVars, ringVars, eventVars
<1>9. ASSUME EventThread PROVE StartInv'
    BY <1>9 DEF EventThread, WaitEvent, EventLock, Store, Bump, EventUnlock, initVars,
                ringVars, keyHistory
<1>10. CASE UNCHANGED keyVars
    BY <1>10 DEF keyVars
<1> QED BY <1>1, <1>2, <1>3, <1>4, <1>5, <1>6, <1>7, <1>8, <1>9, <1>10 DEF KeyNext, Reader

\* Before the initialisation is over nobody is inside, and nothing is locked.
LEMMA NobodyYet ==
    ASSUME KeyTypes, StartInv, LockInv, ~inInit, inits = 0
    PROVE  Inside = {} /\ lock = Free /\ eventPc = "wait"
BY DEF KeyTypes, StartInv, LockInv, Free

LEMMA LockKept == KeyTypes /\ StartInv /\ LockInv /\ [KeyNext]_keyVars => LockInv'
<1> SUFFICES ASSUME KeyTypes, StartInv, LockInv, [KeyNext]_keyVars, ~inInit'
             PROVE  LockInv'
    BY DEF LockInv
<1>0. ~inInit
    BY DEF KeyNext, Reader, EventThread, Call, IoeInit, InputInit, ReadLock, Take, Advance,
           ReadUnlock, Interrupt, WaitEvent, EventLock, Store, Bump, EventUnlock, keyVars, keyHistory
<1> USE <1>0 DEF KeyTypes
<1>1. ASSUME NEW t \in Readers, Call(t) \/ IoeInit(t) \/ InputInit(t) PROVE LockInv'
    <2>1. Inside' = Inside
        BY <1>1 DEF Inside, Call, IoeInit, InputInit, At, Goes
    <2>2. UNCHANGED <<lock, eventPc, inRead, running>>
        BY <1>1 DEF Call, IoeInit, InputInit, eventVars, keyHistory
    <2> QED BY <2>1, <2>2 DEF LockInv
<1>2. ASSUME NEW t \in Readers, ReadLock(t) PROVE LockInv'
    <2>1. /\ t \notin Inside /\ Inside' = Inside \cup {t} /\ t = running
          /\ UNCHANGED <<eventPc, inRead, running>>
        BY <1>2 DEF ReadLock, At, Goes, Inside, eventVars, keyHistory
    <2>2. inits = 1
        BY <1>2 DEF StartInv, ReadLock, At
    <2>3. /\ lock' = [owner |-> "program", depth |-> lock.depth + 1]
          /\ lock.owner \in {"none", "program"}
        BY <1>2, <2>2 DEF ReadLock, Locked, MayLock
    <2>4. lock.depth = Cardinality(Inside) /\ IsFiniteSet(Inside)
        BY <2>3, FS_EmptySet DEF LockInv, Free
    <2>5. IsFiniteSet(Inside') /\ Cardinality(Inside') = Cardinality(Inside) + 1
        BY <2>1, <2>4, FS_AddElement
    <2>6. ~inRead' => Inside' \subseteq {running'}
        BY <2>1 DEF LockInv
    <2>7. eventPc' \notin {"store", "bump", "unlock"}
        BY <2>1, <2>3 DEF LockInv
    <2> QED BY <2>3, <2>4, <2>5, <2>6, <2>7 DEF LockInv
<1>3. ASSUME NEW t \in Readers, Take(t) \/ Advance(t) PROVE LockInv'
    <2>1. /\ pc[t] \in {"take", "advance"}
          /\ pc' = [pc EXCEPT ![t] = "advance"] \/ pc' = [pc EXCEPT ![t] = "unlock"]
        BY <1>3 DEF Take, Advance, At, Goes
    <2>2. Inside' = Inside
        BY <2>1 DEF Inside
    <2>3. UNCHANGED <<lock, eventPc, inRead, running>>
        BY <1>3 DEF Take, Advance, eventVars, keyHistory
    <2> QED BY <2>2, <2>3 DEF LockInv
<1>4. ASSUME NEW t \in Readers, ReadUnlock(t) PROVE LockInv'
    <2>1. /\ t \in Inside /\ Inside' = Inside \ {t} /\ t = running
          /\ UNCHANGED <<eventPc, inRead, running>>
        BY <1>4 DEF ReadUnlock, At, Goes, Inside, eventVars, keyHistory
    <2>2. inits # 0
        BY <2>1, NobodyYet
    <2>3. lock.owner = "program" /\ lock.depth = Cardinality(Inside) /\ IsFiniteSet(Inside)
        BY <2>1 DEF LockInv, Free
    <2>4. lock' = IF lock.depth = 1 THEN Free ELSE [lock EXCEPT !.depth = @ - 1]
        BY <1>4, <2>2, <2>3 DEF ReadUnlock, Unlocked
    <2>5. IsFiniteSet(Inside') /\ Cardinality(Inside') = Cardinality(Inside) - 1
        BY <2>1, <2>3, FS_RemoveElement
    <2>6. ~inRead' => Inside' \subseteq {running'}
        BY <2>1 DEF LockInv
    <2>7. eventPc' \notin {"store", "bump", "unlock"}
        BY <2>1, <2>3 DEF LockInv
    <2>8. CASE lock.depth = 1
        <3>1. Inside' = {}
            BY <2>3, <2>5, <2>8, FS_EmptySet
        <3> QED BY <2>4, <2>5, <2>7, <2>8, <3>1 DEF LockInv, Free
    <2>9. CASE lock.depth # 1
        <3>1. lock'.owner = "program" /\ lock'.depth = lock.depth - 1
            BY <2>3, <2>4, <2>9 DEF Free
        <3> QED BY <2>3, <2>5, <2>6, <2>7, <3>1 DEF LockInv
    <2> QED BY <2>8, <2>9
<1>5. ASSUME NEW t \in Readers, Interrupt(t) PROVE LockInv'
    <2>1. /\ UNCHANGED <<lock, eventPc, pc>> /\ running' = t
          /\ inRead' = (inRead \/ running \in Inside)
        BY <1>5 DEF Interrupt, Inside, eventVars
    <2>2. Inside' = Inside
        BY <2>1 DEF Inside
    <2>3. ~inRead' => Inside' = {}
        BY <2>1, <2>2 DEF LockInv
    <2> QED BY <2>1, <2>2, <2>3 DEF LockInv
<1>6. ASSUME EventThread PROVE LockInv'
    <2>1. Inside' = Inside /\ UNCHANGED <<inRead, running>> /\ inits = 1
        BY <1>6 DEF EventThread, WaitEvent, EventLock, Store, Bump, EventUnlock, Inside, keyHistory
    <2>2. CASE WaitEvent \/ Store \/ Bump
        BY <2>1, <2>2 DEF WaitEvent, Store, Bump, LockInv
    <2>3. CASE EventLock
        <3>1. lock.owner = "none"
            BY <2>1, <2>3 DEF EventLock, MayLock, LockInv
        <3>2. lock' = [owner |-> "event", depth |-> 1]
            BY <2>1, <2>3, <3>1 DEF EventLock, Locked, Free
        <3> QED BY <2>1, <2>3, <3>1, <3>2 DEF EventLock, LockInv
    <2>4. CASE EventUnlock
        <3>1. lock.owner = "event" /\ lock.depth = 1
            BY <2>4 DEF EventUnlock, LockInv
        <3>2. lock' = Free
            BY <2>1, <2>4, <3>1 DEF EventUnlock, Unlocked
        <3> QED BY <2>1, <2>4, <3>1, <3>2 DEF EventUnlock, LockInv, Free
    <2> QED BY <1>6, <2>2, <2>3, <2>4 DEF EventThread
<1>7. CASE UNCHANGED keyVars
    <2>1. Inside' = Inside
        BY <1>7 DEF keyVars, Inside
    <2> QED BY <1>7, <2>1 DEF keyVars, LockInv
<1> QED BY <1>1, <1>2, <1>3, <1>4, <1>5, <1>6, <1>7 DEF KeyNext, Reader
------------------------------------------------------------------------------
(***************************************************************************)
(* The order of the keys                                                   *)
(***************************************************************************)
\* A step that moves no key.
LEMMA NothingMoved ==
    ASSUME KeyTypes, OrderInv, Undisturbed, Stored' = Stored, ~Held, ~Held',
           UNCHANGED <<ring, keyF, keyR, lapped, got>>,
           pc'[running'] # "advance", pc'[running'] # "unlock",
           eventPc' = "bump" => eventPc = "bump" /\ pressed' = pressed
    PROVE  OrderInv'
<1>1. PICK c \in Nat : Window(c) /\ Reading(c)
    BY DEF OrderInv
<1>2. Window(c)'
    BY <1>1 DEF Window
<1>3. Reading(c)'
    BY <1>1 DEF Reading
<1>4. GotInOrder'
    BY DEF OrderInv, GotInOrder
<1> QED BY <1>2, <1>3, <1>4 DEF OrderInv

LEMMA OrderKept ==
    KeyTypes /\ StartInv /\ LockInv /\ OrderInv /\ [KeyNext]_keyVars => OrderInv'
<1> SUFFICES ASSUME KeyTypes, StartInv, LockInv, OrderInv, [KeyNext]_keyVars, Undisturbed'
             PROVE  OrderInv'
    BY DEF OrderInv
<1>0. Undisturbed /\ Inside \subseteq {running}
    <2>1. ~inInit' /\ ~inRead'
        BY DEF Undisturbed
    <2>2. ~inInit
        BY <2>1 DEF KeyNext, Reader, EventThread, Call, IoeInit, InputInit, ReadLock, Take,
               Advance, ReadUnlock, Interrupt, WaitEvent, EventLock, Store, Bump, EventUnlock, keyVars,
               keyHistory
    <2>3. ~inRead
        BY <2>1 DEF KeyNext, Reader, EventThread, Call, IoeInit, InputInit, ReadLock, Take,
               Advance, ReadUnlock, Interrupt, WaitEvent, EventLock, Store, Bump, EventUnlock, keyVars,
               keyHistory
    <2>4. Undisturbed
        BY <2>2, <2>3 DEF Undisturbed
    <2> QED BY <2>2, <2>3, <2>4 DEF LockInv
<1>T. KeyTypes'
    BY TypesKept
<1>G. GotInOrder
    BY <1>0 DEF OrderInv
<1>P. PICK c \in Nat : Window(c) /\ Reading(c)
    BY <1>0 DEF OrderInv
<1>1. ASSUME NEW t \in Readers, Call(t) \/ IoeInit(t) \/ InputInit(t) \/ ReadLock(t)
      PROVE  OrderInv'
    <2>1. /\ t = running /\ pc[t] \notin {"advance", "unlock"}
          /\ pc'[t] \notin {"advance", "unlock"}
          /\ UNCHANGED <<ring, keyF, keyR, lapped, got, running, eventPc, pressed>>
        BY <1>1 DEF Call, IoeInit, InputInit, ReadLock, At, Goes, KeyTypes, ringVars,
                    eventVars, keyHistory
    <2> QED BY <1>0, <2>1, NothingMoved DEF Held, Stored
<1>2. ASSUME NEW t \in Readers, Take(t) PROVE OrderInv'
    <2>1. /\ t = running /\ pc[t] = "take" /\ slot' = [slot EXCEPT ![t] = keyF]
          /\ UNCHANGED <<ring, keyF, keyR, lapped, got, running, eventPc, pressed>>
        BY <1>2 DEF Take, At, ringVars, eventVars, keyHistory
    <2>2. Window(c)' /\ GotInOrder' /\ Stored' = Stored
        BY <2>1, <1>P, <1>G DEF Window, Stored, GotInOrder
    <2>3. CASE keyF # keyR
        <3>1. /\ taken' = [taken EXCEPT ![t] = ring[keyF]]
              /\ pc' = [pc EXCEPT ![t] = "advance"]
            BY <1>2, <2>3 DEF Take, Goes
        <3>2. c < Stored /\ ring[c % KeyQueueLen] = c + 1
            <4>0. c # Stored
                BY <1>P, <2>3 DEF Window
            <4>1. Stored \in Int
                BY DEF Stored, KeyTypes
            <4>2. c < Stored /\ c \in c .. Stored - 1
                BY <1>P, <4>0, <4>1 DEF Window
            <4> QED BY <1>P, <4>2 DEF Window
        <3>3. taken'[running'] = c + 1 /\ slot'[running'] = keyF' /\ pc'[running'] = "advance"
            BY <1>P, <2>1, <3>1, <3>2 DEF Window, KeyTypes
        <3>4. Reading(c)'
            BY <1>P, <2>1, <2>2, <3>2, <3>3 DEF Reading, Held
        <3> QED BY <2>2, <3>4 DEF OrderInv
    <2>4. CASE keyF = keyR
        <3>1. /\ taken' = [taken EXCEPT ![t] = KeyNone]
              /\ pc' = [pc EXCEPT ![t] = "unlock"]
            BY <1>2, <2>4 DEF Take, Goes
        <3>2. taken'[running'] = KeyNone /\ pc'[running'] = "unlock"
            BY <2>1, <3>1 DEF KeyTypes
        <3>3. Reading(c)'
            BY <1>P, <2>1, <3>2 DEF Reading, Held
        <3> QED BY <2>2, <3>3 DEF OrderInv
    <2> QED BY <2>3, <2>4
<1>3. ASSUME NEW t \in Readers, Advance(t) PROVE OrderInv'
    <2>1. /\ t = running /\ pc[t] = "advance" /\ pc' = [pc EXCEPT ![t] = "unlock"]
          /\ \E f \in {keyF, slot[t]} : keyF' = Successor(f)
          /\ UNCHANGED <<ring, keyR, lapped, taken, got, running, eventPc, pressed>>
        BY <1>3 DEF Advance, At, Goes, eventVars, keyHistory
    <2>2. c < Stored /\ taken[running] = c + 1 /\ slot[running] = keyF
        BY <1>P, <2>1 DEF Reading
    <2>3. keyF' = (c + 1) % KeyQueueLen
        BY <1>P, <2>1, <2>2, NextSlot DEF Window
    <2>4. Window(c + 1)'
        <3>1. Stored' = Stored /\ Stored \in Int
            BY <2>1 DEF Stored, KeyTypes
        <3>2. c + 1 <= Stored /\ Stored - (c + 1) < KeyQueueLen
            BY <1>P, <2>2, <3>1, KeyAssumption DEF Window
        <3>3. \A k \in c + 1 .. Stored - 1 : ring[k % KeyQueueLen] = k + 1
            BY <1>P, <3>1 DEF Window
        <3> QED BY <1>P, <2>1, <2>3, <3>1, <3>2, <3>3 DEF Window
    <2>5. Reading(c + 1)'
        <3>1. pc'[running'] = "unlock" /\ taken'[running'] = c + 1 /\ c + 1 # KeyNone
            BY <2>1, <2>2 DEF KeyTypes, KeyNone
        <3>2. Held' /\ ~Held
            BY <2>1, <3>1 DEF Held
        <3>3. /\ (c - Len(got)) % KeyQueueLen = 0 /\ (~lapped => c = Len(got))
              /\ got # << >> => got[Len(got)] <= c
            BY <1>P, <3>2 DEF Reading
        <3>4. Len(got) \in Nat /\ (got # << >> => got[Len(got)] \in Nat)
            BY DEF KeyTypes
        <3>5. c + 1 - (Len(got) + 1) = c - Len(got)
            BY <3>4
        <3> QED BY <2>1, <3>1, <3>2, <3>3, <3>4, <3>5 DEF Reading
    <2>6. GotInOrder'
        BY <2>1, <1>G DEF GotInOrder
    <2>7. c + 1 \in Nat
        OBVIOUS
    <2> QED BY <2>4, <2>5, <2>6, <2>7 DEF OrderInv
<1>4. ASSUME NEW t \in Readers, ReadUnlock(t) PROVE OrderInv'
    <2>1. /\ t = running /\ pc[t] = "unlock" /\ pc' = [pc EXCEPT ![t] = "idle"]
          /\ got' = IF Held THEN Append(got, taken[running]) ELSE got
          /\ UNCHANGED <<ring, keyF, keyR, lapped, taken, slot, running, eventPc, pressed>>
        BY <1>4 DEF ReadUnlock, At, Goes, Held, ringVars, eventVars, keyHistory
    <2>2. Window(c)' /\ ~Held'
        BY <2>1, <1>P DEF Window, Stored, Held, KeyTypes
    <2>3. CASE Held
        <3>1. taken[running] = c /\ got' = Append(got, c)
            BY <1>P, <2>1, <2>3 DEF Reading, Held
        <3>2. /\ (c - (Len(got) + 1)) % KeyQueueLen = 0 /\ (~lapped => c = Len(got) + 1)
              /\ got # << >> => got[Len(got)] < c
            BY <1>P, <2>3 DEF Reading
        <3>3. /\ Len(got') = Len(got) + 1 /\ got'[Len(got')] = c
              /\ \A i \in DOMAIN got : got'[i] = got[i]
              /\ DOMAIN got' = 1 .. Len(got) + 1 /\ DOMAIN got = 1 .. Len(got) /\ Len(got) \in Nat
            BY <3>1 DEF KeyTypes
        <3>4. GotInOrder'
            <4>1. SUFFICES ASSUME NEW i \in 1 .. Len(got) + 1
                           PROVE  /\ i > 1 => got'[i] > got'[i - 1]
                                  /\ (got'[i] - i) % KeyQueueLen = 0
                                  /\ ~lapped => got'[i] = i
                BY <2>1, <3>3 DEF GotInOrder
            <4>2. CASE i <= Len(got)
                BY <1>G, <3>3, <4>2 DEF GotInOrder
            <4>3. CASE i = Len(got) + 1
                <5>1. i > 1 => got'[i - 1] < c
                    <6> SUFFICES ASSUME i > 1 PROVE got'[Len(got)] < c
                        BY <3>3, <4>3
                    <6>1. Len(got) >= 1 /\ got # << >> /\ Len(got) \in DOMAIN got
                        BY <3>3, <4>3
                    <6> QED BY <3>2, <3>3, <6>1
                <5> QED BY <3>2, <3>3, <4>3, <5>1 DEF KeyTypes
            <4> QED BY <3>3, <4>2, <4>3
        <3>5. Reading(c)'
            <4>1. pc'[running'] = "idle"
                BY <2>1 DEF KeyTypes
            <4>2. (c - Len(got')) % KeyQueueLen = 0 /\ (~lapped' => c = Len(got'))
                BY <2>1, <3>2, <3>3, Zenon
            <4>3. got'[Len(got')] <= c
                BY <3>3
            <4> QED BY <2>2, <4>1, <4>2, <4>3 DEF Reading
        <3> QED BY <2>2, <3>4, <3>5 DEF OrderInv
    <2>4. CASE ~Held
        <3>1. GotInOrder' /\ Reading(c)'
            BY <1>P, <1>G, <2>1, <2>2, <2>4 DEF Reading, GotInOrder, KeyTypes
        <3> QED BY <2>2, <3>1 DEF OrderInv
    <2> QED BY <2>3, <2>4
<1>5. ASSUME NEW t \in Readers, Interrupt(t) PROVE OrderInv'
    <2>1. /\ UNCHANGED <<ring, keyF, keyR, lapped, got, pc, taken, eventPc, pressed>>
          /\ running' = t /\ running \notin Inside
        BY <1>5 DEF Interrupt, Undisturbed, Inside, ringVars, eventVars
    <2>2. Inside = {}
        BY <1>0, <2>1
    <2>3. pc[running] \notin {"advance", "unlock"} /\ pc'[running'] \notin {"advance", "unlock"}
        BY <2>1, <2>2 DEF Inside, KeyTypes
    <2> QED BY <1>0, <2>1, <2>3, NothingMoved DEF Held, Stored
<1>6. CASE WaitEvent \/ EventLock \/ EventUnlock
    <2>1. /\ UNCHANGED <<ring, keyF, keyR, lapped, got, pc, taken, slot, running>>
          /\ Stored' = Stored /\ eventPc' # "bump"
        BY <1>6 DEF WaitEvent, EventLock, EventUnlock, Stored, KeyTypes, ringVars, eventVars, keyHistory
    <2>2. Window(c)'
        BY <1>P, <2>1 DEF Window
    <2>3. Reading(c)' /\ GotInOrder'
        BY <1>P, <1>G, <2>1 DEF Reading, GotInOrder, Held
    <2> QED BY <2>2, <2>3 DEF OrderInv
<1>7. CASE Store
    <2>1. /\ eventPc = "store" /\ eventPc' = "bump" /\ ring' = [ring EXCEPT ![keyR] = pressed]
          /\ UNCHANGED <<keyF, keyR, lapped, got, pc, taken, slot, running, pressed>>
        BY <1>7 DEF Store, keyHistory
    <2>2. Stored' = Stored /\ Stored \in Int
        BY <2>1 DEF Stored, KeyTypes
    <2>3. ASSUME NEW k \in c .. Stored - 1 PROVE ring'[k % KeyQueueLen] = k + 1
        <3>1. k \in Int /\ k < Stored /\ Stored < k + KeyQueueLen
            BY <1>P, <2>2, KeyAssumption DEF Window
        <3>2. k % KeyQueueLen # keyR
            BY <1>P, <2>2, <3>1, SlotsDiffer DEF Window
        <3> QED BY <1>P, <2>1, <3>2 DEF Window, KeyTypes
    <2>4. Window(c)'
        BY <1>P, <2>1, <2>2, <2>3 DEF Window, KeyTypes
    <2>5. Reading(c)' /\ GotInOrder'
        BY <1>P, <1>G, <2>1, <2>2 DEF Reading, GotInOrder, Held
    <2> QED BY <2>4, <2>5 DEF OrderInv
<1>8. CASE Bump
    <2>1. /\ eventPc = "bump" /\ eventPc' = "unlock" /\ keyR' = Successor(keyR)
          /\ lapped' = (lapped \/ keyR' = keyF)
          /\ UNCHANGED <<ring, keyF, got, pc, taken, slot, running, pressed>>
        BY <1>8 DEF Bump, keyHistory
    <2>2. Stored' = Stored + 1 /\ Stored \in Int /\ pressed = Stored + 1
        BY <2>1 DEF Stored, KeyTypes
    <2>3. keyR' = (Stored + 1) % KeyQueueLen /\ ring[Stored % KeyQueueLen] = Stored + 1
        BY <1>P, <2>1, <2>2, NextSlot DEF Window
    <2>4. pc[running] \notin {"advance", "unlock"} /\ ~Held /\ ~Held'
        BY <1>0, <2>1 DEF LockInv, Undisturbed, Inside, Held, KeyTypes
    <2>5. /\ (c - Len(got)) % KeyQueueLen = 0 /\ (~lapped => c = Len(got))
          /\ got # << >> => got[Len(got)] <= c
        BY <1>P, <2>4 DEF Reading
    <2>6. Len(got) \in Nat /\ (got # << >> => got[Len(got)] \in Nat)
        BY DEF KeyTypes
    <2>7. GotInOrder'
        BY <1>G, <2>1 DEF GotInOrder, KeyTypes
    <2>8. CASE Stored + 1 - c < KeyQueueLen
        <3>1. \A k \in c .. Stored : ring[k % KeyQueueLen] = k + 1
            BY <1>P, <2>2, <2>3 DEF Window
        <3>2. Window(c)'
            BY <1>P, <2>1, <2>2, <2>3, <2>8, <3>1 DEF Window
        <3>3. Reading(c)'
            BY <2>1, <2>4, <2>5 DEF Reading, KeyTypes
        <3> QED BY <2>7, <3>2, <3>3 DEF OrderInv
    <2>9. CASE Stored + 1 - c = KeyQueueLen
        <3>1. PICK d \in Nat : d = Stored + 1 /\ d = c + KeyQueueLen
            BY <2>2, <2>9, KeyAssumption
        <3>2. keyF = d % KeyQueueLen
            BY <1>P, <3>1, WholeRing DEF Window
        <3>3. lapped'
            BY <2>1, <2>3, <3>1, <3>2
        <3>4. Window(d)'
            <4>1. Stored' = d /\ d .. d - 1 = {}
                BY <2>2, <3>1
            <4>2. keyF' = d % KeyQueueLen /\ keyR' = d % KeyQueueLen
                BY <2>1, <2>3, <3>1, <3>2
            <4>3. d - d < KeyQueueLen /\ d <= d
                BY <3>1, KeyAssumption
            <4> QED BY <2>1, <4>1, <4>2, <4>3 DEF Window
        <3>5. (d - Len(got)) % KeyQueueLen = 0
            <4>1. d - Len(got) = (c - Len(got)) + KeyQueueLen /\ c - Len(got) \in Int
                BY <3>1, <2>6, KeyAssumption
            <4> QED BY <2>5, <4>1, WholeRing
        <3>6. got # << >> => got[Len(got)] <= d
            BY <2>5, <2>6, <3>1, KeyAssumption
        <3>7. Reading(d)'
            <4>1. pc'[running'] \notin {"advance", "unlock"} /\ got' = got
                BY <2>1, <2>4 DEF KeyTypes
            <4> QED BY <2>4, <3>3, <3>5, <3>6, <4>1 DEF Reading
        <3> QED BY <2>7, <3>1, <3>4, <3>7 DEF OrderInv
    <2>10. Stored + 1 - c <= KeyQueueLen
        BY <1>P, <2>2, KeyAssumption DEF Window
    <2> QED BY <2>2, <2>8, <2>9, <2>10, KeyAssumption
<1>9. CASE UNCHANGED keyVars
    <2>1. Window(c)' /\ Reading(c)' /\ GotInOrder'
        BY <1>P, <1>G, <1>9 DEF keyVars, Window, Reading, GotInOrder, Held, Stored
    <2> QED BY <2>1 DEF OrderInv
<1> QED BY <1>1, <1>2, <1>3, <1>4, <1>5, <1>6, <1>7, <1>8, <1>9
        DEF KeyNext, Reader, EventThread
------------------------------------------------------------------------------
(***************************************************************************)
(* The theorems                                                            *)
(***************************************************************************)
\* The parts of the invariant hold together in every state of the key queue.
THEOREM KeyInvariant == KeySpec => []KeyInv
<1>1. KeyInv /\ [KeyNext]_keyVars => KeyInv'
    BY TypesKept, StartKept, LockKept, OrderKept DEF KeyInv
<1> QED BY Starts, <1>1, PTL DEF KeySpec

\* Program and event thread exclude each other in the queue, and the recursive mutex is
\* taken as often as it is given back, however many contexts share the host thread.
THEOREM MutexTheorem == KeySpec => []MutexKept
<1>1. KeyInv => MutexKept
    <2> SUFFICES ASSUME KeyInv, ~inInit, inits = 1
                 PROVE  /\ eventPc \in {"store", "bump", "unlock"} => Inside = {}
                        /\ lock.owner = "none" => Inside = {}
                        /\ lock.depth <= 1 \/ inRead
        BY DEF MutexKept, Inside
    <2>1. KeyTypes /\ LockInv
        BY DEF KeyInv
    <2>2. ~inRead /\ lock.owner = "program" => lock.depth <= 1
        <3> SUFFICES ASSUME ~inRead, lock.owner = "program" PROVE Cardinality(Inside) <= 1
            BY <2>1 DEF LockInv
        <3>1. Inside \in {{}, {running}}
            BY <2>1 DEF LockInv
        <3>2. Cardinality({running}) = 1 /\ Cardinality({}) = 0
            BY FS_Singleton, FS_EmptySet
        <3> QED BY <3>1, <3>2
    <2> QED BY <2>1, <2>2 DEF LockInv, KeyTypes, Free
<1> QED BY KeyInvariant, <1>1, PTL

\* There is one event thread, unless an interrupt comes into the late initialisation.
THEOREM OneEventThreadTheorem == KeySpec => []OneEventThread
<1>1. KeyInv => OneEventThread
    BY DEF KeyInv, StartInv, OneEventThread
<1> QED BY KeyInvariant, <1>1, PTL

\* One event thread, one mutex, and who holds it is alone in the queue.
THEOREM OneMutexTheorem == KeySpec => []OneMutex
<1> QED BY MutexTheorem, OneEventThreadTheorem, PTL DEF OneMutex

\* Whatever the length of the ring, keys come in order, and only whole rings are lost.
THEOREM KeysInOrderTheorem == KeySpec => []KeysInOrder
<1>1. KeyInv => KeysInOrder
    BY DEF KeyInv, OrderInv, GotInOrder, KeysInOrder
<1> QED BY KeyInvariant, <1>1, PTL
------------------------------------------------------------------------------
(***************************************************************************)
(* The lists of an address space                                           *)
(***************************************************************************)
Places == Vas \cup {None}
Lists(s) == [Vas \cup {s} -> Places]
InsertedIn(l, s, v) == [l EXCEPT ![v] = l[s], ![s] = v]

LEMMA ReachedLeast ==
    ASSUME NEW s \in Heads, NEW l \in Lists(s)
    PROVE  /\ ReachedIn(l, s) \subseteq Places /\ Passes(l, s, ReachedIn(l, s))
           /\ \A S \in SUBSET Places : Passes(l, s, S) => ReachedIn(l, s) \subseteq S
<1>1. l[s] \in Places /\ \A x \in Vas : l[x] \in Places
    BY DEF Lists
<1>2. ReachedIn(l, s) \subseteq Places
    BY DEF ReachedIn, Places
<1>3. \A x : x \in ReachedIn(l, s) <=> x \in Places /\ \A S \in SUBSET Places : Passes(l, s, S) => x \in S
    BY DEF ReachedIn, Places
<1>4. Passes(l, s, ReachedIn(l, s))
    <2>1. l[s] \in ReachedIn(l, s)
        BY <1>1, <1>3 DEF Passes
    <2>2. ASSUME NEW x \in ReachedIn(l, s) \ {None}
          PROVE  l[x] \in ReachedIn(l, s)
        <3>1. x \in Vas
            BY <1>2 DEF Places
        <3>2. ASSUME NEW S \in SUBSET Places, Passes(l, s, S) PROVE l[x] \in S
            BY <1>3, <3>2 DEF Passes
        <3> QED BY <1>1, <1>3, <3>1, <3>2
    <2> QED BY <2>1, <2>2 DEF Passes
<1> QED BY <1>2, <1>3, <1>4

\* A new node in front: the list has it besides what it had.
LEMMA ReachedInserted ==
    ASSUME NEW s \in Heads, NEW l \in Lists(s), NEW v \in Vas, v \notin ReachedIn(l, s)
    PROVE  ReachedIn(InsertedIn(l, s, v), s) = ReachedIn(l, s) \cup {v}
<1> DEFINE k == InsertedIn(l, s, v)
           R == ReachedIn(l, s)
<1>1. /\ s \notin Vas /\ None \notin Vas
      /\ k \in Lists(s) /\ k[s] = v /\ k[v] = l[s] /\ \A x \in Vas \ {v} : k[x] = l[x]
    BY NativeAssumption DEF InsertedIn, Lists, Places
<1> HIDE DEF k
<1>2. /\ R \subseteq Places /\ Passes(l, s, R)
      /\ \A S \in SUBSET Places : Passes(l, s, S) => R \subseteq S
    BY ReachedLeast
<1>3. /\ ReachedIn(k, s) \subseteq Places /\ Passes(k, s, ReachedIn(k, s))
      /\ \A S \in SUBSET Places : Passes(k, s, S) => ReachedIn(k, s) \subseteq S
    BY <1>1, ReachedLeast
<1> HIDE DEF R
<1>4. Passes(k, s, R \cup {v})
    BY <1>1, <1>2 DEF Passes, Places
<1>5. ReachedIn(k, s) \subseteq R \cup {v}
    BY <1>2, <1>3, <1>4 DEF Places
<1>6. Passes(l, s, ReachedIn(k, s) \cap R)
    <2>1. v \in ReachedIn(k, s) /\ l[s] \in ReachedIn(k, s)
        BY <1>1, <1>3 DEF Passes
    <2>2. ASSUME NEW x \in (ReachedIn(k, s) \cap R) \ {None} PROVE l[x] \in ReachedIn(k, s) \cap R
        <3>1. x \in Vas \ {v}
            BY <1>2 DEF Places, R
        <3> QED BY <1>1, <1>2, <1>3, <3>1 DEF Passes
    <2> QED BY <1>2, <2>1, <2>2 DEF Passes
<1>7. R \subseteq ReachedIn(k, s)
    BY <1>2, <1>3, <1>6
<1>8. v \in ReachedIn(k, s)
    BY <1>1, <1>3 DEF Passes
<1> QED BY <1>5, <1>7, <1>8 DEF k, R

\* What is passed on the way from a, but not beyond v.
Until(l, v, a) ==
    {x \in Places : \A S \in SUBSET Places :
        a \in S /\ (\A y \in S \ {None, v} : l[y] \in S) => x \in S}

LEMMA UntilIs ==
    ASSUME NEW s \in Heads, NEW l \in Lists(s), NEW v \in Vas, NEW a \in Places
    PROVE  /\ Until(l, v, a) \subseteq Places /\ a \in Until(l, v, a)
           /\ \A y \in Until(l, v, a) \ {None, v} : l[y] \in Until(l, v, a)
           /\ \A S \in SUBSET Places :
                 a \in S /\ (\A y \in S \ {None, v} : l[y] \in S) => Until(l, v, a) \subseteq S
<1>1. \A x \in Vas : l[x] \in Places
    BY DEF Lists
<1>2. ASSUME NEW y \in Until(l, v, a) \ {None, v} PROVE l[y] \in Until(l, v, a)
    <2>1. y \in Vas /\ l[y] \in Places
        BY <1>1 DEF Until, Places
    <2>2. ASSUME NEW S \in SUBSET Places, a \in S, \A z \in S \ {None, v} : l[z] \in S
          PROVE  l[y] \in S
        <3>1. y \in S
            BY <2>2 DEF Until
        <3> QED BY <2>2, <3>1
    <2> QED BY <2>1, <2>2 DEF Until
<1>3. ASSUME NEW S \in SUBSET Places, a \in S, \A z \in S \ {None, v} : l[z] \in S
      PROVE  Until(l, v, a) \subseteq S
    BY <1>3 DEF Until
<1> QED BY <1>2, <1>3 DEF Until

\* A node that is in the list is put in front again: the list leads back to it.
LEMMA ReachedAgain ==
    ASSUME NEW s \in Heads, NEW l \in Lists(s), NEW v \in Vas, v \in ReachedIn(l, s)
    PROVE  None \notin ReachedIn(InsertedIn(l, s, v), s)
<1> DEFINE k == InsertedIn(l, s, v)
           h == l[s]
           P == Until(l, v, h)
<1>1. /\ s \notin Vas /\ None \notin Vas
      /\ k \in Lists(s) /\ k[s] = v /\ k[v] = h /\ \A x \in Vas \ {v} : k[x] = l[x]
      /\ h \in Places /\ v \in Places /\ None \in Places
    BY NativeAssumption DEF InsertedIn, Lists, Places
<1> HIDE DEF k
<1>2. /\ P \subseteq Places /\ h \in P /\ \A y \in P \ {None, v} : l[y] \in P
      /\ \A S \in SUBSET Places :
            h \in S /\ (\A y \in S \ {None, v} : l[y] \in S) => P \subseteq S
    BY <1>1, UntilIs
<1>3. v \in P
    <2>1. ASSUME v \notin P PROVE Passes(l, s, P)
        BY <1>2, <2>1 DEF Passes
    <2> QED BY <1>2, <2>1, ReachedLeast
<1>4. None \notin P
    <2>1. Until(l, v, None) \subseteq {None} /\ Until(l, v, v) \subseteq {v}
        <3>1. /\ {None} \in SUBSET Places /\ \A z \in {None} \ {None, v} : l[z] \in {None}
              /\ {v} \in SUBSET Places /\ \A z \in {v} \ {None, v} : l[z] \in {v}
              /\ None \in {None} /\ v \in {v}
            BY <1>1
        <3>2. \A a \in Places, S \in SUBSET Places :
                  a \in S /\ (\A y \in S \ {None, v} : l[y] \in S) => Until(l, v, a) \subseteq S
            BY UntilIs
        <3> QED BY <1>1, <3>1, <3>2, Zenon
    <2> DEFINE C == {a \in Places : v \in Until(l, v, a) \/ a \in Until(l, v, v)}
    <2>2. h \in C
        BY <1>1, <1>3
    <2>3. ASSUME NEW a \in C \ {None, v} PROVE l[a] \in C
        <3>1. a \in Vas /\ l[a] \in Places /\ a \in Places
            BY DEF Lists, Places
        <3>2. v \in Until(l, v, a)
            BY <2>1, <2>3
        <3> DEFINE D == {a} \cup Until(l, v, l[a])
        <3>3. /\ Until(l, v, l[a]) \subseteq Places /\ l[a] \in Until(l, v, l[a])
              /\ \A y \in Until(l, v, l[a]) \ {None, v} : l[y] \in Until(l, v, l[a])
            BY <3>1, UntilIs
        <3>4. D \in SUBSET Places /\ a \in D /\ \A y \in D \ {None, v} : l[y] \in D
            BY <3>1, <3>3
        <3>5. Until(l, v, a) \subseteq D
            <4> HIDE DEF D
            <4> QED BY <3>1, <3>4, UntilIs
        <3> QED BY <2>3, <3>1, <3>2, <3>5
    <2>4. P \subseteq C
        <3>1. C \in SUBSET Places
            OBVIOUS
        <3> HIDE DEF C, P
        <3> QED BY <1>2, <2>2, <2>3, <3>1
    <2> QED BY <1>1, <2>1, <2>4
<1>5. Passes(k, s, P)
    <2>1. ASSUME NEW x \in P \ {None} PROVE k[x] \in P
        <3>1. x \in Vas
            BY <1>2 DEF Places
        <3> QED BY <1>1, <1>2, <3>1
    <2> QED BY <1>1, <1>3, <2>1 DEF Passes
<1>6. ReachedIn(k, s) \subseteq P
    BY <1>1, <1>2, <1>5, ReachedLeast
<1> QED BY <1>4, <1>6 DEF k
------------------------------------------------------------------------------
NativeTypes ==
    /\ link = [s \in Heads |-> link[s]] /\ \A s \in Heads : link[s] \in Lists(s)
    /\ pa \in [Heads -> [Vas -> Pas \cup {None}]]
    /\ isMapped \in [Heads -> [Vas -> BOOLEAN]]
    /\ vmHead \in [Procs -> Heads \cup {None}]
    /\ host \in [Procs -> [Vas -> Pas \cup {None}]]
    /\ endless \subseteq Procs
    /\ remapped \in BOOLEAN /\ together \in BOOLEAN /\ remote \in BOOLEAN

\* The lists end until a va is mapped twice, and nobody is caught in one before.
ListsInv ==
    /\ remapped <=> \E s \in Heads : ~Ends(s)
    /\ endless # {} => remapped

\* An address space is in use on one process.
ApartInv ==
    ~together => \A c, d \in Procs : vmHead[c] # None /\ vmHead[c] = vmHead[d] => c = d

\* What the host has mapped is in the list in use, as a mapping, with its is_mapped set:
\* so that the loop of __am_switch over that list undoes it.
HostInv ==
    ~together /\ ~remapped =>
        \A c \in Procs, v \in Vas : host[c][v] # None =>
            /\ vmHead[c] # None /\ v \in Nodes(vmHead[c])
            /\ isMapped[vmHead[c]][v] /\ host[c][v] = pa[vmHead[c]][v]

NativeIInv == NativeTypes /\ ListsInv /\ ApartInv /\ HostInv /\ AllThere

LEMMA ReachedIs ==
    ASSUME NativeTypes, NEW s \in Heads
    PROVE  Reached(s) = ReachedIn(link[s], s) /\ Reached(s) \subseteq Places /\ link[s] \in Lists(s)
<1>1. link[s] \in Lists(s)
    BY DEF NativeTypes
<1> QED BY <1>1, ReachedLeast DEF Reached

\* What a node put in front does to every list.
LEMMA ListsInserted ==
    ASSUME NativeTypes, NEW s \in Heads, NEW v \in Vas, link' = [link EXCEPT ![s] = Inserted(s, v)]
    PROVE  /\ link' = [l \in Heads |-> link'[l]] /\ \A l \in Heads : link'[l] \in Lists(l)
           /\ \A l \in Heads \ {s} : Reached(l)' = Reached(l)
           /\ v \notin Reached(s) => Reached(s)' = Reached(s) \cup {v}
           /\ v \in Reached(s) => None \notin Reached(s)'
<1>1. /\ link = [l \in Heads |-> link[l]] /\ link[s] \in Lists(s)
      /\ \A l \in Heads : link[l] \in Lists(l)
    BY DEF NativeTypes
<1>2. /\ \A l \in Heads \ {s} : link'[l] = link[l]
      /\ link'[s] = InsertedIn(link[s], s, v) /\ link' = [l \in Heads |-> link'[l]]
    BY <1>1 DEF Inserted, InsertedIn
<1>3. InsertedIn(link[s], s, v) \in Lists(s)
    BY <1>1 DEF InsertedIn, Lists, Places
<1>4. \A l \in Heads : Reached(l) = ReachedIn(link[l], l) /\ Reached(l)' = ReachedIn(link'[l], l)
    BY DEF Reached
<1>5. \A l \in Heads \ {s} : Reached(l)' = Reached(l)
    BY <1>2, <1>4
<1>6. \A l \in Heads : link'[l] \in Lists(l)
    BY <1>1, <1>2, <1>3
<1>7. v \notin Reached(s) => Reached(s)' = Reached(s) \cup {v}
    BY <1>1, <1>2, <1>4, ReachedInserted
<1>8. v \in Reached(s) => None \notin Reached(s)'
    BY <1>1, <1>2, <1>4, ReachedAgain
<1> QED BY <1>2, <1>5, <1>6, <1>7, <1>8

\* Same links, same lists.
LEMMA ListsSame ==
    ASSUME UNCHANGED link, NEW s \in Heads
    PROVE  Reached(s)' = Reached(s) /\ Nodes(s)' = Nodes(s) /\ Ends(s)' = Ends(s)
BY DEF Reached, Nodes, Ends

LEMMA MapTypes ==
    ASSUME NativeTypes, NEW c \in Procs, NEW s \in Heads, NEW v \in Vas, NEW p \in Pas,
           Map(c, s, v, p)
    PROVE  NativeTypes'
<1>1. CASE v \notin Nodes(s) /\ ~Ends(s)
    <2>1. /\ endless' = endless \cup {c}
          /\ UNCHANGED <<link, pa, isMapped, vmHead, host, remapped, together, remote>>
        BY <1>1 DEF Map, history
    <2> QED BY <2>1 DEF NativeTypes
<1>2. CASE ~(v \notin Nodes(s) /\ ~Ends(s))
    <2>1. /\ link' = [link EXCEPT ![s] = Inserted(s, v)]
          /\ pa' = [pa EXCEPT ![s][v] = p]
          /\ isMapped' = [isMapped EXCEPT ![s][v] = vmHead[c] = s]
          /\ host' = IF vmHead[c] = s THEN [host EXCEPT ![c][v] = p] ELSE host
          /\ UNCHANGED <<endless, together, vmHead>>
          /\ remapped' = (remapped \/ v \in Nodes(s))
          /\ remote' = (remote \/ InUse(s) \ {c} # {})
        BY <1>2 DEF Map
    <2>2. link' = [l \in Heads |-> link'[l]] /\ \A l \in Heads : link'[l] \in Lists(l)
        BY <2>1, ListsInserted
    <2>3. /\ pa' \in [Heads -> [Vas -> Pas \cup {None}]]
          /\ host' \in [Procs -> [Vas -> Pas \cup {None}]]
        BY <2>1 DEF NativeTypes
    <2>4. isMapped' \in [Heads -> [Vas -> BOOLEAN]]
        BY <2>1, Zenon DEF NativeTypes
    <2>5. remapped' \in BOOLEAN /\ remote' \in BOOLEAN
        BY <2>1, Zenon
    <2> QED BY <2>1, <2>2, <2>3, <2>4, <2>5 DEF NativeTypes
<1> QED BY <1>1, <1>2

LEMMA SwitchTypes ==
    ASSUME NativeTypes, NEW c \in Procs, NEW s \in Heads \cup {None}, Switch(c, s)
    PROVE  NativeTypes'
<1>1. UNCHANGED <<link, pa, remapped, remote>>
    BY DEF Switch
<1>2. CASE \E l \in {vmHead[c], s} \ {None} : ~Ends(l)
    BY <1>1, <1>2 DEF Switch, NativeTypes
<1>3. CASE ~\E l \in {vmHead[c], s} \ {None} : ~Ends(l)
    <2>1. /\ host' = [host EXCEPT ![c] =
                    [v \in Vas |-> IF s # None /\ v \in Nodes(s) THEN pa[s][v]
                                   ELSE Unmapped(c)[v]]]
          /\ isMapped' = [l \in Heads |-> [v \in Vas |->
                    CASE l = s /\ v \in Nodes(l) -> TRUE
                      [] l = vmHead[c] /\ v \in Nodes(l) -> FALSE
                      [] OTHER -> isMapped[l][v]]]
          /\ vmHead' = [vmHead EXCEPT ![c] = s]
          /\ together' = (together \/ (s # None /\ InUse(s) # {}))
          /\ UNCHANGED endless
        BY <1>3 DEF Switch
    <2>2. Unmapped(c) \in [Vas -> Pas \cup {None}]
        BY DEF Unmapped, NativeTypes
    <2> DEFINE new == [v \in Vas |-> IF s # None /\ v \in Nodes(s) THEN pa[s][v]
                                     ELSE Unmapped(c)[v]]
    <2>3. new \in [Vas -> Pas \cup {None}]
        BY <2>2 DEF NativeTypes
    <2>4. host' = [host EXCEPT ![c] = new]
        BY <2>1
    <2> HIDE DEF new
    <2>5. host' \in [Procs -> [Vas -> Pas \cup {None}]]
        BY <2>3, <2>4 DEF NativeTypes
    <2>6. isMapped' \in [Heads -> [Vas -> BOOLEAN]]
        BY <2>1, Zenon DEF NativeTypes
    <2>7. together' \in BOOLEAN
        BY <2>1, Zenon
    <2> QED BY <1>1, <2>1, <2>5, <2>6, <2>7 DEF NativeTypes
<1> QED BY <1>2, <1>3

LEMMA MapLists ==
    ASSUME NativeTypes, ListsInv, ApartInv, NEW c \in Procs, NEW s \in Heads, NEW v \in Vas,
           NEW p \in Pas, Map(c, s, v, p)
    PROVE  ListsInv' /\ ApartInv'
<1>1. ApartInv'
    BY DEF Map, ApartInv, history
<1>2. CASE v \notin Nodes(s) /\ ~Ends(s)
    <2>1. UNCHANGED <<link, remapped>> /\ remapped
        BY <1>2 DEF Map, history, ListsInv
    <2>2. \A l \in Heads : Ends(l)' = Ends(l)
        BY <2>1, ListsSame
    <2> QED BY <1>1, <2>1, <2>2 DEF ListsInv
<1>3. CASE ~(v \notin Nodes(s) /\ ~Ends(s))
    <2>1. /\ link' = [link EXCEPT ![s] = Inserted(s, v)] /\ UNCHANGED endless
          /\ remapped' <=> remapped \/ v \in Nodes(s)
        BY <1>3 DEF Map
    <2>2. v \in Nodes(s) <=> v \in Reached(s)
        BY NativeAssumption DEF Nodes
    <2>3. \A l \in Heads \ {s} : Ends(l)' <=> Ends(l)
        BY <2>1, ListsInserted DEF Ends
    <2>4. CASE v \in Nodes(s)
        <3>1. ~Ends(s)' /\ remapped'
            BY <2>1, <2>2, <2>4, ListsInserted DEF Ends
        <3> QED BY <1>1, <2>1, <3>1 DEF ListsInv
    <2>5. CASE v \notin Nodes(s)
        <3>1. Ends(s) /\ Ends(s)' /\ (remapped' <=> remapped)
            BY <1>3, <2>1, <2>2, <2>5, ListsInserted DEF Ends
        <3> QED BY <1>1, <2>1, <2>3, <3>1 DEF ListsInv
    <2> QED BY <2>4, <2>5
<1> QED BY <1>2, <1>3

\* The nodes of the list s when the links are k.
NodesOf(k, s) == ReachedIn(k[s], s) \ {None}

LEMMA NodesAre ==
    /\ \A s \in Heads : Nodes(s) = NodesOf(link, s)
    /\ \A c \in Procs : /\ Nodes(vmHead[c]) = NodesOf(link, vmHead[c])
                        /\ Nodes(vmHead[c])' = NodesOf(link', vmHead'[c])
BY DEF Nodes, NodesOf, Reached

LEMMA MapHost ==
    ASSUME NativeTypes, ListsInv, ApartInv, HostInv, AllThere, NEW c \in Procs, NEW s \in Heads,
           NEW v \in Vas, NEW p \in Pas, Map(c, s, v, p)
    PROVE  HostInv' /\ AllThere'
<1>1. CASE v \notin Nodes(s) /\ ~Ends(s)
    <2>1. remapped' 
        BY <1>1 DEF Map, history, ListsInv
    <2> QED BY <2>1 DEF HostInv, AllThere
<1>2. CASE ~(v \notin Nodes(s) /\ ~Ends(s))
    <2>1. /\ link' = [link EXCEPT ![s] = Inserted(s, v)]
          /\ pa' = [pa EXCEPT ![s][v] = p]
          /\ isMapped' = [isMapped EXCEPT ![s][v] = vmHead[c] = s]
          /\ host' = IF vmHead[c] = s THEN [host EXCEPT ![c][v] = p] ELSE host
          /\ UNCHANGED <<together, vmHead>>
          /\ remapped' <=> remapped \/ v \in Nodes(s)
          /\ remote' <=> remote \/ InUse(s) \ {c} # {}
        BY <1>2 DEF Map
    <2>2. SUFFICES ASSUME ~together, ~remapped, v \notin Nodes(s)
          PROVE  HostInv' /\ AllThere'
        BY <2>1 DEF HostInv, AllThere
    <2>3. /\ \A l \in Heads \ {s} : NodesOf(link', l) = NodesOf(link, l)
          /\ NodesOf(link', s) = NodesOf(link, s) \cup {v}
        <3>1. v \notin Reached(s) /\ v # None
            BY <2>2, NativeAssumption DEF Nodes
        <3> QED BY <2>1, <3>1, ListsInserted DEF Reached, NodesOf
    <2>4. \A l \in Heads, w \in Vas : l # s \/ w # v => pa'[l][w] = pa[l][w]
        BY <2>1 DEF NativeTypes
    <2>5. pa'[s][v] = p
        BY <2>1 DEF NativeTypes
    <2>6. \A l \in Heads, w \in Vas : l # s \/ w # v => (isMapped'[l][w] <=> isMapped[l][w])
        BY <2>1, Zenon DEF NativeTypes
    <2>7. vmHead[c] = s => isMapped'[s][v]
        BY <2>1, Zenon DEF NativeTypes
    <2>8. \A d \in Procs, w \in Vas : d # c \/ w # v \/ vmHead[c] # s => host'[d][w] = host[d][w]
        BY <2>1 DEF NativeTypes
    <2>9. vmHead[c] = s => host'[c][v] = p
        BY <2>1 DEF NativeTypes
    <2>10. \A d \in Procs, w \in Vas : vmHead'[d] = vmHead[d] /\ vmHead[d] \in Heads \cup {None}
        BY <2>1 DEF NativeTypes
    <2>11. \A d \in Procs : vmHead[d] = s => host[d][v] = None
        BY <2>2 DEF HostInv
    <2>12. HostInv'
        <3> SUFFICES ASSUME NEW d \in Procs, NEW w \in Vas, host'[d][w] # None
              PROVE  /\ vmHead'[d] # None /\ w \in NodesOf(link', vmHead'[d])
                     /\ isMapped'[vmHead'[d]][w] /\ host'[d][w] = pa'[vmHead'[d]][w]
            BY NodesAre DEF HostInv
        <3>1. CASE d = c /\ w = v /\ vmHead[c] = s
            BY <2>3, <2>5, <2>7, <2>9, <2>10, <3>1, NativeAssumption
        <3>2. CASE ~(d = c /\ w = v /\ vmHead[c] = s)
            <4>1. /\ host[d][w] # None /\ host'[d][w] = host[d][w]
                BY <2>8, <3>2
            <4>2. /\ vmHead[d] # None /\ w \in NodesOf(link, vmHead[d])
                  /\ isMapped[vmHead[d]][w] /\ host[d][w] = pa[vmHead[d]][w]
                BY <2>2, <4>1, NodesAre DEF HostInv
            <4>3. vmHead[d] # s \/ w # v
                BY <2>2, <4>2, NodesAre
            <4>4. PICK l \in Heads : vmHead[d] = l /\ vmHead'[d] = l
                BY <2>10, <4>2
            <4>5. w \in NodesOf(link', l) /\ isMapped'[l][w] /\ pa'[l][w] = pa[l][w]
                BY <2>3, <2>4, <2>6, <4>2, <4>3, <4>4
            <4> QED BY <4>1, <4>2, <4>4, <4>5
        <3> QED BY <3>1, <3>2
    <2>13. AllThere'
        <3> SUFFICES ASSUME ~remote, InUse(s) \ {c} = {}, NEW d \in Procs
              PROVE  host'[d] = Wanted(d)'
            BY <2>1 DEF AllThere
        <3>1. host[d] = Wanted(d)
            BY <2>2 DEF AllThere
        <3>2. host'[d] = [w \in Vas |-> host'[d][w]]
            BY <2>1 DEF NativeTypes
        <3>3. vmHead[d] = s => d = c
            BY DEF InUse
        <3>4. ASSUME NEW w \in Vas
              PROVE  host'[d][w] = IF vmHead'[d] # None /\ w \in NodesOf(link', vmHead'[d])
                                   THEN pa'[vmHead'[d]][w] ELSE None
            <4>1. host[d][w] = IF vmHead[d] # None /\ w \in NodesOf(link, vmHead[d])
                               THEN pa[vmHead[d]][w] ELSE None
                BY <3>1, NodesAre DEF Wanted
            <4>2. CASE d = c /\ w = v /\ vmHead[c] = s
                BY <2>3, <2>5, <2>9, <2>10, <4>2, NativeAssumption
            <4>3. CASE ~(d = c /\ w = v /\ vmHead[c] = s)
                <5>0. PICK l \in Heads \cup {None} : vmHead[d] = l /\ vmHead'[d] = l
                    BY <2>10
                <5>1. host'[d][w] = host[d][w]
                    BY <2>8, <4>3
                <5>2. l # s \/ w # v
                    BY <3>3, <4>3, <5>0
                <5>3. CASE l = None
                    BY <4>1, <5>0, <5>1, <5>3
                <5>4. CASE l # None
                    <6>1. pa'[l][w] = pa[l][w] /\ (w \in NodesOf(link', l) <=> w \in NodesOf(link, l))
                        BY <2>3, <2>4, <5>1, <5>2, <5>4
                    <6> QED BY <4>1, <5>0, <5>1, <5>4, <6>1
                <5> QED BY <5>3, <5>4
            <4> QED BY <4>2, <4>3
        <3> QED BY <3>2, <3>4, NodesAre DEF Wanted
    <2> QED BY <2>12, <2>13
<1> QED BY <1>1, <1>2

LEMMA SwitchLists ==
    ASSUME NativeTypes, ListsInv, ApartInv, NEW c \in Procs, NEW s \in Heads \cup {None},
           Switch(c, s)
    PROVE  ListsInv' /\ ApartInv'
<1>1. UNCHANGED <<link, remapped>> /\ \A l \in Heads : Ends(l)' = Ends(l)
    BY ListsSame DEF Switch
<1>2. CASE \E l \in {vmHead[c], s} \ {None} : ~Ends(l)
    <2>1. UNCHANGED <<vmHead, together>>
        BY <1>2 DEF Switch
    <2>2. \E l \in Heads : ~Ends(l)
        BY <1>2 DEF NativeTypes
    <2> QED BY <1>1, <2>1, <2>2 DEF ListsInv, ApartInv
<1>3. CASE ~\E l \in {vmHead[c], s} \ {None} : ~Ends(l)
    <2>1. /\ vmHead' = [vmHead EXCEPT ![c] = s] /\ UNCHANGED endless
          /\ together' <=> together \/ (s # None /\ InUse(s) # {})
        BY <1>3 DEF Switch
    <2>2. ListsInv'
        BY <1>1, <2>1 DEF ListsInv
    <2>3. ASSUME ~together, s # None => InUse(s) = {},
                 NEW d \in Procs, NEW e \in Procs, vmHead'[d] # None, vmHead'[d] = vmHead'[e]
          PROVE  d = e
        <3>1. \A f \in Procs : vmHead'[f] = IF f = c THEN s ELSE vmHead[f]
            BY <2>1 DEF NativeTypes
        <3>2. s # None => \A f \in Procs : vmHead[f] # s
            BY <2>3 DEF InUse
        <3> QED BY <2>3, <3>1, <3>2 DEF ApartInv
    <2> QED BY <2>1, <2>2, <2>3 DEF ApartInv
<1> QED BY <1>2, <1>3

LEMMA SwitchHost ==
    ASSUME NativeTypes, ListsInv, ApartInv, HostInv, AllThere, NEW c \in Procs,
           NEW s \in Heads \cup {None}, Switch(c, s)
    PROVE  HostInv' /\ AllThere'
<1>1. UNCHANGED <<link, pa, remapped, remote>>
    BY DEF Switch
<1>2. CASE \E l \in {vmHead[c], s} \ {None} : ~Ends(l)
    <2>1. remapped'
        <3>1. \E l \in Heads : ~Ends(l)
            BY <1>2 DEF NativeTypes
        <3> QED BY <1>1, <3>1 DEF ListsInv
    <2> QED BY <2>1 DEF HostInv, AllThere
<1>3. CASE ~\E l \in {vmHead[c], s} \ {None} : ~Ends(l)
    <2>1. /\ host' = [host EXCEPT ![c] =
                    [v \in Vas |-> IF s # None /\ v \in Nodes(s) THEN pa[s][v]
                                   ELSE Unmapped(c)[v]]]
          /\ isMapped' = [l \in Heads |-> [v \in Vas |->
                    CASE l = s /\ v \in Nodes(l) -> TRUE
                      [] l = vmHead[c] /\ v \in Nodes(l) -> FALSE
                      [] OTHER -> isMapped[l][v]]]
          /\ vmHead' = [vmHead EXCEPT ![c] = s]
          /\ together' <=> together \/ (s # None /\ InUse(s) # {})
        BY <1>3 DEF Switch
    <2>2. SUFFICES ASSUME ~together, ~remapped, s # None => InUse(s) = {}
          PROVE  HostInv' /\ AllThere'
        BY <1>1, <2>1 DEF HostInv, AllThere
    <2>3. \A d \in Procs : vmHead'[d] = IF d = c THEN s ELSE vmHead[d]
        BY <2>1 DEF NativeTypes
    <2>4. s # None => \A d \in Procs : vmHead[d] # s
        BY <2>2 DEF InUse
    <2>5. \A d \in Procs, v \in Vas : d # c => host'[d][v] = host[d][v]
        BY <2>1 DEF NativeTypes
    \* The loop over the old list leaves nothing.
    <2>6. \A v \in Vas : Unmapped(c)[v] = None
        <3>1. \A v \in Vas : host[c][v] # None =>
                    vmHead[c] # None /\ v \in Nodes(vmHead[c]) /\ isMapped[vmHead[c]][v]
            BY <2>2 DEF HostInv
        <3> QED BY <3>1 DEF Unmapped
    <2>7. \A v \in Vas : host'[c][v] = IF s # None /\ v \in NodesOf(link, s) THEN pa[s][v] ELSE None
        <3>1. \A v \in Vas : host'[c][v] = IF s # None /\ v \in Nodes(s) THEN pa[s][v] ELSE None
            BY <2>1, <2>6 DEF NativeTypes
        <3> QED BY <3>1, NodesAre
    <2>8. s # None => \A v \in NodesOf(link, s) \cap Vas : isMapped'[s][v]
        <3>1. ASSUME s # None, NEW v \in Vas, v \in Nodes(s) PROVE isMapped'[s][v]
            <4>1. s \in Heads /\ s # vmHead[c]
                BY <3>1 DEF Switch
            <4>2. isMapped'[s][v] = (CASE s = s /\ v \in Nodes(s) -> TRUE
                      [] s = vmHead[c] /\ v \in Nodes(s) -> FALSE
                      [] OTHER -> isMapped[s][v])
                BY <2>1, <4>1
            <4>3. (CASE s = s /\ v \in Nodes(s) -> TRUE
                      [] s = vmHead[c] /\ v \in Nodes(s) -> FALSE
                      [] OTHER -> isMapped[s][v]) = TRUE
                BY <3>1, <4>1, Zenon
            <4> QED BY <4>2, <4>3, Zenon
        <3> QED BY <3>1, NodesAre
    <2>9. ASSUME NEW l \in Heads, l # s, l # vmHead[c], NEW v \in Vas
          PROVE  isMapped'[l][v] <=> isMapped[l][v]
        BY <2>1, <2>9, Zenon
    <2>10. HostInv'
        <3> SUFFICES ASSUME NEW d \in Procs, NEW v \in Vas, host'[d][v] # None
              PROVE  /\ vmHead'[d] # None /\ v \in NodesOf(link', vmHead'[d])
                     /\ isMapped'[vmHead'[d]][v] /\ host'[d][v] = pa'[vmHead'[d]][v]
            BY NodesAre DEF HostInv
        <3>1. CASE d = c
            BY <1>1, <2>3, <2>7, <2>8, <3>1
        <3>2. CASE d # c
            <4>1. host[d][v] # None /\ host'[d][v] = host[d][v] /\ vmHead'[d] = vmHead[d]
                BY <2>3, <2>5, <3>2
            <4>2. /\ vmHead[d] # None /\ v \in NodesOf(link, vmHead[d])
                  /\ isMapped[vmHead[d]][v] /\ host[d][v] = pa[vmHead[d]][v]
                BY <2>2, <4>1, NodesAre DEF HostInv
            <4>3. vmHead[d] \in Heads /\ vmHead[d] # s /\ vmHead[d] # vmHead[c]
                BY <2>2, <2>4, <3>2, <4>2 DEF NativeTypes, ApartInv
            <4>4. isMapped'[vmHead[d]][v]
                BY <2>9, <4>2, <4>3
            <4> QED BY <1>1, <4>1, <4>2, <4>4
        <3> QED BY <3>1, <3>2
    <2>11. AllThere'
        <3> SUFFICES ASSUME ~remote, NEW d \in Procs
              PROVE  host'[d] = Wanted(d)'
            BY <1>1 DEF AllThere
        <3>1. host[d] = Wanted(d)
            BY <2>2 DEF AllThere
        <3>2. host'[d] = [v \in Vas |-> host'[d][v]]
            BY <2>1 DEF NativeTypes
        <3>3. ASSUME NEW v \in Vas
              PROVE  host'[d][v] = IF vmHead'[d] # None /\ v \in NodesOf(link', vmHead'[d])
                                   THEN pa'[vmHead'[d]][v] ELSE None
            <4>1. host[d][v] = IF vmHead[d] # None /\ v \in NodesOf(link, vmHead[d])
                               THEN pa[vmHead[d]][v] ELSE None
                BY <3>1, NodesAre DEF Wanted
            <4>2. CASE d = c
                BY <1>1, <2>3, <2>7, <4>2
            <4>3. CASE d # c
                BY <1>1, <2>3, <2>5, <4>1, <4>3
            <4> QED BY <4>2, <4>3
        <3> QED BY <3>2, <3>3, NodesAre DEF Wanted
    <2> QED BY <2>10, <2>11
<1> QED BY <1>2, <1>3

LEMMA NativeInitInv == NativeInit => NativeIInv
<1> SUFFICES ASSUME NativeInit PROVE NativeIInv
    OBVIOUS
<1>1. NativeTypes
    <2>1. \A s \in Heads : link[s] \in Lists(s)
        BY DEF NativeInit, Lists, Places
    <2>2. isMapped \in [Heads -> [Vas -> BOOLEAN]]
        BY Zenon DEF NativeInit
    <2> QED BY <2>1, <2>2 DEF NativeInit, NativeTypes
<1>2. \A s \in Heads : Ends(s)
    <2> SUFFICES ASSUME NEW s \in Heads PROVE Ends(s)
        OBVIOUS
    <2>1. link[s] \in Lists(s) /\ link[s][s] = None
        BY <1>1 DEF NativeTypes, NativeInit
    <2> QED BY <2>1, ReachedLeast DEF Ends, Reached, Passes
<1>3. ListsInv
    BY <1>2 DEF NativeInit, ListsInv
<1>4. \A c \in Procs : vmHead[c] = None /\ host[c] = [v \in Vas |-> None]
    BY DEF NativeInit
<1>5. ApartInv /\ HostInv
    BY <1>4 DEF ApartInv, HostInv
<1>6. AllThere
    BY <1>4 DEF AllThere, Wanted
<1> QED BY <1>1, <1>3, <1>5, <1>6 DEF NativeIInv

\* The parts of the invariant hold together whatever _map and __am_switch are called for.
THEOREM NativeInvariant == NativeSpec => []NativeIInv
<1>1. NativeIInv /\ [NativeNext]_nativeVars => NativeIInv'
    <2> SUFFICES ASSUME NativeIInv, [NativeNext]_nativeVars PROVE NativeIInv'
        OBVIOUS
    <2> USE DEF NativeIInv
    <2>1. ASSUME NEW c \in Procs, NEW s \in Heads, NEW v \in Vas, NEW p \in Pas, Map(c, s, v, p)
          PROVE  NativeIInv'
        BY <2>1, MapTypes, MapLists, MapHost
    <2>2. ASSUME NEW c \in Procs, NEW s \in Heads \cup {None}, Switch(c, s)
          PROVE  NativeIInv'
        BY <2>2, SwitchTypes, SwitchLists, SwitchHost
    <2>3. CASE UNCHANGED nativeVars
        BY <2>3 DEF nativeVars, NativeTypes, ListsInv, ApartInv, HostInv, AllThere, Wanted,
                    Nodes, Ends, Reached
    <2> QED BY <2>1, <2>2, <2>3 DEF NativeNext
<1> QED BY NativeInitInv, <1>1, PTL DEF NativeSpec

\* What the host has mapped for a process is what its address space says.
THEOREM HostMatchesTheorem == NativeSpec => []HostMatches
<1>1. NativeIInv => HostMatches
    <2> SUFFICES ASSUME NativeIInv PROVE NothingForeign /\ AllThere
        BY DEF HostMatches
    <2>1. ASSUME ~together, ~remapped, NEW c \in Procs, NEW v \in Vas, host[c][v] # None
          PROVE  host[c][v] = Wanted(c)[v]
        BY <2>1 DEF NativeIInv, HostInv, Wanted
    <2> QED BY <2>1 DEF NativeIInv, NothingForeign
<1> QED BY NativeInvariant, <1>1, PTL

\* A list leads into a circle when a va has been mapped twice, and then only, and nobody
\* is in a loop without end before.
THEOREM EndlessTheorem == NativeSpec => []EndlessByRemap
<1>1. NativeIInv => EndlessByRemap
    BY DEF NativeIInv, ListsInv, EndlessByRemap
<1> QED BY NativeInvariant, <1>1, PTL
------------------------------------------------------------------------------
(***************************************************************************)
(* sperf: the microseconds in the table                                    *)
(***************************************************************************)
SysLabels == SysNames \cup {""}
Entry == [name : SysLabels, t : Nat]
LineTypes == [kind : {"call", "noise", "plus"}, name : SysLabels, t : Nat]
OneEach(s) == \A i, j \in DOMAIN s : s[i].name = s[j].name => i = j

SperfTypes ==
    /\ pipe \in Seq(LineTypes) /\ sysctrl \in Seq(Entry)
    /\ total \in Nat /\ seen \in Nat /\ told \in Nat
    /\ phase \in {"reading", "reporting", "recursing", "done"}

\* CountedOnce, of a table with finitely many microseconds.
SperfIInv == SperfTypes /\ IsFiniteSet(Units(sysctrl)) /\ CountedOnce

LEMMA InUnits ==
    ASSUME NEW s, NEW u
    PROVE  u \in Units(s) <=> \E i \in DOMAIN s : \E k \in 1 .. s[i].t : u = <<i, k>>
BY DEF Units

\* The microseconds a + 1 to a + b of an entry i.
Slice(i, a, b) == {i} \X (a + 1 .. a + b)

LEMMA SliceSize ==
    ASSUME NEW i, NEW a \in Nat, NEW b \in Nat
    PROVE  IsFiniteSet(Slice(i, a, b)) /\ Cardinality(Slice(i, a, b)) = b
<1> DEFINE I == a + 1 .. a + b
           P == Slice(i, a, b)
           f == [k \in I |-> <<i, k>>]
<1>1. IsFiniteSet(I) /\ Cardinality(I) = b
    BY FS_Interval
<1>2. f \in Bijection(I, P)
    <2>1. f \in [I -> P] /\ \A k, l \in I : f[k] = f[l] => k = l
        BY DEF Slice
    <2>2. \A u \in P : \E k \in I : f[k] = u
        BY DEF Slice
    <2> HIDE DEF f, I, P
    <2> QED BY <2>1, <2>2, Fun_IsBij
<1>3. ExistsBijection(I, P)
    <2> HIDE DEF f, I, P
    <2> QED BY <1>2 DEF ExistsBijection
<1> HIDE DEF I, P
<1>4. IsFiniteSet(P) /\ Cardinality(P) = b
    BY <1>1, <1>3, FS_Bijection
<1> QED BY <1>4 DEF P

\* b microseconds are added to an entry i that had a.
LEMMA SliceAdded ==
    ASSUME NEW S, NEW i, NEW a \in Nat, NEW b \in Nat, IsFiniteSet(S), S \cap Slice(i, a, b) = {}
    PROVE  /\ IsFiniteSet(S \cup Slice(i, a, b))
           /\ Cardinality(S \cup Slice(i, a, b)) = Cardinality(S) + b
<1>1. IsFiniteSet(Slice(i, a, b)) /\ Cardinality(Slice(i, a, b)) = b
    BY SliceSize
<1>2. Cardinality(S) \in Nat
    BY FS_CardinalityType
<1>3. Cardinality({}) = 0
    BY FS_EmptySet
<1>4. /\ IsFiniteSet(S \cup Slice(i, a, b))
      /\ Cardinality(S \cup Slice(i, a, b)) = Cardinality(S) + b - Cardinality({})
    BY <1>1, FS_Union
<1> QED BY <1>2, <1>3, <1>4

\* A permutation of the entries.
LEMMA SortedKeeps ==
    ASSUME NEW s \in Seq(Entry), NEW r \in Sorted(s), IsFiniteSet(Units(s)), OneEach(s)
    PROVE  /\ r \in Seq(Entry) /\ DOMAIN r = DOMAIN s /\ OneEach(r)
           /\ IsFiniteSet(Units(r)) /\ Cardinality(Units(r)) = Cardinality(Units(s))
<1>1. PICK n \in Nat : DOMAIN s = 1 .. n /\ s \in [1 .. n -> Entry]
    <2>1. Len(s) \in Nat /\ DOMAIN s = 1 .. Len(s) /\ s \in [1 .. Len(s) -> Entry]
        OBVIOUS
    <2> QED BY <2>1
<1>2. PICK p \in Bijection(1 .. n, 1 .. n) : r = [i \in 1 .. n |-> s[p[i]]]
    BY <1>1 DEF Sorted
<1>3. /\ p \in [1 .. n -> 1 .. n] /\ \A i, j \in 1 .. n : p[i] = p[j] => i = j
      /\ \A j \in 1 .. n : \E i \in 1 .. n : p[i] = j
    BY Fun_BijectionProperties, Zenon DEF Bijection, Injection, Surjection, IsInjective
<1>4. r \in [1 .. n -> Entry] /\ DOMAIN r = 1 .. n
    BY <1>1, <1>2, <1>3
<1>5. r \in Seq(Entry)
    BY <1>4
<1>6. OneEach(r)
    BY <1>1, <1>2, <1>3, <1>4 DEF OneEach
<1> DEFINE U == Units(r)
           V == Units(s)
           f == [u \in U |-> <<p[u[1]], u[2]>>]
<1>7. \A u : u \in U <=> \E i \in 1 .. n : \E k \in 1 .. s[p[i]].t : u = <<i, k>>
    BY <1>2, <1>4, InUnits
<1>8. \A u : u \in V <=> \E i \in 1 .. n : \E k \in 1 .. s[i].t : u = <<i, k>>
    BY <1>1, InUnits
<1> HIDE DEF U, V
<1>9. f \in Bijection(U, V)
    <2>1. ASSUME NEW u \in U PROVE f[u] \in V
        <3>1. PICK i \in 1 .. n : \E k \in 1 .. s[p[i]].t : u = <<i, k>>
            BY <1>7
        <3>2. PICK k \in 1 .. s[p[i]].t : u = <<i, k>>
            BY <3>1
        <3>3. f[u] = <<p[i], k>> /\ p[i] \in 1 .. n
            BY <1>3, <3>2
        <3> HIDE DEF f
        <3> QED BY <1>8, <3>2, <3>3
    <2>2. ASSUME NEW u \in U, NEW w \in U, f[u] = f[w] PROVE u = w
        <3>1. PICK i \in 1 .. n : \E k \in 1 .. s[p[i]].t : u = <<i, k>>
            BY <1>7
        <3>4. PICK k \in 1 .. s[p[i]].t : u = <<i, k>>
            BY <3>1
        <3>2. PICK j \in 1 .. n : \E l \in 1 .. s[p[j]].t : w = <<j, l>>
            BY <1>7
        <3>5. PICK l \in 1 .. s[p[j]].t : w = <<j, l>>
            BY <3>2
        <3>3. f[u] = <<p[i], k>> /\ f[w] = <<p[j], l>>
            BY <3>4, <3>5
        <3> HIDE DEF f
        <3>6. <<p[i], k>> = <<p[j], l>>
            BY <2>2, <3>3
        <3>7. i = j
            BY <1>3, <3>6
        <3> QED BY <3>4, <3>5, <3>6, <3>7
    <2>3. ASSUME NEW w \in V PROVE \E u \in U : f[u] = w
        <3>1. PICK j \in 1 .. n : \E k \in 1 .. s[j].t : w = <<j, k>>
            BY <1>8
        <3>5. PICK k \in 1 .. s[j].t : w = <<j, k>>
            BY <3>1
        <3>2. PICK i \in 1 .. n : p[i] = j
            BY <1>3
        <3>3. <<i, k>> \in U
            BY <1>7, <3>2, <3>5
        <3>4. f[<<i, k>>] = w
            BY <3>2, <3>3, <3>5
        <3> HIDE DEF f
        <3> QED BY <3>3, <3>4
    <2>4. f \in [U -> V]
        BY <2>1
    <2> HIDE DEF f
    <2> QED BY <2>2, <2>3, <2>4, Fun_IsBij
<1>10. ExistsBijection(U, V)
    <2> HIDE DEF f
    <2> QED BY <1>9 DEF ExistsBijection
<1>11. ExistsBijection(V, U)
    BY <1>10, Fun_ExistsBijSymmetric
<1>12. IsFiniteSet(U) /\ Cardinality(U) = Cardinality(V)
    <2>1. IsFiniteSet(V)
        BY DEF V
    <2> QED BY <1>11, <2>1, FS_Bijection
<1> QED BY <1>1, <1>4, <1>5, <1>6, <1>12 DEF U, V

\* No entry has more than all together.
LEMMA EntryAtMostAll ==
    ASSUME NEW s \in Seq(Entry), IsFiniteSet(Units(s)), NEW i \in DOMAIN s
    PROVE  s[i].t \in Nat /\ s[i].t <= Cardinality(Units(s))
<1>1. s[i].t \in Nat
    <2>1. s[i] \in Entry
        OBVIOUS
    <2> QED BY <2>1 DEF Entry
<1> DEFINE N == Slice(i, 0, s[i].t)
<1>2. IsFiniteSet(N) /\ Cardinality(N) = s[i].t
    BY <1>1, SliceSize
<1>3. N \subseteq Units(s)
    BY <1>1, InUnits DEF Slice
<1> HIDE DEF N
<1> QED BY <1>1, <1>2, <1>3, FS_Subset

\* A line is entered: its microseconds are added, and it gets an entry if it has none.
LEMMA RecordedAdds ==
    ASSUME NEW l \in LineTypes, sysctrl \in Seq(Entry), OneEach(sysctrl), IsFiniteSet(Units(sysctrl))
    PROVE  /\ Recorded(l) \in Seq(Entry) /\ OneEach(Recorded(l))
           /\ IsFiniteSet(Units(Recorded(l)))
           /\ Cardinality(Units(Recorded(l))) = Cardinality(Units(sysctrl)) + l.t
<1> DEFINE s == sysctrl
           r == Recorded(l)
<1>1. PICK n \in Nat : n = Len(s) /\ DOMAIN s = 1 .. n /\ s \in [1 .. n -> Entry]
    OBVIOUS
<1>2. l.t \in Nat /\ l.name \in SysLabels
    BY DEF LineTypes
<1>3. \A i \in 1 .. n : s[i].t \in Nat /\ s[i].name \in SysLabels
    BY <1>1 DEF Entry
<1>4. CASE \E i \in DOMAIN s : s[i].name = l.name
    <2>1. PICK i \in 1 .. n : s[i].name = l.name
        BY <1>1, <1>4
    <2>2. \A j \in 1 .. n : s[j].name = l.name <=> j = i
        BY <1>1, <2>1 DEF OneEach
    <2>3. r = [j \in 1 .. n |-> IF j = i THEN [s[j] EXCEPT !.t = @ + l.t] ELSE s[j]]
        BY <1>1, <1>4, <2>2 DEF Recorded
    <2>4. /\ DOMAIN r = 1 .. n /\ \A j \in 1 .. n \ {i} : r[j] = s[j]
          /\ r[i] = [s[i] EXCEPT !.t = @ + l.t]
        BY <2>3
    <2>5. r[i] \in Entry /\ r[i].name = s[i].name /\ r[i].t = s[i].t + l.t
        <3>1. s[i] \in Entry /\ s[i].t \in Nat
            BY <1>1, <1>3
        <3>2. r[i] = [name |-> s[i].name, t |-> s[i].t + l.t]
            BY <2>4, <3>1 DEF Entry
        <3>3. s[i].name \in SysLabels /\ s[i].t + l.t \in Nat
            BY <1>2, <1>3
        <3> HIDE DEF r
        <3> QED BY <3>2, <3>3 DEF Entry
    <2>6. r \in Seq(Entry)
        <3>1. \A j \in 1 .. n : r[j] \in Entry
            BY <1>1, <2>4, <2>5
        <3>2. r = [j \in 1 .. n |-> r[j]]
            BY <2>3
        <3> HIDE DEF r
        <3>3. r \in [1 .. n -> Entry]
            BY <3>1, <3>2
        <3> QED BY <3>3
    <2> HIDE DEF r
    <2>7. OneEach(r)
        <3>1. \A j \in 1 .. n : r[j].name = s[j].name
            BY <2>4, <2>5
        <3> QED BY <1>1, <2>4, <3>1 DEF OneEach
    <2> DEFINE a == s[i].t
    <2>8. a \in Nat
        BY <1>3
    <2>9. Units(r) = Units(s) \cup Slice(i, a, l.t)
        <3>1. \A u : u \in Units(r) <=> \E j \in 1 .. n : \E k \in 1 .. r[j].t : u = <<j, k>>
            BY <2>4, InUnits
        <3>2. \A u : u \in Units(s) <=> \E j \in 1 .. n : \E k \in 1 .. s[j].t : u = <<j, k>>
            BY <1>1, InUnits
        <3>3. \A u : u \in Slice(i, a, l.t) <=> \E k \in a + 1 .. a + l.t : u = <<i, k>>
            BY DEF Slice
        <3>4. 1 .. r[i].t = 1 .. a \cup (a + 1 .. a + l.t)
            BY <1>2, <2>5, <2>8
        <3>5. ASSUME NEW u PROVE u \in Units(r) <=> u \in Units(s) \/ u \in Slice(i, a, l.t)
            BY <2>4, <3>1, <3>2, <3>3, <3>4
        <3> QED BY <3>5
    <2>10. Units(s) \cap Slice(i, a, l.t) = {}
        <3> SUFFICES ASSUME NEW k \in a + 1 .. a + l.t, <<i, k>> \in Units(s) PROVE FALSE
            BY DEF Slice
        <3>1. k \in 1 .. a
            BY InUnits
        <3> QED BY <1>2, <2>8, <3>1
    <2> HIDE DEF a
    <2>11. IsFiniteSet(Units(r)) /\ Cardinality(Units(r)) = Cardinality(Units(s)) + l.t
        <3>1. /\ IsFiniteSet(Units(s) \cup Slice(i, a, l.t))
              /\ Cardinality(Units(s) \cup Slice(i, a, l.t)) = Cardinality(Units(s)) + l.t
            <4>1. ASSUME NEW S, S = Units(s), NEW b, b = l.t
                  PROVE  /\ IsFiniteSet(S \cup Slice(i, a, b))
                         /\ Cardinality(S \cup Slice(i, a, b)) = Cardinality(S) + b
                <5>1. b \in Nat /\ IsFiniteSet(S) /\ S \cap Slice(i, a, b) = {}
                    BY <1>2, <2>10, <4>1
                <5> QED BY <2>8, <5>1, SliceAdded
            <4> QED BY <4>1
        <3> QED BY <2>9, <3>1
    <2> QED BY <2>6, <2>7, <2>11 DEF r
<1>5. CASE ~\E i \in DOMAIN s : s[i].name = l.name
    <2> DEFINE e == [name |-> l.name, t |-> l.t]
    <2>1. r = Append(s, e)
        BY <1>5 DEF Recorded
    <2>2. e \in Entry /\ e.t = l.t /\ e.name = l.name
        BY <1>2 DEF Entry
    <2> HIDE DEF e, r
    <2>3. r \in Seq(Entry)
        BY <2>1, <2>2
    <2>4. /\ DOMAIN r = 1 .. n + 1 /\ r[n + 1] = e
          /\ \A j \in 1 .. n : r[j] = s[j]
        BY <1>1, <2>1, <2>2
    <2>5. OneEach(r)
        <3> SUFFICES ASSUME NEW i \in 1 .. n + 1, NEW j \in 1 .. n + 1, r[i].name = r[j].name
              PROVE  i = j
            BY <2>4 DEF OneEach
        <3>1. \A m \in 1 .. n : s[m].name # l.name
            BY <1>1, <1>5
        <3>2. CASE i \in 1 .. n /\ j \in 1 .. n
            BY <1>1, <2>4, <3>2 DEF OneEach
        <3>3. CASE i = n + 1 /\ j \in 1 .. n
            BY <2>2, <2>4, <3>1, <3>3
        <3>4. CASE j = n + 1 /\ i \in 1 .. n
            BY <2>2, <2>4, <3>1, <3>4
        <3> QED BY <3>2, <3>3, <3>4
    <2>6. Units(r) = Units(s) \cup Slice(n + 1, 0, l.t)
        <3>1. \A u : u \in Units(r) <=> \E j \in 1 .. n + 1 : \E k \in 1 .. r[j].t : u = <<j, k>>
            BY <2>4, InUnits
        <3>2. \A u : u \in Units(s) <=> \E j \in 1 .. n : \E k \in 1 .. s[j].t : u = <<j, k>>
            BY <1>1, InUnits
        <3>3. \A u : u \in Slice(n + 1, 0, l.t) <=> \E k \in 1 .. l.t : u = <<n + 1, k>>
            BY <1>2 DEF Slice
        <3>4. 1 .. n + 1 = 1 .. n \cup {n + 1}
            OBVIOUS
        <3>5. ASSUME NEW u PROVE u \in Units(r) <=> u \in Units(s) \/ u \in Slice(n + 1, 0, l.t)
            BY <2>2, <2>4, <3>1, <3>2, <3>3, <3>4
        <3> QED BY <3>5
    <2>7. Units(s) \cap Slice(n + 1, 0, l.t) = {}
        <3> SUFFICES ASSUME NEW k, <<n + 1, k>> \in Units(s) PROVE FALSE
            BY DEF Slice
        <3>1. n + 1 \in 1 .. n
            BY <1>1, InUnits
        <3> QED BY <3>1
    <2>8. IsFiniteSet(Units(r)) /\ Cardinality(Units(r)) = Cardinality(Units(s)) + l.t
        <3>1. 0 \in Nat /\ n + 1 \in Nat
            OBVIOUS
        <3>2. /\ IsFiniteSet(Units(s) \cup Slice(n + 1, 0, l.t))
              /\ Cardinality(Units(s) \cup Slice(n + 1, 0, l.t)) = Cardinality(Units(s)) + l.t
            <4>1. ASSUME NEW S, S = Units(s), NEW b, b = l.t
                  PROVE  /\ IsFiniteSet(S \cup Slice(n + 1, 0, b))
                         /\ Cardinality(S \cup Slice(n + 1, 0, b)) = Cardinality(S) + b
                <5>1. b \in Nat /\ IsFiniteSet(S) /\ S \cap Slice(n + 1, 0, b) = {}
                    BY <1>2, <2>7, <4>1
                <5> QED BY <3>1, <5>1, SliceAdded
            <4> QED BY <4>1
        <3> QED BY <2>6, <3>2
    <2> QED BY <2>3, <2>5, <2>8 DEF r
<1> QED BY <1>4, <1>5

\* A table that is cleared has no time.
LEMMA ClearedKeeps ==
    ASSUME NEW s \in Seq(Entry), OneEach(s)
    PROVE  /\ Cleared(s) \in Seq(Entry) /\ OneEach(Cleared(s))
           /\ IsFiniteSet(Units(Cleared(s))) /\ Cardinality(Units(Cleared(s))) = 0
<1>1. PICK n \in Nat : DOMAIN s = 1 .. n /\ s \in [1 .. n -> Entry]
    <2>1. Len(s) \in Nat /\ DOMAIN s = 1 .. Len(s) /\ s \in [1 .. Len(s) -> Entry]
        OBVIOUS
    <2> QED BY <2>1
<1>2. Cleared(s) = [i \in 1 .. n |-> [s[i] EXCEPT !.t = 0]]
    BY <1>1 DEF Cleared
<1>3. \A i \in 1 .. n : [s[i] EXCEPT !.t = 0] = [name |-> s[i].name, t |-> 0] /\ s[i].name \in SysLabels
    BY <1>1 DEF Entry
<1>4. ASSUME NEW i \in 1 .. n
      PROVE  /\ Cleared(s)[i] \in Entry /\ Cleared(s)[i].t = 0
             /\ Cleared(s)[i].name = s[i].name
    <2>1. Cleared(s)[i] = [name |-> s[i].name, t |-> 0] /\ s[i].name \in SysLabels
        BY <1>2, <1>3
    <2> QED BY <2>1 DEF Entry
<1>5. Cleared(s) \in [1 .. n -> Entry]
    BY <1>2, <1>4
<1>6. OneEach(Cleared(s))
    BY <1>1, <1>4, <1>5 DEF OneEach
<1>7. Units(Cleared(s)) = {}
    BY <1>4, <1>5, InUnits
<1> QED BY <1>5, <1>6, <1>7, FS_EmptySet

\* Of a total that is not 0 a part is 0 to 100 percent.
LEMMA RatioGood ==
    ASSUME NEW T \in Nat \ {0}, NEW t \in Nat, t <= T
    PROVE  (100 * t) \div T \in 0 .. 100
<1> DEFINE a == 100 * t
           q == a \div T
           m == a % T
<1>1. a \in Nat /\ q \in Int /\ m \in 0 .. T - 1 /\ a = T * q + m
    OBVIOUS
<1>2. a <= 100 * T /\ a >= 0
    OBVIOUS
<1> HIDE DEF a, q, m
<1>3. q >= 0
    <2> SUFFICES ASSUME q <= -1 PROVE FALSE
        BY <1>1
    <2>1. T * q <= -T
        BY <1>1
    <2> QED BY <1>1, <1>2, <2>1
<1>4. q <= 100
    <2> SUFFICES ASSUME q >= 101 PROVE FALSE
        BY <1>1
    <2>1. T * q >= T * 101
        BY <1>1
    <2> QED BY <1>1, <1>2, <2>1
<1> QED BY <1>1, <1>3, <1>4 DEF q, a

LEMMA ReadLineKeeps ==
    ASSUME SperfIInv, NEW due \in BOOLEAN, ReadLine(due)
    PROVE  SperfIInv'
<1> DEFINE l == Head(pipe)
<1>1. /\ pipe \in Seq(LineTypes) /\ sysctrl \in Seq(Entry)
      /\ total \in Nat /\ seen \in Nat /\ told \in Nat /\ phase = "reading"
      /\ IsFiniteSet(Units(sysctrl)) /\ OneEach(sysctrl)
      /\ Cardinality(Units(sysctrl)) = total /\ total = seen - told
    BY DEF SperfIInv, SperfTypes, CountedOnce, OneEach, ReadLine
<1>2. l \in LineTypes /\ pipe' \in Seq(LineTypes) /\ told' = told
    BY <1>1 DEF ReadLine
<1>3. l.t \in Nat
    BY <1>2 DEF LineTypes
<1> HIDE DEF l
<1>4. CASE l.kind \in {"plus", "noise"}
    <2>1. UNCHANGED <<sysctrl, total, seen>> /\ phase' \in {"reading", "reporting"}
        BY <1>1, <1>4 DEF ReadLine, l
    <2> QED BY <1>1, <1>2, <2>1 DEF SperfIInv, SperfTypes, CountedOnce, OneEach
<1>5. CASE l.kind \notin {"plus", "noise"}
    <2>1. /\ total' = total + l.t /\ sysctrl' = Recorded(l) /\ seen' = seen + l.t
          /\ phase' \in {"reading", "reporting"}
        BY <1>5 DEF ReadLine, l
    <2>2. /\ sysctrl' \in Seq(Entry) /\ OneEach(sysctrl') /\ IsFiniteSet(Units(sysctrl'))
          /\ Cardinality(Units(sysctrl')) = total + l.t
        BY <1>1, <1>2, <2>1, RecordedAdds
    <2>3. total' \in Nat /\ seen' \in Nat /\ total' = seen' - told
        BY <1>1, <1>3, <2>1
    <2> QED BY <1>1, <1>2, <2>1, <2>2, <2>3 DEF SperfIInv, SperfTypes, CountedOnce, OneEach
<1> QED BY <1>4, <1>5

LEMMA ReportKeeps ==
    ASSUME SperfIInv, Report
    PROVE  SperfIInv'
<1>1. /\ pipe \in Seq(LineTypes) /\ sysctrl \in Seq(Entry)
      /\ total \in Nat /\ seen \in Nat /\ told \in Nat /\ phase = "reporting"
      /\ IsFiniteSet(Units(sysctrl)) /\ OneEach(sysctrl)
      /\ Cardinality(Units(sysctrl)) = total /\ total = seen - told
    BY DEF SperfIInv, SperfTypes, CountedOnce, OneEach, Report
<1> DEFINE ShownTime(s, i) == IF i <= Len(s) THEN s[i].t ELSE 0
<1>2. PICK s \in Sorted(sysctrl) :
        IF \E i \in 1 .. Shown : RatioBad(ShownTime(s, i))
          THEN phase' = "recursing" /\ sysctrl' = s /\ UNCHANGED <<total, told>>
          ELSE /\ phase' = IF reachEnd THEN "done" ELSE "reading"
               /\ sysctrl' = Cleared(s) /\ total' = 0
               /\ told' = told + total
    BY DEF Report
<1>3. UNCHANGED <<pipe, seen>>
    BY DEF Report, childVars
<1>4. /\ s \in Seq(Entry) /\ OneEach(s)
      /\ IsFiniteSet(Units(s)) /\ Cardinality(Units(s)) = total
    BY <1>1, <1>2, SortedKeeps
<1>5. CASE \E i \in 1 .. Shown : RatioBad(ShownTime(s, i))
    <2>1. phase' = "recursing" /\ sysctrl' = s /\ UNCHANGED <<total, told>>
        BY <1>2, <1>5
    <2>2. total = 0
        <3> SUFFICES ASSUME total # 0 PROVE FALSE
            OBVIOUS
        <3>1. PICK i \in 1 .. Shown : RatioBad(ShownTime(s, i))
            BY <1>5
        <3>2. ShownTime(s, i) \in Nat /\ ShownTime(s, i) <= total
            <4>1. CASE i <= Len(s)
                <5>1. i \in DOMAIN s
                    BY <1>4, <4>1 DEF Shown
                <5>2. s[i].t \in Nat /\ s[i].t <= Cardinality(Units(s))
                    BY <1>4, <5>1, EntryAtMostAll
                <5> QED BY <1>4, <4>1, <5>2
            <4>2. CASE ~(i <= Len(s))
                BY <1>1, <4>2
            <4> QED BY <4>1, <4>2
        <3> HIDE DEF ShownTime
        <3>3. (100 * ShownTime(s, i)) \div total \in 0 .. 100
            BY <1>1, <3>2, RatioGood
        <3> QED BY <3>1, <3>3 DEF RatioBad
    <2> QED BY <1>1, <1>3, <1>4, <2>1, <2>2 DEF SperfIInv, SperfTypes, CountedOnce, OneEach
<1>6. CASE ~\E i \in 1 .. Shown : RatioBad(ShownTime(s, i))
    <2>1. /\ phase' \in {"done", "reading"} /\ sysctrl' = Cleared(s)
          /\ total' = 0 /\ told' = told + total
        BY <1>2, <1>6
    <2>2. /\ sysctrl' \in Seq(Entry) /\ OneEach(sysctrl') /\ IsFiniteSet(Units(sysctrl'))
          /\ Cardinality(Units(sysctrl')) = 0
        BY <1>4, <2>1, ClearedKeeps
    <2>3. told' \in Nat /\ total' = seen - told'
        BY <1>1, <2>1
    <2> QED BY <1>1, <1>3, <2>1, <2>2, <2>3 DEF SperfIInv, SperfTypes, CountedOnce, OneEach
<1> QED BY <1>5, <1>6

\* The child, and the end of the pipe, change neither the table nor what is counted.
LEMMA OthersKeep ==
    ASSUME SperfIInv, ExecFails \/ Traces \/ Exits \/ Killed \/ ReadsEof
    PROVE  SperfIInv'
<1>1. /\ UNCHANGED <<sysctrl, total, seen, told>>
      /\ phase' = phase \/ (phase = "reading" /\ phase' = "reporting")
    BY DEF ExecFails, Traces, Exits, Killed, ReadsEof, parentVars, childVars
<1>2. pipe' \in Seq(LineTypes)
    <2>1. pipe \in Seq(LineTypes)
        BY DEF SperfIInv, SperfTypes
    <2>2. Timed \cup Untimed \cup {Noise, Plus} \subseteq LineTypes
        <3>1. \A n \in SysNames, t \in Micros : Line("call", n, t) \in LineTypes
            BY SperfAssumption DEF Line, LineTypes, SysLabels
        <3>2. \A n \in SysNames : Line("call", n, 0) \in LineTypes
            BY DEF Line, LineTypes, SysLabels
        <3>3. Noise \in LineTypes /\ Plus \in LineTypes
            BY DEF Noise, Plus, Line, LineTypes, SysLabels
        <3> QED BY <3>1, <3>2, <3>3 DEF Timed, Untimed
    <2>3. ASSUME NEW l \in LineTypes, Writes(l) PROVE pipe' \in Seq(LineTypes)
        BY <2>1, <2>3 DEF Writes
    <2>4. CASE ReadsEof \/ Killed
        BY <2>1, <2>4 DEF ReadsEof, Killed, childVars
    <2>5. CASE ExecFails \/ Exits \/ Traces
        BY <2>2, <2>3, <2>5 DEF ExecFails, Exits, Traces
    <2> QED BY <2>4, <2>5
<1>3. SperfTypes' /\ (phase' = "recursing" <=> phase = "recursing")
    BY <1>1, <1>2 DEF SperfIInv, SperfTypes
<1> QED BY <1>1, <1>3 DEF SperfIInv, CountedOnce

\* The table of sperf stays one with finitely many microseconds, as many as are counted.
THEOREM SperfInvariant == SperfSpec => []SperfIInv
<1>1. SperfInit => SperfIInv
    <2> SUFFICES ASSUME SperfInit PROVE SperfIInv
        OBVIOUS
    <2>1. Units(sysctrl) = {}
        BY InUnits DEF SperfInit
    <2>2. IsFiniteSet(Units(sysctrl)) /\ Cardinality(Units(sysctrl)) = 0
        BY <2>1, FS_EmptySet
    <2> QED BY <2>2 DEF SperfInit, SperfIInv, SperfTypes, CountedOnce
<1>2. SperfIInv /\ [SperfNext]_sperfVars => SperfIInv'
    <2> SUFFICES ASSUME SperfIInv, [SperfNext]_sperfVars PROVE SperfIInv'
        OBVIOUS
    <2>1. CASE UNCHANGED sperfVars
        BY <2>1 DEF sperfVars, SperfIInv, SperfTypes, CountedOnce
    <2>2. CASE ExecFails \/ Traces \/ Exits \/ Killed \/ ReadsEof
        BY <2>2, OthersKeep
    <2>3. CASE Report
        BY <2>3, ReportKeeps
    <2>4. ASSUME NEW due \in BOOLEAN, ReadLine(due) PROVE SperfIInv'
        BY <2>4, ReadLineKeeps
    <2> QED BY <2>1, <2>2, <2>3, <2>4 DEF SperfNext, Parent
<1> QED BY <1>1, <1>2, PTL DEF SperfSpec

\* Every microsecond read is in one report, and the recursion without end takes none.
THEOREM CountedTheorem == SperfSpec => []CountedOnce
<1>1. SperfIInv => CountedOnce
    BY DEF SperfIInv
<1> QED BY SperfInvariant, <1>1, PTL
------------------------------------------------------------------------------
(***************************************************************************)
(* The numbers of libkvdb                                                  *)
(***************************************************************************)
\* What Int2Str writes is read back, but for the bits 24 to 27, whatever the number.
THEOREM OffsetsTheorem ==
    ASSUME number \in 0 .. 2 ^ 32 - 1
    PROVE  OffsetsKept
<1>1. 2 ^ 8 = 256 /\ 2 ^ 16 = 65536 /\ 2 ^ 24 = 16777216 /\ 2 ^ 28 = 268435456 /\ 2 ^ 32 = 4294967296
    OBVIOUS
<1> DEFINE a == number % 256
           b == (number \div 256) % 256
           c == (number \div 65536) % 256
           d == (16 * (number \div 268435456)) % 256
<1>2. a + 256 * b + 65536 * c + 16777216 * d
        = number - 16777216 * ((number \div 16777216) % 16)
    BY <1>1
<1> HIDE DEF a, b, c, d
<1>3. Int2Str(number) = <<a, b, c, d>>
    BY <1>1 DEF Int2Str, Byte, a, b, c, d
<1>4. ReadBack(Int2Str(number)) = a + 256 * b + 65536 * c + 16777216 * d
    BY <1>1, <1>3 DEF ReadBack
<1> QED BY <1>1, <1>2, <1>4 DEF OffsetsKept

\* Offsets in a data file below 16 MiB, and lengths below that, are read back as they
\* were written: what Kvdb takes for granted when it stores them as they are.
THEOREM SmallOffsetsTheorem ==
    ASSUME number \in 0 .. 2 ^ 24 - 1
    PROVE  ReadBack(Int2Str(number)) = number
<1>1. 2 ^ 24 = 16777216 /\ 2 ^ 32 = 4294967296
    OBVIOUS
<1>2. number \in 0 .. 2 ^ 32 - 1 /\ (number \div 2 ^ 24) % 16 = 0
    BY <1>1
<1>3. OffsetsKept
    BY <1>2, OffsetsTheorem
<1> QED BY <1>1, <1>2, <1>3 DEF OffsetsKept

(***************************************************************************)
(* The division                                                            *)
(***************************************************************************)
\* Half a double word.
Half == Limit \div 2

\* A word and a double word, as powers of two.
LEMMA WordSizes ==
    /\ WordBits \in Nat /\ WordBits >= 2
    /\ Base \in Nat /\ Base >= 4 /\ Base = TwoTo[WordBits]
    /\ Limit \in Nat /\ Half \in Nat \ {0} /\ Limit = 2 * Half
    /\ Limit = Base * Base /\ Limit = TwoTo[2 * WordBits] /\ Half = TwoTo[2 * WordBits - 1]
<1>1. WordBits \in Nat /\ WordBits >= 2
    BY WordBitsAssumption
<1>2. TwoTo[2 * WordBits] = Base * Base /\ Base \in Nat
    <2>1. TwoTo[WordBits + WordBits] = TwoTo[WordBits] * TwoTo[WordBits]
        BY <1>1, TwoToSum
    <2> QED BY <1>1, <2>1, TwoToDef DEF Base
<1>3. 2 * WordBits - 1 \in Nat /\ 2 * WordBits - 1 + 1 = 2 * WordBits
    BY <1>1
<1>4. TwoTo[2 * WordBits] = 2 * TwoTo[2 * WordBits - 1] /\ TwoTo[2 * WordBits - 1] \in Nat \ {0}
    BY <1>3, TwoToDef
<1>5. TwoTo[2] = 4
    BY TwoToDef
<1>6. Base >= 4
    BY <1>1, <1>5, TwoToMonotone DEF Base
<1>7. Limit = TwoTo[2 * WordBits]
    BY <1>2 DEF Limit
<1>8. Half = TwoTo[2 * WordBits - 1]
    BY <1>4, <1>7 DEF Half
<1> QED BY <1>1, <1>2, <1>4, <1>6, <1>7, <1>8 DEF Base, Limit

\* The dividend is N pieces of 2 * M and a rest that begins with the bit b, and N is Q
\* divisors and r.
BeforeRound(d, M, K, N, b, S, P, f, r, Q) ==
    /\ d \in Nat \ {0} /\ d < Limit /\ M \in Nat \ {0} /\ K \in Nat \ {0} /\ M * K = Half
    /\ N \in Nat /\ b \in {0, 1} /\ S \in 0 .. M - 1
    /\ P \in 0 .. K - 1 /\ f \in {0, 1} /\ r \in 0 .. d - 1 /\ Q \in Nat
    /\ Q = 2 * P + f /\ N = Q * d + r
    /\ N * (2 * M) + b * M + S < Limit /\ 2 * r + b + Half >= d

\* The pieces are half as long, and one bit of the quotient is known more.
AfterRound(d, K, N, b, S, f, r, Q, q) ==
    \E g \in {0, 1}, t \in 0 .. d - 1 :
        /\ 2 * N + b = (2 * Q + g) * d + t
        /\ Round(d, [r |-> r, q |-> q, carry |-> f]) = [r |-> t, q |-> S * (2 * K) + Q, carry |-> g]

LEMMA RoundStep ==
    ASSUME NEW d, NEW M, NEW K, NEW N, NEW b, NEW S, NEW P, NEW f, NEW r, NEW Q, NEW q,
           BeforeRound(d, M, K, N, b, S, P, f, r, Q), q = (b * M + S) * K + P
    PROVE  AfterRound(d, K, N, b, S, f, r, Q, q)
<1>1. Limit \in Int /\ Limit = 2 * Half /\ Half \in Nat \ {0}
    BY WordSizes
<1> /\ d \in Nat \ {0} /\ d < Limit /\ M \in Nat \ {0} /\ K \in Nat \ {0} /\ M * K = Half
    /\ N \in Nat /\ b \in {0, 1} /\ S \in 0 .. M - 1
    /\ P \in 0 .. K - 1 /\ f \in {0, 1} /\ r \in 0 .. d - 1 /\ Q \in Nat
    /\ Q = 2 * P + f /\ N = Q * d + r
    /\ N * (2 * M) + b * M + S < Limit /\ 2 * r + b + Half >= d
    BY DEF BeforeRound
<1>2. S * K \in Nat /\ S * K + K <= Half
    <2>1. (S + 1) * K <= M * K
        OBVIOUS
    <2>2. (S + 1) * K = S * K + K
        OBVIOUS
    <2> QED BY <2>1, <2>2
<1>3. q = b * Half + (S * K + P)
    <2>1. (b * M + S) * K = b * (M * K) + S * K
        OBVIOUS
    <2> QED BY <2>1
<1>4. PICK x \in Int : x = 2 * r + b
    OBVIOUS
<1>5. x \in 0 .. Limit - 1 /\ x < 2 * d
    <2>1. N * (2 * M) >= 2 * N /\ b * M >= b
        OBVIOUS
    <2>2. x <= 2 * N + b
        BY <1>4
    <2> QED BY <1>1, <1>4, <2>1, <2>2
<1>6. q \div Half = b
    <2>1. Splits(q, Half, b, S * K + P)
        BY <1>1, <1>2, <1>3 DEF Splits
    <2> QED BY <2>1, QuotientIs
<1>7. (2 * r + q \div Half) % Limit = x
    <2>1. Splits(x, Limit, 0, x)
        BY <1>1, <1>5 DEF Splits
    <2>2. x % Limit = x
        BY <2>1, QuotientIs
    <2> QED BY <1>4, <1>6, <2>2
<1>8. (2 * q + f) % Limit = S * (2 * K) + Q
    <2>1. S * (2 * K) = 2 * (S * K)
        OBVIOUS
    <2>2. 2 * q + f = Limit * b + (S * (2 * K) + Q)
        <3>1. CASE b = 0
            BY <1>1, <1>2, <1>3, <2>1, <3>1
        <3>2. CASE b = 1
            BY <1>1, <1>2, <1>3, <2>1, <3>2
        <3> QED BY <3>1, <3>2
    <2>3. S * (2 * K) + Q \in 0 .. Limit - 1
        BY <1>1, <1>2, <2>1
    <2>4. Splits(2 * q + f, Limit, b, S * (2 * K) + Q)
        <3>1. 2 * q + f \in Int
            BY <1>1, <1>2, <1>3
        <3> QED BY <1>1, <2>2, <2>3, <3>1 DEF Splits
    <2> QED BY <2>4, QuotientIs
<1>9. (d - x - 1) % Limit >= Half <=> x >= d
    <2>1. CASE x >= d
        <3>1. Splits(d - x - 1, Limit, -1, Limit + d - x - 1)
            BY <1>1, <1>5, <2>1 DEF Splits
        <3>2. (d - x - 1) % Limit = Limit + d - x - 1
            BY <3>1, QuotientIs
        <3>3. Limit + d - x - 1 >= Half
            BY <1>1, <1>5, <2>1
        <3> QED BY <2>1, <3>2, <3>3
    <2>2. CASE x < d
        <3>1. Splits(d - x - 1, Limit, 0, d - x - 1)
            BY <1>1, <1>5, <2>2 DEF Splits
        <3>2. (d - x - 1) % Limit = d - x - 1
            BY <3>1, QuotientIs
        <3>3. d - x - 1 < Half
            BY <1>1, <1>4, <2>2
        <3> QED BY <1>1, <1>5, <2>2, <3>2, <3>3
    <2> QED BY <1>5, <2>1, <2>2
<1>10. 2 * N + b = (2 * Q) * d + x
    BY <1>4
<1>11. CASE x >= d
    <2>1. Round(d, [r |-> r, q |-> q, carry |-> f])
            = [r |-> x - d, q |-> S * (2 * K) + Q, carry |-> 1]
        BY <1>7, <1>8, <1>9, <1>11 DEF Round, Half
    <2>2. x - d \in 0 .. d - 1 /\ (2 * Q) * d + x = (2 * Q + 1) * d + (x - d)
        BY <1>5, <1>11
    <2>3. 2 * N + b = (2 * Q + 1) * d + (x - d)
        BY <1>10, <2>2
    <2>4. x - d \in 0 .. d - 1 /\ 1 \in {0, 1}
        BY <2>2
    <2>5. \E g \in {0, 1}, t \in 0 .. d - 1 :
             /\ 2 * N + b = (2 * Q + g) * d + t
             /\ Round(d, [r |-> r, q |-> q, carry |-> f])
                  = [r |-> t, q |-> S * (2 * K) + Q, carry |-> g]
        BY <2>1, <2>3, <2>4, Zenon
    <2> QED BY <2>5 DEF AfterRound
<1>12. CASE x < d
    <2>1. Round(d, [r |-> r, q |-> q, carry |-> f])
            = [r |-> x, q |-> S * (2 * K) + Q, carry |-> 0]
        BY <1>5, <1>7, <1>8, <1>9, <1>12 DEF Round, Half
    <2>2. x \in 0 .. d - 1 /\ (2 * Q) * d + x = (2 * Q + 0) * d + x
        BY <1>5, <1>12
    <2>3. 2 * N + b = (2 * Q + 0) * d + x
        BY <1>10, <2>2
    <2>4. x \in 0 .. d - 1 /\ 0 \in {0, 1}
        BY <2>2
    <2>5. \E g \in {0, 1}, t \in 0 .. d - 1 :
             /\ 2 * N + b = (2 * Q + g) * d + t
             /\ Round(d, [r |-> r, q |-> q, carry |-> f])
                  = [r |-> t, q |-> S * (2 * K) + Q, carry |-> g]
        BY <2>1, <2>3, <2>4, Zenon
    <2> QED BY <2>5 DEF AfterRound
<1> QED BY <1>5, <1>11, <1>12

\* The parts of a double word.
LEMMA Parts ==
    ASSUME NEW n \in 0 .. Limit - 1
    PROVE  High(n) \in 0 .. Base - 1 /\ Low(n) \in 0 .. Base - 1 /\ n = High(n) * Base + Low(n)
<1>1. n \in Nat /\ Base \in Nat \ {0} /\ n < Base * Base
    BY WordSizes
<1>2. n \div Base \in Nat /\ n % Base \in 0 .. Base - 1 /\ n = Base * (n \div Base) + (n % Base)
    BY <1>1, NaturalQuotient
<1>3. PICK h \in Nat : h = n \div Base
    BY <1>2
<1>4. h < Base
    <2> SUFFICES ASSUME h >= Base PROVE FALSE
        BY <1>1, <1>3
    <2>1. Base * h >= Base * Base
        BY <1>1
    <2> QED BY <1>1, <1>2, <1>3, <2>1
<1> QED BY <1>1, <1>2, <1>3, <1>4 DEF High, Low

\* A word is C pieces of S, and S pieces of C.
LEMMA WordParts ==
    ASSUME NEW k \in 1 .. WordBits - 1
    PROVE  /\ TwoTo[k] \in Nat \ {0} /\ TwoTo[WordBits - k] \in Nat \ {0}
           /\ TwoTo[k] * TwoTo[WordBits - k] = Base
<1>1. k \in Nat /\ WordBits - k \in Nat /\ k + (WordBits - k) = WordBits
    BY WordSizes
<1> QED BY <1>1, TwoToDef, TwoToSum DEF Base

\* Shifts of a word.
LEMMA Shifts ==
    ASSUME NEW x \in Nat, NEW k \in 1 .. WordBits - 1
    PROVE  \E q \in Nat, r \in 0 .. TwoTo[k] - 1 :
              /\ x = q * TwoTo[k] + r /\ Shr(x, k) = q
              /\ Shl(x, WordBits - k) = r * TwoTo[WordBits - k]
<1> DEFINE S == TwoTo[k]
           C == TwoTo[WordBits - k]
<1>1. S \in Nat \ {0} /\ C \in Nat \ {0} /\ S * C = Base
    BY WordParts
<1> HIDE DEF S, C
<1>2. PICK q \in Nat, r \in 0 .. S - 1 : q = x \div S /\ r = x % S /\ x = S * q + r
    BY <1>1, NaturalQuotient
<1>3. (x * C) % Base = r * C
    <2>1. r * C \in Nat /\ r * C < Base
        <3>1. (r + 1) * C <= S * C /\ (r + 1) * C = r * C + C
            BY <1>1
        <3> QED BY <1>1, <3>1
    <2>2. x * C = Base * q + r * C
        <3>1. (S * q + r) * C = (S * C) * q + r * C
            BY <1>1, <1>2
        <3> QED BY <1>1, <1>2, <3>1
    <2>3. Splits(x * C, Base, q, r * C)
        BY <1>1, <2>1, <2>2 DEF Splits
    <2> QED BY <2>3, QuotientIs
<1>4. x = q * S + r
    BY <1>1, <1>2
<1> QED BY <1>2, <1>3, <1>4 DEF Shr, Shl, S, C

\* What the code shifts by words, is shifted as a whole.
LEMMA DoubleShifts ==
    ASSUME NEW n \in 0 .. Limit - 1, NEW sr \in 1 .. 2 * WordBits - 1
    PROVE  /\ ShrBy(n, sr) = n \div TwoTo[sr]
           /\ ShlRest(n, sr) = (n % TwoTo[sr]) * TwoTo[2 * WordBits - sr]
<1> DEFINE w == WordBits
           B == Base
           h == High(n)
           l == Low(n)
<1>1. /\ w \in Nat /\ w >= 2 /\ B \in Nat \ {0} /\ B = TwoTo[w]
      /\ h \in 0 .. B - 1 /\ l \in 0 .. B - 1 /\ n = h * B + l /\ n \in Int
    BY WordSizes, Parts
<1>2. CASE sr = w
    <2>1. Splits(n, B, h, l)
        <3>1. n = B * h + l
            BY <1>1
        <3> QED BY <1>1, <3>1 DEF Splits
    <2>2. n \div B = h /\ n % B = l
        BY <2>1, QuotientIs
    <2>3. TwoTo[sr] = B /\ TwoTo[2 * WordBits - sr] = B
        BY <1>1, <1>2
    <2>4. ShrBy(n, sr) = h /\ ShlRest(n, sr) = l * B
        BY <1>1, <1>2 DEF ShrBy, ShlRest, Double
    <2> QED BY <2>2, <2>3, <2>4
<1>3. CASE sr < w
    <2> DEFINE S == TwoTo[sr]
               C == TwoTo[w - sr]
    <2>1. sr \in 1 .. WordBits - 1
        BY <1>1, <1>3
    <2>2. S \in Nat \ {0} /\ C \in Nat \ {0} /\ S * C = B
        BY <2>1, WordParts
    <2>3. PICK p \in Nat, s \in 0 .. S - 1 :
             h = p * S + s /\ Shr(h, sr) = p /\ Shl(h, w - sr) = s * C
        <3>1. h \in Nat
            BY <1>1
        <3> QED BY <2>1, <3>1, Shifts
    <2>4. PICK q \in Nat, t \in 0 .. S - 1 :
             l = q * S + t /\ Shr(l, sr) = q /\ Shl(l, w - sr) = t * C
        <3>1. l \in Nat
            BY <1>1
        <3> QED BY <2>1, <3>1, Shifts
    <2>5. ShrBy(n, sr) = p * B + (s * C + q) /\ ShlRest(n, sr) = (t * C) * B
        <3>1. ShrBy(n, sr) = p * B + (s * C + q)
            BY <1>1, <1>3, <2>3, <2>4 DEF ShrBy, Double
        <3>2. (t * C) * B \in Int
            BY <1>1, <2>2
        <3>3. ShlRest(n, sr) = (t * C) * B + 0
            BY <1>1, <1>3, <2>4 DEF ShlRest, Double
        <3> QED BY <3>1, <3>2, <3>3
    <2>6. TwoTo[2 * WordBits - sr] = C * B
        <3>1. w - sr \in Nat /\ 2 * WordBits - sr = (w - sr) + w
            BY <1>1, <1>3
        <3> QED BY <1>1, <3>1, TwoToSum
    <2> HIDE DEF S, C, B, w, h, l
    <2>7. n = S * (p * B + (s * C + q)) + t
        <3>1. h * B = p * S * B + s * (S * C)
            BY <1>1, <2>2, <2>3
        <3>2. S * (p * B + (s * C + q)) = p * S * B + s * (S * C) + q * S
            BY <1>1, <2>2
        <3> QED BY <1>1, <2>2, <2>4, <3>1, <3>2
    <2>8. Splits(n, S, p * B + (s * C + q), t)
        BY <1>1, <2>2, <2>7 DEF Splits
    <2>9. n \div S = p * B + (s * C + q) /\ n % S = t
        BY <2>8, QuotientIs
    <2>10. t * (C * B) = (t * C) * B
        BY <1>1, <2>2
    <2> QED BY <2>5, <2>6, <2>9, <2>10 DEF S
<1>4. CASE sr > w
    <2> DEFINE S == TwoTo[sr - w]
               C == TwoTo[2 * w - sr]
    <2>1. sr - w \in 1 .. WordBits - 1 /\ w - (sr - w) = 2 * w - sr
        BY <1>1, <1>4
    <2>2. S \in Nat \ {0} /\ C \in Nat \ {0} /\ S * C = B
        BY <2>1, WordParts
    <2>3. PICK p \in Nat, s \in 0 .. S - 1 :
             h = p * S + s /\ Shr(h, sr - w) = p /\ Shl(h, 2 * w - sr) = s * C
        <3>1. h \in Nat
            BY <1>1
        <3>2. \E p \in Nat, s \in 0 .. TwoTo[sr - w] - 1 :
                 /\ h = p * TwoTo[sr - w] + s /\ Shr(h, sr - w) = p
                 /\ Shl(h, WordBits - (sr - w)) = s * TwoTo[WordBits - (sr - w)]
            BY <2>1, <3>1, Shifts
        <3> QED BY <2>1, <3>2
    <2>4. PICK q \in Nat, t \in 0 .. S - 1 :
             l = q * S + t /\ Shr(l, sr - w) = q /\ Shl(l, 2 * w - sr) = t * C
        <3>1. l \in Nat
            BY <1>1
        <3>2. \E q \in Nat, t \in 0 .. TwoTo[sr - w] - 1 :
                 /\ l = q * TwoTo[sr - w] + t /\ Shr(l, sr - w) = q
                 /\ Shl(l, WordBits - (sr - w)) = t * TwoTo[WordBits - (sr - w)]
            BY <2>1, <3>1, Shifts
        <3> QED BY <2>1, <3>2
    <2>5. ShrBy(n, sr) = p /\ ShlRest(n, sr) = (s * C + q) * B + t * C
        BY <1>1, <1>4, <2>3, <2>4 DEF ShrBy, ShlRest, Double
    <2>6. TwoTo[sr] = S * B
        <3>1. sr - w \in Nat /\ sr = (sr - w) + w
            BY <1>1, <1>4
        <3> QED BY <1>1, <3>1, TwoToSum
    <2> HIDE DEF S, B, h, l
    <2>7. s * B + l \in Nat /\ s * B + l < S * B
        <3>1. (s + 1) * B <= S * B /\ (s + 1) * B = s * B + B
            BY <1>1, <2>2
        <3> QED BY <1>1, <2>2, <3>1
    <2>8. n = (S * B) * p + (s * B + l)
        BY <1>1, <2>2, <2>3
    <2>9. Splits(n, S * B, p, s * B + l)
        BY <1>1, <2>2, <2>7, <2>8 DEF Splits
    <2>10. n \div (S * B) = p /\ n % (S * B) = s * B + l
        BY <2>9, QuotientIs
    <2>11. (s * B + l) * C = (s * C + q) * B + t * C
        <3> HIDE DEF C
        <3>1. (s * B + l) * C = s * C * B + q * (S * C) + t * C
            BY <1>1, <2>2, <2>4
        <3> QED BY <1>1, <2>2, <3>1
    <2> QED BY <2>5, <2>6, <2>10, <2>11
<1> QED BY <1>1, <1>2, <1>3, <1>4

\* The recursive definition of Loop has the solution it means to have.
LEMMA LoopDef ==
    ASSUME NEW n \in 0 .. Limit - 1, NEW d \in Nat \ {0}, NEW sr \in 1 .. 2 * WordBits - 1
    PROVE  /\ Loop(n, d, sr)[0] = [r |-> ShrBy(n, sr), q |-> ShlRest(n, sr), carry |-> 0]
           /\ \A i \in Nat : Loop(n, d, sr)[i + 1] = Round(d, Loop(n, d, sr)[i])
<1> DEFINE D == [r : Int, q : Int, carry : {0, 1}]
           f == [s \in D |-> Round(d, s)]
           start == [r |-> ShrBy(n, sr), q |-> ShlRest(n, sr), carry |-> 0]
<1>1. Limit \in Nat \ {0} /\ Limit \div 2 \in Nat \ {0}
    BY WordSizes DEF Half
<1>2. f \in [D -> D]
    <2> SUFFICES ASSUME NEW s \in D PROVE Round(d, s) \in D
        OBVIOUS
    <2>1. s.r \in Int /\ s.q \in Int /\ s.carry \in Int
        OBVIOUS
    <2>2. s.q \div (Limit \div 2) \in Int
        BY <1>1, <2>1
    <2>3. (2 * s.r + s.q \div (Limit \div 2)) % Limit \in Int /\ (2 * s.q + s.carry) % Limit \in Int
        BY <1>1, <2>1, <2>2
    <2> QED BY <2>3 DEF Round
<1>3. start \in D
    <2>1. n \in Nat /\ sr \in Nat /\ 2 * WordBits - sr \in Nat
        BY WordSizes
    <2>2. TwoTo[sr] \in Nat \ {0} /\ TwoTo[2 * WordBits - sr] \in Nat
        BY <2>1, TwoToDef
    <2>3. n \div TwoTo[sr] \in Int /\ n % TwoTo[sr] \in Int
        BY <2>1, <2>2
    <2>4. (n % TwoTo[sr]) * TwoTo[2 * WordBits - sr] \in Int
        BY <2>2, <2>3
    <2>5. ShrBy(n, sr) \in Int /\ ShlRest(n, sr) \in Int
        BY <2>3, <2>4, DoubleShifts
    <2> QED BY <2>5
<1>4. PICK g : Iteration(D, f, start, g)
    <2> HIDE DEF f, D, start
    <2> QED BY <1>2, <1>3, IterationExists
<1>5. \A i \in Nat : g[i] = IF i = 0 THEN start ELSE Round(d, g[i - 1])
    <2> SUFFICES ASSUME NEW i \in Nat
                 PROVE  g[i] = IF i = 0 THEN start ELSE Round(d, g[i - 1])
        OBVIOUS
    <2> HIDE DEF start
    <2>1. CASE i = 0
        BY <1>4, <2>1 DEF Iteration
    <2>2. CASE i # 0
        <3> HIDE DEF D
        <3>1. g[i] = f[g[i - 1]] /\ g[i - 1] \in D
            BY <1>4, <2>2 DEF Iteration
        <3> QED BY <2>2, <3>1
    <2> QED BY <2>1, <2>2
<1>6. g = [i \in Nat |-> IF i = 0 THEN start ELSE Round(d, g[i - 1])]
    <2> HIDE DEF f, D, start
    <2> QED BY <1>4, <1>5 DEF Iteration
<1>7. Loop(n, d, sr)
        = [i \in Nat |-> IF i = 0 THEN start ELSE Round(d, Loop(n, d, sr)[i - 1])]
    BY <1>6 DEF Loop
<1> HIDE DEF start
<1>8. Loop(n, d, sr)[0] = start
    BY <1>7
<1>9. ASSUME NEW i \in Nat PROVE Loop(n, d, sr)[i + 1] = Round(d, Loop(n, d, sr)[i])
    <2>1. i + 1 \in Nat /\ i + 1 # 0 /\ i + 1 - 1 = i
        OBVIOUS
    <2> QED BY <1>7, <2>1
<1> QED BY <1>8, <1>9 DEF start

\* When the loop may run: the quotient has at most sr digits, and 2r does not leave the
\* double word unnoticed.
MayShift(n, d, sr) ==
    /\ n \in 0 .. Limit - 1 /\ d \in 1 .. Limit - 1 /\ sr \in 1 .. 2 * WordBits - 1
    /\ n < d * TwoTo[sr]
    /\ d <= Half \/ (sr = 1 /\ n >= Half)

\* After i rounds: the digits of n but the last sr - i are the number N, the digits of
\* N \div d are P and the carry, and q holds the rest of n and then P.
Divided(n, d, sr, i) ==
    \E N \in Nat, R \in 0 .. TwoTo[sr - i] - 1, P \in Nat, f \in {0, 1}, r \in 0 .. d - 1 :
        /\ n = N * TwoTo[sr - i] + R /\ N = (2 * P + f) * d + r
        /\ 2 * P + f < TwoTo[i]
        /\ Loop(n, d, sr)[i]
             = [r |-> r, q |-> R * TwoTo[2 * WordBits - sr + i] + P, carry |-> f]

\* So it is before the first round.
LEMMA DividedStart ==
    ASSUME NEW n, NEW d, NEW sr, MayShift(n, d, sr)
    PROVE  Divided(n, d, sr, 0)
<1>1. /\ n \in 0 .. Limit - 1 /\ n \in Nat /\ d \in Nat \ {0}
      /\ sr \in 1 .. 2 * WordBits - 1 /\ sr \in Nat
      /\ sr - 0 = sr /\ 2 * WordBits - sr + 0 = 2 * WordBits - sr /\ 2 * WordBits - sr \in Nat
    BY WordSizes DEF MayShift
<1>2. TwoTo[sr] \in Nat \ {0} /\ TwoTo[2 * WordBits - sr] \in Nat \ {0} /\ TwoTo[0] = 1
    BY <1>1, TwoToDef
<1>3. PICK Z \in Nat \ {0} : Z = TwoTo[sr]
    BY <1>2
<1>4. PICK K \in Nat \ {0} : K = TwoTo[2 * WordBits - sr]
    BY <1>2
<1>5. PICK N \in Nat, R \in 0 .. Z - 1 : N = n \div Z /\ R = n % Z /\ n = Z * N + R
    <2>1. n \in Nat
        BY <1>1
    <2>2. n \div Z \in Nat /\ n % Z \in 0 .. Z - 1 /\ n = Z * (n \div Z) + (n % Z)
        BY <2>1, NaturalQuotient
    <2> QED BY <2>2
<1>6. N < d
    <2> SUFFICES ASSUME N >= d PROVE FALSE
        BY <1>1
    <2>1. Z * N >= Z * d
        BY <1>1
    <2>2. n < d * Z
        BY <1>3 DEF MayShift
    <2>3. d * Z = Z * d
        BY <1>1
    <2> QED BY <1>1, <1>5, <2>1, <2>2, <2>3
<1>7. Loop(n, d, sr)[0] = [r |-> N, q |-> R * K + 0, carry |-> 0]
    <2>1. ShrBy(n, sr) = N /\ ShlRest(n, sr) = R * K
        BY <1>1, <1>3, <1>4, <1>5, DoubleShifts
    <2>2. R * K + 0 = R * K
        OBVIOUS
    <2> QED BY <1>1, <2>1, <2>2, LoopDef
<1>8. n = N * Z + R /\ N = (2 * 0 + 0) * d + N /\ 2 * 0 + 0 < TwoTo[0] /\ N \in 0 .. d - 1
    BY <1>1, <1>2, <1>5, <1>6
<1> QED BY <1>1, <1>3, <1>4, <1>7, <1>8 DEF Divided

\* A round keeps it.
LEMMA DividedStep ==
    ASSUME NEW n, NEW d, NEW sr, MayShift(n, d, sr),
           NEW i \in 0 .. sr - 1, Divided(n, d, sr, i)
    PROVE  Divided(n, d, sr, i + 1)
<1> DEFINE w == WordBits
           M == TwoTo[sr - (i + 1)]
           K == TwoTo[2 * w - sr + i]
<1>1. /\ n \in 0 .. Limit - 1 /\ n \in Nat /\ d \in Nat \ {0} /\ d < Limit
      /\ sr \in 1 .. 2 * w - 1 /\ sr \in Nat /\ i \in Nat /\ i < sr
      /\ n < d * TwoTo[sr] /\ w \in Nat /\ Limit = 2 * Half /\ Half \in Nat \ {0}
    BY WordSizes DEF MayShift
<1>2. /\ TwoTo[sr - i] = 2 * M /\ M \in Nat \ {0} /\ K \in Nat \ {0} /\ M * K = Half
      /\ TwoTo[2 * w - sr + (i + 1)] = 2 * K
      /\ TwoTo[i] \in Nat \ {0} /\ TwoTo[i + 1] = 2 * TwoTo[i] /\ TwoTo[i] <= K
    <2>1. /\ sr - (i + 1) \in Nat /\ sr - (i + 1) + 1 = sr - i
          /\ 2 * w - sr + i \in Nat /\ 2 * w - sr + (i + 1) = 2 * w - sr + i + 1
          /\ i <= 2 * w - sr + i
          /\ sr - (i + 1) + (2 * w - sr + i) = 2 * w - 1
        BY <1>1
    <2>2. TwoTo[sr - i] = 2 * M /\ M \in Nat \ {0} /\ K \in Nat \ {0}
        BY <2>1, TwoToDef
    <2>3. TwoTo[2 * w - sr + (i + 1)] = 2 * K /\ TwoTo[i] \in Nat \ {0} /\ TwoTo[i + 1] = 2 * TwoTo[i]
        BY <1>1, <2>1, TwoToDef
    <2>4. M * K = Half
        BY <2>1, TwoToSum, WordSizes
    <2>5. TwoTo[i] <= K
        BY <1>1, <2>1, TwoToMonotone
    <2> QED BY <2>2, <2>3, <2>4, <2>5
<1> HIDE DEF M, K
<1>3. PICK N \in Nat, R \in 0 .. TwoTo[sr - i] - 1, P \in Nat, f \in {0, 1}, r \in 0 .. d - 1 :
         /\ n = N * TwoTo[sr - i] + R /\ N = (2 * P + f) * d + r /\ 2 * P + f < TwoTo[i]
         /\ Loop(n, d, sr)[i] = [r |-> r, q |-> R * K + P, carry |-> f]
    BY DEF Divided, K
<1>3a. R \in 0 .. 2 * M - 1 /\ n = N * (2 * M) + R
    BY <1>2, <1>3
<1>4. PICK b \in {0, 1}, S \in 0 .. M - 1 : R = b * M + S
    <2>1. CASE R < M
        <3>1. R = 0 * M + R /\ R \in 0 .. M - 1
            BY <1>2, <1>3a, <2>1
        <3> QED BY <3>1
    <2>2. CASE R >= M
        <3>1. R = 1 * M + (R - M) /\ R - M \in 0 .. M - 1
            BY <1>2, <1>3a, <2>2
        <3> QED BY <3>1
    <2> QED BY <1>2, <1>3a, <2>1, <2>2
<1>5. PICK Q \in Nat : Q = 2 * P + f
    BY <1>3
<1>6. P \in 0 .. K - 1
    BY <1>2, <1>3
<1>7. 2 * r + b + Half >= d
    <2>1. CASE d <= Half
        BY <1>1, <2>1
    <2>2. CASE d > Half
        <3>1. sr = 1 /\ n >= Half
            BY <1>1, <2>2 DEF MayShift
        <3>2. i = 0 /\ sr - (i + 1) = 0
            <4>1. i \in Nat /\ i < sr
                BY <1>1
            <4>2. i = 0
                BY <3>1, <4>1
            <4> QED BY <3>1, <4>2
        <3>3. M = 1 /\ TwoTo[i] = 1
            BY <3>2, TwoToDef DEF M
        <3>4. P = 0 /\ f = 0
            BY <1>3, <3>3
        <3>5. N = r /\ S = 0 /\ R = b
            BY <1>1, <1>3, <1>4, <3>3, <3>4
        <3>6. n = 2 * r + b
            BY <1>3a, <3>3, <3>5
        <3> QED BY <1>1, <3>1, <3>6
    <2> QED BY <1>1, <2>1, <2>2
<1>8. PICK g \in {0, 1}, t \in 0 .. d - 1 :
         /\ 2 * N + b = (2 * Q + g) * d + t
         /\ Round(d, [r |-> r, q |-> R * K + P, carry |-> f])
              = [r |-> t, q |-> S * (2 * K) + Q, carry |-> g]
    <2>1. N = Q * d + r
        BY <1>3, <1>5
    <2>2. N * (2 * M) + b * M + S < Limit
        BY <1>1, <1>2, <1>3a, <1>4
    <2> DEFINE q == R * K + P
    <2>3. q = (b * M + S) * K + P
        BY <1>4
    <2> HIDE DEF q
    <2>4. AfterRound(d, K, N, b, S, f, r, Q, q)
        <3>1. d \in Nat \ {0} /\ d < Limit /\ M \in Nat \ {0} /\ K \in Nat \ {0} /\ M * K = Half
            BY <1>1, <1>2
        <3>2. BeforeRound(d, M, K, N, b, S, P, f, r, Q)
            BY <1>5, <1>6, <1>7, <2>1, <2>2, <3>1 DEF BeforeRound
        <3> QED BY <2>3, <3>2, RoundStep
    <2> QED BY <2>4 DEF AfterRound, q
<1>9. Loop(n, d, sr)[i + 1] = [r |-> t, q |-> S * (2 * K) + Q, carry |-> g]
    <2>1. Loop(n, d, sr)[i + 1] = Round(d, Loop(n, d, sr)[i])
        BY <1>1, LoopDef
    <2> QED BY <1>3, <1>8, <2>1
<1>10. n = (2 * N + b) * M + S
    <2>1. (2 * N + b) * M + S = N * (2 * M) + (b * M + S)
        BY <1>2
    <2> QED BY <1>3a, <1>4, <2>1
<1>11. 2 * Q + g < TwoTo[i + 1]
    BY <1>2, <1>3, <1>5
<1>12. 2 * N + b \in Nat /\ 2 * N + b = (2 * Q + g) * d + t
    BY <1>8
<1>13. /\ n = (2 * N + b) * TwoTo[sr - (i + 1)] + S /\ S \in 0 .. TwoTo[sr - (i + 1)] - 1
       /\ Loop(n, d, sr)[i + 1]
            = [r |-> t, q |-> S * TwoTo[2 * WordBits - sr + (i + 1)] + Q, carry |-> g]
    BY <1>2, <1>9, <1>10 DEF M
<1>14. \E E \in Nat, T \in 0 .. TwoTo[sr - (i + 1)] - 1, C \in Nat, e \in {0, 1}, s \in 0 .. d - 1 :
          /\ n = E * TwoTo[sr - (i + 1)] + T /\ E = (2 * C + e) * d + s
          /\ 2 * C + e < TwoTo[i + 1]
          /\ Loop(n, d, sr)[i + 1]
               = [r |-> s, q |-> T * TwoTo[2 * WordBits - sr + (i + 1)] + C, carry |-> e]
    BY <1>8, <1>11, <1>12, <1>13, Zenon
<1> QED BY <1>14 DEF Divided

\* sr rounds compute quotient and remainder.
LEMMA ShiftSubtractExact ==
    ASSUME NEW n, NEW d, NEW sr, MayShift(n, d, sr)
    PROVE  ShiftSubtract(n, d, sr) = Answer(n \div d, n % d)
<1>1. /\ n \in Nat /\ d \in Nat \ {0} /\ sr \in 1 .. 2 * WordBits - 1 /\ sr \in Nat
      /\ Limit \in Nat \ {0}
    BY WordSizes DEF MayShift
<1>2. Divided(n, d, sr, sr)
    <2> DEFINE T == {i \in 0 .. sr : ~Divided(n, d, sr, i)}
    <2> SUFFICES ASSUME T # {} PROVE FALSE
        BY <1>1
    <2>1. PICK i \in T : \A j \in T : i <= j
        <3>1. T \subseteq Nat
            OBVIOUS
        <3> HIDE DEF T
        <3> QED BY <3>1, LeastNumber
    <2>2. i # 0
        BY <2>1, DividedStart
    <2>3. i - 1 \in 0 .. sr - 1 /\ Divided(n, d, sr, i - 1) /\ i - 1 + 1 = i
        BY <1>1, <2>1, <2>2
    <2>4. Divided(n, d, sr, i - 1 + 1)
        BY <2>3, DividedStep
    <2> QED BY <2>1, <2>3, <2>4
<1>3. PICK N \in Nat, R \in 0 .. TwoTo[sr - sr] - 1, P \in Nat, f \in {0, 1}, r \in 0 .. d - 1 :
         /\ n = N * TwoTo[sr - sr] + R /\ N = (2 * P + f) * d + r
         /\ 2 * P + f < TwoTo[sr]
         /\ Loop(n, d, sr)[sr]
              = [r |-> r, q |-> R * TwoTo[2 * WordBits - sr + sr] + P, carry |-> f]
    BY <1>2 DEF Divided
<1>4. TwoTo[sr - sr] = 1 /\ TwoTo[2 * WordBits - sr + sr] = Limit
    <2>1. sr - sr = 0 /\ 2 * WordBits - sr + sr = 2 * WordBits
        BY <1>1, WordSizes
    <2> QED BY <2>1, TwoToDef, WordSizes
<1>5. R = 0 /\ n = N
    BY <1>3, <1>4
<1>6. Loop(n, d, sr)[sr] = [r |-> r, q |-> P, carry |-> f]
    <2>1. R * TwoTo[2 * WordBits - sr + sr] + P = P
        BY <1>1, <1>4, <1>5
    <2> QED BY <1>3, <2>1
<1>7. PICK Q \in Nat : Q = 2 * P + f
    BY <1>3
<1>8. n \div d = Q /\ n % d = r
    <2>1. n = d * Q + r
        BY <1>1, <1>3, <1>5, <1>7
    <2>2. Splits(n, d, Q, r)
        BY <1>1, <2>1 DEF Splits
    <2> QED BY <2>2, QuotientIs
<1>9. Q % Limit = Q
    <2>1. Q < Limit
        <3>1. sr \in Nat /\ 2 * WordBits \in Nat /\ sr <= 2 * WordBits
            BY <1>1, WordSizes
        <3>2. TwoTo[sr] <= TwoTo[2 * WordBits] /\ TwoTo[sr] \in Nat
            BY <3>1, TwoToMonotone, TwoToDef
        <3> QED BY <1>1, <1>3, <1>7, <3>2, WordSizes
    <2>2. Splits(Q, Limit, 0, Q)
        BY <1>1, <2>1 DEF Splits
    <2> QED BY <2>2, QuotientIs
<1>10. ShiftSubtract(n, d, sr) = [quot |-> Q, rem |-> r]
    BY <1>6, <1>7, <1>9 DEF ShiftSubtract, Rounds
<1> QED BY <1>8, <1>10 DEF Answer

\* A word that is not 0 has WordBits - Clz digits.
LEMMA ClzDef ==
    ASSUME NEW x \in 1 .. Base - 1
    PROVE  /\ Clz(x) \in 0 .. WordBits - 1
           /\ x < TwoTo[WordBits - Clz(x)] /\ x >= TwoTo[WordBits - Clz(x) - 1]
<1>1. WordBits \in Nat /\ Base \in Nat /\ x \in Nat /\ x < TwoTo[WordBits]
    BY WordSizes
<1> DEFINE T == {k \in Nat : x < TwoTo[k]}
<1>2. PICK j \in T : \A k \in T : j <= k
    <2>1. T \subseteq Nat /\ WordBits \in T
        BY <1>1
    <2> HIDE DEF T
    <2> QED BY <2>1, LeastNumber
<1>3. j \in Nat /\ x < TwoTo[j] /\ j <= WordBits
    BY <1>1, <1>2
<1>4. j # 0
    BY <1>3, TwoToDef
<1>5. x >= TwoTo[j - 1]
    <2>1. j - 1 \in Nat /\ j - 1 \notin T
        BY <1>2, <1>3, <1>4
    <2>2. TwoTo[j - 1] \in Nat
        BY <2>1, TwoToDef
    <2> QED BY <1>1, <2>1, <2>2
<1>6. WordBits - (WordBits - j) = j /\ WordBits - (WordBits - j) - 1 = j - 1
    BY <1>1, <1>3
<1>7. WordBits - j \in 0 .. WordBits - 1
    BY <1>1, <1>3, <1>4
<1>8. \E k \in 0 .. WordBits - 1 : x < TwoTo[WordBits - k] /\ x >= TwoTo[WordBits - k - 1]
    <2> HIDE DEF T
    <2> QED BY <1>3, <1>5, <1>6, <1>7
<1> QED BY <1>8 DEF Clz

\* A power of two has its exponent's number of trailing zeros.
LEMMA CtzDef ==
    ASSUME NEW x \in 1 .. Base - 1, IsPower2(x)
    PROVE  Ctz(x) \in 0 .. WordBits - 1 /\ x = TwoTo[Ctz(x)]
<1>1. PICK k \in 0 .. WordBits - 1 : x = TwoTo[k]
    BY DEF IsPower2
<1>2. k \in Nat /\ k + 1 \in Nat /\ x \in Nat \ {0} /\ TwoTo[k + 1] = 2 * x
    BY <1>1, WordSizes, TwoToDef
<1>3. x % TwoTo[k] = 0 /\ x % TwoTo[k + 1] = x
    <2>1. Splits(x, x, 1, 0) /\ Splits(x, 2 * x, 0, x)
        BY <1>2 DEF Splits
    <2>2. x % x = 0 /\ x % (2 * x) = x
        BY <2>1, QuotientIs
    <2> QED BY <1>1, <1>2, <2>2
<1>4. \E j \in 0 .. WordBits - 1 : x % TwoTo[j] = 0 /\ x % TwoTo[j + 1] # 0
    BY <1>2, <1>3
<1>5. PICK c \in 0 .. WordBits - 1 : c = Ctz(x) /\ x % TwoTo[c] = 0 /\ x % TwoTo[c + 1] # 0
    BY <1>4 DEF Ctz
<1>6. c \in Nat /\ TwoTo[c] \in Nat \ {0} /\ TwoTo[c + 1] \in Nat \ {0}
    BY TwoToDef, WordSizes
<1>7. ~(c < k)
    <2> SUFFICES ASSUME c < k PROVE FALSE
        OBVIOUS
    <2>1. c + 1 <= k
        BY <1>2, <1>6
    <2>2. PICK q \in Nat \ {0} : TwoTo[k] = q * TwoTo[c + 1]
        BY <1>2, <1>6, <2>1, TwoToDivides
    <2>3. x = TwoTo[c + 1] * q + 0
        BY <1>1, <1>6, <2>2
    <2>4. Splits(x, TwoTo[c + 1], q, 0)
        BY <1>2, <1>6, <2>3 DEF Splits
    <2>5. x % TwoTo[c + 1] = 0
        BY <2>4, QuotientIs
    <2> QED BY <1>5, <2>5
<1>8. ~(c > k)
    <2> SUFFICES ASSUME c > k PROVE FALSE
        OBVIOUS
    <2>1. k + 1 <= c
        BY <1>2, <1>6
    <2>2. 2 * x <= TwoTo[c]
        BY <1>2, <1>6, <2>1, TwoToMonotone
    <2>3. Splits(x, TwoTo[c], 0, x)
        BY <1>2, <1>6, <2>2 DEF Splits
    <2>4. x % TwoTo[c] = x
        BY <2>3, QuotientIs
    <2> QED BY <1>2, <1>5, <2>4
<1>9. c = k
    BY <1>2, <1>6, <1>7, <1>8
<1> QED BY <1>1, <1>5, <1>9

\* The difference of two counts: a negative one wraps to more than a word has bits.
LEMMA CountDifference ==
    ASSUME NEW i \in 0 .. WordBits - 1, NEW j \in 0 .. WordBits - 1
    PROVE  IF i >= j THEN Unsigned(i - j) = i - j ELSE Unsigned(i - j) > WordBits
<1>1. WordBits \in Nat /\ WordBits >= 2 /\ Base \in Nat \ {0}
    BY WordSizes
<1>2. Base >= 2 * WordBits
    <2>1. WordBits - 1 \in Nat /\ WordBits - 1 + 1 = WordBits
        BY <1>1
    <2>2. Base = 2 * TwoTo[WordBits - 1] /\ TwoTo[WordBits - 1] \in Nat
        BY <2>1, TwoToDef DEF Base
    <2>3. WordBits - 1 < TwoTo[WordBits - 1]
        BY <2>1, TwoToLarge
    <2> QED BY <1>1, <2>2, <2>3
<1>3. CASE i >= j
    <2>1. Splits(i - j, Base, 0, i - j)
        BY <1>1, <1>2, <1>3 DEF Splits
    <2>2. (i - j) % Base = i - j
        BY <2>1, QuotientIs
    <2> QED BY <1>3, <2>2 DEF Unsigned
<1>4. CASE ~(i >= j)
    <2>1. Splits(i - j, Base, -1, Base + i - j)
        BY <1>1, <1>2, <1>4 DEF Splits
    <2>2. (i - j) % Base = Base + i - j
        BY <2>1, QuotientIs
    <2>3. Base + i - j > WordBits
        BY <1>1, <1>2
    <2> QED BY <1>4, <2>2, <2>3 DEF Unsigned
<1> QED BY <1>3, <1>4

\* A smaller number is the remainder.
LEMMA SmallDividend ==
    ASSUME NEW n \in Nat, NEW d \in Nat, n < d
    PROVE  n \div d = 0 /\ n % d = n
<1>1. Splits(n, d, 0, n)
    BY DEF Splits
<1> QED BY <1>1, QuotientIs

\* Both numbers have a high word: either the dividend is smaller, or the rounds can be done.
LEMMA HighWords ==
    ASSUME NEW n \in 0 .. Limit - 1, NEW d \in 0 .. Limit - 1, High(n) # 0, High(d) # 0,
           NEW sr, sr = Unsigned(Clz(High(d)) - Clz(High(n)))
    PROVE  /\ sr \in Int
           /\ sr > WordBits - 1 => n < d
           /\ sr <= WordBits - 1 => MayShift(n, d, sr + 1)
           /\ sr = WordBits - 1 => High(d) = 1
<1> DEFINE w == WordBits
           B == Base
           i == Clz(High(d))
           j == Clz(High(n))
<1>1. /\ w \in Nat /\ w >= 2 /\ B \in Nat \ {0} /\ B = TwoTo[w]
      /\ Limit = 2 * Half /\ Half \in Nat \ {0} /\ Limit = B * B
    BY WordSizes
<1>2. PICK h \in 1 .. B - 1, l \in 0 .. B - 1 : h = High(n) /\ n = h * B + l
    <2>1. High(n) \in 1 .. B - 1
        BY Parts, <1>1
    <2> QED BY <2>1, Parts
<1>3. PICK e \in 1 .. B - 1, m \in 0 .. B - 1 : e = High(d) /\ d = e * B + m
    <2>1. High(d) \in 1 .. B - 1
        BY Parts, <1>1
    <2> QED BY <2>1, Parts
<1>4. i \in 0 .. w - 1 /\ e < TwoTo[w - i] /\ e >= TwoTo[w - i - 1]
    BY <1>3, ClzDef
<1>5. j \in 0 .. w - 1 /\ h < TwoTo[w - j] /\ h >= TwoTo[w - j - 1]
    BY <1>2, ClzDef
<1>6. IF i >= j THEN sr = i - j ELSE sr > w
    BY <1>4, <1>5, CountDifference
<1>7. sr \in Int
    BY <1>1, <1>4, <1>5 DEF Unsigned
<1> HIDE DEF i, j, w, B
<1>8. CASE ~(i >= j)
    <2>1. w - j \in Nat /\ w - i - 1 \in Nat /\ w - j <= w - i - 1
        BY <1>1, <1>4, <1>5, <1>8
    <2>2. TwoTo[w - j] <= TwoTo[w - i - 1] /\ TwoTo[w - j] \in Nat /\ TwoTo[w - i - 1] \in Nat
        BY <2>1, TwoToMonotone, TwoToDef
    <2>3. h + 1 <= e
        BY <1>4, <1>5, <2>2
    <2>4. (h + 1) * B <= e * B
        BY <1>1, <2>3
    <2>5. (h + 1) * B = h * B + B
        BY <1>1
    <2>6. n < d
        BY <1>1, <1>2, <1>3, <2>4, <2>5
    <2> QED BY <1>1, <1>6, <1>7, <1>8, <2>6 DEF w
<1>9. CASE i >= j
    <2>1. sr = i - j /\ sr \in 0 .. w - 1
        BY <1>1, <1>4, <1>5, <1>6, <1>9
    <2>2. sr + 1 \in 1 .. 2 * w - 1
        BY <1>1, <2>1
    <2>3. TwoTo[w - j] = TwoTo[w - i - 1] * TwoTo[sr + 1]
        <3>1. w \in Nat /\ i \in 0 .. w - 1 /\ j \in 0 .. w - 1
            BY <1>1, <1>4, <1>5
        <3>2. w - i - 1 \in Nat /\ sr + 1 \in Nat /\ w - i - 1 + (sr + 1) = w - j
            BY <2>1, <3>1
        <3>3. TwoTo[w - i - 1 + (sr + 1)] = TwoTo[w - i - 1] * TwoTo[sr + 1]
            BY <3>2, TwoToSum
        <3> QED BY <3>2, <3>3
    <2>4. PICK Z \in Nat \ {0} : Z = TwoTo[sr + 1]
        BY <2>1, <1>1, TwoToDef
    <2>5. n < d * Z
        <3>1. PICK E \in Nat : E = TwoTo[w - i - 1]
            BY <1>1, <1>4, TwoToDef
        <3>2. h + 1 <= E * Z /\ E <= e
            BY <1>4, <1>5, <2>3, <2>4, <3>1
        <3>3. E * Z <= e * Z
            BY <3>2
        <3>4. h + 1 <= e * Z
            BY <3>2, <3>3
        <3>5. (h + 1) * B <= (e * Z) * B
            BY <1>1, <3>4
        <3>6. (h + 1) * B = h * B + B /\ (e * Z) * B = (e * B) * Z
            BY <1>1
        <3>7. (e * B) * Z <= d * Z
            <4>1. e * B <= d /\ e * B \in Int /\ d \in Int
                BY <1>1, <1>3
            <4> QED BY <4>1
        <3>8. n < (h + 1) * B
            BY <1>1, <1>2, <3>6
        <3> QED BY <1>1, <3>5, <3>6, <3>7, <3>8
    <2>6. d <= Half \/ (sr + 1 = 1 /\ n >= Half)
        <3> DEFINE A == TwoTo[w - 1]
        <3>1. A \in Nat \ {0} /\ B = 2 * A
            <4>1. w - 1 \in Nat /\ w - 1 + 1 = w
                BY <1>1
            <4> QED BY <1>1, <4>1, TwoToDef
        <3> HIDE DEF A
        <3>2. Half = A * B
            <4>1. Limit = 2 * (A * B)
                BY <1>1, <3>1
            <4>2. A * B \in Int
                BY <1>1, <3>1
            <4> QED BY <1>1, <4>1, <4>2
        <3>3. CASE i = 0
            <4>1. j = 0 /\ sr = 0 /\ w - j - 1 = w - 1
                BY <1>1, <1>5, <1>9, <2>1, <3>3
            <4>2. h >= A
                BY <1>5, <4>1 DEF A
            <4>3. h * B >= A * B
                BY <1>1, <3>1, <4>2
            <4> QED BY <1>1, <1>2, <3>2, <4>1, <4>3
        <3>4. CASE i # 0
            <4>1. w - i \in Nat /\ w - 1 \in Nat /\ w - i <= w - 1
                BY <1>1, <1>4, <3>4
            <4>2. TwoTo[w - i] <= A /\ TwoTo[w - i] \in Nat
                BY <4>1, TwoToMonotone, TwoToDef DEF A
            <4>3. e + 1 <= A
                BY <1>4, <3>1, <4>2
            <4>4. (e + 1) * B <= A * B /\ (e + 1) * B = e * B + B
                BY <1>1, <3>1, <4>3
            <4> QED BY <1>1, <1>3, <3>2, <4>4
        <3> QED BY <3>3, <3>4
    <2>7. d \in 1 .. Limit - 1
        <3>1. e * B >= 1
            BY <1>1, <1>3
        <3> QED BY <1>1, <1>3, <3>1
    <2>8. MayShift(n, d, sr + 1)
        BY <2>2, <2>4, <2>5, <2>6, <2>7 DEF MayShift, w
    <2>9. ASSUME sr = w - 1 PROVE e = 1
        <3>1. w - i = 1 /\ TwoTo[1] = 2
            <4>1. i = w - 1
                BY <1>1, <1>4, <1>5, <2>1, <2>9
            <4> QED BY <1>1, <4>1, TwoToDef
        <3> QED BY <1>1, <1>4, <3>1
    <2> QED BY <1>1, <1>3, <2>1, <2>8, <2>9 DEF w
<1> QED BY <1>8, <1>9

\* Only the divisor is one word, and it has two digits at least.
LEMMA LowDivisor ==
    ASSUME NEW n \in 0 .. Limit - 1, NEW d \in 0 .. Limit - 1, High(n) # 0, High(d) = 0,
           Low(d) # 0, ~IsPower2(Low(d))
    PROVE  MayShift(n, d, 1 + WordBits + Clz(Low(d)) - Clz(High(n)))
<1> DEFINE w == WordBits
           B == Base
           i == Clz(Low(d))
           j == Clz(High(n))
           sr == 1 + w + i - j
<1>1. /\ w \in Nat /\ w >= 2 /\ B \in Nat \ {0} /\ B = TwoTo[w] /\ B >= 4
      /\ Limit = 2 * Half /\ Half \in Nat \ {0} /\ Limit = B * B
    BY WordSizes
<1>2. PICK h \in 1 .. B - 1, l \in 0 .. B - 1 : h = High(n) /\ n = h * B + l
    <2>1. High(n) \in 1 .. B - 1
        BY Parts, <1>1
    <2> QED BY <2>1, Parts
<1>3. d \in 1 .. B - 1 /\ d = Low(d)
    BY Parts, <1>1
<1>4. i \in 0 .. w - 1 /\ d < TwoTo[w - i] /\ d >= TwoTo[w - i - 1]
    BY <1>3, ClzDef
<1>5. j \in 0 .. w - 1 /\ h < TwoTo[w - j] /\ h >= TwoTo[w - j - 1]
    BY <1>2, ClzDef
<1>6. i # w - 1
    <2> SUFFICES ASSUME i = w - 1 PROVE FALSE
        OBVIOUS
    <2> HIDE DEF i
    <2>1. w - i = 1 /\ TwoTo[1] = 2
        BY <1>1, TwoToDef
    <2>2. d = 1
        BY <1>1, <1>3, <1>4, <2>1
    <2>3. d = TwoTo[0] /\ 0 \in 0 .. WordBits - 1
        BY <1>1, <2>2, TwoToDef
    <2>4. IsPower2(d)
        BY <2>3 DEF IsPower2
    <2> QED BY <1>3, <2>4
<1> HIDE DEF i, j, w, B
<1>7. sr \in 2 .. 2 * w - 1
    BY <1>1, <1>4, <1>5, <1>6
<1>8. PICK Z \in Nat \ {0} : Z = TwoTo[sr]
    BY <1>1, <1>7, TwoToDef
<1>9. PICK E \in Nat : E = TwoTo[w - i - 1]
    BY <1>1, <1>4, TwoToDef
<1>10. TwoTo[w - j] * B = E * Z
    <2>1. /\ w - i - 1 \in Nat /\ sr \in Nat /\ w - j \in Nat
          /\ w - i - 1 + sr = w - j + w
        BY <1>1, <1>4, <1>5, <1>7
    <2>2. TwoTo[w - i - 1 + sr] = TwoTo[w - i - 1] * TwoTo[sr]
        BY <2>1, TwoToSum
    <2>3. TwoTo[w - j + w] = TwoTo[w - j] * TwoTo[w]
        BY <1>1, <2>1, TwoToSum
    <2> QED BY <1>1, <1>8, <1>9, <2>1, <2>2, <2>3
<1>11. n < d * Z
    <2>1. E * Z <= d * Z
        BY <1>3, <1>4, <1>9
    <2>2. PICK F \in Nat : F = TwoTo[w - j]
        BY <1>1, <1>5, TwoToDef
    <2>3. (h + 1) * B <= F * B /\ (h + 1) * B = h * B + B
        BY <1>1, <1>5, <2>2
    <2> QED BY <1>1, <1>2, <1>3, <1>10, <2>1, <2>2, <2>3
<1>12. d <= Half /\ d \in 1 .. Limit - 1
    <2>1. B * B >= 2 * B
        BY <1>1
    <2> QED BY <1>1, <1>3, <2>1
<1>13. sr \in 1 .. 2 * w - 1
    BY <1>1, <1>7
<1> QED BY <1>8, <1>11, <1>12, <1>13 DEF MayShift, w, i, j

\* Every one of the special cases answers with quotient and remainder.
LEMMA UdivmodExact ==
    ASSUME NEW n \in 0 .. Limit - 1, NEW d \in 1 .. Limit - 1
    PROVE  Udivmod(n, d) = Answer(n \div d, n % d)
<1> DEFINE B == Base
<1>1. /\ WordBits \in Nat /\ WordBits >= 2 /\ B \in Nat \ {0} /\ B >= 4 /\ Limit \in Nat
      /\ d \in 0 .. Limit - 1 /\ n \in Nat /\ d \in Nat \ {0} /\ B = Base
    BY WordSizes
<1>2. PICK h \in 0 .. B - 1, l \in 0 .. B - 1 : h = High(n) /\ l = Low(n) /\ n = h * B + l
    BY Parts
<1>3. PICK e \in 0 .. B - 1, m \in 0 .. B - 1 : e = High(d) /\ m = Low(d) /\ d = e * B + m
    BY <1>1, Parts
<1> HIDE DEF B
<1>4. CASE h = 0 /\ e = 0
    <2>1. n = l /\ d = m
        BY <1>1, <1>2, <1>3, <1>4
    <2>2. Udivmod(n, d) = Answer(l \div m, l % m)
        BY <1>2, <1>3, <1>4 DEF Udivmod
    <2> QED BY <2>1, <2>2
<1>5. CASE h = 0 /\ e # 0
    <2>1. n = l
        BY <1>1, <1>2, <1>5
    <2>2. e * B >= B
        BY <1>1, <1>5
    <2>3. n < d
        BY <1>1, <1>3, <2>1, <2>2
    <2>4. n \div d = 0 /\ n % d = n
        BY <1>1, <2>3, SmallDividend
    <2>5. Udivmod(n, d) = Answer(0, l)
        BY <1>2, <1>3, <1>5 DEF Udivmod
    <2> QED BY <2>1, <2>4, <2>5
<1>6. CASE h # 0 /\ m = 0
    <2>1. e # 0 /\ d = e * B /\ e \in Nat \ {0} /\ h \in Nat
        BY <1>1, <1>3, <1>6
    <2>2. PICK q \in Nat, r \in 0 .. e - 1 : q = h \div e /\ r = h % e /\ h = e * q + r
        BY <2>1, NaturalQuotient
    <2>3. n = d * q + (r * B + l) /\ r * B + l \in Nat /\ r * B + l < d
        <3>1. (e * q + r) * B = (e * B) * q + r * B
            BY <1>1, <2>1
        <3>2. (r + 1) * B <= e * B /\ (r + 1) * B = r * B + B /\ r * B \in Nat
            BY <1>1, <2>1
        <3> QED BY <1>1, <1>2, <2>1, <2>2, <3>1, <3>2
    <2>4. n \div d = q /\ n % d = r * B + l
        <3>1. Splits(n, d, q, r * B + l)
            BY <1>1, <2>3 DEF Splits
        <3> QED BY <3>1, QuotientIs
    <2>5. CASE l = 0
        <3>1. Udivmod(n, d) = Answer(h \div e, Double(h % e, 0))
            BY <1>2, <1>3, <1>6, <2>5 DEF Udivmod
        <3> QED BY <1>1, <2>2, <2>4, <2>5, <3>1 DEF Double
    <2>6. CASE l # 0 /\ IsPower2(e)
        <3>1. Udivmod(n, d) = Answer(Shr(h, Ctz(e)), Double(h % e, l))
            BY <1>2, <1>3, <1>6, <2>6 DEF Udivmod
        <3>2. Shr(h, Ctz(e)) = q
            <4>1. e \in 1 .. Base - 1
                BY <1>1, <2>1
            <4>2. e = TwoTo[Ctz(e)]
                BY <2>6, <4>1, CtzDef
            <4> QED BY <2>2, <4>2 DEF Shr
        <3> QED BY <1>1, <2>2, <2>4, <3>1, <3>2 DEF Double
    <2>7. CASE l # 0 /\ ~IsPower2(e)
        <3>1. PICK sr : sr = Unsigned(Clz(High(d)) - Clz(High(n)))
            OBVIOUS
        <3>2. /\ sr \in Int
              /\ sr > WordBits - 1 => n < d
              /\ sr <= WordBits - 1 => MayShift(n, d, sr + 1)
              /\ sr = WordBits - 1 => e = 1
            BY <1>1, <1>2, <1>3, <1>6, <2>1, <3>1, HighWords
        <3>3. Udivmod(n, d)
                = IF sr > WordBits - 2 THEN Answer(0, n) ELSE ShiftSubtract(n, d, sr + 1)
            BY <1>2, <1>3, <1>6, <2>7, <3>1 DEF Udivmod
        <3>4. sr # WordBits - 1
            <4>1. 1 = TwoTo[0] /\ 0 \in 0 .. WordBits - 1
                BY <1>1, TwoToDef
            <4>2. IsPower2(1)
                BY <4>1 DEF IsPower2
            <4> QED BY <2>7, <3>2, <4>2
        <3>5. CASE sr > WordBits - 2
            <4>1. n < d
                BY <1>1, <3>2, <3>4, <3>5
            <4>2. n \div d = 0 /\ n % d = n
                BY <1>1, <4>1, SmallDividend
            <4> QED BY <3>3, <3>5, <4>2
        <3>6. CASE ~(sr > WordBits - 2)
            <4>1. MayShift(n, d, sr + 1)
                BY <1>1, <3>2, <3>6
            <4> QED BY <3>3, <3>6, <4>1, ShiftSubtractExact
        <3> QED BY <3>5, <3>6
    <2> QED BY <2>5, <2>6, <2>7
<1>7. CASE h # 0 /\ e = 0 /\ IsPower2(m)
    <2>1. d = m /\ m \in Nat \ {0} /\ m \in 1 .. Base - 1
        BY <1>1, <1>3, <1>7
    <2>2. PICK k \in 0 .. WordBits - 1 : k = Ctz(m) /\ m = TwoTo[k]
        BY <1>7, <2>1, CtzDef
    <2>3. m # 0 /\ Udivmod(n, d) = IF m = 1 THEN Answer(n, 0) ELSE Answer(ShrBy(n, k), l % m)
        BY <1>2, <1>3, <1>7, <2>1, <2>2 DEF Udivmod
    <2>4. CASE m = 1
        <3>1. Splits(n, d, n, 0)
            BY <1>1, <2>1, <2>4 DEF Splits
        <3>2. n \div d = n /\ n % d = 0
            BY <3>1, QuotientIs
        <3> QED BY <2>3, <2>4, <3>2
    <2>5. CASE m # 1
        <3>1. k # 0
            BY <2>2, <2>5, TwoToDef
        <3>2. ShrBy(n, k) = n \div d
            <4>1. k \in 1 .. 2 * WordBits - 1
                BY <1>1, <3>1
            <4> QED BY <2>1, <2>2, <4>1, DoubleShifts
        <3>3. PICK C \in Nat \ {0} : B = m * C
            <4>1. k \in 1 .. WordBits - 1
                BY <1>1, <3>1
            <4> QED BY <1>1, <2>2, <4>1, WordParts
        <3>4. PICK q \in Nat, r \in 0 .. m - 1 : q = l \div m /\ r = l % m /\ l = m * q + r
            <4>1. l \in Nat
                BY <1>1
            <4> QED BY <2>1, <4>1, NaturalQuotient
        <3>5. n = d * (h * C + q) + r
            <4>1. h * (m * C) = m * (h * C)
                BY <1>1, <2>1
            <4> QED BY <1>1, <1>2, <2>1, <3>3, <3>4, <4>1
        <3>6. Splits(n, d, h * C + q, r)
            BY <1>1, <2>1, <3>5 DEF Splits
        <3>7. n % d = r
            BY <3>6, QuotientIs
        <3> QED BY <2>3, <2>5, <3>2, <3>4, <3>7
    <2> QED BY <2>4, <2>5
<1>8. CASE h # 0 /\ e = 0 /\ m # 0 /\ ~IsPower2(m)
    <2>1. Udivmod(n, d) = ShiftSubtract(n, d, 1 + WordBits + Clz(m) - Clz(h))
        BY <1>2, <1>3, <1>8 DEF Udivmod
    <2>2. MayShift(n, d, 1 + WordBits + Clz(m) - Clz(h))
        BY <1>1, <1>2, <1>3, <1>8, LowDivisor
    <2> QED BY <2>1, <2>2, ShiftSubtractExact
<1>9. CASE h # 0 /\ e # 0 /\ m # 0
    <2>1. PICK sr : sr = Unsigned(Clz(High(d)) - Clz(High(n)))
        OBVIOUS
    <2>2. /\ sr \in Int
          /\ sr > WordBits - 1 => n < d
          /\ sr <= WordBits - 1 => MayShift(n, d, sr + 1)
        BY <1>1, <1>2, <1>3, <1>9, <2>1, HighWords
    <2>3. Udivmod(n, d) = IF sr > WordBits - 1 THEN Answer(0, n) ELSE ShiftSubtract(n, d, sr + 1)
        BY <1>2, <1>3, <1>9, <2>1 DEF Udivmod
    <2>4. CASE sr > WordBits - 1
        <3>1. n \div d = 0 /\ n % d = n
            BY <1>1, <2>2, <2>4, SmallDividend
        <3> QED BY <2>3, <2>4, <3>1
    <2>5. CASE ~(sr > WordBits - 1)
        <3>1. MayShift(n, d, sr + 1)
            BY <1>1, <2>2, <2>5
        <3> QED BY <2>3, <2>5, <3>1, ShiftSubtractExact
    <2> QED BY <2>4, <2>5
<1>10. ~(e = 0 /\ m = 0)
    BY <1>1, <1>3
<1> QED BY <1>4, <1>5, <1>6, <1>7, <1>8, <1>9, <1>10

\* Signed numbers and their bits.
LEMMA SignedRange ==
    ASSUME NEW x \in 0 .. Limit - 1
    PROVE  Signed(x) \in -Half .. Half - 1 /\ (x # 0 => Signed(x) # 0)
<1>1. Limit \in Nat /\ Limit = 2 * Half /\ Half \in Nat \ {0} /\ Limit = Base * Base
    BY WordSizes
<1>2. Signed(x) = IF x >= Half THEN x - Limit ELSE x
    BY <1>1 DEF Signed, Half
<1> QED BY <1>1, <1>2

\* A signed number is the one that its bits stand for.
LEMMA SignedBits ==
    ASSUME NEW r \in -Half .. Half - 1
    PROVE  Signed(Bits(r)) = r
<1>1. Limit \in Nat /\ Limit = 2 * Half /\ Half \in Nat \ {0} /\ Limit = Base * Base
    BY WordSizes
<1>2. CASE r >= 0
    <2>1. Splits(r, Limit, 0, r)
        BY <1>1, <1>2 DEF Splits
    <2>2. Bits(r) = r
        BY <2>1, QuotientIs DEF Bits
    <2>3. Signed(r) = r
        BY <1>1 DEF Signed, Half
    <2> QED BY <2>2, <2>3
<1>3. CASE r < 0
    <2>1. Splits(r, Limit, -1, r + Limit)
        BY <1>1, <1>3 DEF Splits
    <2>2. Bits(r) = r + Limit
        BY <2>1, QuotientIs DEF Bits
    <2>3. r + Limit >= Half
        BY <1>1
    <2>4. Signed(r + Limit) = r
        BY <1>1, <2>3 DEF Signed, Half
    <2> QED BY <2>2, <2>4
<1> QED BY <1>1, <1>2, <1>3

\* Numbers of a word or two words are their own bits.
LEMMA SmallBits ==
    ASSUME NEW x \in 0 .. Limit - 1
    PROVE  Bits(x) = x
<1>1. Splits(x, Limit, 0, x)
    BY WordSizes DEF Splits
<1> QED BY <1>1, QuotientIs DEF Bits

\* Without the sign.
Magnitude(x) == IF x < 0 THEN -x ELSE x

\* (a ^ s) - s is the magnitude of a, as s is the sign of a.
LEMMA NegatedMagnitude ==
    ASSUME NEW a \in -Half .. Half - 1
    PROVE  Negated(a, a) = Magnitude(a) /\ Magnitude(a) \in 0 .. Half
<1>1. Limit \in Nat /\ Limit = 2 * Half /\ Half \in Nat \ {0}
    BY WordSizes
<1>2. CASE a < 0
    <2>1. -a \in 0 .. Limit - 1 /\ -a \in 0 .. Half
        BY <1>1, <1>2
    <2>2. Bits(-a) = -a
        BY <2>1, SmallBits
    <2> QED BY <1>2, <2>1, <2>2 DEF Negated, Magnitude
<1>3. CASE ~(a < 0)
    <2>1. a \in 0 .. Limit - 1 /\ a \in 0 .. Half
        BY <1>1, <1>3
    <2>2. Bits(a) = a
        BY <2>1, SmallBits
    <2> QED BY <1>3, <2>1, <2>2 DEF Negated, Magnitude
<1> QED BY <1>2, <1>3

\* What the signed functions compute, from the quotient and remainder of the magnitudes.
LEMMA SignedDivision ==
    ASSUME NEW a \in -Half .. Half - 1, NEW b \in -Half .. Half - 1, b # 0
    PROVE  \E q \in Nat, r \in Nat :
              /\ Magnitude(a) = Magnitude(b) * q + r /\ r < Magnitude(b)
              /\ Divdi3(a, b) = IF a = -Half /\ b = -1 THEN a
                                ELSE IF (a < 0) # (b < 0) THEN -q ELSE q
              /\ Moddi3(a, b) = IF a < 0 THEN -r ELSE r
<1> DEFINE A == Magnitude(a)
           D == Magnitude(b)
<1>1. Limit \in Nat /\ Limit = 2 * Half /\ Half \in Nat \ {0}
    BY WordSizes
<1>2. A \in 0 .. Half /\ D \in 1 .. Half /\ Negated(a, a) = A /\ Negated(b, b) = D
    <2>1. D # 0
        BY DEF Magnitude
    <2> QED BY <1>1, <2>1, NegatedMagnitude
<1> HIDE DEF A, D
<1>3. PICK q \in Nat, r \in 0 .. D - 1 : q = A \div D /\ r = A % D /\ A = D * q + r
    <2>1. A \in Nat /\ D \in Nat \ {0}
        BY <1>1, <1>2
    <2> QED BY <2>1, NaturalQuotient
<1>4. Udivmod(A, D) = Answer(q, r)
    <2>1. A \in 0 .. Limit - 1 /\ D \in 1 .. Limit - 1
        BY <1>1, <1>2
    <2> QED BY <1>3, <2>1, UdivmodExact
<1>5. q <= A /\ r < Half
    <2>1. D * q >= q
        BY <1>2
    <2> QED BY <1>1, <1>2, <1>3, <2>1
<1>6. Moddi3(a, b) = IF a < 0 THEN -r ELSE r
    <2>1. Moddi3(a, b) = Signed(Negated(r, a))
        BY <1>2, <1>4 DEF Moddi3, Answer
    <2>2. r \in -Half .. Half - 1 /\ -r \in -Half .. Half - 1
        BY <1>1, <1>2, <1>5
    <2>3. Signed(Bits(r)) = r /\ Signed(Bits(-r)) = -r
        BY <2>2, SignedBits
    <2> QED BY <2>1, <2>3 DEF Negated
<1>7. Divdi3(a, b) = Signed(IF (a < 0) # (b < 0) THEN Bits(-q) ELSE q)
    BY <1>2, <1>4 DEF Divdi3, Answer
<1> DEFINE Quotient == IF a = -Half /\ b = -1 THEN a ELSE IF (a < 0) # (b < 0) THEN -q ELSE q
<1> SUFFICES Divdi3(a, b) = Quotient
    <2>1. r \in Nat /\ r < D
        BY <1>2
    <2> QED BY <1>3, <1>6, <2>1 DEF A, D
<1>8. CASE (a < 0) # (b < 0)
    <2>1. -q \in -Half .. Half - 1
        BY <1>1, <1>2, <1>5
    <2>2. Divdi3(a, b) = -q
        BY <1>7, <1>8, <2>1, SignedBits
    <2>3. ~(a = -Half /\ b = -1)
        BY <1>1, <1>8
    <2> QED BY <1>8, <2>2, <2>3
<1>9. CASE (a < 0) = (b < 0) /\ q < Half
    <2>1. q \in -Half .. Half - 1 /\ q \in 0 .. Limit - 1
        BY <1>1, <1>9
    <2>2. Bits(q) = q /\ Signed(Bits(q)) = q
        BY <2>1, SmallBits, SignedBits
    <2>3. Divdi3(a, b) = q
        BY <1>7, <1>9, <2>2
    <2>4. ~(a = -Half /\ b = -1)
        <3> SUFFICES ASSUME a + Half = 0, b + 1 = 0 PROVE FALSE
            BY <1>1
        <3>1. A = Half /\ D = 1
            <4>1. a \in Int /\ b \in Int /\ a < 0 /\ b < 0
                BY <1>1
            <4>2. A = -a /\ D = -b
                BY <4>1 DEF Magnitude, A, D
            <4> QED BY <1>1, <4>1, <4>2
        <3> QED BY <1>1, <1>3, <1>9, <3>1
    <2> QED BY <1>9, <2>3, <2>4
<1>10. CASE (a < 0) = (b < 0) /\ q >= Half
    <2>1. q = Half /\ A = Half
        BY <1>1, <1>2, <1>5, <1>10
    <2>2. D = 1
        <3> SUFFICES ASSUME D >= 2 PROVE FALSE
            BY <1>2
        <3>1. D * q >= 2 * q
            BY <1>2
        <3> QED BY <1>1, <1>2, <1>3, <2>1, <3>1
    <2>3. a = -Half /\ b = -1
        BY <1>1, <1>10, <2>1, <2>2 DEF Magnitude, A, D
    <2>4. Signed(q) = -Half
        BY <1>1, <2>1, WordSizes DEF Signed, Half
    <2>5. Divdi3(a, b) = a
        BY <1>7, <1>10, <2>3, <2>4
    <2> QED BY <2>3, <2>5
<1>11. q < Half \/ q >= Half
    BY <1>1
<1> QED BY <1>8, <1>9, <1>10, <1>11

\* The quotient rounds to 0, the remainder has the sign of the dividend, and the third
\* function finds the remainder that the second one computes.
LEMMA SignedAnswer ==
    ASSUME NEW a \in -Half .. Half - 1, NEW b \in -Half .. Half - 1, b # 0,
           NEW q, q = Divdi3(a, b), NEW r, r = Moddi3(a, b)
    PROVE  /\ Divmoddi4(a, b) = Answer(q, r)
           /\ Magnitude(r) < Magnitude(b) /\ r * a >= 0
           /\ IF a = -Half /\ b = -1 THEN q = a ELSE q * b + r = a
<1>1. Limit \in Nat /\ Limit = 2 * Half /\ Half \in Nat \ {0}
    BY WordSizes
<1>2. a \in Int /\ b \in Int
    BY <1>1
<1>3. PICK Q \in Nat, R \in Nat :
         /\ Magnitude(a) = Magnitude(b) * Q + R /\ R < Magnitude(b)
         /\ q = IF a = -Half /\ b = -1 THEN a ELSE IF (a < 0) # (b < 0) THEN -Q ELSE Q
         /\ r = IF a < 0 THEN -R ELSE R
    BY SignedDivision
<1>4. PICK A \in Nat : A = Magnitude(a) /\ A <= Half /\ (IF a < 0 THEN A = -a ELSE A = a)
    BY <1>1, <1>2 DEF Magnitude
<1>5. PICK D \in Nat : D = Magnitude(b) /\ D <= Half /\ (IF b < 0 THEN D = -b ELSE D = b)
    BY <1>1, <1>2 DEF Magnitude
<1>6. r \in Int /\ R < D /\ A = D * Q + R /\ R <= A
    <2>1. R < D /\ A = D * Q + R
        BY <1>3, <1>4, <1>5
    <2>2. D * Q >= 0
        OBVIOUS
    <2> QED BY <1>3, <2>1, <2>2
<1>7. Magnitude(r) = R
    BY <1>2, <1>3 DEF Magnitude
<1>8. r * a >= 0
    <2>1. R * A >= 0
        OBVIOUS
    <2>2. CASE a < 0
        <3>1. r = -R /\ a = -A
            BY <1>2, <1>3, <1>4, <2>2
        <3>2. (-R) * (-A) = R * A
            OBVIOUS
        <3> QED BY <2>1, <3>1, <3>2
    <2>3. CASE ~(a < 0)
        BY <1>3, <1>4, <2>1, <2>3
    <2> QED BY <2>2, <2>3
<1>9. CASE ~(a = -Half /\ b = -1)
    <2>1. q = IF (a < 0) # (b < 0) THEN -Q ELSE Q
        BY <1>3, <1>9
    <2>2. (-Q) * D = -(D * Q) /\ Q * (-D) = -(D * Q) /\ (-Q) * (-D) = D * Q /\ Q * D = D * Q
        OBVIOUS
    <2>3. q * b = IF a < 0 THEN -(D * Q) ELSE D * Q
        <3>1. b = IF b < 0 THEN -D ELSE D
            BY <1>2, <1>5
        <3> QED BY <2>1, <2>2, <3>1
    <2>4. q * b + r = a
        BY <1>2, <1>3, <1>4, <1>6, <2>3
    <2>5. a - q * b = r
        <3>1. q * b \in Int
            BY <2>3
        <3> QED BY <1>2, <1>6, <2>4, <3>1
    <2>6. r \in -Half .. Half - 1
        BY <1>1, <1>3, <1>5, <1>6
    <2>7. Divmoddi4(a, b) = Answer(q, Signed(Bits(r)))
        BY <2>5 DEF Divmoddi4
    <2>8. Signed(Bits(r)) = r
        BY <2>6, SignedBits
    <2> QED BY <1>3, <1>7, <1>8, <1>9, <2>4, <2>7, <2>8
<1>10. CASE a = -Half /\ b = -1
    <2>1. q = a
        BY <1>3, <1>10
    <2>2. D = 1
        BY <1>2, <1>5, <1>10
    <2>3. R = 0 /\ r = 0
        BY <1>3, <1>6, <2>2
    <2>4. a - q * b = -Limit
        <3>1. q * b = Half
            BY <1>1, <1>10, <2>1
        <3> QED BY <1>1, <1>2, <1>10, <3>1
    <2>5. Bits(-Limit) = 0
        <3>1. Splits(-Limit, Limit, -1, 0)
            BY <1>1 DEF Splits
        <3> QED BY <3>1, QuotientIs DEF Bits
    <2>6. Signed(0) = 0
        BY <1>1 DEF Signed, Half
    <2>7. Divmoddi4(a, b) = Answer(q, r)
        BY <2>3, <2>4, <2>5, <2>6 DEF Divmoddi4
    <2> QED BY <1>3, <1>7, <1>8, <1>10, <2>1, <2>7
<1> QED BY <1>9, <1>10

\* All six functions of int64.c divide as C has it, whatever the arguments and the number
\* of bits of a word.
THEOREM DivisionTheorem == Int64Init => DivisionExact
<1> SUFFICES ASSUME Int64Init PROVE DivisionExact
    OBVIOUS
<1>1. dividend \in 0 .. Limit - 1 /\ divisor \in 0 .. Limit - 1
    BY DEF Int64Init
<1>2. UnsignedExact
    <2> SUFFICES ASSUME divisor # 0
                 PROVE  Udivmod(dividend, divisor) = Answer(dividend \div divisor, dividend % divisor)
        BY DEF UnsignedExact
    <2>1. divisor \in 1 .. Limit - 1
        BY <1>1, WordSizes
    <2> QED BY <1>1, <2>1, UdivmodExact
<1>3. SignedExact
    <2> DEFINE a == Signed(dividend)
               b == Signed(divisor)
    <2> SUFFICES ASSUME divisor # 0
                 PROVE  /\ Divmoddi4(a, b) = Answer(Divdi3(a, b), Moddi3(a, b))
                        /\ Magnitude(Moddi3(a, b)) < Magnitude(b) /\ Moddi3(a, b) * a >= 0
                        /\ IF a = -Half /\ b = -1 THEN Divdi3(a, b) = a
                           ELSE Divdi3(a, b) * b + Moddi3(a, b) = a
        BY DEF SignedExact, Magnitude, Half
    <2>1. a \in -Half .. Half - 1 /\ b \in -Half .. Half - 1 /\ b # 0
        BY <1>1, SignedRange
    <2> HIDE DEF a, b
    <2> QED BY <2>1, SignedAnswer
<1> QED BY <1>2, <1>3 DEF DivisionExact
=============================================================================
