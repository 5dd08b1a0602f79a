------------------------------ MODULE KvLocks ------------------------------
(***************************************************************************)
(* The locks of libkvdb/kvdb.c.  kvdb_open returns a handle: descriptors   *)
(* of the data file and of the journal, and a mutex.  flock() belongs to   *)
(* the open file, that is to the handle: a thread that locks a file its    *)
(* handle has locked gets through, and its LOCK_UN unlocks for all threads *)
(* of the handle.  The mutex keeps the threads of one handle apart.        *)
(*                                                                         *)
(* Every operation takes the data file, the journal, the mutex and gives   *)
(* up the mutex first; then kvdb_put and kvdb_get the data file and the    *)
(* journal, recover the two the other way round.  Inside, only the count   *)
(* in the head of the journal is looked at: kvdb_put reads it and writes   *)
(* it back one larger.  kvdb_open writes the head of a new journal before  *)
(* it takes any lock.                                                      *)
(*                                                                         *)
(*   out      in no operation             in      all locks taken          *)
(*   init     found no head in the file   write   kvdb_put, count read     *)
(*   d, j, m  about to take the data      leave   about to unlock mutex    *)
(*            file, the journal, the      first   about to unlock a file   *)
(*            mutex                       second  about to unlock the other*)
(***************************************************************************)
EXTENDS Naturals, FiniteSets

CONSTANTS
    Threads, Handles,
    None,           \* nobody
    Uses,           \* the ways to share handles: functions from Threads to Handles
    MaxCalls,       \* bound: calls of kvdb_open, kvdb_put and kvdb_get
    MaxDeaths       \* bound: processes that die

ASSUME KvLocksAssumption ==
    /\ None \notin Threads \cup Handles
    /\ Uses \subseteq [Threads -> Handles]
    /\ MaxCalls \in Nat /\ MaxDeaths \in Nat

VARIABLES
    use,        \* use[t]: the handle thread t works with
    new,        \* the first open finds no journal
    pc, op,     \* per thread: see above, and the operation it is in
    state,      \* per handle: closed, opening (kvdb_open has not returned), open
    file,       \* file["data"], file["jnl"]: the handle that has it locked
    mtx,        \* per handle: the thread that holds the mutex
    headed,     \* the journal has its head of 64 bytes
    nr,         \* the count in the head
    seen,       \* per thread: the count kvdb_put has read
    added,      \* history: how often a kvdb_put has written the count
    calls, deaths

perThread == <<pc, op, seen>>
head == <<headed, nr, added>>
lockVars == <<use, new, perThread, state, file, mtx, head, calls, deaths>>

Inside == {"in", "write", "leave"}
Shares(t) == {s \in Threads : use[s] = use[t]}

\* Before the first open there is either no journal or the one of an earlier run.
Init ==
    /\ use \in Uses
    /\ new \in BOOLEAN
    /\ pc = [t \in Threads |-> "out"]
    /\ op = [t \in Threads |-> "none"]
    /\ state = [h \in Handles |-> "closed"]
    /\ file = [f \in {"data", "jnl"} |-> None]
    /\ mtx = [h \in Handles |-> None]
    /\ headed = ~new
    /\ nr = 0 /\ added = 0
    /\ seen = [t \in Threads |-> 0]
    /\ calls = 0
    /\ deaths = 0

Goes(t, from, to) == pc[t] = from /\ pc' = [pc EXCEPT ![t] = to]

Starts(t, o, to) ==
    /\ Goes(t, "out", to)
    /\ op' = [op EXCEPT ![t] = o]
    /\ calls < MaxCalls /\ calls' = calls + 1

\* kvdb_open up to the test of the size of the journal.
Open(t) ==
    /\ state[use[t]] = "closed"
    /\ state' = [state EXCEPT ![use[t]] = "opening"]
    /\ Starts(t, "recover", IF headed THEN "d" ELSE "init")
    /\ UNCHANGED <<use, new, seen, file, mtx, head, deaths>>

\* The 64 zero bytes are written whatever others have written since the test.
WriteHead(t) ==
    /\ Goes(t, "init", "d")
    /\ headed' = TRUE /\ nr' = 0
    /\ UNCHANGED <<use, new, op, seen, calls, state, file, mtx, added, deaths>>

Call(t, o) ==
    /\ o \in {"put", "get"}
    /\ state[use[t]] = "open"
    /\ Starts(t, o, "d")
    /\ UNCHANGED <<use, new, seen, state, file, mtx, head, deaths>>

\* flock(LOCK_EX): a conversion without effect if the handle has the lock.
Flock(t, f) ==
    /\ file[f] \in {None, use[t]}
    /\ file' = [file EXCEPT ![f] = use[t]]

LockData(t) ==
    /\ Goes(t, "d", "j")
    /\ Flock(t, "data")
    /\ UNCHANGED <<use, new, op, seen, calls, state, mtx, head, deaths>>

LockJournal(t) ==
    /\ Goes(t, "j", "m")
    /\ Flock(t, "jnl")
    /\ UNCHANGED <<use, new, op, seen, calls, state, mtx, head, deaths>>

\* Faulty variant: no mutex.
LockMutexNot(t) ==
    /\ Goes(t, "m", "in")
    /\ mtx' = [mtx EXCEPT ![use[t]] = t]
    /\ UNCHANGED <<use, new, op, seen, calls, state, file, head, deaths>>

LockMutex(t) ==
    /\ Goes(t, "m", "in")
    /\ mtx[use[t]] = None
    /\ mtx' = [mtx EXCEPT ![use[t]] = t]
    /\ UNCHANGED <<use, new, op, seen, calls, state, file, head, deaths>>

\* recover and kvdb_get do not touch the count.
Reads(t) ==
    /\ op[t] # "put"
    /\ Goes(t, "in", "leave")
    /\ UNCHANGED <<use, new, op, seen, calls, state, file, mtx, head, deaths>>

ReadCount(t) ==
    /\ op[t] = "put"
    /\ Goes(t, "in", "write")
    /\ seen' = [seen EXCEPT ![t] = nr]
    /\ UNCHANGED <<use, new, op, calls, state, file, mtx, head, deaths>>

WriteCount(t) ==
    /\ Goes(t, "write", "leave")
    /\ nr' = seen[t] + 1
    /\ added' = added + 1
    /\ UNCHANGED <<use, new, op, seen, calls, state, file, mtx, headed, deaths>>

UnlockMutex(t) ==
    /\ Goes(t, "leave", "first")
    /\ mtx' = [mtx EXCEPT ![use[t]] = None]
    /\ UNCHANGED <<use, new, op, seen, calls, state, file, head, deaths>>

\* flock(LOCK_UN): no effect if the handle does not have the lock (any more).
Funlock(h, fs) ==
    file' = [f \in DOMAIN file |-> IF f \in fs /\ file[f] = h THEN None ELSE file[f]]

UnlockFirst(t) ==
    /\ Goes(t, "first", "second")
    /\ Funlock(use[t], IF op[t] = "recover" THEN {"jnl"} ELSE {"data"})
    /\ UNCHANGED <<use, new, op, seen, calls, state, mtx, head, deaths>>

\* Faulty variant: kvdb_get unlocks the data file twice.
UnlockSecondSame(t) ==
    /\ Goes(t, "second", "out")
    /\ Funlock(use[t], IF op[t] = "put" THEN {"jnl"} ELSE {"data"})
    /\ state' = [state EXCEPT ![use[t]] = "open"]
    /\ op' = [op EXCEPT ![t] = "none"]
    /\ seen' = [seen EXCEPT ![t] = 0]
    /\ UNCHANGED <<use, new, calls, mtx, head, deaths>>

\* The last unlock; kvdb_open returns the handle.
UnlockSecond(t) ==
    /\ Goes(t, "second", "out")
    /\ Funlock(use[t], IF op[t] = "recover" THEN {"data"} ELSE {"jnl"})
    /\ state' = [state EXCEPT ![use[t]] = "open"]
    /\ op' = [op EXCEPT ![t] = "none"]
    /\ seen' = [seen EXCEPT ![t] = 0]
    /\ UNCHANGED <<use, new, calls, mtx, head, deaths>>

\* kvdb_close, which a program calls when none of its threads is in an operation.
Close(t) ==
    /\ state[use[t]] = "open"
    /\ \A s \in Shares(t) : pc[s] = "out"
    /\ state' = [state EXCEPT ![use[t]] = "closed"]
    /\ Funlock(use[t], {"data", "jnl"})
    /\ UNCHANGED <<use, new, perThread, mtx, head, calls, deaths>>

\* The process of handle h dies: its files are closed, which unlocks them.
Die(h) ==
    /\ deaths < MaxDeaths /\ state[h] # "closed"
    /\ deaths' = deaths + 1
    /\ state' = [state EXCEPT ![h] = "closed"]
    /\ mtx' = [mtx EXCEPT ![h] = None]
    /\ Funlock(h, {"data", "jnl"})
    /\ pc' = [t \in Threads |-> IF use[t] = h THEN "out" ELSE pc[t]]
    /\ op' = [t \in Threads |-> IF use[t] = h THEN "none" ELSE op[t]]
    /\ seen' = [t \in Threads |-> IF use[t] = h THEN 0 ELSE seen[t]]
    /\ UNCHANGED <<use, new, calls, head>>

Step(t) ==
    \/ WriteHead(t) \/ LockData(t) \/ LockJournal(t) \/ LockMutex(t)
    \/ Reads(t) \/ ReadCount(t) \/ WriteCount(t)
    \/ UnlockMutex(t) \/ UnlockFirst(t) \/ UnlockSecond(t)

Next ==
    \/ \E t \in Threads : Open(t) \/ Step(t) \/ Close(t) \/ \E o \in {"put", "get"} : Call(t, o)
    \/ \E h \in Handles : Die(h)

Spec == Init /\ [][Next]_lockVars

\* A thread inside of an operation runs on; callers call as they like.
FairSpec == Spec /\ \A t \in Threads : WF_lockVars(Step(t))
------------------------------------------------------------------------------
PCs == {"out", "init", "d", "j", "m", "first", "second"} \cup Inside

LocksTypeOK ==
    /\ use \in [Threads -> Handles]
    /\ new \in BOOLEAN /\ headed \in BOOLEAN
    /\ pc \in [Threads -> PCs]
    /\ op \in [Threads -> {"none", "recover", "put", "get"}]
    /\ state \in [Handles -> {"closed", "opening", "open"}]
    /\ file \in [{"data", "jnl"} -> Handles \cup {None}]
    /\ mtx \in [Handles -> Threads \cup {None}]
    /\ nr \in Nat /\ added \in Nat
    /\ seen \in [Threads -> Nat]
    /\ calls \in 0 .. MaxCalls
    /\ deaths \in 0 .. MaxDeaths

\* Two threads are inside of operations on the files together only if they have
\* different handles and one of the handles serves several threads: what unlocks
\* the files for one of these (kvdb.c:326-328) unlocks them for the others.
Exclusion ==
    \A s, t \in Threads :
        s # t /\ pc[s] \in Inside /\ pc[t] \in Inside =>
            use[s] # use[t] /\ (Shares(s) # {s} \/ Shares(t) # {t})

\* Thread t has called flock on file f and not yet unlocked it.
Holding(t, f) ==
    \/ pc[t] \in Inside \cup {"m", "first"}
    \/ pc[t] = "j" /\ f = "data"
    \/ pc[t] = "second" /\ (f = "data" <=> op[t] = "recover")

\* A file is locked for a handle only while one of its threads is in an operation
\* that took the lock: no path of kvdb_put, kvdb_get and recover leaves one behind,
\* whoever unlocked what for whom.
NoLockLeft ==
    \A f \in {"data", "jnl"} : file[f] # None =>
        \E t \in Threads : use[t] = file[f] /\ Holding(t, f)

\* The threads of one handle, or handles of one thread each.
OneHandle == \A s, t \in Threads : use[s] = use[t]
OneThreadEach == \A s, t \in Threads : use[s] = use[t] => s = t

\* In both uses no count of a journal entry (kvdb.c:269-273) is lost, when the
\* journal has been there from the start.
CountKept == (OneHandle \/ OneThreadEach) /\ ~new => nr = added

\* The mutex of a handle is held by its thread that is inside.
MutexHeld == \A t \in Threads : pc[t] \in Inside <=> mtx[use[t]] = t

\* A handle of one thread has the files locked from flock to LOCK_UN.
FilesHeld ==
    \A t \in Threads : Shares(t) = {t} =>
        /\ pc[t] \in Inside \cup {"j", "m", "first"} => file["data"] = use[t]
        /\ pc[t] \in Inside \cup {"m", "first"} => file["jnl"] = use[t]

CountInv ==
    (OneHandle \/ OneThreadEach) /\ ~new =>
        /\ headed /\ nr = added
        /\ \A t \in Threads : pc[t] # "init" /\ (pc[t] = "write" => seen[t] = nr)

\* The inductive invariant: why Exclusion and CountKept hold after every step.
LocksInv == LocksTypeOK /\ MutexHeld /\ FilesHeld /\ CountInv

\* Whatever locks they wait for, all operations that have begun end: there is no
\* cycle through the two files and the mutexes.
Finishes == \A t \in Threads : [](pc[t] # "out" => <>(pc[t] = "out"))

\* kvdb.c:140: kvdb_open initializes a journal that has not been initialized, so
\* the count in the head never falls.
HeadKept == [][nr' >= nr]_lockVars
=============================================================================
