------------------------------ MODULE KeyQueue ------------------------------
(***************************************************************************)
(* The key queue of the native platform: native/devices/input.c with the   *)
(* late initialisation of native/ioe.c, on processor 0.  All contexts of   *)
(* the program run on one host thread, which an interrupt takes from one   *)
(* to another while it executes the program's own text; the event thread   *)
(* is a second host thread.  SDL's mutex is recursive, a NULL one locks    *)
(* nothing.  The first call of _ioe_init has returned.  Keys are numbered  *)
(* as they are pressed; keys without a code and SDL_QUIT are left out, and *)
(* so are two event threads: nothing is followed from there.               *)
(***************************************************************************)
EXTENDS Integers, Sequences

CONSTANTS
    Readers,        \* the contexts that read keys
    KeyQueueLen,    \* KEY_QUEUE_LEN
    MaxKeys,        \* bound: keys pressed
    MaxSwitches     \* bound: interrupts that change the context

KeyNone == 0

ASSUME KeyAssumption ==
    KeyQueueLen \in Nat \ {0, 1} /\ MaxKeys \in Nat /\ MaxSwitches \in Nat

VARIABLES
    initFlag,       \* init_flag
    inits,          \* calls of __am_input_init: above 0, key_queue_lock is set
    lock,           \* who holds it, and how many times
    ring, keyF, keyR,
    running,        \* the context on the program's host thread
    pc, taken, slot, \* per context: where it is, k, the key_f it has loaded
    eventPc, pressed, \* the event thread, the keys it has got from SDL
    got,            \* the keys __am_input_read has returned, in order
    switches,
    inInit, inRead, lapped \* history: an interrupt in one or the other, key_r met key_f

keyVars == <<initFlag, inits, lock, ring, keyF, keyR, running, pc, taken, slot,
             eventPc, pressed, got, switches, inInit, inRead, lapped>>
initVars == <<initFlag, inits>>
ringVars == <<ring, keyF, keyR, lapped>>
eventVars == <<eventPc, pressed>>
keyHistory == <<switches, inInit, inRead, running>>

Free == [owner |-> "none", depth |-> 0]

KeyInit ==
    /\ initFlag = 1 /\ inits = 0 /\ lock = Free
    /\ ring = [i \in 0 .. KeyQueueLen - 1 |-> KeyNone] /\ keyF = 0 /\ keyR = 0
    /\ running \in Readers
    /\ pc = [t \in Readers |-> "idle"]
    /\ taken = [t \in Readers |-> KeyNone] /\ slot = [t \in Readers |-> 0]
    /\ eventPc = "wait" /\ pressed = 0 /\ got = << >>
    /\ switches = 0 /\ inInit = FALSE /\ inRead = FALSE /\ lapped = FALSE

Successor(i) == (i + 1) % KeyQueueLen

MayLock(who) == inits = 0 \/ lock.owner \in {"none", who}
Locked(who) == IF inits = 0 THEN lock ELSE [owner |-> who, depth |-> lock.depth + 1]
Unlocked(who) ==
    IF inits = 0 \/ lock.owner # who THEN lock
    ELSE IF lock.depth = 1 THEN Free ELSE [lock EXCEPT !.depth = @ - 1]

At(t, here) == inits < 2 /\ running = t /\ pc[t] = here
Goes(t, there) == pc' = [pc EXCEPT ![t] = there]
------------------------------------------------------------------------------
(***************************************************************************)
(* _io_read and __am_input_read                                            *)
(***************************************************************************)
Call(t) ==
    /\ At(t, "idle")
    /\ Goes(t, IF initFlag = 1 THEN "init" ELSE "lock")
    /\ UNCHANGED <<initVars, lock, ringVars, taken, slot, eventVars, got, keyHistory>>

IoeInit(t) ==
    /\ At(t, "init")
    /\ initFlag' = initFlag + 1
    /\ Goes(t, "create")
    /\ UNCHANGED <<inits, lock, ringVars, taken, slot, eventVars, got, keyHistory>>

InputInit(t) ==
    /\ At(t, "create")
    /\ inits' = inits + 1
    /\ Goes(t, "lock")
    /\ UNCHANGED <<initFlag, lock, ringVars, taken, slot, eventVars, got, keyHistory>>

ReadLock(t) ==
    /\ At(t, "lock") /\ MayLock("program")
    /\ lock' = Locked("program")
    /\ Goes(t, "take")
    /\ UNCHANGED <<initVars, ringVars, taken, slot, eventVars, got, keyHistory>>

\* Faulty variant: full and empty are mixed up, an empty queue is read.
TakeAlways(t) ==
    /\ At(t, "take")
    /\ slot' = [slot EXCEPT ![t] = keyF]
    /\ taken' = [taken EXCEPT ![t] = ring[keyF]] /\ Goes(t, "advance")
    /\ UNCHANGED <<initVars, lock, ringVars, eventVars, got, keyHistory>>

\* Faulty variant: the test is one key off.
TakeNotLast(t) ==
    /\ At(t, "take")
    /\ slot' = [slot EXCEPT ![t] = keyF]
    /\ IF Successor(keyF) # keyR /\ keyF # keyR
         THEN taken' = [taken EXCEPT ![t] = ring[keyF]] /\ Goes(t, "advance")
         ELSE taken' = [taken EXCEPT ![t] = KeyNone] /\ Goes(t, "unlock")
    /\ UNCHANGED <<initVars, lock, ringVars, eventVars, got, keyHistory>>

Take(t) ==
    /\ At(t, "take")
    /\ slot' = [slot EXCEPT ![t] = keyF]
    /\ IF keyF # keyR
         THEN taken' = [taken EXCEPT ![t] = ring[keyF]] /\ Goes(t, "advance")
         ELSE taken' = [taken EXCEPT ![t] = KeyNone] /\ Goes(t, "unlock")
    /\ UNCHANGED <<initVars, lock, ringVars, eventVars, got, keyHistory>>

\* key_f may have been kept in a register since the test.
Advance(t) ==
    /\ At(t, "advance")
    /\ \E f \in {keyF, slot[t]} : keyF' = Successor(f)
    /\ Goes(t, "unlock")
    /\ UNCHANGED <<initVars, lock, ring, keyR, lapped, taken, slot, eventVars, got, keyHistory>>

\* Faulty variant: an empty queue is returned from before the unlock.
ReadUnlockIfTaken(t) ==
    /\ At(t, "unlock")
    /\ lock' = IF taken[t] = KeyNone THEN lock ELSE Unlocked("program")
    /\ got' = IF taken[t] = KeyNone THEN got ELSE Append(got, taken[t])
    /\ Goes(t, "idle")
    /\ UNCHANGED <<initVars, ringVars, taken, slot, eventVars, keyHistory>>

ReadUnlock(t) ==
    /\ At(t, "unlock")
    /\ lock' = Unlocked("program")
    /\ got' = IF taken[t] = KeyNone THEN got ELSE Append(got, taken[t])
    /\ Goes(t, "idle")
    /\ UNCHANGED <<initVars, ringVars, taken, slot, eventVars, keyHistory>>

\* A timer or key interrupt is refused within shared libraries only.
Interrupt(t) ==
    /\ inits < 2 /\ switches < MaxSwitches
    /\ t # running /\ running' = t
    /\ switches' = switches + 1
    /\ inInit' = (inInit \/ pc[running] \in {"init", "create"})
    /\ inRead' = (inRead \/ pc[running] \in {"take", "advance", "unlock"})
    /\ UNCHANGED <<initVars, lock, ringVars, pc, taken, slot, eventVars, got>>

Reader(t) ==
    \/ Call(t) \/ IoeInit(t) \/ InputInit(t) \/ ReadLock(t)
    \/ Take(t) \/ Advance(t) \/ ReadUnlock(t)
------------------------------------------------------------------------------
(***************************************************************************)
(* event_thread                                                            *)
(***************************************************************************)
WaitEvent ==
    /\ inits = 1 /\ eventPc = "wait" /\ pressed < MaxKeys
    /\ pressed' = pressed + 1
    /\ eventPc' = "lock"
    /\ UNCHANGED <<initVars, lock, ringVars, pc, taken, slot, got, keyHistory>>

EventLock ==
    /\ inits = 1 /\ eventPc = "lock" /\ MayLock("event")
    /\ lock' = Locked("event")
    /\ eventPc' = "store"
    /\ UNCHANGED <<initVars, ringVars, pc, taken, slot, pressed, got, keyHistory>>

Store ==
    /\ inits = 1 /\ eventPc = "store"
    /\ ring' = [ring EXCEPT ![keyR] = pressed]
    /\ eventPc' = "bump"
    /\ UNCHANGED <<initVars, lock, keyF, keyR, lapped, pc, taken, slot, pressed, got, keyHistory>>

Bump ==
    /\ inits = 1 /\ eventPc = "bump"
    /\ keyR' = Successor(keyR)
    /\ lapped' = (lapped \/ keyR' = keyF)
    /\ eventPc' = "unlock"
    /\ UNCHANGED <<initVars, lock, ring, keyF, pc, taken, slot, pressed, got, keyHistory>>

\* The SIGUSR1 that follows is one more interrupt, or is refused.
EventUnlock ==
    /\ inits = 1 /\ eventPc = "unlock"
    /\ lock' = Unlocked("event")
    /\ eventPc' = "wait"
    /\ UNCHANGED <<initVars, ringVars, pc, taken, slot, pressed, got, keyHistory>>

EventThread == WaitEvent \/ EventLock \/ Store \/ Bump \/ EventUnlock

KeyNext == EventThread \/ \E t \in Readers : Reader(t) \/ Interrupt(t)

\* The host runs both threads, and nothing makes the user press a key.
KeySpec ==
    /\ KeyInit /\ [][KeyNext]_keyVars
    /\ WF_keyVars(EventLock \/ Store \/ Bump \/ EventUnlock)
    /\ WF_keyVars(\E t \in Readers : Reader(t))
------------------------------------------------------------------------------
Undisturbed == ~inInit /\ ~inRead

\* The program and the event thread are never both between lock and unlock, and the
\* mutex is taken as often as it is given back, although contexts share its owner.
MutexKept ==
    ~inInit /\ inits = 1 =>
        LET inside == {t \in Readers : pc[t] \in {"take", "advance", "unlock"}}
        IN  /\ eventPc \in {"store", "bump", "unlock"} => inside = {}
            /\ lock.owner = "none" => inside = {}
            /\ lock.depth <= 1 \/ inRead

\* The first read starts one event thread, unless an interrupt comes between its
\* look at init_flag and the increment.
OneEventThread == inits = 2 => inInit

\* The late initialisation makes one event thread and one mutex, and the two threads of
\* the host exclude each other by it.
OneMutex == OneEventThread /\ MutexKept

\* Keys arrive in order and once, as long as no interrupt lets one context read while
\* another is in the middle of it.  Keys are lost only once a whole ring waits, and
\* then a whole ring of them.
KeysInOrder ==
    Undisturbed =>
        \A i \in DOMAIN got :
            /\ i > 1 => got[i] > got[i - 1]
            /\ (got[i] - i) % KeyQueueLen = 0
            /\ ~lapped => got[i] = i

\* A context that goes on reading gets every key that was pressed.
AllRead ==
    <>[](inits = 1 /\ Undisturbed /\ ~lapped /\ eventPc = "wait" => Len(got) = pressed)
=============================================================================
