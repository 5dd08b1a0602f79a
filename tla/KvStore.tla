------------------------------- MODULE KvStore -------------------------------
(***************************************************************************)
(* What libkvdb promises: a put takes effect at one moment between its     *)
(* call and its return, or, when the process dies during the call, at some *)
(* moment up to the end of the next recovery or not at all.  A get returns *)
(* the value of the last put of its key that took effect.                  *)
(***************************************************************************)
CONSTANTS Keys, Values,
          NoValue,      \* what kvdb_get returns for a key without a value
          NoPut         \* no put is in progress

VARIABLES
    store,      \* the value of every key
    inflight,   \* the put that has been called and has not taken effect
    busy,       \* a caller is inside of kvdb_put
    got         \* the key of the last get and what it returned

vars == <<store, inflight, busy, got>>

Init ==
    /\ store = [k \in Keys |-> NoValue]
    /\ inflight = NoPut
    /\ busy = FALSE
    /\ got = NoPut

Call(k, v) ==
    /\ ~busy /\ inflight = NoPut
    /\ busy' = TRUE
    /\ inflight' = [key |-> k, val |-> v]
    /\ UNCHANGED <<store, got>>

TakeEffect ==
    /\ inflight # NoPut
    /\ store' = [store EXCEPT ![inflight.key] = inflight.val]
    /\ inflight' = NoPut
    /\ UNCHANGED <<busy, got>>

Return ==
    /\ busy /\ inflight = NoPut
    /\ busy' = FALSE
    /\ UNCHANGED <<store, inflight, got>>

Crash == busy /\ busy' = FALSE /\ UNCHANGED <<store, inflight, got>>

\* Recovery ends: a put that has not taken effect by now never will.
Recover ==
    /\ ~busy /\ inflight # NoPut
    /\ inflight' = NoPut
    /\ UNCHANGED <<store, busy, got>>

Get(k) ==
    /\ ~busy
    /\ got' = [key |-> k, val |-> store[k]]
    /\ UNCHANGED <<store, inflight, busy>>

Next ==
    \/ \E k \in Keys : Get(k) \/ \E v \in Values : Call(k, v)
    \/ TakeEffect \/ Return \/ Crash \/ Recover

Spec == Init /\ [][Next]_vars
=============================================================================
