------------------------------ MODULE AddrSpace ------------------------------
(***************************************************************************)
(* What _protect, _map and _unprotect of am.h promise: an address space is *)
(* a partial map from user pages to physical pages and protections.  A     *)
(* call that would map a mapped page or unmap one that is not, or that     *)
(* finds no memory, stops the machine.                                     *)
(***************************************************************************)
CONSTANTS Spaces, UserPages, Frames, Unmapped

VARIABLES
    live,       \* the address spaces between _protect and _unprotect
    maps,       \* per address space: the map
    stopped

asVars == <<live, maps, stopped>>

Targets == [to : Frames, w : BOOLEAN] \cup {Unmapped}
NoMap == [v \in UserPages |-> Unmapped]

ASInit == live = {} /\ maps = [s \in Spaces |-> NoMap] /\ stopped = FALSE

\* A new address space is empty, whatever was in an earlier one.
Protect(s) ==
    /\ s \notin live
    /\ live' = live \cup {s}
    /\ maps' = [maps EXCEPT ![s] = NoMap]

MapTo(s, v, t) ==
    /\ s \in live
    /\ (maps[s][v] = Unmapped) # (t = Unmapped)
    /\ maps' = [maps EXCEPT ![s][v] = t]
    /\ UNCHANGED live

Unprotect(s) ==
    /\ s \in live
    /\ live' = live \ {s}
    /\ maps' = [maps EXCEPT ![s] = NoMap]

Stop == stopped' = TRUE /\ UNCHANGED <<live, maps>>

ASNext ==
    /\ ~stopped
    /\ \/ Stop
       \/ /\ UNCHANGED stopped
          /\ \E s \in Spaces :
                \/ Protect(s) \/ Unprotect(s)
                \/ \E v \in UserPages, t \in Targets : MapTo(s, v, t)

ASSpec == ASInit /\ [][ASNext]_asVars
=============================================================================
