---------------------------- MODULE BracketCheck ----------------------------
(***************************************************************************)
(* What kernel/bracketcheck/bracketcheck.c accepts: a log of '(' and ')'   *)
(* whose running depth never leaves 0..MaxDepth.  This is the promise the  *)
(* semaphores of the kernel make to the producer/consumer test, and the    *)
(* abstract specification the detailed modules are shown to implement.     *)
(***************************************************************************)
EXTENDS Naturals

CONSTANT MaxDepth   \* the literal 5 of the assertion

VARIABLE depth      \* `bra' of the checker

Init == depth = 0

\* The next character of the log is '('.
Open ==
    /\ depth < MaxDepth
    /\ depth' = depth + 1

\* The next character of the log is ')'.
Close ==
    /\ depth > 0
    /\ depth' = depth - 1

Next == Open \/ Close

Spec == Init /\ [][Next]_depth
=============================================================================
