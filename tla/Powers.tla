------------------------------- MODULE Powers -------------------------------
(***************************************************************************)
(* Powers of two, as a recursive function: what the loops of pmm.c that    *)
(* double a number run through, and what the shifts of int64.c multiply by *)
(* or divide by.                                                           *)
(***************************************************************************)
EXTENDS Naturals

TwoTo[k \in Nat] == IF k = 0 THEN 1 ELSE 2 * TwoTo[k - 1]

\* The least power of two that is not less than n: where `while (temp < n) temp *= 2` ends.
PowerFor(n) == TwoTo[CHOOSE k \in 0 .. n : TwoTo[k] >= n /\ TwoTo[k] < 2 * n]

\* How many trailing zeros n has in binary.
Zeros(n) == CHOOSE k \in 0 .. n : n % TwoTo[k] = 0 /\ n % TwoTo[k + 1] # 0
=============================================================================
