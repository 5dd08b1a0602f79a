-------------------------------- MODULE MCKmt --------------------------------
(***************************************************************************)
(* TLC instances of Kmt.  Threads are their ids: with two processors the   *)
(* even ones live on processor 0 and the odd ones on processor 1.          *)
(***************************************************************************)
EXTENDS Kmt

FirstHalf == {0, 1}
SecondHalf == {2, 3}
=============================================================================
