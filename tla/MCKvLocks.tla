------------------------------ MODULE MCKvLocks ------------------------------
(***************************************************************************)
(* TLC instances of KvLocks with three threads: all of one handle, two of  *)
(* one and one of another, each with a handle of its own.                  *)
(***************************************************************************)
EXTENDS KvLocks, TLC

CONSTANTS t1, t2, t3, h1, h2, h3

Partitions == {(t1 :> h1) @@ (t2 :> h1) @@ (t3 :> h1),
               (t1 :> h1) @@ (t2 :> h1) @@ (t3 :> h2),
               (t1 :> h1) @@ (t2 :> h2) @@ (t3 :> h3)}
=============================================================================
