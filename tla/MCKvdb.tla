------------------------------- MODULE MCKvdb -------------------------------
(***************************************************************************)
(* TLC instances of Kvdb.                                                  *)
(***************************************************************************)
EXTENDS Kvdb, TLC

Symmetric == Permutations(Keys) \cup Permutations(Values)

\* Every point of kvdb_put and recover where the process may die.
EveryPoint == {"data", "log_find", "log_head", "log_entry", "log_short", "log_end",
               "record", "log_free", "put_stuck", "rec_entry", "rec_scan", "rec_free"}
=============================================================================
