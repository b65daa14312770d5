---------------------------- MODULE MCCopyStore ----------------------------
(***************************************************************************)
(* Batches of a few rows.  The database only compares keys, so one column  *)
(* stands for all that differ from it by a renaming of the keys: a key     *)
(* that appears for the first time is the least one not used before.       *)
(***************************************************************************)
EXTENDS CopyStore

MCKeyColumns ==
  [n \in BatchSizes |->
     {k \in [0..(n - 1) -> 0..(n - 1)] :
        \A r \in DOMAIN k : k[r] <= Cardinality({k[s] : s \in 0..(r - 1)})}]
=============================================================================
