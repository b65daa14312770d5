--------------------------- MODULE StoreContract ---------------------------
(***************************************************************************)
(* What TableStore.storeTable promises: rows of the batch are committed    *)
(* some at a time; a call that returns reports how many were committed and *)
(* which were not; a call that throws reports nothing, but what was        *)
(* committed stays.  Nothing is committed after the end.                   *)
(***************************************************************************)
EXTENDS Integers, FiniteSets

VARIABLES
  batch,      \* indices of the rows of the batch
  committed,  \* the ones the database holds
  outcome,    \* "running", "returned" or "threw"
  result      \* the StoreResult: stored and failedIndices

Init ==
  /\ committed = {} /\ outcome = "running"
  /\ result = [stored |-> 0, failedIndices |-> {}]

Commit ==
  /\ outcome = "running"
  /\ \E in \in SUBSET (batch \ committed) : committed' = committed \cup in
  /\ UNCHANGED <<batch, outcome, result>>

Return ==
  /\ outcome = "running" /\ outcome' = "returned"
  /\ result' = [stored |-> Cardinality(committed),
                failedIndices |-> batch \ committed]
  /\ UNCHANGED <<batch, committed>>

Throw ==
  /\ outcome = "running" /\ outcome' = "threw"
  /\ UNCHANGED <<batch, committed, result>>

Next == Commit \/ Return \/ Throw

Spec == Init /\ [][Next]_<<batch, committed, outcome, result>>
=============================================================================
