---------------------------- MODULE OrderedLoad ----------------------------
(***************************************************************************)
(* What DatabaseDataGenerator.generateData promises its caller, whatever   *)
(* the threads do: a table is loaded once, after its parents and beside at *)
(* most Permits - 1 others; the call ends when nothing is being loaded,    *)
(* normally if everything was loaded, otherwise with an exception and with *)
(* every component that had no failure complete.                           *)
(***************************************************************************)
EXTENDS Integers, Sequences, FiniteSets

CONSTANTS
  Levels,   \* for each component, the sequence of its levels of tables
  Parents,  \* for each table, the tables its foreign keys reference
  Permits   \* globStoreThreads

VARIABLES
  status,   \* what became of each table
  outcome   \* how the call ended

LevelTables(c) == UNION {Levels[c][i] : i \in DOMAIN Levels[c]}
Tables == UNION {LevelTables(c) : c \in DOMAIN Levels}

Init ==
  /\ status = [t \in Tables |-> "idle"]
  /\ outcome = "running"

Loading == {t \in Tables : status[t] = "loading"}

Start(t) ==
  /\ outcome = "running" /\ status[t] = "idle"
  /\ \A p \in Parents[t] : status[p] = "loaded"
  /\ Cardinality(Loading) < Permits
  /\ status' = [status EXCEPT ![t] = "loading"]
  /\ UNCHANGED outcome

Finish(t) ==
  /\ status[t] = "loading"
  /\ status' = [status EXCEPT ![t] = "loaded"]
  /\ UNCHANGED outcome

Fail(t) ==
  /\ status[t] = "loading"
  /\ status' = [status EXCEPT ![t] = "failed"]
  /\ UNCHANGED outcome

End ==
  /\ outcome = "running" /\ Loading = {}
  /\ \A c \in DOMAIN Levels :
       \/ \A t \in LevelTables(c) : status[t] = "loaded"
       \/ \E t \in LevelTables(c) : status[t] = "failed"
  /\ outcome' = IF \E t \in Tables : status[t] = "failed"
                THEN "threw" ELSE "returned"
  /\ UNCHANGED status

Next == (\E t \in Tables : Start(t) \/ Finish(t) \/ Fail(t)) \/ End

Spec == Init /\ [][Next]_<<status, outcome>>
=============================================================================
