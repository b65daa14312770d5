------------------------------ MODULE TopoSort ------------------------------
(***************************************************************************)
(* TopoSort of app/pg_ozerki/sort.c: one pass that puts the dumpable       *)
(* objects in an order that respects their dependencies, or reports the    *)
(* ones it could not place.  It works backwards: of the objects no         *)
(* unplaced object depends on, the last one of the input goes to the last  *)
(* free place of the output.                                               *)
(*                                                                         *)
(* An object is its index in the input.  Init chooses the dependency       *)
(* lists; an object may list itself, and another one more than once.       *)
(***************************************************************************)
EXTENDS Integers, Sequences, FiniteSets

CONSTANTS
  NumObjs,   \* numObjs
  DepLists   \* the dependency lists of all objects, as functions

Objs == 1..NumObjs

ASSUME TopoSortAssumption ==
  /\ NumObjs \in Nat
  /\ DepLists \subseteq [Objs -> Seq(Objs)]

VARIABLES
  deps,      \* dependencies[] of each object
  before,    \* beforeConstraints[]
  heap,      \* pendingHeap
  ordering,  \* the part of ordering[] that is filled, from the end
  pc         \* "emit", "sorted" or "failed"

vars == <<deps, before, heap, ordering, pc>>

-----------------------------------------------------------------------------

(* The entries of the lists of the objects in S that name k.               *)
Entries(S, k) ==
  {e \in UNION {{i} \X DOMAIN deps[i] : i \in S} : deps[e[1]][e[2]] = k}

DependsOn(i, k) == \E n \in DOMAIN deps[i] : deps[i][n] = k

(* The scan of the constraints: entries that say k must be before another. *)
CountOnce(k) == Cardinality({i \in Objs : DependsOn(i, k)})
CountOf(k) == Cardinality(Entries(Objs, k))

Init ==
  /\ deps \in DepLists
  /\ before = [k \in Objs |-> CountOf(k)]
  /\ heap = {k \in Objs : before[k] = 0}
  /\ ordering = <<>>
  /\ pc = "emit"

(* binaryheap_remove_first with int_cmp: the largest index.                *)
Smallest(h) == CHOOSE j \in h : \A k \in h : j <= k
First(h) == CHOOSE j \in h : \A k \in h : k <= j

(* The count of k after j is placed: one less for every entry of j's list. *)
OncePerObject(j, k) == IF DependsOn(j, k) THEN before[k] - 1 ELSE before[k]
Decreased(j, k) == before[k] - Cardinality(Entries({j}, k))

(* j is output in front of what is there already; the objects whose count  *)
(* reaches zero are ready.                                                 *)
Emit ==
  LET j == First(heap) IN
  /\ pc = "emit" /\ heap # {}
  /\ ordering' = <<j>> \o ordering
  /\ before' = [k \in Objs |-> Decreased(j, k)]
  /\ heap' = (heap \ {j})
               \cup {k \in Objs : DependsOn(j, k) /\ before'[k] = 0}
  /\ UNCHANGED <<deps, pc>>

(* The objects that are returned when some could not be placed.            *)
Leftovers == {j \in Objs : before[j] # 0}

(* The heap is empty.                                                      *)
Succeeded == Len(ordering) = NumObjs
Stop ==
  /\ pc = "emit" /\ heap = {}
  /\ pc' = IF Succeeded THEN "sorted" ELSE "failed"
  /\ UNCHANGED <<deps, before, heap, ordering>>

Next == Emit \/ Stop

Spec == Init /\ [][Next]_vars

-----------------------------------------------------------------------------
(* Properties.                                                             *)

Placed == {ordering[n] : n \in DOMAIN ordering}

(* Every variable keeps its range; no count drops below zero and no object *)
(* is in the output twice.                                                 *)
TypeOK ==
  /\ deps \in [Objs -> Seq(Objs)]
  /\ before \in [Objs -> Nat]
  /\ heap \in SUBSET Objs
  /\ ordering \in Seq(Objs) /\ Cardinality(Placed) = Len(ordering)
  /\ pc \in {"emit", "sorted", "failed"}

(* The output has every object, after all the objects it depends on.       *)
OutputRespectsDeps ==
  pc = "sorted" =>
    /\ Placed = Objs
    /\ \A n \in DOMAIN ordering : \A k \in Objs :
          DependsOn(ordering[n], k) => \E m \in 1..(n - 1) : ordering[m] = k

(* The leftovers are exactly the objects that are on a cycle or that one   *)
(* on a cycle depends on, directly or not: findDependencyLoops is called   *)
(* only when there is a cycle, and is given every object of every cycle.   *)
Stuck ==
  UNION {S \in SUBSET Objs : \A k \in S : \E i \in S : DependsOn(i, k)}
FailureIsExact ==
  /\ pc = "sorted" => Stuck = {}
  /\ pc = "failed" => Stuck # {} /\ Leftovers = Stuck

(* "We would like to minimize unnecessary rearrangement of the input       *)
(* ordering": two neighbours of the output are in the opposite order of    *)
(* the input only if the second depends on the first.                      *)
InversionsJustified ==
  \A n \in 1..(Len(ordering) - 1) :
     ordering[n] > ordering[n + 1] => DependsOn(ordering[n + 1], ordering[n])
=============================================================================
