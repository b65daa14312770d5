-------------------------- MODULE TopoSort_proofs --------------------------
(***************************************************************************)
(* Proofs about TopoSort, for any number of objects and any dependencies.  *)
(***************************************************************************)
EXTENDS TopoSort, FiniteSetTheorems, WellFoundedInduction, TLAPS

(* The count of an object is the number of entries of unplaced objects     *)
(* that name it.                                                           *)
Unplaced == Objs \ Placed
CountInv == \A k \in Objs : before[k] = Cardinality(Entries(Unplaced, k))

(* An object is ready or placed when nothing unplaced depends on it.       *)
HeapInv ==
  /\ heap \cap Placed = {}
  /\ \A k \in Objs : k \in heap \cup Placed <=> before[k] = 0

(* What depends on an object that is placed is placed after it.            *)
OrderInv ==
  \A n \in DOMAIN ordering : \A i \in Objs :
     DependsOn(i, ordering[n]) =>
        \E m \in DOMAIN ordering : n < m /\ ordering[m] = i

(* A ready object that is later in the input than the one placed last      *)
(* became ready by placing that one.                                       *)
FrontInv ==
  ordering # <<>> =>
    \A k \in heap : k > ordering[1] => DependsOn(ordering[1], k)

(* No object of a set in which each has a dependent in the set is placed.  *)
StuckInv == Stuck \cap Placed = {}

EndInv ==
  /\ pc # "emit" => heap = {}
  /\ pc = "sorted" => Len(ordering) = NumObjs
  /\ pc = "failed" => Len(ordering) # NumObjs

IInv ==
  /\ TypeOK
  /\ CountInv
  /\ HeapInv
  /\ OrderInv
  /\ FrontInv
  /\ InversionsJustified
  /\ StuckInv
  /\ EndInv

-----------------------------------------------------------------------------

LEMMA ObjsFinite == IsFiniteSet(Objs) /\ Cardinality(Objs) = NumObjs
  BY TopoSortAssumption, FS_Interval DEF Objs, TopoSortAssumption

(* Entries of a subset of the objects, as triples of finite data.          *)
LEMMA EntriesFinite ==
  ASSUME deps \in [Objs -> Seq(Objs)], NEW S \in SUBSET Objs, NEW k
  PROVE  IsFiniteSet(Entries(S, k)) /\ Cardinality(Entries(S, k)) \in Nat
  <1>1. \A i \in S : IsFiniteSet({i} \X DOMAIN deps[i])
    <2> SUFFICES ASSUME NEW i \in S PROVE IsFiniteSet({i} \X DOMAIN deps[i])
      OBVIOUS
    <2>1. Len(deps[i]) \in Nat /\ DOMAIN deps[i] = 1..Len(deps[i])
      OBVIOUS
    <2>2. IsFiniteSet(DOMAIN deps[i])
      BY <2>1, FS_Interval
    <2> QED
      BY <2>2, FS_Singleton, FS_Product
  <1> DEFINE F == {{i} \X DOMAIN deps[i] : i \in S}
  <1>2. IsFiniteSet(S)
    BY ObjsFinite, FS_Subset
  <1>3. IsFiniteSet(F)
    <2> DEFINE f == [i \in S |-> {i} \X DOMAIN deps[i]]
    <2>1. F = {f[i] : i \in S}
      OBVIOUS
    <2>2. f \in Surjection(S, F)
      BY DEF Surjection
    <2> QED
      BY <1>2, <2>2, FS_Surjection
  <1>4. \A A \in F : IsFiniteSet(A)
    BY <1>1
  <1>5. IsFiniteSet(UNION F)
    BY <1>3, <1>4, FS_UNION
  <1>6. Entries(S, k) \subseteq UNION F
    BY DEF Entries
  <1> QED
    BY <1>5, <1>6, FS_Subset, FS_CardinalityType

LEMMA EntryDef ==
  ASSUME deps \in [Objs -> Seq(Objs)], NEW S \in SUBSET Objs, NEW k
  PROVE  Entries(S, k) # {} <=> \E i \in S : DependsOn(i, k)
  <1>1. ASSUME NEW i \in S, DependsOn(i, k) PROVE Entries(S, k) # {}
    <2>1. PICK n \in DOMAIN deps[i] : deps[i][n] = k
      BY <1>1 DEF DependsOn
    <2>2. <<i, n>> \in Entries(S, k)
      BY <2>1 DEF Entries
    <2> QED
      BY <2>2
  <1>2. ASSUME NEW e \in Entries(S, k) PROVE \E i \in S : DependsOn(i, k)
    <2>1. PICK i \in S : e \in {i} \X DOMAIN deps[i]
      BY DEF Entries
    <2>2. e[1] = i /\ e[2] \in DOMAIN deps[i] /\ deps[e[1]][e[2]] = k
      BY <2>1 DEF Entries
    <2> QED
      BY <2>2 DEF DependsOn
  <1> QED
    BY <1>1, <1>2

(* The entries of S and of one more object do not overlap.                 *)
LEMMA EntriesSplit ==
  ASSUME deps \in [Objs -> Seq(Objs)], NEW S \in SUBSET Objs, NEW j \in S,
         NEW k
  PROVE  Cardinality(Entries(S \ {j}, k))
           = Cardinality(Entries(S, k)) - Cardinality(Entries({j}, k))
  <1>1. Entries(S, k) = Entries(S \ {j}, k) \cup Entries({j}, k)
    BY DEF Entries
  <1>2. Entries(S \ {j}, k) \cap Entries({j}, k) = {}
    BY DEF Entries
  <1>3. /\ IsFiniteSet(Entries(S \ {j}, k)) /\ Cardinality(Entries(S \ {j}, k)) \in Nat
        /\ IsFiniteSet(Entries({j}, k)) /\ Cardinality(Entries({j}, k)) \in Nat
    BY EntriesFinite
  <1>4. Cardinality({}) = 0
    BY FS_EmptySet
  <1> DEFINE A == Entries(S \ {j}, k)
             B == Entries({j}, k)
  <1>5. /\ IsFiniteSet(A) /\ Cardinality(A) \in Nat
        /\ IsFiniteSet(B) /\ Cardinality(B) \in Nat
        /\ A \cap B = {}
    BY <1>2, <1>3
  <1> HIDE DEF A, B
  <1>6. Cardinality(A \cup B) = Cardinality(A) + Cardinality(B)
    <2>1. Cardinality(A \cup B)
            = Cardinality(A) + Cardinality(B) - Cardinality(A \cap B)
      BY <1>5, FS_Union
    <2>2. Cardinality(A \cap B) = 0
      BY <1>4, <1>5
    <2> QED
      BY <1>5, <2>1, <2>2
  <1>7. Cardinality(A) = Cardinality(A \cup B) - Cardinality(B)
    BY <1>5, <1>6
  <1> QED
    BY <1>1, <1>7 DEF A, B

(* The heap's first element is its largest.                                *)
LEMMA FirstOfHeap ==
  ASSUME heap \in SUBSET Objs, heap # {}
  PROVE  First(heap) \in heap /\ \A k \in heap : k <= First(heap)
  <1> DEFINE T == {NumObjs - j : j \in heap}
  <1>1. \A j \in heap : j \in 1..NumObjs /\ NumObjs \in Nat
    BY TopoSortAssumption DEF Objs, TopoSortAssumption
  <1>2. T \subseteq Nat /\ T # {}
    BY <1>1
  <1>3. PICK t \in T : \A u \in T : ~ (<<u, t>> \in OpToRel(<, Nat))
    BY <1>2, NatLessThanWellFounded, WFMin
  <1>4. \A u \in T : ~ (u < t)
    BY <1>2, <1>3 DEF OpToRel
  <1>5. PICK j \in heap : t = NumObjs - j
    BY DEF T
  <1>6. \A k \in heap : k <= j
    <2> SUFFICES ASSUME NEW k \in heap PROVE k <= j
      OBVIOUS
    <2>1. ~ (NumObjs - k < t)
      BY <1>4 DEF T
    <2> QED
      BY <1>1, <1>5, <2>1
  <1> QED
    BY <1>5, <1>6 DEF First

-----------------------------------------------------------------------------

LEMMA InitIInv == Init => IInv
  <1> SUFFICES ASSUME Init PROVE IInv
    OBVIOUS
  <1>1. /\ deps \in [Objs -> Seq(Objs)]
        /\ before = [k \in Objs |-> CountOf(k)]
        /\ heap = {k \in Objs : before[k] = 0}
        /\ ordering = <<>> /\ pc = "emit"
    BY TopoSortAssumption DEF Init, TopoSortAssumption
  <1>2. Placed = {} /\ DOMAIN ordering = {} /\ Len(ordering) = 0
    BY <1>1 DEF Placed
  <1>3. \A k \in Objs : CountOf(k) \in Nat
    BY <1>1, EntriesFinite DEF CountOf
  <1>4. TypeOK
    BY <1>1, <1>2, <1>3, FS_EmptySet DEF TypeOK
  <1>5. CountInv
    BY <1>1, <1>2 DEF CountInv, CountOf, Unplaced
  <1>6. HeapInv
    BY <1>1, <1>2 DEF HeapInv
  <1>7. OrderInv /\ FrontInv /\ StuckInv /\ EndInv /\ InversionsJustified
    BY <1>1, <1>2 DEF OrderInv, FrontInv, StuckInv, EndInv,
                      InversionsJustified
  <1> QED
    BY <1>4, <1>5, <1>6, <1>7 DEF IInv

(* Placing the largest ready object: everything that depends on it is      *)
(* placed already, and its own entries no longer count.                    *)
LEMMA EmitIInv == IInv /\ Emit => IInv'
  <1> SUFFICES ASSUME IInv, Emit PROVE IInv'
    OBVIOUS
  <1> DEFINE j == First(heap)
  <1>1. /\ pc = "emit" /\ heap # {}
        /\ ordering' = <<j>> \o ordering
        /\ before' = [k \in Objs |-> Decreased(j, k)]
        /\ heap' = (heap \ {j})
                     \cup {k \in Objs : DependsOn(j, k) /\ before'[k] = 0}
        /\ UNCHANGED <<deps, pc>>
    BY DEF Emit
  <1>2. /\ TypeOK /\ CountInv /\ HeapInv /\ OrderInv /\ FrontInv
        /\ InversionsJustified /\ StuckInv /\ EndInv
    BY DEF IInv
  <1>3. /\ deps \in [Objs -> Seq(Objs)] /\ before \in [Objs -> Nat]
        /\ heap \in SUBSET Objs /\ ordering \in Seq(Objs)
        /\ Cardinality(Placed) = Len(ordering)
    BY <1>2 DEF TypeOK
  <1>4. j \in heap /\ \A k \in heap : k <= j
    BY <1>1, <1>3, FirstOfHeap
  <1>5. j \in Objs /\ j \notin Placed /\ before[j] = 0
    BY <1>2, <1>3, <1>4 DEF HeapInv
  <1> HIDE DEF j
  <1>6. /\ Len(ordering) \in Nat /\ Len(ordering') = Len(ordering) + 1
        /\ ordering' \in Seq(Objs)
        /\ ordering'[1] = j
        /\ \A n \in 1..Len(ordering) : ordering'[n + 1] = ordering[n]
        /\ DOMAIN ordering = 1..Len(ordering)
        /\ DOMAIN ordering' = 1..(Len(ordering) + 1)
    BY <1>1, <1>3, <1>5
  <1>7. \A n \in DOMAIN ordering' :
           n = 1 \/ (n - 1 \in DOMAIN ordering /\ ordering'[n] = ordering[n - 1])
    BY <1>6
  <1>8. Placed' = Placed \cup {j}
    <2>1. \A x \in Placed' : x \in Placed \cup {j}
      BY <1>6, <1>7 DEF Placed
    <2>2. \A x \in Placed : x \in Placed'
      <3> SUFFICES ASSUME NEW n \in DOMAIN ordering
                   PROVE  ordering[n] \in Placed'
        BY DEF Placed
      <3>1. n + 1 \in DOMAIN ordering' /\ ordering'[n + 1] = ordering[n]
        BY <1>6
      <3> QED
        BY <3>1 DEF Placed
    <2>3. j \in Placed'
      BY <1>6 DEF Placed
    <2> QED
      BY <2>1, <2>2, <2>3
  <1>9. Placed \subseteq Objs /\ IsFiniteSet(Placed)
    <2>1. Placed \subseteq Objs
      BY <1>3 DEF Placed
    <2> QED
      BY <2>1, ObjsFinite, FS_Subset
  <1>10. Cardinality(Placed') = Len(ordering')
    <2>1. Cardinality(Placed \cup {j}) = Cardinality(Placed) + 1
      BY <1>5, <1>9, FS_AddElement
    <2> QED
      BY <1>3, <1>6, <1>8, <2>1
  <1>11. /\ Unplaced \in SUBSET Objs /\ j \in Unplaced
         /\ Unplaced' = Unplaced \ {j}
    BY <1>5, <1>8 DEF Unplaced
  <1>12. \A S, k : Entries(S, k)' = Entries(S, k)
    BY <1>1 DEF Entries
  <1>13. \A i, k : DependsOn(i, k)' = DependsOn(i, k)
    BY <1>1 DEF DependsOn
  <1>14. \A k \in Objs : before'[k] = Cardinality(Entries(Unplaced \ {j}, k))
    <2> SUFFICES ASSUME NEW k \in Objs
                 PROVE  before'[k] = Cardinality(Entries(Unplaced \ {j}, k))
      OBVIOUS
    <2>1. before'[k] = before[k] - Cardinality(Entries({j}, k))
      BY <1>1 DEF Decreased
    <2>2. before[k] = Cardinality(Entries(Unplaced, k))
      BY <1>2 DEF CountInv
    <2> QED
      BY <1>3, <1>11, <2>1, <2>2, EntriesSplit
  <1>15. CountInv'
    BY <1>11, <1>12, <1>14 DEF CountInv
  <1>16. before' \in [Objs -> Nat]
    <2>1. \A k \in Objs : before'[k] \in Nat
      BY <1>3, <1>11, <1>14, EntriesFinite
    <2>2. before' = [k \in Objs |-> before'[k]]
      BY <1>1
    <2> QED
      BY <2>1, <2>2
  <1>17. TypeOK'
    BY <1>1, <1>3, <1>6, <1>10, <1>16 DEF TypeOK
  <1>18. \A i \in Objs : DependsOn(i, j) => i \in Placed
    <2> SUFFICES ASSUME NEW i \in Unplaced PROVE ~DependsOn(i, j)
      BY <1>5 DEF Unplaced
    <2>1. Cardinality(Entries(Unplaced, j)) = 0
      BY <1>2, <1>5 DEF CountInv
    <2>2. Entries(Unplaced, j) = {}
      BY <1>3, <1>11, <2>1, EntriesFinite, FS_EmptySet
    <2> QED
      BY <1>3, <1>11, <2>2, EntryDef
  <1>19. \A k \in Objs : before'[k] = 0 <=>
            before[k] = 0 \/ (DependsOn(j, k) /\ before'[k] = 0)
    <2> SUFFICES ASSUME NEW k \in Objs
                 PROVE  /\ before[k] = 0 => before'[k] = 0
                        /\ ~DependsOn(j, k) => before'[k] = before[k]
      OBVIOUS
    <2>1. before'[k] = before[k] - Cardinality(Entries({j}, k))
      BY <1>1 DEF Decreased
    <2>2. Cardinality(Entries({j}, k)) \in Nat /\ IsFiniteSet(Entries({j}, k))
      BY <1>3, <1>5, EntriesFinite
    <2>3. ~DependsOn(j, k) => Entries({j}, k) = {}
      <3>1. {j} \in SUBSET Objs
        BY <1>5
      <3>2. Entries({j}, k) # {} <=> \E i \in {j} : DependsOn(i, k)
        BY <1>3, <3>1, EntryDef
      <3> QED
        BY <3>2
    <2>4. ~DependsOn(j, k) => Cardinality(Entries({j}, k)) = 0
      BY <2>2, <2>3, FS_EmptySet
    <2> QED
      BY <1>3, <1>16, <2>1, <2>2, <2>4
  <1>20. HeapInv'
    <2>1. heap' \cap Placed' = {}
      <3> SUFFICES ASSUME NEW k \in heap', k \in Placed' PROVE FALSE
        OBVIOUS
      <3>1. k \notin heap \ {j}
        BY <1>2, <1>8 DEF HeapInv
      <3>2. k \in Objs /\ DependsOn(j, k) /\ before'[k] = 0
        BY <1>1, <3>1
      <3>3. before[k] = 0
        BY <1>2, <1>5, <1>8, <3>2 DEF HeapInv
      <3>4. Entries(Unplaced, k) # {}
        BY <1>3, <1>11, <3>2, EntryDef
      <3>5. Cardinality(Entries(Unplaced, k)) = 0
        BY <1>2, <3>2, <3>3 DEF CountInv
      <3> QED
        BY <1>3, <1>11, <3>4, <3>5, EntriesFinite, FS_EmptySet
    <2>2. \A k \in Objs : k \in heap' \cup Placed' <=> before'[k] = 0
      BY <1>1, <1>2, <1>4, <1>8, <1>19 DEF HeapInv
    <2> QED
      BY <2>1, <2>2 DEF HeapInv
  <1>21. OrderInv'
    <2> SUFFICES ASSUME NEW n \in DOMAIN ordering', NEW i \in Objs,
                        DependsOn(i, ordering'[n])
                 PROVE  \E m \in DOMAIN ordering' : n < m /\ ordering'[m] = i
      BY <1>13 DEF OrderInv
    <2>1. CASE n = 1
      <3>1. PICK m \in DOMAIN ordering : ordering[m] = i
        BY <1>6, <1>18, <2>1 DEF Placed
      <3>2. m + 1 \in DOMAIN ordering' /\ ordering'[m + 1] = i /\ 1 < m + 1
        BY <1>6, <3>1
      <3> QED
        BY <2>1, <3>2
    <2>2. CASE n # 1
      <3>1. n - 1 \in DOMAIN ordering /\ ordering'[n] = ordering[n - 1]
        BY <1>7, <2>2
      <3>2. PICK m \in DOMAIN ordering : n - 1 < m /\ ordering[m] = i
        BY <1>2, <3>1 DEF OrderInv
      <3>3. m + 1 \in DOMAIN ordering' /\ ordering'[m + 1] = i /\ n < m + 1
        BY <1>6, <3>1, <3>2
      <3> QED
        BY <3>3
    <2> QED
      BY <2>1, <2>2
  <1>22. FrontInv'
    <2> SUFFICES ASSUME NEW k \in heap', k > j PROVE DependsOn(j, k)
      BY <1>6, <1>13 DEF FrontInv
    <2>1. k \notin heap \ {j}
      <3>1. \A x \in heap : x \in Int /\ j \in Int
        BY <1>3, <1>5 DEF Objs
      <3> QED
        BY <1>4, <3>1
    <2> QED
      BY <1>1, <2>1
  <1>23. InversionsJustified'
    <2> SUFFICES ASSUME NEW n \in 1..(Len(ordering') - 1),
                        ordering'[n] > ordering'[n + 1]
                 PROVE  DependsOn(ordering'[n + 1], ordering'[n])
      BY <1>13 DEF InversionsJustified
    <2>1. CASE n = 1
      <3>1. ordering # <<>> /\ ordering'[2] = ordering[1]
        BY <1>6, <2>1
      <3> QED
        BY <1>2, <1>4, <1>6, <2>1, <3>1 DEF FrontInv
    <2>2. CASE n # 1
      <3>1. n - 1 \in 1..(Len(ordering) - 1)
        BY <1>6, <2>2
      <3>2. ordering'[n] = ordering[n - 1] /\ ordering'[n + 1] = ordering[n]
        BY <1>6, <3>1
      <3> QED
        BY <1>2, <3>1, <3>2 DEF InversionsJustified
    <2> QED
      BY <2>1, <2>2
  <1>24. StuckInv'
    <2>1. Stuck' = Stuck
      BY <1>13 DEF Stuck
    <2>2. j \notin Stuck
      <3> SUFFICES ASSUME j \in Stuck PROVE FALSE
        OBVIOUS
      <3>1. PICK i \in Stuck : DependsOn(i, j) /\ i \in Objs
        BY DEF Stuck
      <3> QED
        BY <1>2, <1>18, <3>1 DEF StuckInv
    <2> QED
      BY <1>2, <1>8, <2>1, <2>2 DEF StuckInv
  <1>25. EndInv'
    BY <1>1 DEF EndInv
  <1> QED
    BY <1>15, <1>17, <1>20, <1>21, <1>22, <1>23, <1>24, <1>25 DEF IInv

(* The conjuncts that do not speak of pc.                                  *)
LEMMA FrameIInv ==
  ASSUME IInv, UNCHANGED <<deps, before, heap, ordering>>
  PROVE  /\ CountInv' /\ HeapInv' /\ OrderInv' /\ FrontInv'
         /\ InversionsJustified' /\ StuckInv'
  <1>1. /\ deps' = deps /\ before' = before /\ heap' = heap
        /\ ordering' = ordering
    OBVIOUS
  <1>2. Placed' = Placed /\ Unplaced' = Unplaced
    BY <1>1 DEF Placed, Unplaced
  <1>3. \A S, k : Entries(S, k)' = Entries(S, k)
    BY <1>1 DEF Entries
  <1>4. \A i, k : DependsOn(i, k)' = DependsOn(i, k)
    BY <1>1 DEF DependsOn
  <1>5. CountInv' /\ HeapInv'
    BY <1>1, <1>2, <1>3 DEF IInv, CountInv, HeapInv
  <1>6. OrderInv' /\ FrontInv' /\ InversionsJustified'
    BY <1>1, <1>4 DEF IInv, OrderInv, FrontInv, InversionsJustified
  <1>7. Stuck' = Stuck
    BY <1>4 DEF Stuck
  <1> QED
    BY <1>2, <1>5, <1>6, <1>7 DEF IInv, StuckInv

LEMMA StopIInv == IInv /\ Stop => IInv'
  <1> SUFFICES ASSUME IInv, Stop PROVE IInv'
    OBVIOUS
  <1>1. /\ heap = {} /\ UNCHANGED <<deps, before, heap, ordering>>
        /\ pc' = IF Len(ordering) = NumObjs THEN "sorted" ELSE "failed"
    BY DEF Stop, Succeeded
  <1>2. TypeOK'
    BY <1>1 DEF IInv, TypeOK, Placed
  <1>3. EndInv'
    BY <1>1 DEF EndInv
  <1> QED
    BY <1>1, <1>2, <1>3, FrameIInv DEF IInv

LEMMA Invariance == Spec => []IInv
  <1>1. IInv /\ UNCHANGED vars => IInv'
    <2> SUFFICES ASSUME IInv, UNCHANGED vars PROVE IInv'
      OBVIOUS
    <2>1. UNCHANGED <<deps, before, heap, ordering>> /\ UNCHANGED pc
      BY DEF vars
    <2>2. EndInv' /\ TypeOK'
      BY <2>1 DEF IInv, EndInv, TypeOK, Placed
    <2> QED
      BY <2>1, <2>2, FrameIInv DEF IInv
  <1>2. IInv /\ [Next]_vars => IInv'
    BY <1>1, EmitIInv, StopIInv DEF Next
  <1> QED
    BY InitIInv, <1>2, PTL DEF Spec

-----------------------------------------------------------------------------

(* No count drops below zero and no object is put into the output twice.   *)
THEOREM TypeCorrect == Spec => []TypeOK
  <1>1. IInv => TypeOK
    BY DEF IInv
  <1> QED
    BY Invariance, <1>1, PTL

(* When all places are filled, every object is placed.                     *)
LEMMA SortedIsComplete == IInv /\ pc = "sorted" => Placed = Objs
  <1> SUFFICES ASSUME IInv, pc = "sorted" PROVE Placed = Objs
    OBVIOUS
  <1>1. Placed \in SUBSET Objs
    BY DEF IInv, TypeOK, Placed
  <1>2. Cardinality(Placed) = Cardinality(Objs)
    BY ObjsFinite DEF IInv, TypeOK, EndInv
  <1> QED
    BY <1>1, <1>2, ObjsFinite, FS_Subset

(* The output of a successful pass has every object once, after all the    *)
(* objects it depends on.                                                  *)
THEOREM OutputIsSorted == Spec => []OutputRespectsDeps
  <1>1. IInv => OutputRespectsDeps
    <2> SUFFICES ASSUME IInv, pc = "sorted",
                        NEW n \in DOMAIN ordering, NEW k \in Objs,
                        DependsOn(ordering[n], k)
                 PROVE  \E m \in 1..(n - 1) : ordering[m] = k
      BY SortedIsComplete DEF OutputRespectsDeps
    <2>1. ordering \in Seq(Objs) /\ Cardinality(Placed) = Len(ordering)
      BY DEF IInv, TypeOK
    <2>2. PICK m \in DOMAIN ordering : ordering[m] = k
      BY SortedIsComplete DEF Placed
    <2>3. ordering[n] \in Objs /\ n \in 1..Len(ordering)
      BY <2>1
    <2>4. PICK q \in DOMAIN ordering : m < q /\ ordering[q] = ordering[n]
      BY <2>2, <2>3 DEF IInv, OrderInv
    <2>5. \A a, b \in 1..Len(ordering) : ordering[a] = ordering[b] => a = b
      <3>1. ordering \in Surjection(1..Len(ordering), Placed)
        BY <2>1 DEF Surjection, Placed
      <3>2. Len(ordering) \in Nat
        BY <2>1
      <3>3. /\ IsFiniteSet(1..Len(ordering))
            /\ Cardinality(1..Len(ordering)) = Len(ordering)
        <4> DEFINE N == Len(ordering)
        <4>1. N \in Nat
          BY <3>2
        <4> HIDE DEF N
        <4>2. IsFiniteSet(1..N) /\ Cardinality(1..N) = N
          BY <4>1, FS_Interval
        <4> QED
          BY <4>2 DEF N
      <3>4. ordering \in Injection(1..Len(ordering), Placed)
        BY <2>1, <3>1, <3>3, FS_Surjection
      <3> QED
        BY <3>4 DEF Injection, IsInjective
    <2>6. q = n
      BY <2>1, <2>3, <2>4, <2>5
    <2> QED
      BY <2>1, <2>2, <2>4, <2>6
  <1> QED
    BY Invariance, <1>1, PTL

(* A pass fails exactly when the dependencies have a cycle, and it leaves  *)
(* over every object of every cycle.                                       *)
THEOREM FailureMeansCycle == Spec => []FailureIsExact
  <1>1. IInv => FailureIsExact
    <2> SUFFICES ASSUME IInv PROVE FailureIsExact
      OBVIOUS
    <2>1. Stuck \subseteq Objs /\ Stuck \cap Placed = {}
      BY DEF IInv, StuckInv, Stuck
    <2>2. pc = "sorted" => Stuck = {}
      BY <2>1, SortedIsComplete
    <2>3. ASSUME pc = "failed" PROVE Stuck # {} /\ Leftovers = Stuck
      <3>1. heap = {}
        BY <2>3 DEF IInv, EndInv
      <3>2. Leftovers = Unplaced
        BY <3>1 DEF IInv, HeapInv, Leftovers, Unplaced
      <3>3. \A k \in Unplaced : \E i \in Unplaced : DependsOn(i, k)
        <4> SUFFICES ASSUME NEW k \in Unplaced
                     PROVE  \E i \in Unplaced : DependsOn(i, k)
          OBVIOUS
        <4>1. k \in Objs /\ before[k] # 0
          BY <3>2 DEF Leftovers
        <4>2. Cardinality(Entries(Unplaced, k)) # 0
          BY <4>1 DEF IInv, CountInv
        <4>3. Entries(Unplaced, k) # {}
          BY <4>2, FS_EmptySet
        <4> QED
          BY <4>3, EntryDef DEF Unplaced, IInv, TypeOK
      <3>4. Unplaced \in {S \in SUBSET Objs :
                            \A k \in S : \E i \in S : DependsOn(i, k)}
        BY <3>3 DEF Unplaced
      <3>5. Unplaced \subseteq Stuck
        BY <3>4 DEF Stuck
      <3>6. Stuck \subseteq Unplaced
        BY <2>1 DEF Unplaced
      <3>7. Unplaced # {}
        <4> SUFFICES ASSUME Unplaced = {} PROVE FALSE
          OBVIOUS
        <4>1. Placed \subseteq Objs
          BY DEF IInv, TypeOK, Placed
        <4>2. Placed = Objs
          BY <4>1 DEF Unplaced
        <4>3. Len(ordering) = NumObjs
          BY <4>2, ObjsFinite DEF IInv, TypeOK
        <4> QED
          BY <2>3, <4>3 DEF IInv, EndInv
      <3> QED
        BY <3>2, <3>5, <3>6, <3>7
    <2> QED
      BY <2>2, <2>3 DEF FailureIsExact
  <1> QED
    BY Invariance, <1>1, PTL

(* Two neighbours of the output change places against the input only where *)
(* one depends on the other.                                               *)
THEOREM LittleRearrangement == Spec => []InversionsJustified
  <1>1. IInv => InversionsJustified
    BY DEF IInv
  <1> QED
    BY Invariance, <1>1, PTL
=============================================================================
