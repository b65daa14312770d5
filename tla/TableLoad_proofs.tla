-------------------------- MODULE TableLoad_proofs --------------------------
(***************************************************************************)
(* Proofs about TableLoad, for every value of its constants: the counters  *)
(* of the batch loop against the rows of the database and the position of  *)
(* the key generator.                                                      *)
(***************************************************************************)
EXTENDS TableLoad, FiniteSetTheorems, TLAPS

(* What holds of the batch in flight, between Generate and Account: the    *)
(* batch fits what the table lacks, its keys are in the pool and no more   *)
(* than asked for, and no row is counted twice by the retries.             *)
BatchInv ==
  InBatch =>
    /\ created + toGenerate <= RecordCount
    /\ keys \subseteq 0..(poolSize - 1)
    /\ IsFiniteSet(keys) /\ Cardinality(keys) <= toGenerate
    /\ failed \subseteq keys
    /\ stored + Cardinality(failed) <= toGenerate
    /\ pc = "store" => stored = 0 /\ failed = {}

(* The rows the children will not learn of until Account publishes them.   *)
PublishInv ==
  ~erred => db \subseteq published \cup (IF InBatch THEN Publish ELSE {})

EmptyInv == pc # "done" => emptyBatches <= MaxEmpty

IInv ==
  /\ TypeOK
  /\ RowAccounting
  /\ PositionTracksRows
  /\ CrashIsExplained
  /\ BatchInv
  /\ PublishInv
  /\ EmptyInv

-----------------------------------------------------------------------------

(* The database is a finite set of keys.                                   *)
LEMMA DbFinite == TypeOK => IsFiniteSet(db) /\ Cardinality(db) \in Nat
  <1> SUFFICES ASSUME TypeOK PROVE IsFiniteSet(db) /\ Cardinality(db) \in Nat
    OBVIOUS
  <1>1. IsFiniteSet(0..(ValueRange - 1))
    BY TableLoadAssumption, FS_Interval DEF TableLoadAssumption
  <1>2. db \in SUBSET (0..(ValueRange - 1))
    BY DEF TypeOK
  <1> QED
    BY <1>1, <1>2, FS_Subset, FS_CardinalityType

(* What a COPY commits are keys of the batch the database did not hold.    *)
LEMMA OutcomeKeys ==
  ASSUME NEW chunks, NEW o \in StoreOutcomes(chunks)
  PROVE  /\ o.in \subseteq keys
         /\ o.in \cap db = {}
         /\ o.in \subseteq UNION chunks
         /\ o.good = chunks => UNION chunks \subseteq keys
  BY DEF StoreOutcomes

(* Adding the rows of one outcome adds their number to the database.       *)
LEMMA OutcomeCount ==
  ASSUME TypeOK, IsFiniteSet(keys), keys \subseteq 0..(poolSize - 1),
         NEW chunks, NEW o \in StoreOutcomes(chunks)
  PROVE  /\ IsFiniteSet(o.in) /\ Cardinality(o.in) \in Nat
         /\ Cardinality(db \cup o.in) = Cardinality(db) + Cardinality(o.in)
         /\ db \cup o.in \subseteq 0..(ValueRange - 1)
         /\ Cardinality(o.in) <= Cardinality(keys)
  <1>1. o.in \subseteq keys /\ o.in \cap db = {}
    BY OutcomeKeys
  <1>2. /\ IsFiniteSet(o.in) /\ Cardinality(o.in) \in Nat
        /\ Cardinality(o.in) <= Cardinality(keys)
    BY <1>1, FS_Subset, FS_CardinalityType
  <1>3. IsFiniteSet(db) /\ Cardinality(db) \in Nat
    BY DbFinite
  <1>4. Cardinality(db \cup o.in)
          = Cardinality(db) + Cardinality(o.in) - Cardinality(db \cap o.in)
    BY <1>2, <1>3, FS_Union
  <1>5. Cardinality(db \cap o.in) = 0
    BY <1>1, FS_EmptySet
  <1>6. db \cup o.in \subseteq 0..(ValueRange - 1)
    <2>1. poolSize \in 0..ValueRange /\ db \subseteq 0..(ValueRange - 1)
      BY DEF TypeOK
    <2>2. 0..(poolSize - 1) \subseteq 0..(ValueRange - 1)
      BY <2>1, TableLoadAssumption DEF TableLoadAssumption
    <2> QED
      BY <1>1, <2>1, <2>2
  <1> QED
    BY <1>2, <1>3, <1>4, <1>5, <1>6

-----------------------------------------------------------------------------

LEMMA InitIInv == Init => IInv
  <1> SUFFICES ASSUME Init PROVE IInv
    OBVIOUS
  <1>1. Cardinality({}) = 0
    BY FS_EmptySet
  <1>2. poolSize \in 0..ValueRange
    BY TableLoadAssumption DEF Init, InitialPools, TableLoadAssumption
  <1>3. TypeOK
    <2>1. /\ created \in 0..RecordCount /\ emptyBatches \in 0..(MaxEmpty + 1)
          /\ toGenerate \in 0..RecordCount /\ stored \in 0..RecordCount
          /\ retry \in 0..MaxRetries /\ faults \in 0..MaxFaults
          /\ position \in Int
      BY TableLoadAssumption DEF Init, TableLoadAssumption
    <2>2. /\ rows \in SUBSET Nat /\ keys \in SUBSET Nat /\ failed \in SUBSET Nat
          /\ db \in SUBSET (0..(ValueRange - 1)) /\ published \in SUBSET Nat
          /\ pc \in {"generate", "store", "retry", "done", "crashed"}
          /\ keyFirst \in BOOLEAN /\ erred \in BOOLEAN /\ short \in BOOLEAN
      BY DEF Init
    <2> QED
      BY <1>2, <2>1, <2>2 DEF TypeOK
  <1> QED
    BY <1>1, <1>3, TableLoadAssumption
    DEF Init, IInv, RowAccounting, PositionTracksRows, CrashIsExplained,
        BatchInv, PublishInv, EmptyInv, InBatch, InFlight, TableLoadAssumption

LEMMA GenerateIInv == IInv /\ Generate => IInv'
  <1> SUFFICES ASSUME IInv, Generate PROVE IInv'
    OBVIOUS
  <1> DEFINE need == position + Asked
  <1>1. PICK more \in (IF need > poolSize
                       THEN Extensions(need - poolSize + Asked) ELSE {0}) :
          TakeSlice(more)
    BY DEF Generate
  <1> DEFINE end   == Lesser(need, poolSize + more)
             taken == IF position < end THEN end - position ELSE 0
  <1>2. /\ pc = "generate" /\ created < RecordCount /\ position >= 0
        /\ toGenerate' = Asked
        /\ stored' = 0 /\ failed' = {} /\ retry' = 0
        /\ pc' = "store"
        /\ rows' = IF keyFirst THEN keys' ELSE position..(need - 1)
        /\ UNCHANGED <<created, emptyBatches, keyFirst, db, published, faults, erred>>
    BY DEF Generate
  <1>3. TypeOK
    BY DEF IInv
  <1>4. /\ Asked \in 1..RecordCount /\ created + Asked <= RecordCount
        /\ created \in Nat
        /\ position \in Nat /\ need \in Nat /\ poolSize \in 0..ValueRange
    BY <1>2, <1>3, TableLoadAssumption
    DEF Asked, Lesser, TypeOK, TableLoadAssumption
  <1>5. more \in Nat /\ poolSize + more \in 0..ValueRange
    BY <1>4, TableLoadAssumption DEF Extensions, Lesser, TableLoadAssumption
  <1>6. /\ end \in Nat /\ end <= poolSize + more
        /\ taken \in 0..Asked
        /\ end - position <= Asked
    BY <1>4, <1>5 DEF Lesser
  <1>7. /\ poolSize' = poolSize + more
        /\ keys' = position..(end - 1)
        /\ position' = position + taken
        /\ short' = (short \/ taken < Asked)
    BY <1>1 DEF TakeSlice
  <1> HIDE DEF end, taken, need
  <1>8. keys' \subseteq 0..(poolSize' - 1) /\ keys' \in SUBSET Nat
    BY <1>4, <1>5, <1>6, <1>7
  <1>9. IsFiniteSet(keys') /\ Cardinality(keys') <= Asked
    <2>1. end - 1 \in Int /\ position \in Int
      BY <1>4, <1>6
    <2>2. /\ IsFiniteSet(position..(end - 1))
          /\ Cardinality(position..(end - 1))
                = IF position > end - 1 THEN 0 ELSE (end - 1) - position + 1
      BY <2>1, FS_Interval
    <2>3. (IF position > end - 1 THEN 0 ELSE (end - 1) - position + 1) <= Asked
      BY <1>4, <1>6
    <2> QED
      BY <2>2, <2>3, <1>7
  <1>10. TypeOK'
    <2>1. rows' \in SUBSET Nat
      BY <1>2, <1>4, <1>7, <1>8
    <2>2. position' \in Int /\ toGenerate' \in 0..RecordCount
      BY <1>2, <1>4, <1>6, <1>7
    <2>3. short' \in BOOLEAN
      BY <1>3, <1>7 DEF TypeOK
    <2>4. retry' \in 0..MaxRetries /\ stored' \in 0..RecordCount
      BY <1>2, TableLoadAssumption DEF TableLoadAssumption
    <2> QED
      BY <1>2, <1>3, <1>5, <1>7, <1>8, <2>1, <2>2, <2>3, <2>4 DEF TypeOK
  <1>11. RowAccounting'
    <2>1. InFlight = 0 /\ InFlight' = 0
      BY <1>2 DEF InFlight, InBatch
    <2> QED
      BY <1>2, <2>1 DEF IInv, RowAccounting
  <1>12. PositionTracksRows'
    <2> SUFFICES ASSUME ~erred', ~short'
                 PROVE position' = created' + toGenerate'
      BY <1>2 DEF PositionTracksRows, InBatch
    <2>0. ~short /\ ~(taken < Asked)
      BY <1>7, Zenon
    <2>1. ~short /\ taken = Asked
      BY <1>4, <1>6, <2>0
    <2>2. position = created
      BY <1>2, <1>4, <2>1 DEF IInv, PositionTracksRows, InBatch
    <2> QED
      BY <1>2, <1>7, <2>1, <2>2
  <1>13. CrashIsExplained' /\ PublishInv' /\ EmptyInv'
    BY <1>2 DEF IInv, CrashIsExplained, PublishInv, EmptyInv, InBatch, Publish
  <1>14. BatchInv'
    <2>1. Cardinality({}) = 0
      BY FS_EmptySet
    <2> QED
      BY <1>2, <1>4, <1>8, <1>9, <2>1 DEF BatchInv, InBatch
  <1> QED
    BY <1>10, <1>11, <1>12, <1>13, <1>14 DEF IInv

(* A storeTable call that returns, in a batch of which onto rows are       *)
(* counted already: the new count and the rows still failed fit the batch. *)
LEMMA ReturnsIInv ==
  ASSUME IInv, InBatch, pc' = "retry", retry' \in 0..MaxRetries,
         UNCHANGED <<created, emptyBatches, toGenerate, rows, keys, genVars,
                     published, short>>,
         NEW chunks, NEW open, IsFiniteSet(open),
         stored + Cardinality(open) <= toGenerate,
         UNION chunks \subseteq open,
         StoreReturns(chunks, stored)
  PROVE  IInv'
  <1>1. PICK o \in StoreOutcomes(chunks) :
             /\ o.good = chunks
             /\ db' = db \cup o.in
             /\ stored' = Counted(stored, o.in)
             /\ failed' = (UNION chunks) \ o.in
             /\ UNCHANGED <<faults, erred>>
    BY DEF StoreReturns
  <1>2. TypeOK /\ BatchInv
    BY DEF IInv
  <1>3. /\ IsFiniteSet(keys) /\ keys \subseteq 0..(poolSize - 1)
        /\ created + toGenerate <= RecordCount
        /\ Cardinality(keys) <= toGenerate
    BY <1>2 DEF BatchInv
  <1>4. /\ o.in \subseteq keys /\ o.in \subseteq UNION chunks
        /\ UNION chunks \subseteq keys
    BY <1>1, OutcomeKeys
  <1>5. /\ IsFiniteSet(o.in) /\ Cardinality(o.in) \in Nat
        /\ Cardinality(db \cup o.in) = Cardinality(db) + Cardinality(o.in)
        /\ db \cup o.in \subseteq 0..(ValueRange - 1)
    BY <1>2, <1>3, OutcomeCount
  <1>6. /\ Cardinality(db) \in Nat /\ Cardinality(open) \in Nat
        /\ created \in Nat /\ stored \in Nat /\ toGenerate \in Nat
        /\ RecordCount \in Nat
    BY <1>2, DbFinite, FS_CardinalityType, TableLoadAssumption
    DEF TypeOK, TableLoadAssumption
  <1>7. /\ Cardinality(failed') \in Nat
        /\ Cardinality(failed') + Cardinality(o.in) <= Cardinality(open)
    <2>1. /\ Cardinality(open \ o.in) = Cardinality(open) - Cardinality(open \cap o.in)
          /\ IsFiniteSet(open \ o.in)
      BY FS_Difference
    <2>2. open \cap o.in = o.in
      BY <1>4
    <2>3. failed' \subseteq open \ o.in
      BY <1>1
    <2>4. /\ IsFiniteSet(failed') /\ Cardinality(failed') \in Nat
          /\ Cardinality(failed') <= Cardinality(open \ o.in)
      BY <2>1, <2>3, FS_Subset, FS_CardinalityType
    <2>5. Cardinality(failed') <= Cardinality(open) - Cardinality(o.in)
      BY <2>1, <2>2, <2>4
    <2> QED
      BY <2>4, <2>5, <1>5, <1>6
  <1>8. stored' = stored + Cardinality(o.in)
    BY <1>1 DEF Counted
  <1>9. stored' + Cardinality(failed') <= toGenerate /\ stored' \in 0..RecordCount
    BY <1>3, <1>5, <1>6, <1>7, <1>8
  <1>10. TypeOK'
    <2>1. failed' \in SUBSET Nat
      BY <1>1, <1>2, <1>4 DEF TypeOK
    <2> QED
      BY <1>1, <1>2, <1>5, <1>9, <2>1 DEF TypeOK, genVars
  <1>11. RowAccounting'
    <2>1. InFlight = stored /\ InFlight' = stored'
      BY DEF InFlight, InBatch
    <2>2. /\ created + stored <= Cardinality(db)
          /\ ~erred => created + stored = Cardinality(db)
      BY <2>1 DEF IInv, RowAccounting
    <2>3. Cardinality(db') = Cardinality(db) + Cardinality(o.in)
      BY <1>1, <1>5
    <2>4. created + stored' <= Cardinality(db')
      BY <1>5, <1>6, <1>8, <2>2, <2>3
    <2>5. ~erred => created + stored' = Cardinality(db')
      BY <1>5, <1>6, <1>8, <2>2, <2>3
    <2> QED
      BY <1>1, <2>1, <2>4, <2>5 DEF RowAccounting
  <1>12. PositionTracksRows' /\ CrashIsExplained' /\ EmptyInv'
    BY <1>1 DEF IInv, PositionTracksRows, CrashIsExplained, EmptyInv, InBatch,
                genVars
  <1>13. BatchInv'
    BY <1>1, <1>3, <1>4, <1>9 DEF BatchInv, InBatch, genVars
  <1>14. PublishInv'
    <2> SUFFICES ASSUME ~erred'
                 PROVE db' \subseteq published' \cup Publish'
      BY DEF PublishInv, InBatch
    <2>1. db \subseteq published \cup Publish
      BY <1>1 DEF IInv, PublishInv
    <2>2. Publish \subseteq Publish'
      BY <1>5, <1>6, <1>8 DEF Publish
    <2>3. o.in \subseteq Publish'
      <3>1. CASE o.in = {}
        BY <3>1
      <3>2. CASE o.in # {}
        <4>1. Cardinality(o.in) > 0
          BY <1>5, <3>2, FS_EmptySet
        <4> QED
          BY <1>4, <1>5, <1>6, <1>8, <4>1 DEF Publish
      <3> QED
        BY <3>1, <3>2
    <2> QED
      BY <1>1, <2>1, <2>2, <2>3
  <1> QED
    BY <1>10, <1>11, <1>12, <1>13, <1>14 DEF IInv

(* A storeTable call that throws: the rows it committed are not counted.   *)
LEMMA ThrowsIInv ==
  ASSUME IInv, InBatch, retry' \in 0..MaxRetries,
         UNCHANGED <<created, emptyBatches, toGenerate, rows, keys, genVars,
                     published, short>>,
         NEW chunks, StoreThrows(chunks)
  PROVE  IInv'
  <1>1. PICK o \in StoreOutcomes(chunks) :
             /\ faults' = faults \/ (faults < MaxFaults /\ faults' = faults + 1)
             /\ db' = db \cup o.in
             /\ erred' = TRUE /\ pc' = "generate"
             /\ UNCHANGED <<stored, failed>>
    BY DEF StoreThrows
  <1>2. TypeOK /\ BatchInv
    BY DEF IInv
  <1>3. IsFiniteSet(keys) /\ keys \subseteq 0..(poolSize - 1)
    BY <1>2 DEF BatchInv
  <1>4. /\ Cardinality(o.in) \in Nat
        /\ Cardinality(db') = Cardinality(db) + Cardinality(o.in)
        /\ db' \subseteq 0..(ValueRange - 1)
    BY <1>1, <1>2, <1>3, OutcomeCount
  <1>5. TypeOK'
    <2>1. faults' \in 0..MaxFaults
      BY <1>1, <1>2, TableLoadAssumption DEF TypeOK, TableLoadAssumption
    <2> QED
      BY <1>1, <1>2, <1>4, <2>1 DEF TypeOK, genVars
  <1>6. RowAccounting'
    <2>1. InFlight = stored /\ InFlight' = 0
      BY <1>1 DEF InFlight, InBatch
    <2>2. created + stored <= Cardinality(db)
      BY <2>1 DEF IInv, RowAccounting
    <2>3. /\ created \in Nat /\ stored \in Nat /\ Cardinality(db) \in Nat
      BY <1>2, DbFinite, TableLoadAssumption DEF TypeOK, TableLoadAssumption
    <2>4. created + 0 <= Cardinality(db')
      BY <1>4, <2>2, <2>3
    <2> QED
      BY <1>1, <2>1, <2>4 DEF RowAccounting
  <1>7. /\ PositionTracksRows' /\ CrashIsExplained' /\ BatchInv'
        /\ PublishInv' /\ EmptyInv'
    BY <1>1 DEF IInv, PositionTracksRows, CrashIsExplained, BatchInv,
                PublishInv, EmptyInv, InBatch
  <1> QED
    BY <1>5, <1>6, <1>7 DEF IInv

LEMMA StoreIInv == IInv /\ Store => IInv'
  <1> SUFFICES ASSUME IInv, Store PROVE IInv'
    OBVIOUS
  <1>1. PICK chunks : \/ StoreReturns(chunks, 0) /\ pc' = "retry"
                      \/ StoreThrows(chunks)
    BY DEF Store
  <1>2. /\ pc = "store" /\ InBatch
        /\ UNCHANGED <<created, emptyBatches, toGenerate, rows, keys, retry,
                       genVars, published, short>>
    BY DEF Store, InBatch
  <1>3. /\ IsFiniteSet(keys) /\ Cardinality(keys) <= toGenerate /\ stored = 0
        /\ retry \in 0..MaxRetries
    BY <1>2 DEF IInv, BatchInv, TypeOK
  <1>4. CASE StoreReturns(chunks, 0) /\ pc' = "retry"
    <2>1. UNION chunks \subseteq keys
      BY <1>4, OutcomeKeys DEF StoreReturns
    <2>2. stored + Cardinality(keys) <= toGenerate
      BY <1>3, FS_CardinalityType
    <2>3. StoreReturns(chunks, stored)
      BY <1>3, <1>4
    <2> QED
      BY <1>2, <1>3, <1>4, <2>1, <2>2, <2>3, ReturnsIInv
  <1>5. CASE StoreThrows(chunks)
    BY <1>2, <1>3, <1>5, ThrowsIInv
  <1> QED
    BY <1>1, <1>4, <1>5

LEMMA RetryIInv == IInv /\ Retry => IInv'
  <1> SUFFICES ASSUME IInv, Retry PROVE IInv'
    OBVIOUS
  <1>1. /\ pc = "retry" /\ InBatch /\ retry < MaxRetries
        /\ retry' = retry + 1
        /\ UNCHANGED <<created, emptyBatches, toGenerate, rows, keys, genVars,
                       published, short>>
    BY DEF Retry, InBatch
  <1>2. retry' \in 0..MaxRetries
    BY <1>1, TableLoadAssumption DEF IInv, TypeOK, TableLoadAssumption
  <1>3. /\ IsFiniteSet(keys) /\ failed \subseteq keys
        /\ stored + Cardinality(failed) <= toGenerate
    BY <1>1 DEF IInv, BatchInv
  <1>4. CASE /\ pc' = "retry"
             /\ \E tried \in Regenerated :
                  StoreReturns(IF tried = {} THEN {} ELSE {tried}, stored)
    <2>1. PICK tried \in Regenerated :
                  StoreReturns(IF tried = {} THEN {} ELSE {tried}, stored)
      BY <1>4
    <2> DEFINE chunks == IF tried = {} THEN {} ELSE {tried}
    <2>2. UNION chunks \subseteq failed
      BY <2>1 DEF Regenerated
    <2>3. IsFiniteSet(failed)
      BY <1>3, FS_Subset
    <2>4. StoreReturns(chunks, stored)
      BY <2>1
    <2> HIDE DEF chunks
    <2> QED
      BY <1>1, <1>2, <1>3, <1>4, <2>2, <2>3, <2>4, ReturnsIInv
  <1>5. CASE StoreThrows({failed})
    BY <1>1, <1>2, <1>5, ThrowsIInv
  <1> QED
    BY <1>4, <1>5 DEF Retry

(* Accounting: the batch fits what the table lacks, so the new count does  *)
(* too, and the position drops by exactly the rows that were not counted.  *)
LEMMA AccountIInv == IInv /\ Account => IInv'
  <1> SUFFICES ASSUME IInv, Account PROVE IInv'
    OBVIOUS
  <1>1. /\ pc = "retry" /\ InBatch
        /\ position' = position - Unadded
        /\ created' = created + stored
        /\ published' = published \cup Publish
        /\ emptyBatches' = EmptyAfter
        /\ pc' = IF emptyBatches' > MaxEmpty THEN "done" ELSE "generate"
        /\ UNCHANGED <<batchVars, poolSize, keyFirst, db, faults, erred, short>>
    BY DEF Account, InBatch
  <1>2. TypeOK /\ BatchInv
    BY DEF IInv
  <1>3. /\ created + toGenerate <= RecordCount
        /\ keys \subseteq 0..(poolSize - 1)
        /\ stored + Cardinality(failed) <= toGenerate
        /\ Cardinality(failed) \in Nat
    BY <1>1, <1>2, FS_Subset, FS_CardinalityType DEF BatchInv
  <1>4. /\ created \in Nat /\ stored \in Nat /\ toGenerate \in Nat
        /\ RecordCount \in Nat /\ MaxEmpty \in Nat /\ position \in Int
        /\ emptyBatches \in Nat
    BY <1>2, TableLoadAssumption DEF TypeOK, TableLoadAssumption
  <1>5. emptyBatches <= MaxEmpty
    BY <1>1 DEF IInv, EmptyInv
  <1>6. pc' \in {"generate", "done"} /\ ~InBatch'
    BY <1>1 DEF InBatch
  <1>7. TypeOK'
    <2>1. created' \in 0..RecordCount /\ position' \in Int
      BY <1>1, <1>3, <1>4 DEF Unadded
    <2>2. emptyBatches' \in 0..(MaxEmpty + 1)
      BY <1>1, <1>4, <1>5 DEF EmptyAfter
    <2>3. Publish \in SUBSET Nat
      BY <1>2 DEF Publish, TypeOK
    <2>4. published' \in SUBSET Nat
      BY <1>1, <1>2, <2>3 DEF TypeOK
    <2> QED
      BY <1>1, <1>2, <1>6, <2>1, <2>2, <2>4 DEF TypeOK, batchVars
  <1>8. RowAccounting'
    <2>1. InFlight = stored /\ InFlight' = 0
      BY <1>1, <1>6 DEF InFlight
    <2>2. /\ created + stored <= Cardinality(db)
          /\ ~erred => created + stored = Cardinality(db)
      BY <2>1 DEF IInv, RowAccounting
    <2>3. created' + 0 = created + stored
      BY <1>1, <1>4
    <2> QED
      BY <1>1, <2>1, <2>2, <2>3 DEF RowAccounting
  <1>9. PositionTracksRows'
    <2> SUFFICES ASSUME ~erred', ~short' PROVE position' = created' + 0
      BY <1>6 DEF PositionTracksRows
    <2>1. position = created + toGenerate
      BY <1>1 DEF IInv, PositionTracksRows
    <2> QED
      BY <1>1, <1>4, <2>1 DEF Unadded
  <1>10. CrashIsExplained' /\ BatchInv'
    BY <1>6 DEF CrashIsExplained, BatchInv
  <1>11. EmptyInv'
    <2>1. emptyBatches' \in Nat
      BY <1>4, <1>1 DEF EmptyAfter
    <2> QED
      BY <1>1, <1>4, <2>1 DEF EmptyInv
  <1>12. PublishInv'
    BY <1>1 DEF IInv, PublishInv
  <1> QED
    BY <1>7, <1>8, <1>9, <1>10, <1>11, <1>12 DEF IInv

(* A negative position is reached only out of step with createdAmount.     *)
LEMMA EndIInv == IInv /\ (Finish \/ GenerateCrash) => IInv'
  <1> SUFFICES ASSUME IInv, Finish \/ GenerateCrash PROVE IInv'
    OBVIOUS
  <1>1. /\ pc = "generate" /\ pc' \in {"done", "crashed"}
        /\ UNCHANGED <<created, emptyBatches, batchVars, genVars, db, published,
                       faults, erred, short>>
    BY DEF Finish, GenerateCrash
  <1>2. TypeOK'
    BY <1>1 DEF IInv, TypeOK, batchVars, genVars
  <1>3. RowAccounting' /\ PositionTracksRows' /\ BatchInv' /\ PublishInv' /\ EmptyInv'
    BY <1>1 DEF IInv, RowAccounting, PositionTracksRows, BatchInv, PublishInv,
                EmptyInv, InBatch, InFlight, batchVars, genVars, Publish
  <1>4. CrashIsExplained'
    <2> SUFFICES ASSUME GenerateCrash, ~erred, ~short PROVE FALSE
      BY <1>1 DEF CrashIsExplained, Finish
    <2>1. position = created + 0 /\ position < 0
      BY <1>1 DEF IInv, PositionTracksRows, InBatch, GenerateCrash
    <2>2. created \in Nat
      BY TableLoadAssumption DEF IInv, TypeOK, TableLoadAssumption
    <2> QED
      BY <2>1, <2>2
  <1> QED
    BY <1>2, <1>3, <1>4 DEF IInv

LEMMA StutterIInv == IInv /\ UNCHANGED vars => IInv'
  BY DEF IInv, TypeOK, RowAccounting, PositionTracksRows, CrashIsExplained,
         BatchInv, PublishInv, EmptyInv, InBatch, InFlight, Publish, vars,
         batchVars, genVars

LEMMA Inductive == Spec => []IInv
  <1>1. IInv /\ [Next]_vars => IInv'
    BY GenerateIInv, StoreIInv, RetryIInv, AccountIInv, EndIInv, StutterIInv
    DEF Next
  <1> QED
    BY <1>1, InitIInv, PTL DEF Spec

-----------------------------------------------------------------------------

(* Type correctness of the batch loop.                                     *)
THEOREM TypeCorrect == Spec => []TypeOK
  BY Inductive, PTL DEF IInv

(* createdAmount never overstates the rows in the database, and counts     *)
(* them exactly while no SQLException was swallowed.                       *)
THEOREM RowsAreAccountedFor == Spec => []RowAccounting
  BY Inductive, PTL DEF IInv

(* removeUnaddedColumns keeps the key generator's position and             *)
(* createdAmount together through any rejected rows and retries.           *)
THEOREM PositionIsInStep == Spec => []PositionTracksRows
  BY Inductive, PTL DEF IInv

(* The worker crashes in subList only after a swallowed SQLException or a  *)
(* slice that came out short.                                              *)
THEOREM CrashHasACause == Spec => []CrashIsExplained
  BY Inductive, PTL DEF IInv

(* Every counted row is published to the children when the batch is done.  *)
THEOREM StoredRowsArePublished == Spec => []StoredIsPublished
  <1>1. IInv => StoredIsPublished
    BY DEF IInv, PublishInv, StoredIsPublished
  <1> QED
    BY <1>1, Inductive, PTL
=============================================================================
