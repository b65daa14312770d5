----------------------------- MODULE TableLoad -----------------------------
(***************************************************************************)
(* The batch loop that fills ONE table: the worker body of                 *)
(* DatabaseDataGenerator.generateData together with the state it drives,   *)
(* the position of the key column's generator (StateData and               *)
(* SimpleUniqueGenerator) and the rows the database holds.                 *)
(*                                                                         *)
(* The table has a single-column key fed by SimpleUniqueGenerator and      *)
(* referenced by other tables, and further columns under constraints       *)
(* (fed by MarkovGenerator) that may get any row rejected.  A row is named *)
(* by the index of its key in cachedValues; the keys of one batch are a    *)
(* slice of that list, so the rows of a batch are an interval of integers. *)
(*                                                                         *)
(* TableStore.storeTable is one step here, with any outcome that module    *)
(* CopyStore shows the COPY threads can produce.                           *)
(***************************************************************************)
EXTENDS Integers, FiniteSets

CONSTANTS
  RecordCount,   \* table.getRecordCount()
  BatchSize,     \* the batchSize argument
  Parallelism,   \* the tableStoreThreads argument
  MaxEmpty,      \* MAX_EMPTY_BATCH_COUNT (1000 in the code)
  MaxRetries,    \* retry rounds for the rows a COPY rejected (3 in the code)
  ValueRange,    \* how many distinct values the key column's type can give
  MaxFaults      \* bound of the model: SQL errors the environment causes

ASSUME TableLoadAssumption ==
  /\ RecordCount \in Nat
  /\ BatchSize \in Nat \ {0}
  /\ Parallelism \in Nat \ {0}
  /\ MaxEmpty \in Nat
  /\ MaxRetries \in Nat
  /\ ValueRange \in Nat
  /\ MaxFaults \in Nat

VARIABLES
  \* locals of the worker lambda
  pc,           \* where the worker is in the loop
  created,      \* createdAmount
  emptyBatches, \* emptyBatchCount
  toGenerate,   \* rows asked of the generators for this batch
  rows,         \* the rows storeTable is given for this batch
  keys,         \* the key column of this batch (shorter than rows if short)
  stored,       \* rows of this batch counted as stored, retries included
  failed,       \* failedIndices: rows the last COPY rejected
  retry,        \* retry rounds done for this batch
  \* the key column's generator
  position,     \* StateData.generatedCount
  poolSize,     \* cachedValues.size()
  keyFirst,     \* the key is the first column in HashMap order
  \* shared state
  db,           \* keys of the rows the database holds
  published,    \* generatedData of the key column, what children draw from
  \* history
  faults,       \* SQL errors the environment caused so far
  erred,        \* the loop swallowed some SQLException
  short         \* some batch got fewer keys than rows asked for

batchVars == <<toGenerate, rows, keys, stored, failed, retry>>
genVars   == <<position, poolSize, keyFirst>>
vars == <<pc, created, emptyBatches, batchVars, genVars, db, published,
          faults, erred, short>>

-----------------------------------------------------------------------------

Lesser(a, b) == IF a <= b THEN a ELSE b

(* subBatchSize: how many rows one COPY thread of storeTable gets.         *)
ChunkSize(n) == (n + Parallelism - 1) \div Parallelism

(* The sub-chunks of the n rows that start at row first.                   *)
Chunks(first, n) ==
  {(first + i)..(Lesser(first + i + ChunkSize(n), first + n) - 1) :
      i \in {j \in 0..(n - 1) : j % ChunkSize(n) = 0}}

(* What one storeTable call over the given chunks may do: it commits the   *)
(* rows in the result's "in"; the chunks in "good" report their result and *)
(* the others throw.  A key that is in the database is always rejected, a  *)
(* chunk with a row beyond the end of the key column throws before it      *)
(* copies anything, a chunk that throws later may have committed.          *)
StoreOutcomes(chunks) ==
  LET whole == {c \in chunks : c \subseteq keys}
  IN [in : SUBSET ((UNION whole) \ db), good : SUBSET whole]

(* buildUniqueSet: the common and referenced values, which may already be  *)
(* more than recordCount, filled up to recordCount by random draws, which  *)
(* may give up earlier.  So any number of distinct values can result.      *)
InitialPools == 0..ValueRange

-----------------------------------------------------------------------------
(* Actions of the worker, in the order of the loop.                        *)

Init ==
  /\ pc = "generate"
  /\ created = 0 /\ emptyBatches = 0
  /\ toGenerate = 0 /\ rows = {} /\ keys = {} /\ stored = 0
  /\ failed = {} /\ retry = 0
  /\ position = 0
  /\ poolSize \in InitialPools
  /\ keyFirst \in BOOLEAN
  /\ db = {} /\ published = {}
  /\ faults = 0 /\ erred = FALSE /\ short = FALSE

(* The while test fails: the table is complete.                            *)
Finish ==
  /\ pc = "generate" /\ created >= RecordCount
  /\ pc' = "done"
  /\ UNCHANGED <<created, emptyBatches, batchVars, genVars, db, published,
                 faults, erred, short>>

(* extendCachedValues: up to wanted more values, fewer when the range runs *)
(* out or the random draws keep hitting values already there.  (None at    *)
(* all for a key that is a foreign key: cachedValuesSet is null.)          *)
Extensions(wanted) == 0..Lesser(wanted, ValueRange - poolSize)

(* toGenerate: a batch never asks for more rows than the table still lacks *)
Asked == Lesser(BatchSize, RecordCount - created)

(* generateValues: take the next slice of cachedValues, extended by more   *)
(* values, and move the position by what the slice really holds.           *)
TakeSlice(more) ==
  LET end   == Lesser(position + Asked, poolSize + more)
      taken == IF position < end THEN end - position ELSE 0
  IN
  /\ poolSize' = poolSize + more
  /\ keys' = position..(end - 1)
  /\ position' = position + taken
  /\ short' = (short \/ taken < Asked)

(* generateBatchTableData: a new batch.  The number of rows storeTable is  *)
(* told is the length of the first column in HashMap order.                *)
Generate ==
  LET need == position + Asked IN
  /\ pc = "generate" /\ created < RecordCount /\ position >= 0
  /\ \E more \in IF need > poolSize
                 THEN Extensions(need - poolSize + Asked) ELSE {0} :
       TakeSlice(more)
  /\ rows' = IF keyFirst THEN keys' ELSE position..(need - 1)
  /\ toGenerate' = Asked
  /\ stored' = 0 /\ failed' = {} /\ retry' = 0
  /\ pc' = "store"
  /\ UNCHANGED <<created, emptyBatches, keyFirst, db, published, faults, erred>>

(* all.subList(offset, end) with a negative offset throws; the worker      *)
(* rethrows, and the table's future fails.                                 *)
GenerateCrash ==
  /\ pc = "generate" /\ created < RecordCount /\ position < 0
  /\ pc' = "crashed"
  /\ UNCHANGED <<created, emptyBatches, batchVars, genVars, db, published,
                 faults, erred, short>>

(* stored and "stored +=": the rows of every COPY of the batch are counted *)
CountLast(onto, in) == Cardinality(in)
Counted(onto, in) == onto + Cardinality(in)

(* storeTable returns: the rows stored are counted, the rest are failed.   *)
StoreReturns(chunks, onto) ==
  \E o \in StoreOutcomes(chunks) :
    /\ o.good = chunks
    /\ db' = db \cup o.in
    /\ stored' = Counted(onto, o.in)
    /\ failed' = (UNION chunks) \ o.in
    /\ UNCHANGED <<faults, erred>>

(* storeTable throws SQLException, which the loop logs and forgets: the    *)
(* rows other chunks committed stay, nothing is counted or rolled back.    *)
(* A chunk of keyed rows throws only when the environment makes it, or in  *)
(* a retry when a Markov column came back too short: MaxFaults bounds both.*)
StoreThrows(chunks) ==
  \E o \in StoreOutcomes(chunks) :
    LET thrown == chunks \ o.good
        byFault == {c \in thrown : c \subseteq keys}
    IN
    /\ thrown # {}
    /\ IF byFault = {} THEN UNCHANGED faults
       ELSE faults < MaxFaults /\ faults' = faults + 1
    /\ db' = db \cup o.in
    /\ erred' = TRUE
    /\ pc' = "generate"
    /\ UNCHANGED <<stored, failed>>

(* The first storeTable call, with tableStoreThreads chunks.               *)
Store ==
  LET n      == Cardinality(rows)
      chunks == IF n = 0 THEN {}
                ELSE Chunks(CHOOSE r \in rows : \A s \in rows : r <= s, n)
  IN
  /\ pc = "store"
  /\ \/ StoreReturns(chunks, 0) /\ pc' = "retry"
     \/ StoreThrows(chunks)
  /\ UNCHANGED <<created, emptyBatches, toGenerate, rows, keys, retry,
                 genVars, published, short>>

(* regenerateMarkovColumns: the rows of a retry batch that are full again. *)
(* Keys are kept, so a duplicate key is rejected again.  When the Markov   *)
(* columns come back shorter than the failed rows, storeTable copies only  *)
(* the leading rows, or throws, as the column order has it.                *)
Regenerated == SUBSET failed

(* One retry round: regenerateMarkovColumns, then storeTable, one chunk.   *)
Retry ==
  /\ pc = "retry" /\ retry < MaxRetries /\ failed # {}
  /\ retry' = retry + 1
  /\ \/ /\ \E tried \in Regenerated :
             StoreReturns(IF tried = {} THEN {} ELSE {tried}, stored)
        /\ pc' = "retry"
     \/ StoreThrows({failed})
  /\ UNCHANGED <<created, emptyBatches, toGenerate, rows, keys, genVars,
                 published, short>>

(* The argument of removeUnaddedColumns.                                   *)
NothingUnadded == 0
Unadded == toGenerate - stored

(* What generatedData gets: the WHOLE key column of a batch of which some  *)
(* row was stored, rejected rows included.                                 *)
PublishFullBatches == IF stored = toGenerate THEN keys ELSE {}
Publish == IF stored > 0 THEN keys ELSE {}

(* emptyBatchCount: consecutive batches of which no row was stored.        *)
EmptyNotCounted == 0
EmptyAfter == IF stored > 0 THEN 0 ELSE emptyBatches + 1

(* Accounting after the last retry round.                                  *)
Account ==
  /\ pc = "retry" /\ (retry >= MaxRetries \/ failed = {})
  /\ position' = position - Unadded
  /\ created' = created + stored
  /\ published' = published \cup Publish
  /\ emptyBatches' = EmptyAfter
  /\ pc' = IF emptyBatches' > MaxEmpty THEN "done" ELSE "generate"
  /\ UNCHANGED <<batchVars, poolSize, keyFirst, db, faults, erred, short>>

Next == Finish \/ Generate \/ GenerateCrash \/ Store \/ Retry \/ Account

(* The worker is one thread of the generation pool and is never blocked    *)
(* for good: every wait inside storeTable has a timeout.                   *)
Spec == Init /\ [][Next]_vars /\ WF_vars(Next)

-----------------------------------------------------------------------------
(* Properties.                                                             *)

Ended    == pc \in {"done", "crashed"}
InBatch  == pc \in {"store", "retry"}

(* Every variable stays in the range its Java type and role allow.         *)
TypeOK ==
  /\ pc \in {"generate", "store", "retry", "done", "crashed"}
  /\ created \in 0..RecordCount
  /\ emptyBatches \in 0..(MaxEmpty + 1)
  /\ toGenerate \in 0..RecordCount
  /\ rows \in SUBSET Nat /\ keys \in SUBSET Nat /\ failed \in SUBSET Nat
  /\ stored \in 0..RecordCount
  /\ retry \in 0..MaxRetries
  /\ position \in Int
  /\ poolSize \in 0..ValueRange
  /\ keyFirst \in BOOLEAN
  /\ db \in SUBSET (0..(ValueRange - 1)) /\ published \in SUBSET Nat
  /\ faults \in 0..MaxFaults /\ erred \in BOOLEAN /\ short \in BOOLEAN

(* createdAmount plus the rows counted for the current batch never exceed  *)
(* the rows the database holds, and are exactly those rows as long as no   *)
(* SQLException was swallowed.  The count decides when the loop stops, so  *)
(* a table is never reported complete with fewer rows than recordCount.    *)
InFlight == IF InBatch THEN stored ELSE 0
RowAccounting ==
  /\ created + InFlight <= Cardinality(db)
  /\ ~erred => created + InFlight = Cardinality(db)

(* The key generator's position and createdAmount move together: while no  *)
(* SQLException was swallowed and no slice came out short, the position is *)
(* the number of rows counted plus the rows of the batch in flight.        *)
PositionTracksRows ==
  ~erred /\ ~short =>
     position = created + (IF InBatch THEN toGenerate ELSE 0)

(* The worker dies in subList only after a swallowed SQLException or a     *)
(* short slice took the position out of step: rejected rows and retries    *)
(* alone never make it negative.                                           *)
CrashIsExplained == pc = "crashed" => erred \/ short

(* A row that is stored and counted is published, so that a child table    *)
(* can reference every row of its parent; only a swallowed SQLException    *)
(* leaves rows in the database the children never learn of.                *)
StoredIsPublished == ~InBatch /\ ~erred => db \subseteq published

(* The batch loop ends, by reaching recordCount, by too many empty batches *)
(* or by a crash, unless the key column ran out of values: with            *)
(* finitely many SQL errors nothing else keeps it going.                   *)
LoopEnds == <>(Ended \/ short)

-----------------------------------------------------------------------------
(* What the documents and comments of the repository say.                  *)

(* SAD.md 8.3: referential integrity follows from the order in which the   *)
(* tables are generated, the parent being loaded before its children.      *)
(* Needed for it: what the children draw from are rows of the database.    *)
PublishedIsStored == ~InBatch => published \subseteq db
=============================================================================
