----------------------------- MODULE CopyStore -----------------------------
(***************************************************************************)
(* TableStore.storeTable: a batch is cut into chunks, a virtual thread per *)
(* chunk copies its rows, and the caller joins the threads in order.       *)
(* A COPY is all or nothing.  When it fails on a row the database can      *)
(* name, processCopyChunk drops that row and copies the others again.      *)
(*                                                                         *)
(* The rows differ in what the database says about them; Init chooses.     *)
(* One attempt of a chunk is one step: the statement takes effect when it  *)
(* commits, and a row whose key another chunk is inserting waits for it.   *)
(***************************************************************************)
EXTENDS Integers, Sequences, FiniteSets, SequencesExt

CONSTANTS
  BatchSizes,   \* sizes of the batches: generatedTableData's row counts
  Parallelism,  \* the parallelism argument
  MaxMultiline, \* bound of the model: rows whose text has line ends
  KeyColumns,   \* for each size, what the unique column may hold
  MaxFaults     \* bound of the model: SQL errors no row is to blame for

ASSUME CopyStoreAssumption ==
  /\ BatchSizes \subseteq Nat
  /\ \A n \in BatchSizes : \A k \in KeyColumns[n] : DOMAIN k = 0..(n - 1)
  /\ Parallelism \in Nat \ {0}
  /\ MaxMultiline \in Nat /\ MaxFaults \in Nat

VARIABLES
  \* the batch, fixed by Init
  size,       \* batchRecords
  key,        \* the unique column
  kind,       \* what else the database has to say about each row
  multiline,  \* the rows whose text has line ends
  \* the chunk threads
  remaining,  \* remainingIndices of each chunk
  rejected,   \* failedIndices of each chunk
  status,     \* "copying", "stored" or "thrown"
  \* the caller
  pc,         \* "join", "close", "returned" or "threw"
  joined,     \* futures joined so far
  total,      \* rows of the joined chunks counted as stored
  allFailed,  \* failedIndices of the joined chunks
  \* the database
  committed,  \* the rows of the batch it holds
  faults      \* SQL errors so far that no row is to blame for

batchVars  == <<size, key, kind, multiline>>
callerVars == <<pc, joined, total, allFailed>>
vars == <<batchVars, remaining, rejected, status, callerVars, committed, faults>>

-----------------------------------------------------------------------------

Batch == 0..(size - 1)

(* subBatchSize: rounded up, so that there are at most Parallelism chunks. *)
SubBatchSize == (size + Parallelism - 1) \div Parallelism

Chunks == 1..((size + SubBatchSize - 1) \div SubBatchSize)

(* The indices startIdx .. endIdx - 1 of a chunk.                          *)
Slice(c) ==
  LET start == (c - 1) * SubBatchSize
      rest  == size - start
  IN [i \in 1..(IF rest < SubBatchSize THEN rest ELSE SubBatchSize)
        |-> start + i - 1]

(* "bad": a NOT NULL or CHECK constraint, or a key the table had before,   *)
(* rejects the row.  "quoting": so, and the message shows the row, whose   *)
(* text has "line <number>" in it.  "orphan": a foreign key finds no       *)
(* parent, which is reported for the statement and names no line.          *)
Kinds == {"fine", "bad", "quoting", "orphan"}

(* An empty batch has no chunk; storeTable returns at once.                *)
Init ==
  /\ size \in BatchSizes
  /\ key \in KeyColumns[size]
  /\ kind \in [Batch -> Kinds]
  /\ multiline \in SUBSET Batch /\ Cardinality(multiline) <= MaxMultiline
  /\ remaining = IF size = 0 THEN <<>> ELSE [c \in Chunks |-> Slice(c)]
  /\ rejected = [c \in DOMAIN remaining |-> {}]
  /\ status = [c \in DOMAIN remaining |-> "copying"]
  /\ pc = "join"
  /\ joined = 0 /\ total = 0 /\ allFailed = {}
  /\ committed = {} /\ faults = 0

-----------------------------------------------------------------------------

(* The row at position i of a COPY cannot be inserted after those before   *)
(* it and beside what the table holds.                                     *)
Offends(rows, i) ==
  \/ kind[rows[i]] \in {"bad", "quoting"}
  \/ \E r \in committed : key[r] = key[rows[i]]
  \/ \E j \in 1..(i - 1) : key[rows[j]] = key[rows[i]]

Offenders(rows) == {i \in DOMAIN rows : Offends(rows, i)}

(* The line the database stops at.                                         *)
FirstOffender(rows) ==
  CHOOSE i \in Offenders(rows) : \A j \in Offenders(rows) : i <= j

Orphans(rows) == {i \in DOMAIN rows : kind[rows[i]] = "orphan"}

(* parseLineNumber takes the last "line <number>" of the message: the      *)
(* line of the COPY, unless the row it quotes has such a text itself.      *)
(* COPY counts lines, not rows: formatForCsv writes the line ends of a     *)
(* value as they are, and those of the rows up to the offender push its    *)
(* line further down.  How many it counts is left open, in every attempt   *)
(* anew; size + 1 stands for every line past the last row, and for a       *)
(* message parseInt gives up on because the row it quotes has line ends.   *)
ZeroBased(rows) == {FirstOffender(rows) - 1}
LineInError(rows) ==
  LET i == FirstOffender(rows) IN
  CASE kind[rows[i]] = "quoting" -> 1..(size + 1)
    [] kind[rows[i]] # "quoting" /\ \E j \in 1..i : rows[j] \in multiline -> i..(size + 1)
    [] OTHER -> {i}

CopySucceeds(c) ==
  /\ Offenders(remaining[c]) = {} /\ Orphans(remaining[c]) = {}
  /\ committed' = committed \cup ToSet(remaining[c])
  /\ status' = [status EXCEPT ![c] = "stored"]
  /\ UNCHANGED <<remaining, rejected, faults>>

RowKept(c, line) ==
  /\ line \in DOMAIN remaining[c]
  /\ rejected' = [rejected EXCEPT ![c] = @ \cup {remaining[c][line]}]
  /\ UNCHANGED <<remaining, status, committed, faults>>

(* remainingIndices.get(lineInError - 1): the row of the chunk it blames.  *)
DropRow(c, line) ==
  /\ line \in DOMAIN remaining[c]
  /\ rejected' = [rejected EXCEPT ![c] = @ \cup {remaining[c][line]}]
  /\ remaining' = [remaining EXCEPT ![c] = RemoveAt(@, line)]
  /\ status' = [status EXCEPT ![c] =
                  IF Len(remaining[c]) = 1 THEN "stored" ELSE "copying"]
  /\ UNCHANGED <<committed, faults>>

(* The error is thrown out of the chunk's thread: its rows are not stored. *)
Throw(c) ==
  /\ status' = [status EXCEPT ![c] = "thrown"]
  /\ UNCHANGED <<remaining, rejected, committed>>

(* One COPY of what remains of a chunk.                                    *)
Attempt(c) ==
  /\ status[c] = "copying"
  /\ \/ CopySucceeds(c)
     \/ /\ Offenders(remaining[c]) # {}
        /\ \E line \in LineInError(remaining[c]) :
             \/ DropRow(c, line)
             \/ line \notin DOMAIN remaining[c] /\ Throw(c) /\ UNCHANGED faults
     \/ /\ Offenders(remaining[c]) = {} /\ Orphans(remaining[c]) # {}
        /\ Throw(c) /\ UNCHANGED faults
     \/ faults < MaxFaults /\ faults' = faults + 1 /\ Throw(c)
  /\ UNCHANGED <<batchVars, callerVars>>

(* Rows a chunk that ended well reports as stored (totalAdded).            *)
AddedAtStart(c) == Len(Slice(c))
TotalAdded(c) == Len(remaining[c])

(* future.join() of the next chunk; the first that threw ends the loop.    *)
Join ==
  LET c == joined + 1 IN
  /\ pc = "join" /\ joined < Len(remaining) /\ status[c] # "copying"
  /\ joined' = c
  /\ IF status[c] = "stored"
     THEN /\ total' = total + TotalAdded(c)
          /\ allFailed' = allFailed \cup rejected[c]
          /\ UNCHANGED pc
     ELSE pc' = "close" /\ UNCHANGED <<total, allFailed>>
  /\ UNCHANGED <<batchVars, remaining, rejected, status, committed, faults>>

(* executor.close() at the end of the try block waits for the threads that *)
(* were not joined.                                                        *)
LeaveRunning == TRUE
ThreadsEnded == \A c \in DOMAIN status : status[c] # "copying"
Close ==
  /\ \/ pc = "join" /\ joined = Len(remaining) /\ pc' = "returned"
     \/ pc = "close" /\ ThreadsEnded /\ pc' = "threw"
  /\ UNCHANGED <<batchVars, remaining, rejected, status, joined, total,
                 allFailed, committed, faults>>

Next == (\E c \in DOMAIN status : Attempt(c)) \/ Join \/ Close

(* Every thread and the caller go on; the driver and the pool give up      *)
(* waiting after a timeout.                                                *)
Spec == Init /\ [][Next]_vars
             /\ WF_vars(\E c \in DOMAIN status : Attempt(c))
             /\ WF_vars(Join \/ Close)

-----------------------------------------------------------------------------
(* Properties.                                                             *)

Ended == pc \in {"returned", "threw"}

(* The chunks hold each row of the batch once, in the same chunk until it  *)
(* is dropped; there are no more chunks than threads asked for.            *)
TypeOK ==
  /\ size \in BatchSizes /\ multiline \in SUBSET Batch
  /\ pc \in {"join", "close", "returned", "threw"}
  /\ Len(remaining) <= Parallelism
  /\ \A c \in DOMAIN remaining : ToSet(remaining[c]) \subseteq Batch
  /\ status \in [DOMAIN remaining -> {"copying", "stored", "thrown"}]
  /\ joined \in 0..Len(remaining)
  /\ total \in 0..size /\ allFailed \in SUBSET Batch
  /\ committed \in SUBSET Batch /\ faults \in 0..MaxFaults

(* A returned StoreResult partitions the batch: stored is the number of    *)
(* rows in the database and failedIndices are exactly the others, so that  *)
(* a retry copies no row twice and forgets none.                           *)
ResultPartitions ==
  pc = "returned" => total = Cardinality(committed)
                     /\ allFailed = Batch \ committed

(* The line a message names is the position of the row it means, for the  *)
(* rows of a chunk up to r: no row of the chunk makes a message quote a    *)
(* line number, and no text up to r has a line end.                        *)
Countable(c, r) ==
  \A s \in ToSet(Slice(c)) : kind[s] # "quoting" /\ (s \in multiline => r < s)

(* A row is given up only for a reason of its own, a constraint that       *)
(* rejects it or a key that is taken, although each retry moves the lines  *)
(* (processCopyChunk).  From the first text with a line end on, or when a  *)
(* message quotes a line number, the code cannot keep this.                *)
OnlyOffendersRejected ==
  \A c \in DOMAIN rejected : \A r \in rejected[c] :
    Countable(c, r) =>
      \/ kind[r] = "bad"
      \/ \E s \in committed \cup ToSet(remaining[c]) : s # r /\ key[s] = key[r]

(* No chunk copies on after storeTable has returned or thrown: the caller  *)
(* may count, roll back or close the connections.                          *)
NothingOutlivesCall ==
  [][Ended => UNCHANGED <<status, committed>>]_vars

(* storeTable ends.                                                        *)
StoreEnds == <>Ended

(* storeTable keeps what its callers rely on: see StoreContract.           *)
outcome == IF Ended THEN pc ELSE "running"
storeResult == IF pc = "returned"
               THEN [stored |-> total, failedIndices |-> allFailed]
               ELSE [stored |-> 0, failedIndices |-> {}]
Contract == INSTANCE StoreContract
              WITH batch <- Batch, result <- storeResult
KeepsContract == Contract!Spec
=============================================================================
