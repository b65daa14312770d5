------------------------------ MODULE Pipeline ------------------------------
(***************************************************************************)
(* Pipeline.startPipeline and the HikariCP pool it sizes: who borrows a    *)
(* connection, who gives it back, and what is left for the steps that come *)
(* after the load.  A table that is loaded borrows a connection for each   *)
(* COPY of each of its chunk threads (TableStore); import and the index    *)
(* script borrow one each and never close it.  Both run an SQL script,     *)
(* line by line (SqlScript).                                               *)
(***************************************************************************)
EXTENDS SqlScript

CONSTANTS
  Tables,
  MaxThreads,    \* bound of the model: the largest thread count to choose
  MaxCopies      \* bound of the model: COPY attempts per table

ASSUME PipelineAssumption ==
  /\ IsFiniteSet(Tables)
  /\ MaxThreads \in Nat \ {0} /\ MaxCopies \in Nat

VARIABLES
  settings,  \* the thread counts of the configuration
  step,      \* where startPipeline is
  indexFile, \* an index script was given
  leaked,    \* connections borrowed and never closed
  loading,   \* tables that hold a permit and a generation thread
  loaded, failed, \* tables whose load ended, well or with an exception
  waiting,   \* chunk threads of each table about to ask for a connection
  holding,   \* chunk threads of each table with a connection
  copies     \* COPY attempts of each table so far

tableVars == <<loading, loaded, failed, waiting, holding, copies>>
vars == <<settings, step, indexFile, leaked, tableVars, scriptVars>>

GenThreads == settings.gen      \* threads of the generation pool
GlobStores == settings.glob     \* globStoreThreads, the permits
TableStores == settings.table   \* tableStoreThreads, chunks of a batch

(* hikariConfig.setMaximumPoolSize.                                        *)
OnePerThread == GenThreads
PoolSize == GenThreads + TableStores * GlobStores

(* One for each chunk thread with a connection, and the leaked ones.       *)
Held == UNION {{t} \X (1..holding[t]) : t \in Tables}
Free == PoolSize - leaked - Cardinality(Held)

-----------------------------------------------------------------------------

Init ==
  /\ settings \in [gen : 1..MaxThreads, glob : 1..MaxThreads,
                    table : 1..MaxThreads]
  /\ step = "import" /\ indexFile \in BOOLEAN
  /\ leaked = 0
  /\ loading = {} /\ loaded = {} /\ failed = {}
  /\ waiting = [t \in Tables |-> 0] /\ holding = [t \in Tables |-> 0]
  /\ copies = [t \in Tables |-> 0]
  /\ ScriptInit

(* startImport(..., dataSource.getConnection()): nobody closes it.         *)
Import ==
  /\ step = "import" /\ Free > 0
  /\ leaked' = leaked + 1 /\ step' = "schema"
  /\ Open
  /\ UNCHANGED <<settings, indexFile, tableVars>>

(* importSchemas, for the schema and for the indexes: the script line by   *)
(* line, and an exception if it is missing or stopped.                     *)
RunScript ==
  /\ step \in {"schema", "indexing"} /\ ScriptStep
  /\ UNCHANGED <<settings, step, indexFile, leaked, tableVars>>
ScriptFails ==
  /\ step \in {"schema", "indexing"} /\ runner \in {"missing", "threw"}
  /\ step' = "threw"
  /\ UNCHANGED <<settings, indexFile, leaked, tableVars, scriptVars>>

(* importStatistic: a missing or unreadable CSV file makes it throw.       *)
Statistics ==
  /\ step = "schema" /\ runner = "ended"
  /\ step' \in {"generate", "threw"}
  /\ Close
  /\ UNCHANGED <<settings, indexFile, leaked, tableVars>>

(* A generation thread gets a permit for a table.                          *)
StartTable(t) ==
  /\ step = "generate" /\ t \notin loading \cup loaded \cup failed
  /\ Cardinality(loading) < GenThreads /\ Cardinality(loading) < GlobStores
  /\ loading' = loading \cup {t}
  /\ UNCHANGED <<settings, step, indexFile, leaked, loaded, failed, waiting,
                 holding, copies, scriptVars>>

(* storeTable starts its threads: tableStoreThreads of them at most, one   *)
(* for a retry, and only when the threads of the call before have ended.   *)
StartStore(t) ==
  /\ t \in loading /\ waiting[t] = 0 /\ holding[t] = 0
  /\ \E n \in 1..TableStores :
       /\ copies[t] + n <= MaxCopies
       /\ waiting' = [waiting EXCEPT ![t] = n]
       /\ copies' = [copies EXCEPT ![t] = @ + n]
  /\ UNCHANGED <<settings, step, indexFile, leaked, loading, loaded, failed,
                 holding, scriptVars>>

(* One COPY attempt: dataSource.getConnection() ...                        *)
Borrow(t) ==
  /\ waiting[t] > 0 /\ Free > 0
  /\ waiting' = [waiting EXCEPT ![t] = @ - 1]
  /\ holding' = [holding EXCEPT ![t] = @ + 1]
  /\ UNCHANGED <<settings, step, indexFile, leaked, loading, loaded, failed,
                 copies, scriptVars>>

(* ... and its close at the end of the try; after a row was rejected the   *)
(* thread goes round again and asks for a connection once more.            *)
TryAgain(t) ==
  /\ holding[t] > 0 /\ copies[t] < MaxCopies
  /\ copies' = [copies EXCEPT ![t] = @ + 1]
  /\ holding' = [holding EXCEPT ![t] = @ - 1]
  /\ waiting' = [waiting EXCEPT ![t] = @ + 1]
  /\ UNCHANGED <<settings, step, indexFile, leaked, loading, loaded, failed,
                 scriptVars>>

LeakedAtEnd(t) ==
  /\ holding[t] > 0
  /\ holding' = [holding EXCEPT ![t] = @ - 1] /\ leaked' = leaked + 1
  /\ UNCHANGED <<settings, step, indexFile, loading, loaded, failed, waiting,
                 copies, scriptVars>>
EndCopy(t) ==
  /\ holding[t] > 0
  /\ holding' = [holding EXCEPT ![t] = @ - 1]
  /\ UNCHANGED <<settings, step, indexFile, leaked, loading, loaded, failed,
                 waiting, copies, scriptVars>>

FinishTable(t) ==
  /\ t \in loading /\ waiting[t] = 0 /\ holding[t] = 0
  /\ loading' = loading \ {t}
  /\ \/ loaded' = loaded \cup {t} /\ UNCHANGED failed
     \/ failed' = failed \cup {t} /\ UNCHANGED loaded
  /\ UNCHANGED <<settings, step, indexFile, leaked, waiting, holding, copies,
                 scriptVars>>

(* generateData returns when every table is loaded; it throws when one     *)
(* failed and the others that can still be loaded have ended: which those  *)
(* are is GenScheduler's subject, here any of them may be missing.  The    *)
(* bound on COPYs has done its work.                                       *)
GenerateEnds ==
  /\ step = "generate" /\ loading = {}
  /\ \/ loaded = Tables /\ step' = IF indexFile THEN "indexes" ELSE "reload"
     \/ failed # {} /\ step' = "threw"
  /\ copies' = [t \in Tables |-> 0]
  /\ UNCHANGED <<settings, indexFile, leaked, loading, loaded, failed, waiting,
                 holding, scriptVars>>

(* importSchemas(path, dataSource.getConnection().createStatement())       *)
Indexes ==
  /\ step = "indexes" /\ Free > 0
  /\ leaked' = leaked + 1 /\ step' = "indexing"
  /\ Open
  /\ UNCHANGED <<settings, indexFile, tableVars>>
IndexesBuilt ==
  /\ step = "indexing" /\ runner = "ended" /\ step' = "reload"
  /\ Close
  /\ UNCHANGED <<settings, indexFile, leaked, tableVars>>

(* pg_reload_conf(), then ANALYZE, each on a connection that is closed.    *)
Reload ==
  /\ step = "reload" /\ Free > 0
  /\ step' = "analyze"
  /\ UNCHANGED <<settings, indexFile, leaked, tableVars, scriptVars>>
Analyze ==
  /\ step = "analyze" /\ Free > 0
  /\ step' = "analyzed"
  /\ UNCHANGED <<settings, indexFile, leaked, tableVars, scriptVars>>

(* connectionTimeout: getConnection throws when no connection comes free.  *)
(* Nobody will give one back once the tables are loaded.                   *)
TimeOut ==
  /\ step \in {"indexes", "reload", "analyze"} /\ Free = 0
  /\ step' = "timedOut"
  /\ UNCHANGED <<settings, indexFile, leaked, tableVars, scriptVars>>

TableStep(t) ==
  \/ StartTable(t) \/ StartStore(t) \/ Borrow(t) \/ TryAgain(t)
  \/ EndCopy(t) \/ FinishTable(t)
MainStep == \/ Import \/ RunScript \/ ScriptFails \/ Statistics \/ GenerateEnds
            \/ Indexes \/ IndexesBuilt \/ Reload \/ Analyze \/ TimeOut

Next == MainStep \/ \E t \in Tables : TableStep(t)

(* Threads go on while they can; a load that never ends is TableLoad's     *)
(* subject, not this module's.                                             *)
Spec == Init /\ [][Next]_vars
             /\ WF_vars(MainStep) /\ \A t \in Tables : WF_vars(TableStep(t))

-----------------------------------------------------------------------------

(* A COPY never waits for a connection: the size Pipeline gives the pool   *)
(* covers the connection import keeps and the chunks of all the tables the *)
(* semaphore lets in.  So connectionTimeout cannot fail a batch.           *)
CopyNeverWaits ==
  /\ Free >= 0
  /\ (\E t \in Tables : waiting[t] > 0) => Free > 0

(* Unless the import or the load throws, startPipeline gets to the end:    *)
(* step 5 of its Javadoc, pg_reload_conf() and ANALYZE, follows the load   *)
(* whether or not there is an index script.  The one exception are the     *)
(* connections that import and the index script keep: when these two are   *)
(* the whole pool, with one thread everywhere, the steps after the load    *)
(* wait until they time out.  Nothing the load does can cause that.        *)
AnalyzeReached == PoolSize > 2 => <>(step \in {"analyzed", "threw"})
=============================================================================
