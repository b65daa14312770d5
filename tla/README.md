# TLA+ models of PG-OZERKI

PG-OZERKI copies the *shape* of a PostgreSQL database: an exporter (C) writes
the schema a query needs, together with statistics and constraints, and a
generator (Java) creates that schema elsewhere and fills it with synthetic rows
that have the same statistics. These modules model the parts of both programs
where the order of steps matters, check them with TLC on small instances and
prove the most important properties with TLAPS for every value of the
constants. Paths below are relative to `src/`; `datagen/…` abbreviates
`datagen/src/main/java/ru/nsu/datagen/…`.

## 1. The system

```
 production DB --> exporter app/pg_ozerki --> schema.sql, indexes.sql,
                   (+ extension pg_ozerki/)   statistics.csv, constraints.csv
                                                      |
                                                      v
 test DB <------------- generator datagen/ <-- Importer, TableMetadataMaker
```

### Generator (Java)

| component | state | operations | talks to |
|---|---|---|---|
| `pipeline/Pipeline` | connection pool, generation thread pool | import, generate, index script, reload, ANALYZE | all of the others, in this order |
| `importer/Importer`, `model/TableMetadataMaker`, `model/ColumnMetadataCSV` | none after the import | run a script statement by statement, parse the CSV files | the metadata map every other part reads |
| `graph/DependencyGraph`, `TableDependency` | dependencies and dependents of each table, the in-degrees of a computation | weak components, levels of a component | called by main only: the components before any thread starts, the order of a component when main comes to it, while tables of earlier ones may load already |
| `DatabaseDataGenerator` (outer half) | a future per component and level, the semaphore, the pool's queue | chain levels, submit tables, acquire and release, join | shared pool of `Pipeline` |
| `DatabaseDataGenerator` (inner half) | `createdAmount`, `emptyBatchCount`, `generatedData` | generate a batch, store, retry rejected rows, publish keys to the children | `DataGenerator`, `TableStore`; `generatedData` is shared by the tables of a component |
| `generators/DataGenerator`, `ColumnBatchState`, `StateData` | position and probabilities of each column | next batch, take back unadded rows, regenerate Markov columns | the generators below |
| `SimpleUniqueGenerator` | cached distinct values, position | slice, lazy extension | |
| `MarkovGenerator` | groups of foreign keys, used counts | distinct rows of a key, the values other tables need first | `generatedData` of the parents |
| `OneToOneForeignKeyGenerator`, `OneToManyForeignKeyGenerator` | the parent's tuples that are left | draw a tuple, with or without replacement | `generatedData` of the parents |
| value generators | none | a value between two bounds | |
| `store/TableStore` | rows left and rejected of each chunk, counters | parallel COPY of chunks, dropping the row an error names, join | a connection per COPY attempt |

### Exporter (C)

| component | state | operations | talks to |
|---|---|---|---|
| `pg_ozerki.c` | TOC, restore options, include lists | order of the whole export, boundary dependencies, which entries each pass prints | all files below |
| `query.c` | tables and schemas of the query | find the tables in the parse tree the server returns | fills the include lists |
| `get_schema.c` | catalogue arrays, dump flags | read the catalogue, select what to dump, propagate inheritance flags | gives the sorter its objects |
| `sort.c` | in-degrees, heap, loop marks; the dependency lists of the objects | order by name, topological sort, find and break loops | dump ids and dependency lists (`ozerki_utils.c`) |
| `dump.c` | archive entries | SQL text and section of each object | called in sorted order |
| `stat_export.c`, `constraint_export.c`, `plan_export.c` | none | one query each, written as CSV or text | read by `Importer` |
| `pg_ozerki/` | the script under way; the server's global SPI result | `dump_schema`: the objects a query's plan needs, then one generator per section of the script | an SQL function of the server, an alternative to the exporter |

### What is hard here, and what makes each part correct

* **Order of the load** (`DependencyGraph`, scheduler). A child table draws its
  foreign keys from what its parents published. Levels run in whichever thread
  finishes last; failures, a bounded semaphore and a pool smaller than a level
  must not start a child early, lose a permit or end the call while something
  still runs.
* **Accounting of a table** (batch loop). A batch is generated, partly stored,
  partly rejected, retried with other values, or fails with an exception after
  some of it was committed. Three records have to agree: the counter, the rows
  of the database and the generator's position.
* **The result of a COPY** (`TableStore`). Which rows were rejected is read off
  a line number in an error message, relative to what is left of a chunk, and
  counted in lines although a row may have several.
* **Columns of a table** (`DataGenerator`, `MarkovGenerator`, foreign key
  generators). Keys and foreign keys may share columns, the columns come in the
  order of a hash map, and the first one asked makes the generator for its whole
  group. Tuples are read by position from lists the parent's load filled batch
  by batch, and positions go back when rows are rejected.
* **Connections** (`Pipeline`). The pool must suffice for every COPY although
  two connections are never returned.
* **Scripts** (`Importer`). A script is cut into calls at line ends, without
  knowing where statements end.
* **Global results** (`pg_ozerki/ddl_query.c`). `SPI_processed` and
  `SPI_tuptable` are replaced by every query, those run inside a loop over the
  result included.
* **Selection** (`get_schema.c`). Forty readers run one after the other, and later
  ones change what earlier ones decided: extension membership overrides
  selection, an inherited column makes its parent's columns read, a view marked
  at the end needs its schema marked after it. A part of a table is written
  inside it or apart, and the choice decides on which side of which boundary its
  dependencies lie.
* **Two passes and two files** (`pg_ozerki.c`). The archive is printed in two
  filtered passes and the plain indexes in a file of their own, so that an
  entry's section, not only its place in the sort, decides where it comes out.
* **Order of the dump** (`sort.c`). The output must be an order in which the
  script can be run; the catalogue has loops, and breaking one changes what the
  next search sees.

The list of hazards, each with its line and the properties that cover it, is
`PROJECT.json` under `hazards`.

## 2. The modules

| module | models | kind |
|---|---|---|
| `DependencyGraph` | `getWeaklyConnectedComponents`, `getGenerationOrder` | state machine, one action per visited node and closed level |
| `OrderedLoad` | what `generateData` promises | abstract specification |
| `GenScheduler` | level chains, pool, semaphore, join | detailed, implements `OrderedLoad` |
| `TableLoad` | the batch loop of one table with its key generator | state machine with an environment that rejects rows and fails |
| `StoreContract` | what `storeTable` promises | abstract specification |
| `CopyStore` | `storeTable` and `processCopyChunk` | detailed, implements `StoreContract` |
| `TableColumns` | from the constraints of a table to the generators of its columns and their batches: `DataGenerator`, `MarkovGenerator`, the foreign key generators | state machine, one action per kind of generator |
| `SqlScript` | `Importer.executeSqlScript` | state machine, one action per kind of line |
| `Pipeline` | `startPipeline` and the connection pool; extends `SqlScript` for the two scripts it runs | state machine |
| `TopoSort` | `TopoSort` of `sort.c` | algorithm, one action per emitted object |
| `DumpSort` | `sortDumpableObjects`, `findDependencyLoops`, `findLoop`, `repairDependencyLoop` | state machine, one action per leftover looked at |
| `SchemaSelection` | `getSchemaData` with every reader, the `selectDumpable…` routines, `getDependencies`, `addBoundaryDependencies` | state machine, one action per reader |
| `SchemaEntries` | `dumpDumpableObject` and the dump functions: which archive entries an object gets | operators over the state of `SchemaSelection` |
| `SchemaExport` | `main` of the exporter: selection, sorting, dumping, the restore pass, the post-data statements, the index file | state machine, composes the two above |
| `ServerDump` | `dump_schema` of the server extension and its generators; replaying the script in an empty database | state machine, one action per section and per row of the two loops that run queries of their own |
| `…_proofs` | theorems about the module of that name | TLAPS |
| `MC…` | the constants TLC uses for the module of that name | |

How they fit together. `GenScheduler` takes the levels as a constant and assumes
of them exactly what the theorem `LevelsSuitScheduler` says of the levels
`DependencyGraph` builds; both modules are proved about in `GenScheduler_proofs`,
and `DependencyGraph` prefixes the names the two would share (`GraphSpec`). It treats the load of a table as one step that ends well
or throws; `TableLoad` is that step. `TableLoad` treats a `storeTable` call as
one step with any outcome that `CopyStore` can produce. `TableColumns` is the
other half of a batch: what the rows look like and how the generators' positions
move, with a `storeTable` that keeps any number of rows or throws. `Pipeline`
treats the load as tables that borrow and return connections, and runs
`SqlScript` for the schema and again for the indexes. `DumpSort` replaces a
TopoSort call by its outcome, the leftovers, which `TopoSort` shows to be
`Stuck` (`FailureIsExact`). `SchemaExport` in turn replaces the alternation of
sorting and loop repair by its outcome (`Repair`): which parts end up apart from
their owners, which shell types are needed, what is postponed; the sort that
succeeds in the end is there object by object (`SortNext`). Only loops whose
outcome does not depend on where the search starts are in its catalogue, and
`LoopsRepaired`, a part of `ScriptOrder`, checks that one repair has indeed left
none; that the search is well behaved otherwise is what `dump_sort` checks.

### State and actions against the code

* **`DependencyGraph`**: `inDegree`, `levelTables`, `nextLevel` are the locals of
  `getGenerationOrder` (`DependencyGraph.java:92-132`); `todo` is what is left of
  the iteration over `currentLevel`, in any order because it comes from a hash
  map. `Visit` is one iteration with the decrement of every child's in-degree,
  `CloseLevel` the end of the `while` body. The graph and the component are
  chosen in `GraphInit`; `Components` is the breadth-first search's result.
* **`GenScheduler`**: `composer[c]` is the thread that runs the continuation of
  component `c`; a continuation runs in the thread that completes the level, or
  in main as long as main may not have registered it (`Continuers`). `Submit` is
  one `runAsync`, `Take` a pool thread taking the head of the FIFO queue,
  `Acquire`/`Release` the semaphore, `Complete` the completion of a task's
  future, which may complete `allOf` and run the next continuation in the same
  step. `Join` is the last `join()`.
* **`TableLoad`**: `Generate`, `Store`, `Retry`, `Account`, `Finish` follow the
  loop `DatabaseDataGenerator.java:75-115`. Rows are named by the index of their
  key in `cachedValues`, so the slices of `SimpleUniqueGenerator` are intervals.
  `keyFirst` says whether the key column is the first in hash order: the length
  of that column is what `storeTable` takes for the number of rows. The history
  variables `erred` and `short` record that an SQL error was swallowed and that
  a slice was shorter than asked.
* **`CopyStore`**: the batch (size, which rows violate what, which keys are
  equal, which rows have line ends in their text) is chosen in `Init`. `Attempt` is one COPY of what remains of a chunk:
  it commits, names a line, names none (foreign keys are checked after the last
  line), or fails otherwise. `Join` is one `future.join()`, `Close` the end of
  the try block, which waits for all threads. `LineInError` is the line a message
  names: the position of the row, unless the message quotes a `line N` of the row's
  own text, or a text up to that row has line ends, which `formatForCsv` writes as
  they are and COPY counts. In the second case any later line is allowed, in every
  attempt anew: how many line ends a text has, and which of them COPY counts, is
  left open.
* **`TableColumns`**: `states` are the `ColumnBatchState`s in the order the hash
  map gave the columns, `position` their `generatedCount`, `pools` what a
  generator goes through or draws from. `AddState` is one iteration of
  `ensureColumnBatchStates`; `ProducePlain`, `ProduceUnique`, `ProduceMany`,
  `ProduceOne` and `ProduceKey` are `generateBatchTableData` asking one state,
  by the kind of its generator; `Stored` and `StoreThrew` are what the batch
  loop does with the result (`removeUnaddedColumns`). The value a parent row has
  in any column is named by the number of that row, so a tuple is a real one iff
  its components are equal; which of the possible tuples comes first (weights,
  their decay, the random generator) is left open. A generator that throws ends
  the load in `pc = "crashed"`. The history variables record which needed values
  were handed out, which tuples a one-to-one generator gave, and whether some
  generator gave another number of rows than it was asked for.
* **`SqlScript`**: a line belongs to a statement or is a comment, may have a
  comment behind its text, and may end with a semicolon, which inside a function
  body is not the end of the statement. `query` is the string builder, `Execute`
  the call made at a line that ends with a semicolon; what the server executes
  follows from which statements that call holds whole (`Called`, `Whole`).
* **`Pipeline`**: `settings` are the three thread counts; `leaked` counts the two
  connections of lines 68 and 72 that nobody closes.
* **`TopoSort`**: `before`, `heap`, `ordering` are `beforeConstraints`,
  `pendingHeap` and the filled tail of `ordering`. `Emit` is one round of the
  main loop with its decrements, an object listed twice decremented twice.
* **`DumpSort`**: `deps` are the `dependencies` arrays; `separate`, `dummy`,
  `postponed`, `shells` the marks the repairs set. `Sort` is a TopoSort call,
  `LookAt` one iteration of `findDependencyLoops` with the repair of the loop it
  finds, `EndPass` the end of that function. The repair cases are tried in the
  order of the code. Loops of table data by foreign keys and all loops no case
  knows end in the generic cut. The case of an index and its partition parent is
  in the module, but no catalogue of the run has such a loop, since
  `flagInhIndexes` adds only the dependency of the partition on the parent.

* **`SchemaSelection`**: `dump`, `contains`, `interesting`, `separate`, `deps`
  are the fields `dobj.dump`, `dump_contains`, `interesting`, `separate` and
  `dependencies`; `made` the objects `AssignDumpId` was called for, `members` the
  table `recordExtensionMembership` fills. `step` counts through `Steps`, the
  order of the calls in `getSchemaData`; a query that names no table skips all
  readers but the first three (`get_schema.c:210`). `catalog` is what the
  queries return, fixed for a run, as all of them see one snapshot. Depth is
  kept: index attachments under attachments, attributes of parents of parents.
* **`SchemaEntries`**: an entry is its object, description and section. A
  conditional that only changes the text is left out, and so is the text: `map`
  names the whole dump functions, whose SQL text stands behind one entry each; one that decides whether
  there is an entry, or its section, is kept (`separate`, `postponed`,
  `indexconstraint`, `conislocal`, components of the dump mask).
* **`SchemaExport`**: `toc` is the archive's list, `script` what the schema file
  holds, `indexScript` the index file. `ordering` is the filled tail of the array
  of that name: `SortNext` is a round of TopoSort's loop, which takes from the heap
  the object that comes last by type priority and name (`ComesAfter`; `names` is
  any order). `DumpNext` is an iteration of the loop at `pg_ozerki.c:528`,
  `ProcessArchiveRestoreOptions` decides `reqs`, `RestoreArchive` prints the main
  pass (the loops of the other two have their call commented out),
  `AppendPostData` and `WriteIndexes` are lines 583-638.

* **`ServerDump`**: `spi` is the global result of the last query, `saved` the
  copy `generate_tables_ddl_query` makes of it, `deps` the `QueryDependencies`.
  A section whose loop runs no query is one step (`Section`); the loops over the
  tables and over the sequences are one step per row, because the queries of
  their bodies replace `spi`. A statement carries what it needs and what it makes;
  `Outcome` replays the script and collects the statements that fail. Schemas,
  relations, keys, checks, functions and extensions are needed and made by name
  (`Schema` … `Check`); a table needs what its columns and its inline checks use,
  a view, an index and a constraint what their expressions and operator classes use,
  a function what its body uses and an extension the extensions it requires. An
  extension makes its members: types, operator classes, functions, tables.
  `Reliable` says which statements the order of the sections can be relied on for.
  The functions come before the extensions and the tables, and the extensions in
  the order of their names, so a function or extension counts only if it needs no
  more than the schemas (`SelfContained`); what these make is there `Early`, and a
  table, view, index or constraint counts only if all it uses besides ordinary
  tables is. A statement for what an extension makes as well does not count
  (`Own`), as it fails after CREATE EXTENSION.

## 3. Runs

| run | instance | shows |
|---|---|---|
| `table_load` | 4 rows, batches of 3, 2 COPY threads, 6 values, 2 retries, 2 SQL errors, empty limit 2 | `RowAccounting`, `PositionTracksRows`, `StoredIsPublished`, `LoopEnds` |
| `generation_order` | every directed graph over 4 tables, self references included | `ParentsEarlier`, `LostWaitsForLost`, `OrderIsFound` |
| `scheduler` | 3 components (levels 2-2-1, 1-1 and none), 3 threads, 2 permits | `PermitBound`, `LevelBarrier`, `ResultIsTrue`, `QuietAtEnd`, `MainEnds`, refinement `KeepsPromise` |
| `copy_store` | batches of 0, 3 and 4 rows, 2 chunks, every column of keys up to renaming, every kind of violation per row, at most 1 row with line ends, 1 other error | `ResultPartitions`, `OnlyOffendersRejected`, `NothingOutlivesCall`, `StoreEnds`, refinement `KeepsContract` |
| `table_columns` | 13 tables of up to 4 columns, one per way in which keys and foreign keys meet, 6 loads of the parent, batches of 2, 3 batches | `OneStrategy`, `TuplesAreReal`, `ReferencedOnce`, `MandatorySeeded`, `HarmlessLoads` |
| `pipeline` | 3 tables, each thread count 1 or 2, 3 COPY attempts per table, 441 scripts for the schema and for the indexes | `CopyNeverWaits`, `ScriptApplied`, `AnalyzeReached` |
| `topo_sort` | 4 objects, every list of up to 2 dependencies each, repeats and self references included | `OutputRespectsDeps`, `FailureIsExact`, `InversionsJustified` |
| `dump_sort` | 15 objects, one of each kind wired as the exporter wires them, 4096 sets of further dependencies, 12 passes | `SortEnds`, `PartsInPlace`, `CutsOnLoops` |
| `schema_export` | one catalogue of 121 objects with every kind the exporter reads, 27 configurations (16 of the whole database, 11 queries), two name orders | `ScriptOrder`, `WrittenOnce`, `SchemasCreated`, `AttachedBeforeReferenced` |
| `server_dump` | every legal choice among 4 tables, 8 constraints and 3 indexes, and over all 4 tables every choice among 3 views, 3 sequences, 3 functions and 2 extensions; each dumped whole and for plans of one or two relations | `EveryTableWritten`, `MadeOnce`, `CoreReplays`, `ScriptEnds` |
| `table_load_published`, `key_tuples` | as `table_load` and `table_columns` | disagreements between code and documentation, section 6 |

Deadlock checking is off because every modelled program stops when it is done;
that it does stop is a property of its own (`LoopEnds`, `OrderIsFound`,
`MainEnds`, `StoreEnds`, `AnalyzeReached`, `SortEnds`, `ScriptEnds`). Type
invariants are not among the runs' properties; they are theorems (`TypeCorrect`)
wherever a module has one.

### Bounds, and why they are enough

* `table_load`: a batch smaller and one larger than what is left, two chunks of
  unequal size, more batches than one, an exhausted value range and the empty
  limit all occur. `MAX_EMPTY_BATCH_COUNT` is 1000 in the code and 2 here, the
  retries are 3 and 2: both are constants the theorems hold for in general.
* `generation_order`: four tables allow a diamond, two independent cycles, a
  cycle with a tail in either direction, and two components.
* `scheduler`: more tables than permits, more threads than permits, a component
  that fails while another one works, a component that ends in main.
* `copy_store`: two removals from one chunk, which is what makes a line number
  differ from a batch index twice; a throw of the first chunk while the second
  commits; a text with line ends before, in and behind the row that is rejected.
  The database compares keys and does nothing else with them, so columns that
  differ by a renaming behave alike (`MCKeyColumns`).
* `table_columns`: the tables are a key beside a foreign key, a key that is one,
  a key that is its first column, a key that shares a column with it, one-to-one
  keys with and without NULLs and common values, two foreign keys on one column, a
  foreign key whose values are distinct, and keys that other tables refer to. The
  parent was not loaded, loaded in one or two batches, or with a key column
  shorter than its others in the first or in the last batch. Batches of 2 for
  tables of 2 to 4 rows give full, short and repeated batches; three of them
  suffice for a rejected batch to be followed by a stored one and by another.
* `pipeline`: all eight pool shapes up to two threads; the case where the leaked
  connections are the whole pool is one of them. Three COPY attempts are more than
  the two connections a table's threads can hold. The scripts have three
  statements over up to seven lines: comment lines, comments behind a line, lines
  inside a statement that end with a semicolon, and statements that are accepted,
  name an undefined table or are rejected, so that two statements can share a
  call, a call can hold half of one, and the last can be lost.
* `server_dump`: two tables of one name in two schemas, one of them on the search
  path; a partitioned table; foreign keys to a primary key, to a unique
  constraint and to a plain unique index; checks with and without NO INHERIT;
  owned, identity and free sequences; a view over a view; an aggregate; a
  function over a table and one that needs nothing, each called by a check, an
  index or a view; an extension in a schema of its own with a type and an operator
  class that a table, an index and a unique constraint use, and one that requires
  it and makes a table.
* `topo_sort`: four objects hold a diamond, two loops, a loop with a tail.
* `dump_sort`: each repair needs at most five objects of different kinds; all
  combinations of the twelve optional dependencies let loops overlap. `MaxPasses`
  is larger than any number of passes reached, which `SortEnds` checks.

* `schema_export`: the program is sequential, so what varies is its input. The
  catalogue holds each kind of object and each loop `sort.c` knows at least once:
  type and input function, view and query, view through a function, table and
  check through a function of its row type, domain and check, materialized view
  and function that need a primary key, a partition tree of three levels with
  keys, inheritance with defaults, an extension with configuration tables and a
  schema. The configurations are all combinations of the switches, and queries
  over tables, one partition, views, no table, and names that match none. The
  second name order is the first reversed, which decides every choice the sort
  has the other way.

### Fairness

Weak fairness of each thread's steps, nothing stronger. The generation threads,
the virtual threads of a COPY and main are scheduled by the JVM and each blocked
call has a timeout (`connectionTimeout`, the driver) or waits only for threads
that are themselves fair. The semaphore is not fair in the code and is not
assumed to be: a permit's holder waits for no other table, and there are finitely
many tables. `TableLoad` bounds the SQL errors of the environment by `MaxFaults`;
without that bound the loop does not end, as the code retries an error without
counting it. `Pipeline` has main's steps, the script runner's among them, and each
table's steps fair. `ServerDump` is one backend running one function, so its next
step is fair. `TableColumns` states no liveness. `DumpSort` states termination as the safety property `SortEnds`.

## 4. Proofs

All theorems hold for every value of the constants under the module's `ASSUME`s,
which TLC evaluates on every run. Where a constant stands for data that comes from
elsewhere, the assumption says what its source guarantees: `ScriptsAssumption` that
the lines of a statement follow each other, `ParentAssumption` that a foreign key
names a column of the parent for each of its own and that a batch of the parent
stored a row, `CatalogueAssumption` what PostgreSQL holds true of its catalogues
(one object per oid, one relation per name, one index per unique constraint, one
extension per member, a foreign key references a key that is there), and `CatalogAssumption` the same for the
exporter's reading of them: a schema is a schema and has none itself, a part has an
owner of the right kind and its schema, what extensions need are extensions and
schemas.

Some of the proofs reason by induction over the data: the rows of a list, the
statements of a script, the lines read. The library states induction with an
operator as parameter, which the provers cannot instantiate, but also that `<` on
the natural numbers is well founded, and that a well-founded relation has minimal
elements, which are facts about sets. The lemmas `Least` and `Induction` (a set of
numbers with 0 and the successor of each of its members holds all) are proved from
these, and a recursive function is unfolded by exhibiting one that satisfies its
equation (`Choosing`, `Replaying`).

* **`TableLoad_proofs`**: `TypeCorrect`, `RowsAreAccountedFor`,
  `PositionIsInStep`, `CrashHasACause`, `StoredRowsArePublished`. None of these is
  inductive alone. The invariant `IInv` adds what a batch in flight owes the
  table: its rows and what the table still lacks (`BatchInv`), that stored and
  failed rows of a batch are disjoint parts of it, which is why adding the
  result of a retry counts no row twice, and what `Account` is going to publish
  (`PublishInv`).
* **`TopoSort_proofs`**: `TypeCorrect`, `OutputIsSorted`, `FailureMeansCycle`,
  `LittleRearrangement`. `CountInv` says the counter of an object is the number
  of dependency *entries* of unplaced objects that name it, repeats included;
  `StuckInv` that no object of a set in which each has a dependent is ever
  placed, which gives both directions of `FailureIsExact`; `FrontInv` that a
  ready object later than the one just placed became ready by placing it.
* **`GenScheduler_proofs`**: `TypeCorrect`, `PermitsAreKept`,
  `LevelsAreBarriers`, `FuturesTellTheTruth`, `NothingRunsAtTheEnd`,
  `SchedulerImplementsOrderedLoad`. `IInv` says of each component that the levels
  before the current one are loaded, those after it untouched and exactly the
  tables not yet submitted idle in the current one (`LevelsInv`), that only a
  running continuation has tables to submit (`ComposerInv`) and where a future
  can have ended (`ResultInv`); of the pool, that a table is in one thread or one
  place of the queue (`WorkInv`, `QueueInv`). The refinement has one lemma per
  kind of step: `Acquire` is `Start`, `Release` is `Finish` or `Fail`, `Join` is
  `End`, everything else stutters. `OrderedLoad` promises no liveness, so the
  theorem is the whole of `KeepsPromise`. The same module has the theorems about
  `DependencyGraph`: `OrderTypeCorrect`, `LevelsRespectKeys`, `LevelsAreDisjoint`,
  `LevelsSuitScheduler`, `OnlyCyclesAreLost`, `NoCycleNothingLost`. The heart is
  `DegreeInv`, the in-degree of a table is the number of its parents that were
  not visited, and `FrontInv`, the tables that wait for nobody are exactly those
  visited or in a level. That every lost table waits for another lost one
  follows at the end; that nothing is lost without a cycle follows from that.
  `ComponentsApart` shows that no table is in two components.

* **`CopyStore_proofs`**: `TypeCorrect`, `ResultIsAPartition`,
  `OnlyFaultyRowsAreRejected`, `NothingIsCopiedAfterwards`, `StoreKeepsContract`,
  for every batch size, parallelism and number of faults. The first part is
  arithmetic: the chunks `startIdx..endIdx` partition the batch (`SliceRows`,
  `RowsPartition`) and are no more than the threads asked for (`FewChunks`). The
  invariant says that each chunk owns its rows, split into those that remain and
  those it rejected (`ChunkInv`), that the database has exactly what the stored
  chunks kept (`CommitInv`), and that the caller has counted exactly the joined
  chunks and leaves only when no thread copies (`CallerInv`). `RejectInv` is why
  a retry rejects no good row: the row that has a rejected row's key is committed,
  or it remains and no constraint of its own rejects it; `OnlyOffendersRejected`
  alone is not inductive, because that row may later be dropped as well, and then
  another one has the key. It speaks of the rows of a chunk before the first text
  with line ends; that their lines are their positions (`CountedLine`) rests on what
  remains of a chunk being in the order of the batch, which removals keep
  (`RemovalKeepsOrder`). The refinement maps a COPY that commits to `Commit`,
  the end of the call to `Return` or `Throw`, everything else to a stutter.
* **`TableColumns_proofs`**: `ColumnsFilledOnce`, `NeededValuesAreSeeded`,
  `RowsAreReferencedOnce`, `BatchesReferToRows`, `HarmlessTablesLoad`, for any
  tables, constraints, parents and batch sizes. `OneInv` says that every state
  was made for a column of the table and that a state is added only for a column
  no earlier one fills; with groups that do not overlap (`Separate`), that keeps
  two states from sharing a column in whatever order the columns come. `SeedInv`
  adds that every column of a batch under way has as many values as were asked
  for, and that the values behind a generator's count are seeded: the count
  advances by what was asked, `ShareMonotone` and `WindowReaches` show that the
  window of a batch is exactly what its new count passes, and counts that go back
  pass nothing. The other three rest on `RowInv`, which holds of uneven batches
  too. `OnceInv`: what a one-to-one generator has given and what its pool still
  holds are together without a repetition, so that a row given once never comes
  back. `TupleInv`: the pool of a composite foreign key holds tuples of the parent
  only, and the columns of a state that has been asked carry rows of the parent
  until another state that fills one of them overwrites it; rejected rows shorten
  the columns together. `AheadInv`: the count of every key generator is at least
  the number of rows created, plus the batch once it has been asked, so that it is
  never asked for a slice it does not have; and a one-to-one pool has given no
  more than the rows asked for, which the parent's rows cover. `NoOneToOne` shows
  that the one-to-one generator of several columns, which throws for a table larger
  than a batch, is never made unless constraints overlap.
* **`Pipeline_proofs`**: `TypeCorrect`, `CopiesFindConnections`,
  `ScriptsAreApplied`, for any thread counts, number of tables, COPY attempts and
  scripts. `PoolInv` bounds the connections: a table's COPY threads wait or hold, no
  more than `tableStoreThreads` of them (`ThreadInv`), no more than
  `globStoreThreads` tables load at once (`LoadInv`), and one connection is leaked
  while they do (`LeakInv`). So the held connections are some of the at most
  `globStoreThreads * tableStoreThreads` pairs of a loading table and a thread number
  (`Threads`); a table with a waiting thread lacks one of its pairs, so fewer
  connections than that are held, and the pool's `genThreads >= 1` others make up for
  the leaked one.
  `ScriptInv` says of a reader in the middle of a tidy script that the lines in its
  string builder belong to one statement at most, whose earlier lines are all in it
  (`TidySoFar`), so that a call holds exactly one whole statement, and the statement
  of every line before them has been executed, or names an undefined table.
* **`ServerDump_proofs`**: `EveryTableIsWritten`, `NothingIsMadeTwice`,
  `ReliableStatementsReplay`, for any catalogue and any query. `ScriptInv` says that
  every statement was written for a row that the sections select (`From`), that only
  a table is written twice, and that the statements are in the order of the sections
  (`Before`); `CompleteInv` that the sections of schemas, functions, extensions and
  tables are complete once `pc` is behind them; `LoopInv` how
  far the loops are, in particular that the loop over the sequences ends after its
  first round. From that follows, at the end: a thing is made twice only by two
  statements for one table, by a table and the check written in it and once more
  (`MadeTwice`), or by an extension and the statement for one of its members
  (`ExtensionAlone`, `ExtensionApart`), which is where the names of the catalogue must
  not meet; and what a
  reliable statement needs is made by an earlier reliable one (`NeedsProvided`, one
  lemma per section), which is where the choice of constraints, indexes, sequences
  and views of a query must fit the choice of its tables. `ReplayStep` then goes
  through the script: reliable statements do not fail, and what they make is there.
  `Reliable` itself is not inductive, because a table must be the first statement of
  its name among all kinds; `Good` asks that among tables only.

* **`SchemaExport_proofs`**: `ExportInvariance`, `StatementsWrittenOnce`,
  `SchemasBeforeContents`, `AttachmentsBeforeKeys`, for every well-formed catalogue,
  every configuration and every order of names; the first is the inductive invariant
  the others rest on. It follows `main` through its phases.

  While the readers run, `SelectionInv` says which objects can be made by which step
  and what may be marked. Its heart is `BesideInv`: with a query, a statement that
  needs a schema is marked only where a table to be created is in the same schema,
  which is why it is enough that `mark_schemas_for_dump` looks at tables. It is not
  inductive by object: a part follows its table, an attachment its index, so that each
  reader needs a lemma of its own. `RootsInv` says that schemas and extensions depend
  on nothing else, and `KeyInv` that every foreign key to a partitioned table has
  among its dependencies a set of attachments closed under "attached to the key or to
  an index of the set".

  The sort fills the list from its end. `DependentsInv` says that whatever depends on a
  placed object is placed behind it. Schemas come first not because contents depend
  on them, as the exporter records no such dependency for most objects, but because
  they have the least priority: `OnlyRootsLeft` says that when the heap hands out a
  schema, every object left that is neither schema nor extension is needed by another
  such object that is left, so that none of them can be placed any more; as the sort
  ends with nothing unplaced, there was none.

  The dump appends entries in the order of the list (`EntriesInv`), each with its own
  description, so that no two are equal, and with a schema to be created whenever
  the object has a statement (`SchemaEntriesInv`). The scripts are subsequences of
  the archive (`Chosen`, unfolded by exhibiting the recursive function), and an entry
  that has a section is chosen by it, while privileges, which have none, are taken to
  be in that of the entry before them (`OwnSection`). `AttachedBeforeReferenced` speaks of the transitive
  closure `Behind`, which is least; the set of `KeyInv` is closed, hence holds it.

Model-checked only:

* liveness (`LoopEnds`, `OrderIsFound`, `MainEnds`, `StoreEnds`, `AnalyzeReached`,
  `ScriptEnds`), which is out of the prover's reach;
* `DumpSort` (`SortEnds`, `PartsInPlace`, `CutsOnLoops`), whose search is a `RECURSIVE`
  operator, with which the prover has no arithmetic;
* `ScriptOrder` of `SchemaExport` and its part `LoopsRepaired`. Neither holds for every
  catalogue: `Repair` stands for the outcome of a search only where that outcome does
  not depend on its course, and a script can be run only if what the catalogue says
  an object needs has no loop but the ones `sort.c` knows. What catalogues these are
  is not a property of a row, as those of `CatalogAssumption` are.

## 5. Not modelled

* Values: what random values, MCV and histogram sampling produce, CSV quoting (but
  for line ends, which move the lines of `CopyStore`), SQL text. They appear as sets of possible outcomes. The probabilities of
  `StateData` and the weights of `MarkovGenerator` are numerical and only decide
  which of the possible rows comes first.
* `Main`, the YAML arguments and the parsing of the two CSV files: no state after
  they are read. What the joined lists of references and relation types turn into
  is in `TableColumns`.
* The exporter's catalogue queries and DDL text, its search for tables in a parse
  tree the server prints (`query.c`), and the files of statistics, constraints and
  plans: I/O and text. Of the server extension, everything but `dump_schema`: one
  query or one call each. Comments and security labels, which the exporter never
  writes; exclusion switches, which it does not have.
* What the script needs and a query's selection leaves out: the properties
  compare statements that are written.
* Names that need quotes. `dump_schema` writes names without any and looks them up
  with `to_regclass` (`ddl_query.c:929-948`), and comments without escaping their
  apostrophes; `ServerDump` takes a name for the object it names.
* An interrupted `acquire()` (`DatabaseDataGenerator.java`): nothing in the generator
  interrupts the threads of its pool while tables load.
* Locks inside the server: a COPY that ends in a deadlock is one of the errors of
  `CopyStore`'s environment.

## 6. Where code and documentation disagree

* Keys of rejected rows are published to the child tables
  (`table_load_published`; `DatabaseDataGenerator.java:98-102`, `SAD.md:369`).
* A key that is a composite foreign key gets its columns drawn one by one, from
  different parent rows (`key_tuples`; `MarkovGenerator.java:381` against lines
  35-36 of the same file).

Also met while modelling, without a run of their own.

Load:

* Tables on a cycle of foreign keys, a self reference included, and all tables
  behind them are not generated (`DependencyGraph.java:106`,
  `DatabaseDataGenerator.java:39`).
* A foreign key violation names no line and makes `storeTable` throw instead of
  being isolated (`TableStore.java:193`, against lines 70-71); text of the form
  `line N` in a row makes `parseLineNumber` blame another row
  (`TableStore.java:209`). When a text up to the violating row has line ends, which
  lines 250-252 write as they are, the database's line is not the row's position:
  lines 182-189 drop a good row in its place, or find none and throw. These two
  are the exceptions in `OnlyOffendersRejected`.
* A failed COPY does not roll the generator back, as `SAD.md:367` says it does
  (`rollbackToPreviousState` has no caller); keys of rejected rows are handed out
  again, unlike the comment at `SimpleUniqueGenerator.java:64-66`.
* A table that reaches the empty limit ends without an exception and its children
  start. With one thread everywhere and an index script the two leaked
  connections are the whole pool and ANALYZE is never run (the exception in
  `AnalyzeReached`). YAML values win over the command line, unlike `Main`'s Javadoc.

Columns (the conditions of `Harmless` and `TuplesAreReal`):

* Overlapping constraints get two generators for one column, a limitation
  `SAD.md:393` names. A column with two foreign keys crashes its table, since
  their relation types are joined into a name no enum has.
* A composite one-to-one key throws for every table larger than a batch
  (`OneToOneForeignKeyGenerator.java:85-90`); one of a single column throws when its
  NULLs make it draw more often than it has parent rows, and when it draws a common
  value, which it removes from an immutable list.
* A parent batch whose key column is shorter than the others misaligns the columns
  it publishes from there on.
* A count that was moved below zero makes `seedMandatoryRows` read an index of -1.
  A batch may hold more mandatory rows than it was asked for.

Scripts of `Importer`:

* A comment behind the text of a line swallows the rest of its call without an
  error. A last line without semicolon is never executed. A line inside a function
  body that ends with a semicolon cuts the call there and stops the import. A
  statement that shares a call with one that names an undefined table is rolled
  back with it and only the warning is logged.

Exporter:

* Sequences owned by a column are marked with their table and never written, the
  identity of a column included (`dump.c:5784`, `get_schema.c:1954-1955`).
* A function or table that needs a postponed materialized view stays in the first
  part of the script (`sort.c:591`, `pg_ozerki.c:1203`; the exception in
  `ScriptOrder`); `INDEX ATTACH` of a plain index is in the schema file and the
  index in the index file; privileges are put into the archive and never printed
  (`pg_ozerki.c:3146`); the schema of an extension is created by both the extension
  and a statement of its own in query mode (`get_schema.c:2923`).

Server extension:

* At most one sequence is written, because the loop reads its bound from the
  result its own queries replace (`ddl_query.c:712`; `pg_ozerki/README.md:13`).
* A unique index that a foreign key references is taken for one that belongs to a
  constraint and left out; `NO INHERIT` checks are written in the table and once
  more; an aggregate makes the whole call fail; any view may be passed over, as the
  test for a NULL reads an array nothing sets (`generate_views_ddl_query`).
* The functions are written before the extensions and the tables
  (`schema_dump.c:87-92`), and the extensions in the order of their names without
  CASCADE: what needs a later one fails when the script is replayed, and so does
  whatever uses it. A table that an extension makes is written as a table as well.
  These are the exceptions in `Reliable` and `MadeOnce`.
* `stat_export.c:162` filters by the table's name only.

## 7. Plan

Order of work, most important first; finished items are marked.

1. [x] `DependencyGraph`, `TableLoad`, `GenScheduler`/`OrderedLoad`,
   `CopyStore`/`StoreContract`, `Pipeline`: the whole load.
2. [x] `TopoSort`, `DumpSort`: the order of the dump.
3. [x] `SchemaSelection`: readers, `selectDumpable*`, extension membership,
   inheritance flags, boundary dependencies.
4. [x] `SchemaEntries`, `SchemaExport`: archive entries, the passes, the two
   files. [ ] An abstract specification, one pass in sorted order, that
   `SchemaExport` implements up to the index file.
5. [x] `TableColumns`: foreign key generators, the strategies of the columns, the
   bookkeeping of `MarkovGenerator`. [ ] The probabilities of `StateData`.
6. [x] `SqlScript`: the script runner, composed with `Pipeline`. [ ] The metadata
   import and `query.c` as operators over tokens.
7. [x] `ServerDump`: `dump_schema` of the server extension.
8. Proofs: [x] `TableLoad`, `DependencyGraph`, `TopoSort`, `GenScheduler` with its
   refinement of `OrderedLoad`, `CopyStore` with its refinement of
   `StoreContract`, `TableColumns`, `Pipeline` with `SqlScript`, `ServerDump`: every
   safety property their runs check; `SchemaExport`: all but `ScriptOrder`. [ ] Which catalogues one repair suffices for, and `ScriptOrder` for
   those; `DumpSort` with its search as a recursive function.
