----------------------------- MODULE TableColumns -----------------------------
(***************************************************************************)
(* The columns of ONE table: which generator fills which column, and what  *)
(* a batch of rows looks like.  The constraints of the source table pass   *)
(* through the exporter's two CSV files into ColumnMetadata                *)
(* (TableMetadataMaker); DataGenerator gives every column a state, a       *)
(* generator together with the columns it fills; each batch asks the       *)
(* states in turn.  The foreign key generators and MarkovGenerator draw    *)
(* from what the parent tables published.                                  *)
(*                                                                         *)
(* The value a parent row has in any of its columns is named by the number *)
(* of that row, so a tuple refers to a row of the parent iff all its       *)
(* components are equal.  Which rows of a batch get stored is left open:   *)
(* modules TableLoad and CopyStore are about that.                         *)
(***************************************************************************)
EXTENDS Integers, SequencesExt

CONSTANTS
  Tables,      \* the tables to generate: constraints and statistics
  ParentRuns,  \* how the parent was loaded: [ids, keys] for each batch
  BatchSize,   \* the batchSize argument
  MaxBatches,  \* bound of the model: batches of a run
  Fresh,       \* values a value generator makes up
  Null

(* Metadata are built from rows of the CSV files: a table has a row count  *)
(* and columns, and its constraints are on its own columns.                *)
ASSUME TableColumnsAssumption ==
  /\ BatchSize \in Nat \ {0}
  /\ \A t \in Tables :
       /\ t.count \in Nat \ {0} /\ t.cols # {}
       /\ t.constraints \in Seq([type : STRING, cols : Seq(t.cols), to : Seq(STRING)])
       /\ t.needed \in [t.cols -> Seq(Int)]

(* A foreign key names a column of the parent for each of its own, and the *)
(* most common values are finitely many.  A batch of the parent stored a   *)
(* row, and its key columns may be shorter than the others.                *)
ASSUME ParentAssumption ==
  /\ \A t \in Tables :
       /\ \A i \in DOMAIN t.constraints : t.constraints[i].type = "FK" =>
            /\ t.constraints[i].to \in Seq({"p1", "p2"})
            /\ Len(t.constraints[i].to) = Len(t.constraints[i].cols)
       /\ t.nulls \in Nat
       /\ \A c \in t.cols : IsFiniteSet(t.common[c])
  /\ \A parent \in ParentRuns :
       /\ parent \in Seq([ids : Seq(Int) \ {<<>>}, keys : Nat])
       /\ \A b \in DOMAIN parent : parent[b].keys <= Len(parent[b].ids)
  /\ Fresh # {} /\ IsFiniteSet(Fresh)

VARIABLES
  table,      \* the table, one of Tables
  run,        \* how its parent was loaded, one of ParentRuns
  pc,         \* "states", "produce", "store", "done", "crashed";
              \* "stopped" at the bound
  states,     \* columnBatchStates: [kind, cols], the generator and its columns
  pools,      \* what each generator draws from or goes through
  position,   \* the generatedCount of each state
  next,       \* the state to ask next in this batch
  batch,      \* columnData: column -> values
  created,    \* createdAmount
  batches,    \* batches generated so far
  \* history
  seeded,     \* columns and indices of the mandatory values in some batch
  uneven,     \* a generator gave fewer or more rows than asked for
  given       \* the tuples each one-to-one generator has given out

genVars == <<states, pools, position, next, batch>>
vars == <<table, run, pc, genVars, created, batches, seeded, uneven, given>>

Lesser(a, b) == IF a <= b THEN a ELSE b
Distinct(s) == \A i, j \in DOMAIN s : s[i] = s[j] => i = j

-----------------------------------------------------------------------------
(* From the catalogue to ColumnMetadata.                                   *)

Has(k, c) == c \in ToSet(k.cols)
ConstraintsOn(c, types) ==
  {i \in DOMAIN table.constraints :
     table.constraints[i].type \in types /\ Has(table.constraints[i], c)}
FirstOn(c, types) ==
  table.constraints[CHOOSE i \in ConstraintsOn(c, types) :
                      \A j \in ConstraintsOn(c, types) : i <= j]
Keys == {"PK", "UNIQUE"}

(* compositeUniquePeers and compositeForeignPeers hold the columns of each *)
(* constraint on the column, in the order of constraints.csv, of which the *)
(* generators only read the first (resolvePeers).                          *)
FirstPeers(c, types) ==
  IF ConstraintsOn(c, types) = {} THEN <<c>> ELSE FirstOn(c, types).cols

IsUnique(c) == ConstraintsOn(c, Keys) # {} \/ c \in table.distinct
IsForeign(c) == ConstraintsOn(c, {"FK"}) # {}

(* foreignKeyMetadata: the references of a column are joined with a comma  *)
(* and a blank and split at the comma, so that from the second on the      *)
(* schema starts with a blank, no such table exists and the reference is   *)
(* dropped.                                                                *)
Target(k, c) == k.to[CHOOSE i \in DOMAIN k.cols : k.cols[i] = c]
References(c) == <<Target(FirstOn(c, {"FK"}), c)>>

(* relation_types is joined the same way: two of them are no enum value.   *)
Relation(c) ==
  IF Cardinality(ConstraintsOn(c, {"FK"})) # 1 THEN "unknown"
  ELSE IF ConstraintsOn(c, Keys) # {} THEN "ONE_TO_ONE" ELSE "ONE_TO_MANY"

(* generatedData of the parent: every batch of which a row was stored adds *)
(* its columns whole, and a key column may be shorter than the others.     *)
Published ==
  [p1 |-> FlattenSeq([b \in DOMAIN run |-> SubSeq(run[b].ids, 1, run[b].keys)]),
   p2 |-> FlattenSeq([b \in DOMAIN run |-> run[b].ids])]
PublishedFor(c) == Published[References(c)[1]]

-----------------------------------------------------------------------------
(* ensureColumnBatchStates                                                 *)

(* The columns a state made for column c fills.                            *)
Fills(c) ==
  IF IsUnique(c) THEN FirstPeers(c, Keys)
  ELSE IF IsForeign(c) THEN FirstPeers(c, {"FK"})
  ELSE <<c>>

FirstCovered == {states[i].cols[1] : i \in DOMAIN states}
Covered == UNION {ToSet(states[i].cols) : i \in DOMAIN states}

(* The row-wise tuples of a composite key's parent, as far as the first    *)
(* column goes.                                                            *)
RowTuples(cols) ==
  [r \in DOMAIN PublishedFor(cols[1]) |->
     [j \in DOMAIN cols |-> IF r <= Len(PublishedFor(cols[j]))
                            THEN PublishedFor(cols[j])[r] ELSE Null]]
OneMore(cols) ==
  \E j \in DOMAIN cols :
     Len(PublishedFor(cols[j])) < Len(PublishedFor(cols[1])) + 1
Ragged(cols) ==
  \E j \in DOMAIN cols :
     Len(PublishedFor(cols[j])) < Len(PublishedFor(cols[1]))

(* Constructors of the two foreign key generators: the tuples they draw    *)
(* from, nothing if the constructor throws.  The factory goes by the first *)
(* column; one-to-one keys are a set and must suffice for the table.       *)
Unpublished(cols) == \E j \in DOMAIN cols : PublishedFor(cols[j]) = <<>>
ForeignPool(cols) ==
  LET tuples == ToSet(RowTuples(cols))
      nulls == IF Len(cols) = 1 THEN table.nulls ELSE 0
  IN IF Unpublished(cols) \/ Ragged(cols) \/ Relation(cols[1]) = "unknown"
        \/ (Relation(cols[1]) = "ONE_TO_ONE" /\ Cardinality(tuples) < table.count - nulls)
     THEN {} ELSE tuples

(* buildUniqueSet for a foreign key column: recordCount values of the      *)
(* foreign key generator, repetitions removed.  A one-to-one value is      *)
(* removed from the pool when it is drawn, and only one is ever NULL.      *)
Sequences(S, n) == {s \in [1..n -> S] : Distinct(s)}
NullDraw == IF table.nulls = 0 THEN {} ELSE {Null}
DistinctDraws(c) ==
  LET values == {t[1] : t \in ForeignPool(<<c>>)}
      all == values \cup table.common[c] \cup NullDraw
  IN IF values = {} THEN {}
     ELSE IF Relation(c) = "ONE_TO_ONE"
     THEN Sequences(values, table.count)
          \cup UNION {{<<null>> \o s : s \in Sequences(values, table.count - 1)} : null \in NullDraw}
     ELSE UNION {Sequences(all, m) : m \in 1..Lesser(table.count, Cardinality(all))}

(* One-to-one draws throw when the pool, which the constructor compared    *)
(* with the rows that are not NULL, has run out (nextInt(0)), and when a   *)
(* common value is drawn, as those are removed from an immutable list.     *)
DrawsMayThrow(c) ==
  /\ Relation(c) = "ONE_TO_ONE"
  /\ \/ table.common[c] # {}
     \/ Cardinality(ForeignPool(<<c>>)) < table.count

(* createUniqueState, createForeignKeyState, StatTypeBasedGenerator: the   *)
(* pools a state made for column c may get.  Their order only matters to a *)
(* generator that goes through them.  (The values of a unique column are   *)
(* built when it is first asked; nothing they are built from changes until *)
(* then.)                                                                  *)
Kind(c) ==
  IF IsUnique(c) THEN IF Len(Fills(c)) > 1 THEN "markov" ELSE "unique"
  ELSE IF ~IsForeign(c) THEN "plain"
  ELSE IF Relation(Fills(c)[1]) = "ONE_TO_ONE" THEN "one" ELSE "many"
Pools(c) ==
  CASE Kind(c) \in {"one", "many"} ->
         {SetToSeq(p) : p \in {ForeignPool(Fills(c))} \ {{}}}
    [] Kind(c) = "unique" /\ IsForeign(c) ->
         {[j \in DOMAIN s |-> <<s[j]>>] : s \in DistinctDraws(c)}
    [] OTHER -> {<<>>}

(* The columns come in the order of a hash map; one that an earlier state  *)
(* fills gets no state of its own.                                         *)
AddState ==
  /\ pc = "states" /\ Covered # table.cols
  /\ \E c \in table.cols \ Covered :
       \/ \E pool \in Pools(c) :
            /\ states' = Append(states, [kind |-> Kind(c), cols |-> Fills(c)])
            /\ pools' = Append(pools, pool)
            /\ position' = Append(position, 0) /\ given' = Append(given, <<>>)
            /\ pc' = "states"
       \/ /\ Pools(c) = {} \/ (Kind(c) = "unique" /\ IsForeign(c) /\ DrawsMayThrow(c))
          /\ pc' = "crashed"
          /\ UNCHANGED <<states, pools, position, given>>
  /\ UNCHANGED <<table, run, next, batch, created, batches, seeded, uneven>>

StatesReady ==
  /\ pc = "states" /\ Covered = table.cols
  /\ pc' = "produce"
  /\ UNCHANGED <<table, run, genVars, created, batches, seeded, uneven, given>>

-----------------------------------------------------------------------------
(* MarkovGenerator.                                                        *)

(* What sampleColumn can return.                                           *)
Candidates(c) ==
  table.common[c] \cup IF IsForeign(c) THEN ToSet(PublishedFor(c)) ELSE Fresh

(* buildFkGroups, buildFkGroupTuples: the foreign keys of several columns  *)
(* of the key.  The position of a column in the key is looked up in its    *)
(* own list of references.                                                 *)
Place(c, peers) == CHOOSE i \in DOMAIN peers : peers[i] = c
PlaceIsKnown(c) == Place(c, FirstPeers(c, {"FK"})) <= Len(References(c))
GroupColumns(cols, c) == SelectSeq(cols, LAMBDA d : d \in ToSet(FirstPeers(c, {"FK"})))
GroupTuples(group) ==
  IF \E j \in DOMAIN group : ~PlaceIsKnown(group[j]) \/ PublishedFor(group[j]) = <<>>
  THEN {} ELSE ToSet(RowTuples(group))
FkGroups(cols) ==
  {g \in {GroupColumns(cols, c) : c \in {d \in ToSet(cols) : IsForeign(d)}} :
     Len(g) > 1 /\ GroupTuples(g) # {}}

(* The rows generateRows and, without the groups, seedMandatoryRows make.  *)
SampledRows(cols) ==
  LET all == UNION {Candidates(cols[j]) : j \in DOMAIN cols} IN
  {r \in [DOMAIN cols -> all] : \A j \in DOMAIN cols : r[j] \in Candidates(cols[j])}
Part(r, cols, g) == [k \in DOMAIN g |-> r[CHOOSE j \in DOMAIN cols : cols[j] = g[k]]]
GroupedRows(cols) ==
  {r \in SampledRows(cols) : \A g \in FkGroups(cols) : Part(r, cols, g) \in GroupTuples(g)}

(* seedMandatoryRows: the share of the values referenced by other tables   *)
(* that belongs to this batch; indices from 0, division truncates.         *)
Share(size, at) ==
  IF at >= 0 THEN (size * at) \div table.count ELSE -((size * (0 - at)) \div table.count)
OwnShare(size, at, n) == Lesser(size, Share(size, at) + Share(size, n))
WindowEnd(size, at, n) ==
  IF at + n >= table.count THEN size ELSE Share(size, at + n)
Window(c, at, n) ==
  LET size == Len(table.needed[c]) IN Share(size, at)..(WindowEnd(size, at, n) - 1)
Due(cols, at, n) ==
  UNION {{<<c, m>> : m \in Window(c, at, n)} : c \in ToSet(cols)}

(* The mandatory rows of a batch: one per value due, the other columns     *)
(* sampled.  (Rows that come out equal are one row.)                       *)
MandatoryRows(cols, due) ==
  LET rows(p) == {[j \in DOMAIN cols |-> IF cols[j] = p[1] THEN table.needed[p[1]][p[2] + 1]
                                         ELSE r[j]] : r \in SampledRows(cols)}
  IN {{f[p] : p \in due} :
        f \in {g \in [due -> UNION {rows(p) : p \in due}] : \A p \in due : g[p] \in rows(p)}}

(* generateRows: rows that are not there yet until there are n, fewer if   *)
(* the attempts run out.                                                   *)
FilledUp(rows, cols, n) ==
  IF Cardinality(rows) >= n THEN {rows}
  ELSE {rows \cup more :
          more \in UNION {kSubset(m, GroupedRows(cols) \ rows) : m \in 0..(n - Cardinality(rows))}}

-----------------------------------------------------------------------------
(* generateBatchTableData: one action for each kind of state asked.        *)

Init ==
  /\ table \in Tables /\ run \in ParentRuns
  /\ pc = "states" /\ states = <<>> /\ pools = <<>> /\ position = <<>>
  /\ next = 1 /\ batch = <<>> /\ created = 0 /\ batches = 0
  /\ seeded = {} /\ uneven = FALSE /\ given = <<>>

Asked == Lesser(BatchSize, table.count - created)
Current == states[next]
Pool == pools[next]
Asking(kinds) == pc = "produce" /\ Current.kind \in kinds

(* columnData.put for each column of the state, over what an earlier state *)
(* put there.                                                              *)
Column(rows, c) ==
  [r \in 1..Len(rows) |-> rows[r][CHOOSE j \in DOMAIN Current.cols : Current.cols[j] = c]]
With(rows) ==
  [c \in DOMAIN batch \cup ToSet(Current.cols) |->
     IF c \in ToSet(Current.cols) THEN Column(rows, c) ELSE batch[c]]

(* The state is done: its rows are put and its count moves.                *)
Put(rows, moved) ==
  /\ batch' = With(rows)
  /\ uneven' = (uneven \/ Len(rows) # Asked)
  /\ position' = [position EXCEPT ![next] = @ + moved]
  /\ next' = next + 1
  /\ pc' = IF next = Len(states) THEN "store" ELSE "produce"

Crash == pc' = "crashed" /\ UNCHANGED <<pools, position, next, batch, seeded, uneven, given>>

(* StatTypeBasedGenerator: a value for every row, which one is left open.  *)
ProducePlain ==
  /\ Asking({"plain"})
  /\ Put([r \in 1..Asked |-> <<CHOOSE v \in Fresh : TRUE>>], Asked)
  /\ UNCHANGED <<table, run, states, pools, created, batches, seeded, given>>

(* SimpleUniqueGenerator: the next slice of the distinct values.  Those of *)
(* a foreign key are never extended, others are as far as needed.          *)
ProduceUnique ==
  LET at == position[next]
      end == IF Pool = <<>> THEN at + Asked
             ELSE Lesser(at + Asked, Len(Pool))
      rows == IF Pool = <<>> THEN [r \in 1..Asked |-> <<at + r>>]
              ELSE SubSeq(Pool, at + 1, end)
  IN
  /\ Asking({"unique"})
  /\ IF at < 0 /\ at < end THEN Crash
     ELSE Put(rows, Len(rows)) /\ UNCHANGED <<pools, seeded, given>>
  /\ UNCHANGED <<table, run, states, created, batches>>

(* OneToManyForeignKeyGenerator: each row any tuple of the parent; a       *)
(* single column may also get NULL or a common value of its own.           *)
TornDraws(cols, pool) ==
  {t \in [DOMAIN cols -> UNION {ToSet(p) : p \in pool}] :
     \A j \in DOMAIN cols : \E p \in pool : p[j] = t[j]}
Draws(cols, pool) ==
  pool \cup IF Len(cols) > 1 THEN {}
            ELSE {<<v>> : v \in table.common[cols[1]] \cup NullDraw}
ProduceMany ==
  /\ Asking({"many"})
  /\ \E rows \in [1..Asked -> Draws(Current.cols, ToSet(Pool))] : Put(rows, 0)
  /\ UNCHANGED <<table, run, states, pools, created, batches, seeded, given>>

(* OneToOneForeignKeyGenerator of several columns: the next tuples of the  *)
(* pool, in an order that does not matter here.  It compares the tuples of *)
(* THIS batch with the rows of the whole table.                            *)
KeptPool(pool, n) == pool
Rest(pool, n) == SubSeq(pool, n + 1, Len(pool))
ProduceOne ==
  /\ Asking({"one"})
  /\ IF Asked > Len(Pool) \/ Asked < table.count THEN Crash
     ELSE LET rows == SubSeq(Pool, 1, Asked) IN
          /\ Put(rows, 0)
          /\ pools' = [pools EXCEPT ![next] = Rest(@, Asked)]
          /\ given' = [given EXCEPT ![next] = @ \o rows]
          /\ UNCHANGED seeded
  /\ UNCHANGED <<table, run, states, created, batches>>

(* MarkovGenerator.generateValues.  It throws when the window starts below *)
(* 0, and when a column has nothing to sample from.                        *)
ProduceKey ==
  LET cols == Current.cols
      due == Due(cols, position[next], Asked)
  IN
  /\ Asking({"markov"})
  /\ IF (\E d \in due : d[2] < 0) \/ (\E j \in DOMAIN cols : Candidates(cols[j]) = {})
     THEN Crash
     ELSE \E first \in MandatoryRows(cols, due) :
          \E rows \in FilledUp(first, cols, Asked) :
            /\ Put(SetToSeq(rows), Len(SetToSeq(rows)))
            /\ seeded' = seeded \cup due
            /\ UNCHANGED <<pools, given>>
  /\ UNCHANGED <<table, run, states, created, batches>>

-----------------------------------------------------------------------------
(* The rest of the batch loop, seen from the columns.                      *)

Rows == CHOOSE n \in {Len(batch[c]) : c \in DOMAIN batch} :
          \A c \in DOMAIN batch : n <= Len(batch[c])

NextBatch ==
  /\ next' = 1 /\ batch' = <<>> /\ batches' = batches + 1
  /\ UNCHANGED <<table, run, states, pools, seeded, uneven, given>>

(* removeUnaddedColumns: the count of every state goes back by the rows of *)
(* the batch that were not stored.                                         *)
NothingUnadded(stored) == position
Unadded(stored) == [i \in DOMAIN position |-> position[i] - (Asked - stored)]

(* Some rows are stored, retries included.                                 *)
Stored ==
  /\ pc = "store"
  /\ \E stored \in 0..Rows :
       /\ created' = created + stored
       /\ position' = Unadded(stored)
       /\ pc' = IF created' >= table.count THEN "done"
                ELSE IF batches + 1 < MaxBatches THEN "produce" ELSE "stopped"
  /\ NextBatch

(* storeTable throws: nothing is counted, and nothing is taken back.       *)
StoreThrew ==
  /\ pc = "store"
  /\ pc' = IF batches + 1 < MaxBatches THEN "produce" ELSE "stopped"
  /\ UNCHANGED <<created, position>>
  /\ NextBatch

Next == \/ AddState \/ StatesReady \/ ProducePlain \/ ProduceUnique \/ ProduceMany
        \/ ProduceOne \/ ProduceKey \/ Stored \/ StoreThrew

Spec == Init /\ [][Next]_vars

-----------------------------------------------------------------------------
(* Properties.                                                             *)

(* The groups of columns the constraints form do not overlap: every column *)
(* of a group would give the same group.                                   *)
Separate ==
  \A c \in table.cols : \A d \in ToSet(Fills(c)) : ToSet(Fills(d)) = ToSet(Fills(c))

(* DataGenerator's choice of strategies: unless constraints overlap, every *)
(* column is filled by one state and only one, whatever the order of the   *)
(* hash map; with two, the later would overwrite half of a tuple.          *)
OneStrategy ==
  /\ Separate => \A i, j \in DOMAIN states :
       ToSet(states[i].cols) \cap ToSet(states[j].cols) # {} => i = j
  /\ pc \notin {"states", "crashed"} => Covered = table.cols

(* The rows of a batch refer to rows of the parent: the columns of a       *)
(* foreign key, filled by a foreign key generator and by no other state,   *)
(* carry the values of ONE parent row, provided no batch of the parent had *)
(* a key column shorter than its other columns.                            *)
ParentWhole == \A b \in DOMAIN run : run[b].keys = Len(run[b].ids)
FilledOnce(i) ==
  \A j \in DOMAIN states : j # i => ToSet(states[i].cols) \cap ToSet(states[j].cols) = {}
TuplesAreReal ==
  pc = "store" /\ ParentWhole =>
    \A i \in DOMAIN states :
      states[i].kind \in {"one", "many"} /\ Len(states[i].cols) > 1 /\ FilledOnce(i) =>
        \A r \in 1..Rows : \E row \in ToSet(Published.p2) :
          \A c \in ToSet(states[i].cols) : batch[c][r] = row

(* A one-to-one generator never gives a parent row to two rows of the      *)
(* table, over all batches, the rejected ones included.                    *)
ReferencedOnce == \A i \in DOMAIN given : Distinct(given[i])

(* MarkovGenerator hands every value that other tables refer to to some    *)
(* batch: when the count has passed the share of a value, it was seeded.   *)
(* Batches that are rejected or lost move the windows back or not at all;  *)
(* only a batch with more rows than asked for skips some.                  *)
MandatorySeeded ==
  \A i \in DOMAIN states :
    states[i].kind = "markov" /\ ~uneven =>
      \A c \in ToSet(states[i].cols) : \A m \in 0..(Len(table.needed[c]) - 1) :
        position[i] >= table.count \/ m < Share(Len(table.needed[c]), position[i])
          => <<c, m>> \in seeded

(* Which tables cannot crash their load: those whose constraints do not    *)
(* overlap, with one reference per column, no one-to-one foreign key that  *)
(* may be NULL or has common values, a parent that published whole batches *)
(* and enough rows, and keys with enough combinations.                     *)
Harmless ==
  /\ Separate /\ ParentWhole /\ run # <<>>
  /\ \A c \in table.cols : IsForeign(c) =>
       /\ Cardinality(ConstraintsOn(c, {"FK"})) = 1
       /\ Relation(c) = "ONE_TO_ONE" =>
            /\ table.nulls = 0 /\ table.common[c] = {}
            /\ Cardinality(ToSet(PublishedFor(c))) >= table.count
HarmlessLoads == Harmless /\ ~uneven => pc # "crashed"

-----------------------------------------------------------------------------
(* What the documents and comments of the repository say.                  *)

(* MarkovGenerator.java:35-36: composite foreign keys are generated as     *)
(* tuples of the parent, which guarantees that all their columns match.    *)
KeyTuplesMatch ==
  pc = "store" /\ ParentWhole =>
    \A i \in DOMAIN states : \A k \in ToSet(table.constraints) :
      states[i].kind = "markov" /\ k.type = "FK" /\ ToSet(k.cols) \subseteq ToSet(states[i].cols) =>
        \A r \in 1..Rows : \A c, d \in ToSet(k.cols) : batch[c][r] = batch[d][r]
=============================================================================
