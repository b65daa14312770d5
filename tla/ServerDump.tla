------------------------------ MODULE ServerDump ------------------------------
(***************************************************************************)
(* dump_schema of the server extension: the tables a query needs are read  *)
(* off its plan, and the generators append one section after another to    *)
(* the script.  All of them run their queries through SPI, whose result is *)
(* global (SPI_processed, SPI_tuptable): a query run inside a loop over a  *)
(* result replaces the result the loop is reading.                         *)
(*                                                                         *)
(* An object is <<schema, name>>, which also stands for its oid: names     *)
(* need no quotes (they are written without, and looked up with            *)
(* to_regclass) and comments have no apostrophes.  A statement is written  *)
(* with what it needs in the database it is replayed in and what it makes  *)
(* there; its text is abstracted.                                          *)
(***************************************************************************)
EXTENDS Integers, SequencesExt

CONSTANTS
  Databases,  \* the databases to dump, see MCServerDump
  Queries,    \* [plan, views]: relations of the plan, views in the rtable
  NoQuery, None

Primary == <<"", "primary key">>     \* the key of a primary key constraint

(* What a statement makes and needs: these, and the types, operator        *)
(* classes and whatever else an extension brings.                          *)
Schema(s)     == <<"schema", s>>
Function(id)  == <<"function", id>>
Extension(id) == <<"extension", id>>
Rel(id)       == <<"rel", id>>
Key(t, k)     == <<"key", t, k>>
Check(t, k)   == <<"check", t, k>>

IsList(s) == s \in Seq(ToSet(s))
Identified(rows) == IsList(rows) /\ IsInjective([k \in DOMAIN rows |-> rows[k].id])
IdsOf(rows) == {r.id : r \in ToSet(rows)}

(* What PostgreSQL holds true of its catalogues.  (Temporary tables, whose *)
(* schemas are on no list of schemas, are left out.)                       *)
ASSUME CatalogueAssumption ==
  \A d \in Databases :
    /\ IsList(d.schemas) /\ IsInjective(d.schemas)
    /\ \A rows \in {d.funcs, d.exts, d.tables, d.seqs, d.views, d.indexes, d.cons} :
         Identified(rows)
    (* One relation of a name, tables in schemas. *)
    /\ IdsOf(d.tables) \cap IdsOf(d.seqs) = {}
    /\ (IdsOf(d.tables) \cup IdsOf(d.seqs)) \cap IdsOf(d.views) = {}
    /\ (IdsOf(d.tables) \cup IdsOf(d.seqs) \cup IdsOf(d.views)) \cap IdsOf(d.indexes) = {}
    /\ \A t \in ToSet(d.tables) : t.id[1] \in ToSet(d.schemas)
    (* A member of an extension belongs to it alone; no function of an     *)
    (* extension is dumped as one.                                         *)
    /\ \A e, f \in ToSet(d.exts) : e.members \cap f.members # {} => e = f
    /\ \A e \in ToSet(d.exts) : \A m \in e.members :
         m[1] # "extension" /\ \A f \in ToSet(d.funcs) : m # Function(f.id)
    (* A unique constraint has an index of its own, and no other index has *)
    (* its name; a foreign key references a key that is there.             *)
    /\ Primary \notin IdsOf(d.indexes) \cup IdsOf(d.cons)
    /\ \A c \in ToSet(d.cons) :
         /\ c.type \in {"f", "c", "u"}
         /\ c.type = "u" =>
              /\ \E x \in ToSet(d.indexes) : x.id = c.index /\ x.unique
              /\ \A x \in ToSet(d.indexes) : x.id = c.id => x.id = c.index
              /\ \A e \in ToSet(d.cons) : e.type = "u" /\ e.index = c.index => e = c
         /\ c.type = "f" =>
              /\ c.ref = <<c.ref[1], c.ref[2]>>
              /\ c.key = Primary => \A t \in ToSet(d.tables) : t.id = c.ref => t.pk

ASSUME QueriesAssumption == \A q \in Queries : IsList(q.plan)

VARIABLES
  db,      \* the catalogues, each in the order of the query that reads it
  query,   \* the argument, or NoQuery
  deps,    \* QueryDependencies
  pc,      \* the section being generated
  spi,     \* SPI_tuptable and SPI_processed: the rows of the last query
  saved,   \* generate_tables_ddl_query's own copy of them
  i,       \* loop counter
  script   \* the statements appended to buf

vars == <<db, query, deps, pc, spi, saved, i, script>>

Default == "public"
Visible(schema) == schema = Default   \* on the default search_path

Ids(rows) == [k \in DOMAIN rows |-> rows[k].id]

(* The rows of S, in their order (SelectSeq, with a set for the test).     *)
Chosen(rows, S) ==
  LET chosen[n \in 0..Len(rows)] ==
        IF n = 0 THEN <<>>
        ELSE IF rows[n] \in S THEN Append(chosen[n - 1], rows[n])
        ELSE chosen[n - 1]
  IN chosen[Len(rows)]
RowsWith(rows, ids) == Chosen(rows, {r \in ToSet(rows) : r.id \in ids})
Row(rows, id) == CHOOSE r \in ToSet(rows) : r.id = id

-----------------------------------------------------------------------------
(* analyze_query_dependencies.                                             *)

(* extract_tables_from_yaml: every "Relation Name:" of the plan, as often  *)
(* as it appears; the schemas once.                                        *)
PlanTables(q) == q.plan

(* find_sequences_for_tables: what an automatic or internal dependency     *)
(* ties to one of the tables.                                              *)
SequencesOf(tables) == {s.id : s \in {x \in ToSet(db.seqs) : x.owner \in tables}}

(* find_views_for_tables: the views the query names itself; nothing for a  *)
(* query without tables.                                                   *)
ViewsOf(q) == IF q.plan = <<>> THEN {} ELSE q.views

(* add_table_constraints_to_deps: no foreign key to a table that is not in *)
(* the plan.                                                               *)
AllConstraintsOf(tables) ==
  {c.id : c \in {x \in ToSet(db.cons) : x.table \in tables}}
ConstraintsOf(tables) ==
  {c.id : c \in {x \in ToSet(db.cons) :
                   x.table \in tables /\ (x.type = "f" => x.ref \in tables)}}

(* add_table_indexes_to_deps.                                              *)
IndexesOf(tables) ==
  {x.id : x \in {y \in ToSet(db.indexes) : y.table \in tables}}

(* init_deps *)
NoDeps == [tables |-> <<>>, schemas |-> {}, seqs |-> {}, views |-> {},
           cons |-> {}, indexes |-> {}, analyzed |-> FALSE]

DepsOf(q) ==
  LET tables == ToSet(PlanTables(q)) IN
  [tables |-> PlanTables(q), schemas |-> {t[1] : t \in tables},
   seqs |-> SequencesOf(tables), views |-> ViewsOf(q),
   cons |-> ConstraintsOf(tables), indexes |-> IndexesOf(tables),
   analyzed |-> TRUE]

-----------------------------------------------------------------------------
(* The statements.                                                         *)

InSchema(id) == IF id[1] = Default THEN {} ELSE {Schema(id[1])}

Stmt(kind, id, needs, makes) ==
  [kind |-> kind, id |-> id, needs |-> needs, makes |-> makes]

SchemaStmt(s) == Stmt("schema", <<s, "">>, {}, {Schema(s)})

(* The server checks the body of a function when it is created.            *)
FunctionStmt(f) ==
  Stmt("function", f.id, InSchema(f.id) \cup f.uses, {Function(f.id)})

(* An extension it requires is not created with it (no CASCADE).           *)
ExtensionStmt(e) ==
  Stmt("extension", e.id, InSchema(e.id) \cup e.uses, {Extension(e.id)} \cup e.members)

(* generate_table_ddl: the primary key and the NO INHERIT checks are part  *)
(* of CREATE TABLE; defaults are not written.  The types of the columns    *)
(* have to exist, and the functions the checks call.                       *)
InlineChecks(t) ==
  {c \in ToSet(db.cons) : c.table = t /\ c.type = "c" /\ c.noInherit}
TableUses(t) == t.uses \cup UNION {c.uses : c \in InlineChecks(t.id)}
TableStmt(t) ==
  Stmt("table", t.id, InSchema(t.id) \cup TableUses(t),
       {Rel(t.id)} \cup (IF t.pk THEN {Key(t.id, Primary)} ELSE {})
         \cup {Check(t.id, c.id) : c \in InlineChecks(t.id)})

(* get_sequence_owned_by: automatic dependencies, so not the internal one  *)
(* of an identity column.                                                  *)
OwnerRows(s) == IF s.owner = None \/ s.identity THEN <<>> ELSE <<s.owner>>

(* CREATE SEQUENCE, then ALTER SEQUENCE ... OWNED BY.                      *)
SequenceStmt(s) ==
  Stmt("sequence", s.id,
       InSchema(s.id) \cup {Rel(t) : t \in ToSet(OwnerRows(s))}, {Rel(s.id)})

(* The relations of its query, the functions it calls, the types it names. *)
ViewStmt(v) == Stmt("view", v.id, InSchema(v.id) \cup v.uses, {Rel(v.id)})

(* The functions of its expressions and its predicate, and its operator    *)
(* classes.                                                                *)
IndexStmt(x) ==
  Stmt("index", x.id, {Rel(x.table)} \cup x.uses,
       {Rel(x.id)} \cup (IF x.unique THEN {Key(x.table, x.id)} ELSE {}))

(* pg_get_constraintdef leaves out a schema that is on the search path;    *)
(* add_schema_to_constraint then puts the one of the referencing table.    *)
(* The expression of a check calls functions, a key has operator classes.  *)
WrittenRef(c) == <<IF Visible(c.ref[1]) THEN c.table[1] ELSE c.ref[1], c.ref[2]>>
ConstraintStmt(c) ==
  CASE c.type = "f" -> Stmt("foreign key", c.id,
         {Rel(c.table), Rel(WrittenRef(c)), Key(WrittenRef(c), c.key)} \cup c.uses, {})
    [] c.type = "c" -> Stmt("check", c.id, {Rel(c.table)} \cup c.uses,
                            {Check(c.table, c.id)})
    [] c.type = "u" -> Stmt("unique", c.id, {Rel(c.table)} \cup c.uses,
                            {Rel(c.index), Key(c.table, c.id)})

-----------------------------------------------------------------------------

Init ==
  /\ db \in Databases
  /\ query \in Queries \cup {NoQuery}
  /\ query # NoQuery =>
       /\ \A r \in ToSet(query.plan) :
            \E t \in ToSet(db.tables) : t.id = r /\ t.kind \in {"r", "m"}
       /\ query.views \subseteq {v.id : v \in ToSet(db.views)}
  /\ deps = NoDeps /\ pc = "analyze"
  /\ spi = <<>> /\ saved = <<>> /\ i = 0 /\ script = <<>>

(* dump_schema up to the first generator.                                  *)
Analyze ==
  /\ pc = "analyze" /\ pc' = "schemas"
  /\ deps' = IF query = NoQuery THEN deps ELSE DepsOf(query)
  /\ UNCHANGED <<db, query, spi, saved, i, script>>

(* A generator whose loop runs no query of its own: the loop sees all the  *)
(* rows of the query before it.                                            *)
Section(from, to, rows, stmts) ==
  /\ pc = from /\ pc' = to
  /\ spi' = rows
  /\ script' = script \o stmts
  /\ UNCHANGED <<db, query, deps, saved, i>>

(* generate_schemas_ddl_query: the schemas of the plan, or all of them;    *)
(* "public" is there already.                                              *)
SchemaRows == IF deps.schemas # {}
                THEN Chosen(db.schemas, deps.schemas)
                ELSE db.schemas
DumpSchemas ==
  LET new == Chosen(SchemaRows, ToSet(SchemaRows) \ {Default}) IN
  Section("schemas", "functions", SchemaRows,
          [k \in DOMAIN new |-> SchemaStmt(new[k])])

(* generate_functions_ddl_query: every function, query or not;             *)
(* pg_get_functiondef raises an error for an aggregate.                    *)
DumpFunctions ==
  /\ \A f \in ToSet(db.funcs) : ~f.aggregate
  /\ Section("functions", "extensions", Ids(db.funcs),
             [k \in DOMAIN db.funcs |-> FunctionStmt(db.funcs[k])])
AggregateFails ==
  /\ pc = "functions" /\ \E f \in ToSet(db.funcs) : f.aggregate
  /\ pc' = "error"
  /\ UNCHANGED <<db, query, deps, spi, saved, i, script>>

(* generate_extensions_ddl_query, and the test for a query without tables. *)
DumpExtensions ==
  Section("extensions",
          IF deps.analyzed /\ deps.tables = <<>> THEN "done" ELSE "tables",
          Ids(db.exts), [k \in DOMAIN db.exts |-> ExtensionStmt(db.exts[k])])

(* generate_tables_ddl_query: the tables of the plan, or all ordinary ones.*)
(* get_primary_key_constraint and get_table_check_constraints run queries  *)
(* inside the loop, so it keeps a copy of its own rows.                    *)
OrdinaryTables == Ids(Chosen(db.tables, {t \in ToSet(db.tables) : t.kind = "r"}))
StartTables ==
  LET rows == IF deps.tables # <<>> THEN deps.tables ELSE OrdinaryTables IN
  /\ pc = "tables" /\ pc' = "table"
  /\ saved' = rows /\ spi' = rows /\ i' = 0
  /\ UNCHANGED <<db, query, deps, script>>

SavedRows == saved
GlobalRows == spi
TableRows == SavedRows
DumpTable ==
  /\ pc = "table" /\ i < Len(TableRows)
  /\ script' = Append(script, TableStmt(Row(db.tables, TableRows[i + 1])))
  /\ spi' = Ids(SetToSeq(InlineChecks(TableRows[i + 1])))
  /\ i' = i + 1
  /\ UNCHANGED <<db, query, deps, pc, saved>>
EndTables ==
  /\ pc = "table" /\ i >= Len(TableRows) /\ pc' = "sequences"
  /\ UNCHANGED <<db, query, deps, spi, saved, i, script>>

(* generate_sequences_ddl_query.                                           *)
StartSequences ==
  LET rows == IF deps.seqs # {} THEN Ids(RowsWith(db.seqs, deps.seqs))
              ELSE Ids(db.seqs) IN
  /\ pc = "sequences"
  /\ IF deps.seqs = {} /\ deps.analyzed
       THEN pc' = "views" /\ UNCHANGED <<spi, i>>
       ELSE pc' = "sequence" /\ spi' = rows /\ i' = 0
  /\ UNCHANGED <<db, query, deps, saved, script>>

(* Its loop runs two queries for each sequence, and reads the bound and    *)
(* the rows from the global result again: get_sequence_owned_by leaves at  *)
(* most one row there.                                                     *)
DumpSequence ==
  /\ pc = "sequence" /\ i < Len(spi)
  /\ LET s == Row(db.seqs, spi[i + 1]) IN
       /\ script' = Append(script, SequenceStmt(s))
       /\ spi' = OwnerRows(s)
  /\ i' = i + 1
  /\ UNCHANGED <<db, query, deps, pc, saved>>
EndAtBound ==
  /\ pc = "sequence" /\ i = Len(spi) /\ pc' = "views"
  /\ UNCHANGED <<db, query, deps, spi, saved, i, script>>
EndSequences ==
  /\ pc = "sequence" /\ i >= Len(spi) /\ pc' = "views"
  /\ UNCHANGED <<db, query, deps, spi, saved, i, script>>

(* generate_views_ddl_query: in the order of their names.  The test for a  *)
(* NULL in a row reads isNull[1..3], which nothing sets, so any view may   *)
(* be passed over.                                                         *)
ViewRows == IF deps.analyzed THEN RowsWith(db.views, deps.views) ELSE db.views
DumpViews ==
  \E seen \in SUBSET ToSet(Ids(ViewRows)) :
    LET rows == RowsWith(ViewRows, seen) IN
    Section("views", "indexes", Ids(ViewRows),
            [k \in DOMAIN rows |-> ViewStmt(rows[k])])

(* generate_indexes_ddl_query: not the unique indexes with a constraint.   *)
(* pg_constraint.conindid of a foreign key is the index it references, so  *)
(* a referenced unique index counts as one with a constraint.              *)
HasConstraint(x) ==
  \E c \in ToSet(db.cons) :
     \/ c.type = "u" /\ c.index = x.id
     \/ c.type = "f" /\ c.ref = x.table /\ c.key = x.id
IndexRowsWithDuplicates ==
  Chosen(db.indexes, {x \in ToSet(db.indexes) : deps.analyzed => x.id \in deps.indexes})
IndexRows ==
  Chosen(db.indexes, {x \in ToSet(db.indexes) : /\ deps.analyzed => x.id \in deps.indexes
                                                /\ x.unique => ~HasConstraint(x)})
DumpIndexes ==
  Section("indexes", "constraints", Ids(IndexRows),
          [k \in DOMAIN IndexRows |-> IndexStmt(IndexRows[k])])

(* generate_constraints_ddl_query: by schema, table, type and name; not    *)
(* the inherited and the NOT VALID ones.                                   *)
ConstraintRows ==
  Chosen(db.cons, {c \in ToSet(db.cons) : /\ deps.analyzed => c.id \in deps.cons
                                          /\ ~c.inherited /\ c.valid})
DumpConstraints ==
  Section("constraints", "done", Ids(ConstraintRows),
          [k \in DOMAIN ConstraintRows |-> ConstraintStmt(ConstraintRows[k])])

Next ==
  \/ Analyze \/ DumpSchemas \/ DumpFunctions \/ AggregateFails \/ DumpExtensions
  \/ StartTables \/ DumpTable \/ EndTables
  \/ StartSequences \/ DumpSequence \/ EndSequences
  \/ DumpViews \/ DumpIndexes \/ DumpConstraints

(* The function runs in one backend until it returns or raises an error.   *)
Spec == Init /\ [][Next]_vars /\ WF_vars(Next)

-----------------------------------------------------------------------------
(* Replaying the script in an empty database, statement by statement.      *)

Outcome ==
  LET after[k \in 0..Len(script)] ==
        IF k = 0 THEN [have |-> {}, failed |-> {}]
        ELSE LET st == script[k]  so == after[k - 1] IN
             IF st.needs \subseteq so.have /\ st.makes \cap so.have = {}
               THEN [so EXCEPT !.have = @ \cup st.makes]
               ELSE [so EXCEPT !.failed = @ \cup {k}]
  IN after[Len(script)]

Done == pc = "done"

(* The tables dump_schema is asked for.                                    *)
Wanted == IF query = NoQuery THEN ToSet(OrdinaryTables) ELSE ToSet(query.plan)

(* Every table wanted is in the script, although the queries about keys    *)
(* and checks that run inside the loop replace the result it started from. *)
EveryTableWritten ==
  Done => \A t \in Wanted :
    \E k \in DOMAIN script : script[k].kind = "table" /\ script[k].id = t

(* No two statements create the same relation (an index and the constraint *)
(* it belongs to, say), tables that the plan names several times aside.    *)
(* What CREATE EXTENSION makes does not count: a table of an extension is  *)
(* also written as a table.                                                *)
MadeOnce ==
  \A k, l \in DOMAIN script :
    /\ k < l /\ script[k].kind # "extension"
    /\ \E r \in script[k].makes \cap script[l].makes : r[1] = "rel"
    => script[k].kind = "table" /\ script[k] = script[l]

(* What the script can be relied on for.  The functions are written before *)
(* the extensions and the tables, and the extensions in the order of their *)
(* names: one that needs no more than the schemas is there early.          *)
InScope(schema) == schema = Default \/ schema \in ToSet(SchemaRows)
NewSchemas == {Schema(s) : s \in ToSet(SchemaRows) \ {Default}}
SelfContained(st) ==
  st.needs \subseteq NewSchemas /\ \A m \in st.makes : m[1] # "schema"
EarlyStmts == {FunctionStmt(f) : f \in ToSet(db.funcs)}
                \cup {ExtensionStmt(e) : e \in ToSet(db.exts)}
Early == UNION {st.makes : st \in {s \in EarlyStmts : SelfContained(s)}}

(* CREATE EXTENSION does not make it too.                                  *)
Own(st) == \A e \in ToSet(db.exts) : st.makes \cap e.members = {}

(* A statement about ordinary tables replays when what it uses apart from  *)
(* them is there early.  A foreign key does so when it references a        *)
(* primary key and its schema is written right.  The order of the sections *)
(* and the choice of constraints, sequences and views of a query must fit  *)
(* together for this.                                                      *)
Plain(id) ==
  \E t \in ToSet(db.tables) :
    /\ t.id = id /\ (query = NoQuery => t.kind = "r")
    /\ TableUses(t) \subseteq Early /\ Own(TableStmt(t))
Constraint(id) == Row(db.cons, id)
Reliable(k) ==
  LET st == script[k] IN
  CASE st.kind = "schema" -> TRUE
    [] st.kind \in {"function", "extension"} -> SelfContained(st)
    [] st.kind = "table" ->
         Plain(st.id) /\ \A l \in 1..(k - 1) : script[l].id # st.id
    [] st.kind = "sequence" ->
         LET s == Row(db.seqs, st.id) IN
           Own(st) /\ InScope(s.id[1]) /\ (s.owner # None => Plain(s.owner))
    [] st.kind = "view" ->
         /\ Own(st) /\ InScope(st.id[1])
         /\ \A u \in Row(db.views, st.id).uses :
              u \in Early \/ \E t \in Wanted : u = Rel(t) /\ Plain(t)
    [] st.kind = "index" ->
         LET x == Row(db.indexes, st.id) IN
           Own(st) /\ Plain(x.table) /\ x.uses \subseteq Early
    [] st.kind = "unique" ->
         LET c == Constraint(st.id) IN
           Own(st) /\ Plain(c.table) /\ c.uses \subseteq Early
    [] st.kind = "check" ->
         LET c == Constraint(st.id) IN
           Own(st) /\ Plain(c.table) /\ c.uses \subseteq Early /\ ~c.noInherit
    [] st.kind = "foreign key" ->
         LET c == Constraint(st.id) IN
           /\ Plain(c.table) /\ Plain(c.ref) /\ c.key = Primary /\ c.uses \subseteq Early
           /\ Visible(c.ref[1]) => c.table[1] = c.ref[1]
CoreReplays ==
  Done => \A k \in Outcome.failed : ~Reliable(k)

(* The function returns or raises an error, whatever result the bound of a *)
(* loop is read from.                                                      *)
ScriptEnds == <>(pc \in {"done", "error"})
=============================================================================
