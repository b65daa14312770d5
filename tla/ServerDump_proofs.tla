--------------------------- MODULE ServerDump_proofs ---------------------------
(***************************************************************************)
(* What dump_schema of the server extension writes, for every database and *)
(* every query: proofs of the properties of module ServerDump.             *)
(***************************************************************************)
EXTENDS ServerDump, SequenceTheorems, WellFoundedInduction, TLAPS

-----------------------------------------------------------------------------
(* Sequences.                                                              *)

(* A set of natural numbers has a least one. *)
LEMMA Least ==
  ASSUME NEW S, S \subseteq Nat, S # {}
  PROVE  \E x \in S : \A y \in S : x <= y
  <1>1. PICK x \in S : \A y \in S : ~(<<y, x>> \in OpToRel(<, Nat))
    BY NatLessThanWellFounded, WFMin
  <1>2. \A y \in S : ~(y < x)
    BY <1>1 DEF OpToRel
  <1> QED
    BY <1>2

(* Induction: what holds of 0 and passes on to the successor. *)
LEMMA Induction ==
  ASSUME NEW S, 0 \in S, \A n \in Nat : n \in S => n + 1 \in S
  PROVE  Nat \subseteq S
  <1> DEFINE T == Nat \ S
  <1> SUFFICES ASSUME T # {} PROVE FALSE
    OBVIOUS
  <1>1. PICK x \in T : \A y \in T : x <= y
    <2>1. T \subseteq Nat
      OBVIOUS
    <2> HIDE DEF T
    <2> QED
      BY <2>1, Least
  <1>2. x \in Nat /\ x \notin S /\ x # 0
    BY <1>1
  <1>3. x - 1 \in Nat /\ x - 1 \in S
    BY <1>1, <1>2
  <1>4. (x - 1) + 1 \in S
    BY <1>3
  <1> QED
    BY <1>4, <1>2

(* An element of a list is in its set, and the other way round. *)
LEMMA ListElements ==
  ASSUME NEW s, IsList(s)
  PROVE  /\ Len(s) \in Nat /\ DOMAIN s = 1..Len(s)
         /\ \A k \in 1..Len(s) : s[k] \in ToSet(s)
         /\ \A e \in ToSet(s) : \E k \in 1..Len(s) : s[k] = e
  <1>1. Len(s) \in Nat /\ DOMAIN s = 1..Len(s)
    BY LenProperties DEF IsList
  <1> QED
    BY <1>1 DEF ToSet

LEMMA ListOf ==
  ASSUME NEW S, NEW s \in Seq(S)
  PROVE  IsList(s) /\ ToSet(s) \subseteq S
  <1>1. Len(s) \in Nat /\ DOMAIN s = 1..Len(s)
    BY LenProperties
  <1>2. \A k \in 1..Len(s) : s[k] \in S
    BY <1>1, ElementOfSeq
  <1>3. \A k \in 1..Len(s) : s[k] \in ToSet(s)
    BY <1>1 DEF ToSet
  <1>4. s \in Seq(ToSet(s))
    <2>1. s = [k \in 1..Len(s) |-> s[k]]
      BY <1>1
    <2> HIDE DEF ToSet
    <2>2. s \in [1..Len(s) -> ToSet(s)]
      BY <1>3, <2>1
    <2>3. PICK n \in Nat : n = Len(s)
      BY <1>1
    <2> QED
      BY <2>2, <2>3
  <1> QED
    BY <1>1, <1>2, <1>4 DEF IsList, ToSet

(* A list built from another one row by row. *)
LEMMA ListByRow ==
  ASSUME NEW n \in Nat, NEW f, DOMAIN f = 1..n, f = [k \in DOMAIN f |-> f[k]]
  PROVE  IsList(f) /\ Len(f) = n
  <1>1. f \in [1..n -> ToSet(f)]
    BY DEF ToSet
  <1>2. f \in Seq(ToSet(f))
    BY <1>1
  <1> QED
    BY <1>1, <1>2, LenProperties DEF IsList

(* The recursion of Chosen, up to one of the rows. *)
Choosing(h, rows, S, n) ==
  /\ h[0] = <<>>
  /\ \A j \in 1..n : h[j] = IF rows[j] \in S THEN Append(h[j - 1], rows[j]) ELSE h[j - 1]

LEMMA ChoosingExists ==
  ASSUME NEW rows, NEW S, NEW n \in Nat
  PROVE  \E h : h = [j \in 0..n |-> h[j]] /\ Choosing(h, rows, S, n)
  <1> DEFINE P(m) == \E h : h = [j \in 0..m |-> h[j]] /\ Choosing(h, rows, S, m)
             T == {m \in Nat : P(m)}
  <1>1. 0 \in T
    <2> DEFINE h == [j \in 0..0 |-> <<>>]
    <2>1. h = [j \in 0..0 |-> h[j]] /\ h[0] = <<>>
      OBVIOUS
    <2> HIDE DEF h
    <2>2. Choosing(h, rows, S, 0)
      BY <2>1 DEF Choosing
    <2> QED
      BY <2>1, <2>2
  <1>2. ASSUME NEW m \in Nat, m \in T PROVE m + 1 \in T
    <2>1. PICK g : g = [j \in 0..m |-> g[j]] /\ Choosing(g, rows, S, m)
      BY <1>2
    <2> DEFINE last == IF rows[m + 1] \in S THEN Append(g[m], rows[m + 1]) ELSE g[m]
               h == [j \in 0..(m + 1) |-> IF j = m + 1 THEN last ELSE g[j]]
    <2> HIDE DEF last
    <2>2. /\ h = [j \in 0..(m + 1) |-> h[j]]
          /\ h[m + 1] = last /\ \A j \in 0..m : h[j] = g[j]
      OBVIOUS
    <2> HIDE DEF h
    <2>3. Choosing(h, rows, S, m + 1)
      <3> SUFFICES ASSUME NEW j \in 1..(m + 1)
                   PROVE  h[j] = IF rows[j] \in S THEN Append(h[j - 1], rows[j]) ELSE h[j - 1]
        <4>1. 0 \in 0..m
          OBVIOUS
        <4>2. h[0] = <<>>
          BY <2>1, <2>2, <4>1 DEF Choosing
        <4> QED
          BY <4>2 DEF Choosing
      <3>1. CASE j = m + 1
        <4>1. j - 1 = m /\ m \in 0..m
          BY <3>1
        <4>2. h[j - 1] = g[j - 1] /\ h[j] = last
          BY <2>2, <3>1, <4>1
        <4> QED
          BY <3>1, <4>1, <4>2 DEF last
      <3>2. CASE j # m + 1
        <4>1. j \in 1..m /\ j \in 0..m /\ j - 1 \in 0..m
          BY <3>2
        <4>2. h[j] = g[j] /\ h[j - 1] = g[j - 1]
          BY <2>2, <4>1
        <4> QED
          BY <2>1, <4>1, <4>2 DEF Choosing
      <3> QED
        BY <3>1, <3>2
    <2>4. P(m + 1)
      BY <2>2, <2>3
    <2> QED
      BY <2>4
  <1>3. Nat \subseteq T
    <2> HIDE DEF T
    <2> QED
      BY <1>1, <1>2, Induction
  <1> QED
    BY <1>3

(* What is chosen: the rows of the set, each as often as it is there. *)
LEMMA ChosenRows ==
  ASSUME NEW rows, IsList(rows), NEW S
  PROVE  /\ IsList(Chosen(rows, S)) /\ ToSet(Chosen(rows, S)) = ToSet(rows) \cap S
         /\ IsInjective(rows) => IsInjective(Chosen(rows, S))
  <1> DEFINE n == Len(rows)
             Rec(g) == [j \in 0..n |-> IF j = 0 THEN <<>>
                                       ELSE IF rows[j] \in S THEN Append(g[j - 1], rows[j])
                                       ELSE g[j - 1]]
             f == CHOOSE g : g = Rec(g)
  <1>1. Chosen(rows, S) = f[n]
    BY DEF Chosen
  <1>2. n \in Nat /\ DOMAIN rows = 1..n /\ \A j \in 1..n : rows[j] \in ToSet(rows)
    BY ListElements
  <1>3. PICK h : h = [j \in 0..n |-> h[j]] /\ Choosing(h, rows, S, n)
    BY <1>2, ChoosingExists
  <1>4. h = Rec(h)
    <2>1. \A j \in 0..n : h[j] = IF j = 0 THEN <<>>
                                 ELSE IF rows[j] \in S THEN Append(h[j - 1], rows[j])
                                 ELSE h[j - 1]
      <3> SUFFICES ASSUME NEW j \in 0..n
                   PROVE  h[j] = IF j = 0 THEN <<>>
                                 ELSE IF rows[j] \in S THEN Append(h[j - 1], rows[j])
                                 ELSE h[j - 1]
        OBVIOUS
      <3>1. j = 0 \/ j \in 1..n
        BY <1>2
      <3> HIDE DEF n
      <3> QED
        BY <1>3, <3>1 DEF Choosing
    <2> QED
      BY <1>3, <2>1
  <1>5. f = Rec(f)
    <2> HIDE DEF Rec
    <2> QED
      BY <1>4
  <1> HIDE DEF f
  <1>6. /\ f[0] = <<>>
        /\ \A j \in 1..n : f[j] = IF rows[j] \in S THEN Append(f[j - 1], rows[j]) ELSE f[j - 1]
    <2>1. \A j \in 0..n : f[j] = IF j = 0 THEN <<>>
                                 ELSE IF rows[j] \in S THEN Append(f[j - 1], rows[j])
                                 ELSE f[j - 1]
      BY <1>5
    <2> QED
      BY <1>2, <2>1
  <1> HIDE DEF n
  <1> DEFINE Good(m) ==
        /\ f[m] \in Seq(ToSet(rows))
        /\ ToSet(f[m]) = {rows[j] : j \in 1..m} \cap S
        /\ IsInjective(rows) => IsInjective(f[m])
             T == {m \in Nat : m \in 0..n => Good(m)}
  <1>7. 0 \in T
    <2>1. <<>> \in Seq(ToSet(rows)) /\ ToSet(<<>>) = {} /\ IsInjective(<<>>)
      BY EmptySeq DEF ToSet, IsInjective
    <2>2. {rows[j] : j \in 1..0} = {}
      OBVIOUS
    <2> QED
      BY <1>6, <2>1, <2>2
  <1>8. ASSUME NEW m \in Nat, m \in T PROVE m + 1 \in T
    <2> SUFFICES ASSUME m + 1 \in 0..n PROVE Good(m + 1)
      OBVIOUS
    <2>1. m \in 0..n /\ m + 1 \in 1..n /\ (m + 1) - 1 = m
      BY <1>2
    <2>2. Good(m)
      BY <1>8, <2>1
    <2>3. {rows[j] : j \in 1..(m + 1)} = {rows[j] : j \in 1..m} \cup {rows[m + 1]}
      OBVIOUS
    <2>4. CASE rows[m + 1] \notin S
      <3>1. f[m + 1] = f[m]
        BY <1>6, <2>1, <2>4
      <3> QED
        BY <2>2, <2>3, <2>4, <3>1
    <2>5. CASE rows[m + 1] \in S
      <3> DEFINE s == f[m]
                 e == rows[m + 1]
      <3>1. f[m + 1] = Append(s, e)
        BY <1>6, <2>1, <2>5
      <3>2. s \in Seq(ToSet(rows)) /\ e \in ToSet(rows)
        BY <1>2, <2>1, <2>2
      <3>3. ToSet(s) = {rows[j] : j \in 1..m} \cap S
        BY <2>2
      <3> HIDE DEF s
      <3>4. /\ Append(s, e) \in Seq(ToSet(rows)) /\ Len(s) \in Nat /\ DOMAIN s = 1..Len(s)
            /\ Len(Append(s, e)) = Len(s) + 1
            /\ \A j \in 1..Len(s) : Append(s, e)[j] = s[j]
            /\ Append(s, e)[Len(s) + 1] = e
        BY <3>2, AppendProperties, LenProperties
      <3>5. DOMAIN Append(s, e) = 1..(Len(s) + 1)
        BY <3>4, LenProperties
      <3>6. ToSet(Append(s, e)) = ToSet(s) \cup {e}
        BY <3>4, <3>5 DEF ToSet
      <3>7. ASSUME IsInjective(rows) PROVE IsInjective(Append(s, e))
        <4>1. IsInjective(s)
          BY <2>2, <3>7 DEF s
        <4>2. e \notin {rows[j] : j \in 1..m}
          BY <1>2, <2>1, <3>7 DEF IsInjective
        <4>3. \A j \in 1..Len(s) : s[j] # e
          BY <3>3, <3>4, <4>2 DEF ToSet
        <4> QED
          BY <3>4, <3>5, <4>1, <4>3 DEF IsInjective
      <3> QED
        BY <2>3, <2>5, <3>1, <3>3, <3>4, <3>6, <3>7
    <2> QED
      BY <2>4, <2>5
  <1>9. Nat \subseteq T
    <2> HIDE DEF T
    <2> QED
      BY <1>7, <1>8, Induction
  <1>10. Good(n)
    <2> HIDE DEF Good
    <2> QED
      BY <1>2, <1>9
  <1>11. {rows[j] : j \in 1..n} = ToSet(rows)
    BY <1>2 DEF ToSet
  <1> QED
    BY <1>1, <1>10, <1>11, ListOf DEF n

-----------------------------------------------------------------------------
(* Rows of the catalogue.                                                  *)

(* Rows with one id are one row, which is what Row finds. *)
LEMMA SameRow ==
  ASSUME NEW rows, Identified(rows), NEW r \in ToSet(rows)
  PROVE  /\ \A s \in ToSet(rows) : r.id = s.id => r = s
         /\ Row(rows, r.id) = r
  <1>1. ASSUME NEW s \in ToSet(rows), r.id = s.id PROVE r = s
    <2>1. PICK j \in DOMAIN rows : rows[j] = r
      BY DEF ToSet
    <2>2. PICK k \in DOMAIN rows : rows[k] = s
      BY DEF ToSet
    <2>3. j = k
      BY <1>1, <2>1, <2>2 DEF Identified, IsInjective
    <2> QED
      BY <2>1, <2>2, <2>3
  <1> QED
    BY <1>1 DEF Row

LEMMA RowFound ==
  ASSUME NEW rows, Identified(rows), NEW id, \E r \in ToSet(rows) : r.id = id
  PROVE  Row(rows, id) \in ToSet(rows) /\ Row(rows, id).id = id
  BY DEF Row

(* Chosen rows are rows, each with an id of its own. *)
LEMMA ChosenIdentified ==
  ASSUME NEW rows, Identified(rows), NEW S
  PROVE  /\ Identified(Chosen(rows, S)) /\ ToSet(Chosen(rows, S)) = ToSet(rows) \cap S
         /\ IsList(rows)
  <1> DEFINE s == Chosen(rows, S)
  <1>1. IsList(rows) /\ IsInjective(rows)
    BY DEF Identified, IsInjective
  <1>2. IsList(s) /\ ToSet(s) = ToSet(rows) \cap S /\ IsInjective(s)
    BY <1>1, ChosenRows
  <1> HIDE DEF s
  <1>3. ASSUME NEW j \in DOMAIN s, NEW k \in DOMAIN s, s[j].id = s[k].id PROVE j = k
    <2>1. s[j] \in ToSet(rows) /\ s[k] \in ToSet(rows)
      BY <1>2 DEF ToSet
    <2>2. s[j] = s[k]
      BY <1>3, <2>1, SameRow
    <2> QED
      BY <1>2, <2>2 DEF IsInjective
  <1> QED
    BY <1>1, <1>2, <1>3 DEF s, Identified, IsInjective

(* The tables of the catalogue are identified, and so on. *)
LEMMA Catalogue ==
  ASSUME db \in Databases
  PROVE  /\ Identified(db.funcs) /\ Identified(db.exts) /\ Identified(db.tables)
         /\ Identified(db.seqs) /\ Identified(db.views) /\ Identified(db.indexes)
         /\ Identified(db.cons)
         /\ IsList(db.schemas) /\ IsInjective(db.schemas)
  BY CatalogueAssumption DEF CatalogueAssumption

-----------------------------------------------------------------------------
(* The dependencies of a query.                                            *)

Pcs == {"analyze", "schemas", "functions", "error", "extensions", "tables", "table",
        "sequences", "sequence", "views", "indexes", "constraints", "done"}

BaseInv ==
  /\ db \in Databases /\ query \in Queries \cup {NoQuery}
  /\ query # NoQuery => \A r \in ToSet(query.plan) : \E t \in ToSet(db.tables) : t.id = r
  /\ pc \in Pcs
  /\ deps = IF pc = "analyze" \/ query = NoQuery THEN NoDeps ELSE DepsOf(query)

LEMMA BaseInvariant == Spec => []BaseInv
  <1>1. Init => BaseInv
    BY DEF Init, BaseInv, Pcs
  <1>2. ASSUME BaseInv, [Next]_vars PROVE BaseInv'
    <2>1. UNCHANGED <<db, query>> /\ pc' \in Pcs
      BY <1>2 DEF BaseInv, Pcs, Next, Analyze, Section, DumpSchemas, DumpFunctions, AggregateFails,
          DumpExtensions, StartTables, DumpTable, EndTables, StartSequences, DumpSequence,
          EndSequences, DumpViews, DumpIndexes, DumpConstraints, vars
    <2>2. CASE pc = "analyze"
      <3>1. CASE Analyze
        <4>1. DepsOf(query)' = DepsOf(query)
          BY <2>1 DEF DepsOf, PlanTables, SequencesOf, ViewsOf, ConstraintsOf, IndexesOf
        <4> QED
          BY <1>2, <2>1, <2>2, <3>1, <4>1 DEF BaseInv, Analyze
      <3>2. CASE UNCHANGED vars
        <4>1. DepsOf(query)' = DepsOf(query)
          BY <2>1 DEF DepsOf, PlanTables, SequencesOf, ViewsOf, ConstraintsOf, IndexesOf
        <4> QED
          BY <1>2, <2>1, <2>2, <3>2, <4>1 DEF BaseInv, vars
      <3> QED
        BY <1>2, <2>2, <3>1, <3>2 DEF Next, Section, DumpSchemas, DumpFunctions, AggregateFails,
          DumpExtensions, StartTables, DumpTable, EndTables, StartSequences, DumpSequence,
          EndSequences, DumpViews, DumpIndexes, DumpConstraints
    <2>3. CASE pc # "analyze"
      <3>1. deps' = deps /\ pc' # "analyze"
        BY <1>2, <2>3 DEF Next, Analyze, Section, DumpSchemas, DumpFunctions, AggregateFails,
          DumpExtensions, StartTables, DumpTable, EndTables, StartSequences, DumpSequence,
          EndSequences, DumpViews, DumpIndexes, DumpConstraints, vars
      <3>2. DepsOf(query)' = DepsOf(query)
        BY <2>1 DEF DepsOf, PlanTables, SequencesOf, ViewsOf, ConstraintsOf, IndexesOf
      <3> QED
        BY <1>2, <2>1, <2>3, <3>1, <3>2 DEF BaseInv
    <2> QED
      BY <2>2, <2>3
  <1> QED
    BY <1>1, <1>2, PTL DEF Spec

(* The tables wanted are in the catalogue. *)
LEMMA WantedTables ==
  ASSUME BaseInv
  PROVE  /\ \A id \in Wanted : /\ Row(db.tables, id) \in ToSet(db.tables)
                               /\ Row(db.tables, id).id = id
         /\ IsList(OrdinaryTables)
         /\ ToSet(OrdinaryTables) = {t.id : t \in {r \in ToSet(db.tables) : r.kind = "r"}}
  <1> DEFINE rows == Chosen(db.tables, {t \in ToSet(db.tables) : t.kind = "r"})
  <1>1. Identified(db.tables)
    BY Catalogue DEF BaseInv
  <1>2. Identified(rows) /\ ToSet(rows) = {t \in ToSet(db.tables) : t.kind = "r"}
    <2>1. /\ Identified(rows)
          /\ ToSet(rows) = ToSet(db.tables) \cap {t \in ToSet(db.tables) : t.kind = "r"}
      BY <1>1, ChosenIdentified
    <2> QED
      BY <2>1
  <1>3. OrdinaryTables = [k \in DOMAIN rows |-> rows[k].id]
    BY DEF OrdinaryTables, Ids
  <1> HIDE DEF rows
  <1>4. Len(rows) \in Nat /\ DOMAIN rows = 1..Len(rows)
    BY <1>2, ListElements DEF Identified
  <1>5. IsList(OrdinaryTables)
    <2> DEFINE f == [k \in DOMAIN rows |-> rows[k].id]
    <2>1. DOMAIN f = 1..Len(rows) /\ f = [k \in DOMAIN f |-> f[k]]
      BY <1>4
    <2> HIDE DEF f
    <2>2. IsList(f)
      BY <1>4, <2>1, ListByRow
    <2> QED
      BY <1>3, <2>2 DEF f
  <1>6. ToSet(OrdinaryTables) = {t.id : t \in ToSet(rows)}
    BY <1>3 DEF ToSet
  <1>7. ASSUME NEW id \in Wanted PROVE \E r \in ToSet(db.tables) : r.id = id
    BY <1>2, <1>6, <1>7 DEF Wanted, BaseInv
  <1> QED
    BY <1>1, <1>2, <1>5, <1>6, <1>7, RowFound

-----------------------------------------------------------------------------
(* What the script consists of.                                            *)

(* What a statement was written for. *)
From(st) ==
  \/ \E s \in ToSet(SchemaRows) \ {Default} : st = SchemaStmt(s)
  \/ \E f \in ToSet(db.funcs) : st = FunctionStmt(f)
  \/ \E e \in ToSet(db.exts) : st = ExtensionStmt(e)
  \/ \E id \in Wanted : st = TableStmt(Row(db.tables, id))
  \/ \E s \in ToSet(db.seqs) : (query # NoQuery => s.id \in deps.seqs) /\ st = SequenceStmt(s)
  \/ \E v \in ToSet(ViewRows) : st = ViewStmt(v)
  \/ \E x \in ToSet(IndexRows) : st = IndexStmt(x)
  \/ \E c \in ToSet(ConstraintRows) : st = ConstraintStmt(c)

(* The kinds of statements there may be by now. *)
Written ==
  CASE pc \in {"analyze", "schemas"} -> {}
    [] pc \in {"functions", "error"} -> {"schema"}
    [] pc = "extensions" -> {"schema", "function"}
    [] pc = "tables" -> {"schema", "function", "extension"}
    [] pc \in {"table", "sequences"} -> {"schema", "function", "extension", "table"}
    [] pc \in {"sequence", "views"} -> {"schema", "function", "extension", "table", "sequence"}
    [] pc = "indexes" -> {"schema", "function", "extension", "table", "sequence", "view"}
    [] pc = "constraints" ->
         {"schema", "function", "extension", "table", "sequence", "view", "index"}
    [] OTHER -> {"schema", "function", "extension", "table", "sequence", "view", "index",
                 "foreign key", "check", "unique"}

Alike(a, b) == a.kind = b.kind /\ a.id = b.id

(* The order of the sections. *)
Rank(kind) ==
  CASE kind = "schema" -> 1
    [] kind = "function" -> 2
    [] kind = "extension" -> 3
    [] kind = "table" -> 4
    [] kind = "sequence" -> 5
    [] kind = "view" -> 6
    [] kind = "index" -> 7
    [] OTHER -> 8
Before(a, b) == Rank(a) <= Rank(b)

(* Only a table is written twice, if the plan names it twice. *)
ScriptInv ==
  /\ IsList(script)
  /\ \A st \in ToSet(script) : From(st) /\ st.kind \in Written
  /\ \A k, l \in DOMAIN script : k < l /\ Alike(script[k], script[l]) => script[k].kind = "table"
  /\ \A k, l \in DOMAIN script : k < l => Before(script[k].kind, script[l].kind)

(* The loops over the tables and the sequences. *)
LoopInv ==
  /\ pc = "tables" /\ query # NoQuery => query.plan # <<>>
  /\ pc = "table" =>
       /\ IsList(saved) /\ ToSet(saved) = Wanted /\ i \in 0..Len(saved)
       /\ \A k \in 1..i : TableStmt(Row(db.tables, saved[k])) \in ToSet(script)
  /\ pc = "sequence" =>
       /\ i \in Nat /\ Len(spi) \in Nat
       /\ i >= 1 => Len(spi) <= 1
       /\ i = 0 => /\ \A st \in ToSet(script) : st.kind # "sequence"
                   /\ \A k \in 1..Len(spi) : \E s \in ToSet(db.seqs) :
                        s.id = spi[k] /\ (query # NoQuery => s.id \in deps.seqs)

(* What the script has by now. *)
CompleteInv ==
  /\ pc \notin {"analyze", "schemas"} =>
       \A s \in ToSet(SchemaRows) \ {Default} : SchemaStmt(s) \in ToSet(script)
  /\ pc \notin {"analyze", "schemas", "functions", "error"} =>
       \A f \in ToSet(db.funcs) : FunctionStmt(f) \in ToSet(script)
  /\ pc \notin {"analyze", "schemas", "functions", "error", "extensions"} =>
       \A e \in ToSet(db.exts) : ExtensionStmt(e) \in ToSet(script)
  /\ pc \in {"sequences", "sequence", "views", "indexes", "constraints", "done"} =>
       \A id \in Wanted : TableStmt(Row(db.tables, id)) \in ToSet(script)

(* What a statement is written for does not change after the analysis. *)
LEMMA FromStays ==
  ASSUME UNCHANGED <<db, query, deps>>
  PROVE  /\ \A st : From(st)' <=> From(st)
         /\ Wanted' = Wanted /\ SchemaRows' = SchemaRows /\ ViewRows' = ViewRows
         /\ IndexRows' = IndexRows /\ ConstraintRows' = ConstraintRows
         /\ \A id : TableStmt(Row(db.tables, id))' = TableStmt(Row(db.tables, id))
  <1>1. SchemaRows' = SchemaRows
    BY DEF SchemaRows
  <1>2. Wanted' = Wanted
    BY DEF Wanted, OrdinaryTables
  <1>3. ViewRows' = ViewRows
    BY DEF ViewRows
  <1>4. IndexRows' = IndexRows
    BY DEF IndexRows, HasConstraint
  <1>5. ConstraintRows' = ConstraintRows
    BY DEF ConstraintRows
  <1>6. \A t : TableStmt(t)' = TableStmt(t)
    BY DEF TableStmt, TableUses, InlineChecks
  <1>7. \A id : TableStmt(Row(db.tables, id))' = TableStmt(Row(db.tables, id))
    BY DEF TableStmt, TableUses, InlineChecks
  <1>8. ASSUME NEW st PROVE From(st)' <=> From(st)
    BY <1>1, <1>2, <1>3, <1>4, <1>5, <1>7 DEF From
  <1> QED
    BY <1>1, <1>2, <1>3, <1>4, <1>5, <1>7, <1>8

(* t is s with new after it. *)
Extended(s, new, t) ==
  /\ IsList(t) /\ Len(s) \in Nat /\ Len(new) \in Nat
  /\ DOMAIN s = 1..Len(s) /\ DOMAIN new = 1..Len(new)
  /\ Len(t) = Len(s) + Len(new) /\ DOMAIN t = 1..(Len(s) + Len(new))
  /\ \A k \in 1..Len(s) : t[k] = s[k]
  /\ \A j \in 1..Len(new) : t[Len(s) + j] = new[j]
  /\ \A k \in DOMAIN t : k \in 1..Len(s) \/ \E j \in 1..Len(new) : k = Len(s) + j

LEMMA Added ==
  ASSUME NEW s, IsList(s), NEW new, IsList(new)
  PROVE  Extended(s, new, s \o new)
  <1> DEFINE S == ToSet(s) \cup ToSet(new)
  <1>1. s \in Seq(S) /\ new \in Seq(S)
    <2>1. s \in Seq(ToSet(s)) /\ new \in Seq(ToSet(new))
      BY DEF IsList
    <2> QED
      BY <2>1, SeqMonotonic
  <1>2. Len(s) \in Nat /\ Len(new) \in Nat /\ DOMAIN s = 1..Len(s) /\ DOMAIN new = 1..Len(new)
    BY ListElements
  <1> HIDE DEF S
  <1>3. /\ s \o new \in Seq(S) /\ Len(s \o new) = Len(s) + Len(new)
        /\ \A k \in 1..(Len(s) + Len(new)) :
             (s \o new)[k] = IF k <= Len(s) THEN s[k] ELSE new[k - Len(s)]
    BY <1>1, ConcatProperties
  <1>4. DOMAIN (s \o new) = 1..(Len(s) + Len(new))
    BY <1>3, LenProperties
  <1>5. \A k \in 1..Len(s) : (s \o new)[k] = s[k]
    BY <1>2, <1>3
  <1>6. ASSUME NEW j \in 1..Len(new) PROVE (s \o new)[Len(s) + j] = new[j]
    <2>1. Len(s) + j \in 1..(Len(s) + Len(new)) /\ ~(Len(s) + j <= Len(s)) /\ (Len(s) + j) - Len(s) = j
      BY <1>2
    <2> QED
      BY <1>3, <2>1
  <1>7. ASSUME NEW k \in 1..(Len(s) + Len(new))
        PROVE  k \in 1..Len(s) \/ \E j \in 1..Len(new) : k = Len(s) + j
    <2>1. CASE k <= Len(s)
      BY <1>2, <2>1
    <2>2. CASE ~(k <= Len(s))
      <3>1. k - Len(s) \in 1..Len(new) /\ k = Len(s) + (k - Len(s))
        BY <1>2, <2>2
      <3> QED
        BY <3>1
    <2> QED
      BY <2>1, <2>2
  <1>8. IsList(s \o new)
    BY <1>3, ListOf
  <1> DEFINE r == s \o new
  <1>9. /\ IsList(r) /\ Len(r) = Len(s) + Len(new) /\ DOMAIN r = 1..(Len(s) + Len(new))
        /\ \A k \in 1..Len(s) : r[k] = s[k]
        /\ \A j \in 1..Len(new) : r[Len(s) + j] = new[j]
    BY <1>3, <1>4, <1>5, <1>6, <1>8
  <1> HIDE DEF r
  <1>10. Extended(s, new, r)
    BY <1>2, <1>7, <1>9 DEF Extended
  <1> QED
    BY <1>10 DEF r

(* A section adds statements of kinds that were not there, each once. *)
LEMMA ScriptGrows ==
  ASSUME ScriptInv, UNCHANGED <<db, query, deps>>, Written \subseteq Written',
         NEW new, IsList(new), script' = script \o new,
         \A j \in DOMAIN new : From(new[j]) /\ new[j].kind \in Written',
         \A j \in DOMAIN new : new[j].kind # "table" =>
           \A k \in DOMAIN script : script[k].kind # new[j].kind,
         \A j, m \in DOMAIN new : j < m /\ Alike(new[j], new[m]) => new[j].kind = "table",
         \A j \in DOMAIN new : \A kind \in Written : Before(kind, new[j].kind),
         \A j, m \in DOMAIN new : Before(new[j].kind, new[m].kind)
  PROVE  ScriptInv' /\ ToSet(script') = ToSet(script) \cup ToSet(new)
  <1>1. /\ IsList(script) /\ IsList(script')
        /\ Len(script) \in Nat /\ DOMAIN script = 1..Len(script) /\ DOMAIN new = 1..Len(new)
        /\ Len(new) \in Nat
        /\ \A k \in 1..Len(script) : script'[k] = script[k]
        /\ \A j \in 1..Len(new) : script'[Len(script) + j] = new[j]
        /\ \A k \in DOMAIN script' : \/ k \in 1..Len(script)
                                     \/ \E j \in 1..Len(new) : k = Len(script) + j
    <2>1. IsList(script)
      BY DEF ScriptInv
    <2>2. Extended(script, new, script')
      BY <2>1, Added
    <2> QED
      BY <2>1, <2>2 DEF Extended
  <1>2. ASSUME NEW st \in ToSet(script') PROVE From(st) /\ st.kind \in Written'
    <2>1. PICK k \in DOMAIN script' : script'[k] = st
      BY DEF ToSet
    <2>2. CASE k \in 1..Len(script)
      <3>1. st \in ToSet(script)
        BY <1>1, <2>1, <2>2 DEF ToSet
      <3> QED
        BY <3>1 DEF ScriptInv
    <2>3. CASE \E j \in 1..Len(new) : k = Len(script) + j
      BY <1>1, <2>1, <2>3
    <2> QED
      BY <1>1, <2>2, <2>3
  <1>3. ASSUME NEW k \in DOMAIN script', NEW l \in DOMAIN script', k < l,
               Alike(script'[k], script'[l])
        PROVE  script'[k].kind = "table"
    <2>1. CASE l \in 1..Len(script)
      <3>1. k \in 1..Len(script)
        BY <1>1, <1>3, <2>1
      <3> QED
        BY <1>1, <1>3, <2>1, <3>1 DEF ScriptInv
    <2>2. CASE l \notin 1..Len(script)
      <3>1. PICK m \in 1..Len(new) : l = Len(script) + m
        BY <1>1, <2>2
      <3>2. CASE k \in 1..Len(script)
        BY <1>1, <1>3, <3>1, <3>2 DEF Alike
      <3>3. CASE k \notin 1..Len(script)
        <4>1. PICK j \in 1..Len(new) : k = Len(script) + j
          BY <1>1, <3>3
        <4>2. j < m
          BY <1>1, <1>3, <3>1, <4>1
        <4> QED
          BY <1>1, <1>3, <3>1, <4>1, <4>2
      <3> QED
        BY <3>2, <3>3
    <2> QED
      BY <2>1, <2>2
  <1>4. \A st \in ToSet(script') : From(st)'
    BY <1>2, FromStays
  <1>5. (\A st \in ToSet(script) : From(st) /\ st.kind \in Written)'
    BY <1>2, <1>4
  <1>6. DOMAIN script' = 1..(Len(script) + Len(new))
    BY Added DEF ScriptInv, Extended
  <1>7. ToSet(script') = ToSet(script) \cup ToSet(new)
    <2>1. \A j \in 1..Len(new) : Len(script) + j \in DOMAIN script'
      BY <1>1, <1>6
    <2>2. 1..Len(script) \subseteq DOMAIN script'
      BY <1>1, <1>6
    <2>3. ToSet(script') \subseteq ToSet(script) \cup ToSet(new)
      BY <1>1 DEF ToSet
    <2>4. ToSet(script) \subseteq ToSet(script')
      BY <1>1, <2>2 DEF ToSet
    <2>5. ToSet(new) \subseteq ToSet(script')
      <3> SUFFICES ASSUME NEW j \in DOMAIN new PROVE new[j] \in ToSet(script')
        BY DEF ToSet
      <3>1. Len(script) + j \in DOMAIN script' /\ script'[Len(script) + j] = new[j]
        BY <1>1, <2>1
      <3> QED
        BY <3>1 DEF ToSet
    <2> QED
      BY <2>3, <2>4, <2>5
  <1>8. ASSUME NEW k \in DOMAIN script', NEW l \in DOMAIN script', k < l
        PROVE  Before(script'[k].kind, script'[l].kind)
    <2>1. CASE l \in 1..Len(script)
      <3>1. k \in 1..Len(script)
        BY <1>1, <1>8, <2>1
      <3> QED
        BY <1>1, <1>8, <2>1, <3>1 DEF ScriptInv
    <2>2. CASE l \notin 1..Len(script)
      <3>1. PICK m \in 1..Len(new) : l = Len(script) + m
        BY <1>1, <2>2
      <3>2. CASE k \in 1..Len(script)
        <4>1. script[k] \in ToSet(script) /\ script'[k] = script[k] /\ script'[l] = new[m]
          BY <1>1, <3>1, <3>2 DEF ToSet
        <4>2. script[k].kind \in Written
          BY <4>1 DEF ScriptInv
        <4> QED
          BY <1>1, <4>1, <4>2
      <3>3. CASE k \notin 1..Len(script)
        <4>1. PICK j \in 1..Len(new) : k = Len(script) + j
          BY <1>1, <3>3
        <4>2. script'[k] = new[j] /\ script'[l] = new[m]
          BY <1>1, <3>1, <4>1
        <4> QED
          BY <1>1, <4>2
      <3> QED
        BY <3>2, <3>3
    <2> QED
      BY <2>1, <2>2
  <1> QED
    BY <1>1, <1>3, <1>5, <1>7, <1>8 DEF ScriptInv

(* The same for a section: one statement for each of some rows, of kinds   *)
(* that are not there yet.                                                 *)
OneForEach(rows, new, kinds) ==
  /\ IsList(rows) /\ DOMAIN new = DOMAIN rows /\ new = [k \in DOMAIN new |-> new[k]]
  /\ \A j \in DOMAIN new : new[j].kind \in kinds
  /\ \A j, m \in DOMAIN new : new[j].id = new[m].id => j = m

LEMMA SectionGrows ==
  ASSUME ScriptInv, UNCHANGED <<db, query, deps>>,
         NEW rows, NEW new, NEW kinds, OneForEach(rows, new, kinds), script' = script \o new,
         Written \cup kinds \subseteq Written', kinds \cap Written = {},
         \A kind \in kinds : \A e \in Written \cup kinds : Before(e, kind),
         \A j \in DOMAIN new : From(new[j])
  PROVE  ScriptInv' /\ ToSet(script') = ToSet(script) \cup ToSet(new)
  <1>0. /\ IsList(rows) /\ DOMAIN new = DOMAIN rows /\ new = [k \in DOMAIN new |-> new[k]]
        /\ \A j \in DOMAIN new : new[j].kind \in kinds
        /\ \A j, m \in DOMAIN new : new[j].id = new[m].id => j = m
    BY DEF OneForEach
  <1>1. Len(rows) \in Nat /\ DOMAIN rows = 1..Len(rows)
    BY <1>0, ListElements
  <1>2. IsList(new)
    BY <1>0, <1>1, ListByRow
  <1>3. \A st \in ToSet(script) : st.kind \in Written
    BY DEF ScriptInv
  <1>4. \A k \in DOMAIN script : script[k] \in ToSet(script)
    BY DEF ToSet
  <1>5. \A j \in DOMAIN new : \A k \in DOMAIN script : script[k].kind # new[j].kind
    BY <1>0, <1>3, <1>4
  <1>6. \A j, m \in DOMAIN new : j < m => j # m
    BY <1>0, <1>1
  <1>7. \A j, m \in DOMAIN new : j < m /\ Alike(new[j], new[m]) => new[j].kind = "table"
    BY <1>0, <1>6 DEF Alike
  <1>8. \A j \in DOMAIN new : From(new[j]) /\ new[j].kind \in Written'
    BY <1>0
  <1>9. Written \subseteq Written'
    OBVIOUS
  <1>10. /\ \A j \in DOMAIN new : \A kind \in Written : Before(kind, new[j].kind)
         /\ \A j, m \in DOMAIN new : Before(new[j].kind, new[m].kind)
    BY <1>0
  <1> QED
    BY <1>9, <1>10, <1>2, <1>5, <1>7, <1>8, ScriptGrows

(* One statement appended. *)
LEMMA OneMore ==
  ASSUME ScriptInv, UNCHANGED <<db, query, deps>>, Written \subseteq Written',
         NEW st, From(st), st.kind \in Written', script' = Append(script, st),
         st.kind # "table" => \A e \in ToSet(script) : e.kind # st.kind,
         \A kind \in Written : Before(kind, st.kind)
  PROVE  ScriptInv' /\ ToSet(script') = ToSet(script) \cup {st}
  <1> DEFINE new == <<st>>
  <1>1. IsList(new) /\ DOMAIN new = {1} /\ new[1] = st /\ ToSet(new) = {st}
    BY DEF ToSet, IsList
  <1>2. script' = script \o new
    <2>1. script \in Seq(ToSet(script) \cup {st})
      <3>1. script \in Seq(ToSet(script))
        BY DEF ScriptInv, IsList
      <3> QED
        BY <3>1, SeqMonotonic
    <2> QED
      BY <2>1, AppendIsConcat
  <1> HIDE DEF new
  <1>3. \A k \in DOMAIN script : script[k] \in ToSet(script)
    BY DEF ToSet
  <1>4. /\ \A j \in DOMAIN new : From(new[j]) /\ new[j].kind \in Written'
        /\ \A j \in DOMAIN new : new[j].kind # "table" =>
             \A k \in DOMAIN script : script[k].kind # new[j].kind
        /\ \A j, m \in DOMAIN new : j < m /\ Alike(new[j], new[m]) => new[j].kind = "table"
        /\ \A j \in DOMAIN new : \A kind \in Written : Before(kind, new[j].kind)
    BY <1>1, <1>3
  <1>5. \A j, m \in DOMAIN new : Before(new[j].kind, new[m].kind)
    BY <1>1 DEF Before, Rank
  <1> QED
    BY <1>1, <1>2, <1>4, <1>5, ScriptGrows

(* Nothing appended. *)
LEMMA NoMore ==
  ASSUME ScriptInv, UNCHANGED <<db, query, deps, script>>, Written \subseteq Written'
  PROVE  ScriptInv' /\ ToSet(script') = ToSet(script)
  <1>1. \A st \in ToSet(script) : From(st)'
    BY FromStays DEF ScriptInv
  <1>2. (\A st \in ToSet(script) : From(st) /\ st.kind \in Written)'
    BY <1>1 DEF ScriptInv
  <1> QED
    BY <1>2 DEF ScriptInv

(* The ids of some rows, in their order. *)
LEMMA IdsList ==
  ASSUME NEW rows, IsList(rows)
  PROVE  /\ IsList(Ids(rows)) /\ Len(Ids(rows)) = Len(rows)
         /\ \A k \in 1..Len(rows) : Ids(rows)[k] = rows[k].id
         /\ ToSet(Ids(rows)) = IdsOf(rows)
  <1>1. Len(rows) \in Nat /\ DOMAIN rows = 1..Len(rows)
    BY ListElements
  <1> DEFINE f == Ids(rows)
  <1>2. /\ DOMAIN f = 1..Len(rows) /\ f = [k \in DOMAIN f |-> f[k]]
        /\ \A k \in 1..Len(rows) : f[k] = rows[k].id
    BY <1>1 DEF Ids
  <1> HIDE DEF f
  <1>3. IsList(f) /\ Len(f) = Len(rows)
    BY <1>1, <1>2, ListByRow
  <1>4. ToSet(f) = IdsOf(rows)
    BY <1>1, <1>2 DEF ToSet, IdsOf
  <1> QED
    BY <1>2, <1>3, <1>4 DEF f

(* The rows the sections go through. *)
LEMMA RowsOfSections ==
  ASSUME BaseInv
  PROVE  /\ IsList(SchemaRows) /\ IsInjective(SchemaRows)
         /\ ToSet(SchemaRows) \subseteq ToSet(db.schemas)
         /\ Identified(ViewRows) /\ ToSet(ViewRows) \subseteq ToSet(db.views)
         /\ Identified(IndexRows) /\ ToSet(IndexRows) \subseteq ToSet(db.indexes)
         /\ Identified(ConstraintRows) /\ ToSet(ConstraintRows) \subseteq ToSet(db.cons)
  <1>1. db \in Databases
    BY DEF BaseInv
  <1>2. /\ Identified(db.views) /\ Identified(db.indexes) /\ Identified(db.cons)
        /\ IsList(db.schemas) /\ IsInjective(db.schemas)
    BY <1>1, Catalogue
  <1>3. /\ IsList(Chosen(db.schemas, deps.schemas)) /\ IsInjective(Chosen(db.schemas, deps.schemas))
        /\ ToSet(Chosen(db.schemas, deps.schemas)) = ToSet(db.schemas) \cap deps.schemas
    BY <1>2, ChosenRows
  <1>4. /\ Identified(RowsWith(db.views, deps.views))
        /\ ToSet(RowsWith(db.views, deps.views)) \subseteq ToSet(db.views)
    BY <1>2, ChosenIdentified DEF RowsWith
  <1>5. Identified(IndexRows) /\ ToSet(IndexRows) \subseteq ToSet(db.indexes)
    <2> DEFINE S == {x \in ToSet(db.indexes) : /\ deps.analyzed => x.id \in deps.indexes
                                               /\ x.unique => ~HasConstraint(x)}
    <2>1. IndexRows = Chosen(db.indexes, S)
      BY DEF IndexRows
    <2> HIDE DEF S
    <2>2. Identified(Chosen(db.indexes, S)) /\ ToSet(Chosen(db.indexes, S)) = ToSet(db.indexes) \cap S
      BY <1>2, ChosenIdentified
    <2> QED
      BY <2>1, <2>2
  <1>6. Identified(ConstraintRows) /\ ToSet(ConstraintRows) \subseteq ToSet(db.cons)
    <2> DEFINE S == {c \in ToSet(db.cons) : /\ deps.analyzed => c.id \in deps.cons
                                            /\ ~c.inherited /\ c.valid}
    <2>1. ConstraintRows = Chosen(db.cons, S)
      BY DEF ConstraintRows
    <2> HIDE DEF S
    <2>2. Identified(Chosen(db.cons, S)) /\ ToSet(Chosen(db.cons, S)) = ToSet(db.cons) \cap S
      BY <1>2, ChosenIdentified
    <2> QED
      BY <2>1, <2>2
  <1> QED
    BY <1>2, <1>3, <1>4, <1>5, <1>6 DEF SchemaRows, ViewRows

(* The rows of a list with identified rows, one by one. *)
LEMMA RowByRow ==
  ASSUME NEW rows, Identified(rows)
  PROVE  /\ IsList(rows) /\ Len(rows) \in Nat /\ DOMAIN rows = 1..Len(rows)
         /\ \A k \in DOMAIN rows : rows[k] \in ToSet(rows)
         /\ \A j, m \in DOMAIN rows : rows[j].id = rows[m].id => j = m
         /\ \A r \in ToSet(rows) : \E k \in DOMAIN rows : rows[k] = r
  <1>1. IsList(rows) /\ IsInjective([k \in DOMAIN rows |-> rows[k].id])
    BY DEF Identified
  <1>2. \A j, m \in DOMAIN rows : rows[j].id = rows[m].id => j = m
    BY <1>1 DEF IsInjective
  <1> QED
    BY <1>1, <1>2, ListElements DEF ToSet

(* The statements, their kinds and ids. *)
LEMMA SchemaStatement ==
  ASSUME NEW s \in ToSet(SchemaRows) \ {Default}
  PROVE  /\ From(SchemaStmt(s)) /\ SchemaStmt(s).kind = "schema"
         /\ \A t : SchemaStmt(t).id = SchemaStmt(s).id => t = s
  <1>1. From(SchemaStmt(s))
    BY DEF From
  <1>2. SchemaStmt(s).kind = "schema"
    BY DEF SchemaStmt, Stmt
  <1>3. ASSUME NEW t, SchemaStmt(t).id = SchemaStmt(s).id PROVE t = s
    <2>1. SchemaStmt(t).id = <<t, "">> /\ SchemaStmt(s).id = <<s, "">>
      BY DEF SchemaStmt, Stmt
    <2>2. <<t, "">> = <<s, "">>
      BY <1>3, <2>1, Zenon
    <2> QED
      BY <2>2, Zenon
  <1> QED
    BY <1>1, <1>2, <1>3

LEMMA FunctionStatement ==
  ASSUME NEW f \in ToSet(db.funcs)
  PROVE  From(FunctionStmt(f)) /\ FunctionStmt(f).kind = "function" /\ FunctionStmt(f).id = f.id
  <1>1. From(FunctionStmt(f))
    BY DEF From
  <1> QED
    BY <1>1 DEF FunctionStmt, Stmt

LEMMA ExtensionStatement ==
  ASSUME NEW e \in ToSet(db.exts)
  PROVE  From(ExtensionStmt(e)) /\ ExtensionStmt(e).kind = "extension" /\ ExtensionStmt(e).id = e.id
  <1>1. From(ExtensionStmt(e))
    BY DEF From
  <1> QED
    BY <1>1 DEF ExtensionStmt, Stmt

LEMMA ViewStatement ==
  ASSUME NEW v \in ToSet(ViewRows)
  PROVE  From(ViewStmt(v)) /\ ViewStmt(v).kind = "view" /\ ViewStmt(v).id = v.id
  <1>1. From(ViewStmt(v))
    BY DEF From
  <1> QED
    BY <1>1 DEF ViewStmt, Stmt

LEMMA IndexStatement ==
  ASSUME NEW x \in ToSet(IndexRows)
  PROVE  From(IndexStmt(x)) /\ IndexStmt(x).kind = "index" /\ IndexStmt(x).id = x.id
  <1>1. From(IndexStmt(x))
    BY DEF From
  <1> QED
    BY <1>1 DEF IndexStmt, Stmt

LEMMA TableStatement ==
  ASSUME NEW id \in Wanted
  PROVE  /\ From(TableStmt(Row(db.tables, id))) /\ TableStmt(Row(db.tables, id)).kind = "table"
  <1>1. From(TableStmt(Row(db.tables, id)))
    BY DEF From
  <1> QED
    BY <1>1 DEF TableStmt, Stmt

LEMMA SequenceStatement ==
  ASSUME NEW s \in ToSet(db.seqs), query # NoQuery => s.id \in deps.seqs
  PROVE  From(SequenceStmt(s)) /\ SequenceStmt(s).kind = "sequence" /\ SequenceStmt(s).id = s.id
  <1>1. From(SequenceStmt(s))
    BY DEF From
  <1> QED
    BY <1>1 DEF SequenceStmt, Stmt

LEMMA ConstraintStatement ==
  ASSUME NEW c \in ToSet(ConstraintRows), c.type \in {"f", "c", "u"}
  PROVE  /\ From(ConstraintStmt(c)) /\ ConstraintStmt(c).id = c.id
         /\ ConstraintStmt(c).kind \in {"foreign key", "check", "unique"}
  <1>1. From(ConstraintStmt(c))
    BY DEF From
  <1>2. CASE c.type = "f"
    BY <1>1, <1>2 DEF ConstraintStmt, Stmt
  <1>3. CASE c.type = "c"
    BY <1>1, <1>3 DEF ConstraintStmt, Stmt
  <1>4. CASE c.type = "u"
    BY <1>1, <1>4 DEF ConstraintStmt, Stmt
  <1> QED
    BY <1>2, <1>3, <1>4

DumpInv == BaseInv /\ ScriptInv /\ LoopInv /\ CompleteInv

LEMMA AnalyzeKeeps ==
  ASSUME DumpInv, Analyze
  PROVE  ScriptInv' /\ LoopInv' /\ CompleteInv'
  <1>1. pc = "analyze" /\ pc' = "schemas" /\ script' = script
    BY DEF Analyze
  <1>2. ToSet(script) = {}
    BY <1>1 DEF DumpInv, ScriptInv, Written
  <1>3. ScriptInv'
    BY <1>1, <1>2 DEF DumpInv, ScriptInv
  <1> QED
    BY <1>1, <1>3 DEF LoopInv, CompleteInv

LEMMA DumpSchemasKeeps ==
  ASSUME DumpInv, DumpSchemas
  PROVE  ScriptInv' /\ LoopInv' /\ CompleteInv'
  <1> DEFINE rows == Chosen(SchemaRows, ToSet(SchemaRows) \ {Default})
             new == [k \in DOMAIN rows |-> SchemaStmt(rows[k])]
  <1>1. /\ pc = "schemas" /\ pc' = "functions" /\ UNCHANGED <<db, query, deps>>
        /\ script' = script \o new
    BY DEF DumpSchemas, Section
  <1>2. IsList(rows) /\ IsInjective(rows) /\ ToSet(rows) = ToSet(SchemaRows) \ {Default}
    BY RowsOfSections, ChosenRows DEF DumpInv
  <1>3. /\ DOMAIN new = DOMAIN rows /\ new = [k \in DOMAIN new |-> new[k]]
        /\ \A k \in DOMAIN rows : new[k] = SchemaStmt(rows[k])
    OBVIOUS
  <1> HIDE DEF rows, new
  <1>4. \A k \in DOMAIN rows : rows[k] \in ToSet(SchemaRows) \ {Default}
    BY <1>2 DEF ToSet
  <1>5. \A k \in DOMAIN new : From(new[k]) /\ new[k].kind = "schema"
    BY <1>3, <1>4, SchemaStatement
  <1>6. \A j, m \in DOMAIN new : new[j].id = new[m].id => j = m
    <2>1. \A j, m \in DOMAIN rows : rows[j] = rows[m] => j = m
      BY <1>2 DEF IsInjective
    <2> SUFFICES ASSUME NEW j \in DOMAIN new, NEW m \in DOMAIN new, new[j].id = new[m].id PROVE j = m
      OBVIOUS
    <2>2. SchemaStmt(rows[j]).id = SchemaStmt(rows[m]).id /\ rows[m] \in ToSet(SchemaRows) \ {Default}
      BY <1>3, <1>4, Zenon
    <2>3. rows[j] = rows[m]
      BY <2>2, SchemaStatement, Zenon
    <2> QED
      BY <1>3, <2>1, <2>3
  <1>7. Written = {} /\ Written' = {"schema"}
    BY <1>1 DEF Written
  <1>8. ScriptInv' /\ ToSet(script') = ToSet(script) \cup ToSet(new)
    <2> DEFINE kinds == {"schema"}
    <2>1. /\ Written \cup kinds \subseteq Written' /\ kinds \cap Written = {}
          /\ \A kind \in kinds : \A e \in Written \cup kinds : Before(e, kind)
      BY <1>7 DEF Before, Rank
    <2>2. OneForEach(rows, new, kinds)
      BY <1>2, <1>3, <1>5, <1>6 DEF OneForEach
    <2>3. ScriptInv /\ \A j \in DOMAIN new : From(new[j])
      BY <1>5 DEF DumpInv
    <2> HIDE DEF kinds
    <2> QED
      BY <1>1, <2>1, <2>2, <2>3, SectionGrows, Zenon
  <1>9. \A s \in ToSet(SchemaRows) \ {Default} : SchemaStmt(s) \in ToSet(script')
    <2>1. \A s \in ToSet(rows) : SchemaStmt(s) \in ToSet(new)
      BY <1>3 DEF ToSet
    <2> QED
      BY <1>2, <1>8, <2>1
  <1>10. SchemaRows' = SchemaRows
    BY <1>1, FromStays
  <1> QED
    BY <1>1, <1>8, <1>9, <1>10 DEF LoopInv, CompleteInv

(* What the script has, it keeps. *)
LEMMA CompleteGrows ==
  ASSUME CompleteInv, UNCHANGED <<db, query, deps>>, ToSet(script) \subseteq ToSet(script'),
         pc \notin {"analyze", "schemas"},
         \/ pc' = "error"
         \/ pc \notin {"analyze", "schemas", "functions", "error"}
         \/ \A f \in ToSet(db.funcs) : FunctionStmt(f) \in ToSet(script'),
         \/ pc' \in {"error", "extensions"}
         \/ pc \notin {"analyze", "schemas", "functions", "error", "extensions"}
         \/ \A e \in ToSet(db.exts) : ExtensionStmt(e) \in ToSet(script'),
         \/ pc' \notin {"sequences", "sequence", "views", "indexes", "constraints", "done"}
         \/ pc \in {"sequences", "sequence", "views", "indexes", "constraints", "done"}
         \/ \A id \in Wanted : TableStmt(Row(db.tables, id)) \in ToSet(script')
  PROVE  CompleteInv'
  <1>1. /\ Wanted' = Wanted /\ SchemaRows' = SchemaRows
        /\ \A id : TableStmt(Row(db.tables, id))' = TableStmt(Row(db.tables, id))
    BY FromStays
  <1>2. (pc \notin {"analyze", "schemas"} =>
           \A s \in ToSet(SchemaRows) \ {Default} : SchemaStmt(s) \in ToSet(script))'
    BY <1>1 DEF CompleteInv
  <1>3. (pc \notin {"analyze", "schemas", "functions", "error", "extensions"} =>
           \A e \in ToSet(db.exts) : ExtensionStmt(e) \in ToSet(script))'
    BY DEF CompleteInv
  <1>4. (pc \in {"sequences", "sequence", "views", "indexes", "constraints", "done"} =>
           \A id \in Wanted : TableStmt(Row(db.tables, id)) \in ToSet(script))'
    BY <1>1 DEF CompleteInv
  <1>5. (pc \notin {"analyze", "schemas", "functions", "error"} =>
           \A f \in ToSet(db.funcs) : FunctionStmt(f) \in ToSet(script))'
    BY DEF CompleteInv
  <1> QED
    BY <1>2, <1>3, <1>4, <1>5 DEF CompleteInv

LEMMA DumpFunctionsKeeps ==
  ASSUME DumpInv, DumpFunctions
  PROVE  ScriptInv' /\ LoopInv' /\ CompleteInv'
  <1> DEFINE rows == db.funcs
             new == [k \in DOMAIN rows |-> FunctionStmt(rows[k])]
             kinds == {"function"}
  <1>1. /\ pc = "functions" /\ pc' = "extensions" /\ UNCHANGED <<db, query, deps>>
        /\ script' = script \o new
    BY DEF DumpFunctions, Section
  <1>2. Identified(rows) /\ ToSet(rows) = ToSet(db.funcs)
    BY Catalogue DEF DumpInv, BaseInv
  <1>3. /\ DOMAIN new = DOMAIN rows /\ new = [k \in DOMAIN new |-> new[k]]
        /\ \A k \in DOMAIN rows : new[k] = FunctionStmt(rows[k])
    OBVIOUS
  <1>4. /\ Written \cup kinds \subseteq Written' /\ kinds \cap Written = {}
        /\ \A kind \in kinds : \A e \in Written \cup kinds : Before(e, kind)
    BY <1>1 DEF Written, Before, Rank
  <1> HIDE DEF rows, new
  <1>5. \A k \in DOMAIN rows : rows[k] \in ToSet(db.funcs)
    BY <1>2, RowByRow
  <1>6. \A k \in DOMAIN new : /\ From(new[k]) /\ new[k].kind \in kinds
                              /\ new[k].id = rows[k].id
    BY <1>3, <1>5, FunctionStatement
  <1> HIDE DEF kinds
  <1>7. OneForEach(rows, new, kinds)
    BY <1>2, <1>3, <1>6, RowByRow DEF OneForEach
  <1>8. ScriptInv' /\ ToSet(script') = ToSet(script) \cup ToSet(new)
    <2>1. ScriptInv /\ \A j \in DOMAIN new : From(new[j])
      BY <1>6 DEF DumpInv
    <2> QED
      BY <1>1, <1>4, <1>7, <2>1, SectionGrows, Zenon
  <1>9. CompleteInv'
    <2>1. ToSet(script) \subseteq ToSet(script')
      BY <1>8
    <2>2. \A f \in ToSet(rows) : FunctionStmt(f) \in ToSet(new)
      BY <1>2, <1>3, RowByRow DEF ToSet
    <2>3. \A f \in ToSet(db.funcs) : FunctionStmt(f) \in ToSet(script')
      BY <1>2, <1>8, <2>2
    <2> QED
      BY <1>1, <2>1, <2>3, CompleteGrows DEF DumpInv
  <1> QED
    BY <1>1, <1>8, <1>9 DEF LoopInv

LEMMA DumpExtensionsKeeps ==
  ASSUME DumpInv, DumpExtensions
  PROVE  ScriptInv' /\ LoopInv' /\ CompleteInv'
  <1> DEFINE rows == db.exts
             new == [k \in DOMAIN rows |-> ExtensionStmt(rows[k])]
             kinds == {"extension"}
  <1>1. /\ pc = "extensions" /\ UNCHANGED <<db, query, deps>>
        /\ pc' = IF deps.analyzed /\ deps.tables = <<>> THEN "done" ELSE "tables"
        /\ script' = script \o new
    BY DEF DumpExtensions, Section
  <1>2. Identified(rows) /\ ToSet(rows) = ToSet(db.exts)
    BY Catalogue DEF DumpInv, BaseInv
  <1>3. /\ DOMAIN new = DOMAIN rows /\ new = [k \in DOMAIN new |-> new[k]]
        /\ \A k \in DOMAIN rows : new[k] = ExtensionStmt(rows[k])
    OBVIOUS
  <1>4. /\ Written \cup kinds \subseteq Written' /\ kinds \cap Written = {}
        /\ \A kind \in kinds : \A e \in Written \cup kinds : Before(e, kind)
    BY <1>1 DEF Written, Before, Rank
  <1> HIDE DEF rows, new
  <1>5. \A k \in DOMAIN rows : rows[k] \in ToSet(db.exts)
    BY <1>2, RowByRow
  <1>6. \A k \in DOMAIN new : /\ From(new[k]) /\ new[k].kind \in kinds
                              /\ new[k].id = rows[k].id
    BY <1>3, <1>5, ExtensionStatement
  <1> HIDE DEF kinds
  <1>7. OneForEach(rows, new, kinds)
    BY <1>2, <1>3, <1>6, RowByRow DEF OneForEach
  <1>8. ScriptInv' /\ ToSet(script') = ToSet(script) \cup ToSet(new)
    <2>1. ScriptInv /\ \A j \in DOMAIN new : From(new[j])
      BY <1>6 DEF DumpInv
    <2> QED
      BY <1>1, <1>4, <1>7, <2>1, SectionGrows, Zenon
  <1>9. ToSet(script) \subseteq ToSet(script')
    BY <1>8
  <1>10. \A e \in ToSet(db.exts) : ExtensionStmt(e) \in ToSet(script')
    <2>1. \A e \in ToSet(rows) : ExtensionStmt(e) \in ToSet(new)
      BY <1>2, <1>3, RowByRow DEF ToSet
    <2> QED
      BY <1>2, <1>8, <2>1
  <1>11. deps.analyzed <=> query # NoQuery
    BY <1>1 DEF DumpInv, BaseInv, NoDeps, DepsOf
  <1>12. query # NoQuery => deps.tables = query.plan
    BY <1>1 DEF DumpInv, BaseInv, DepsOf, PlanTables
  <1>13. CASE deps.analyzed /\ deps.tables = <<>>
    <2>1. Wanted = {}
      BY <1>11, <1>12, <1>13 DEF Wanted, ToSet
    <2>2. CompleteInv'
      BY <1>1, <1>9, <1>10, <2>1, CompleteGrows DEF DumpInv
    <2> QED
      BY <1>1, <1>8, <1>13, <2>2 DEF LoopInv
  <1>14. CASE ~(deps.analyzed /\ deps.tables = <<>>)
    <2>1. CompleteInv'
      BY <1>1, <1>9, <1>10, <1>14, CompleteGrows DEF DumpInv
    <2>2. query # NoQuery => query.plan # <<>>
      BY <1>11, <1>12, <1>14
    <2>3. LoopInv'
      BY <1>1, <1>14, <2>2 DEF LoopInv
    <2> QED
      BY <1>8, <2>1, <2>3
  <1> QED
    BY <1>13, <1>14

LEMMA StartTablesKeeps ==
  ASSUME DumpInv, StartTables
  PROVE  ScriptInv' /\ LoopInv' /\ CompleteInv'
  <1> DEFINE rows == IF deps.tables # <<>> THEN deps.tables ELSE OrdinaryTables
  <1>1. /\ pc = "tables" /\ pc' = "table" /\ UNCHANGED <<db, query, deps, script>>
        /\ saved' = rows /\ i' = 0
    BY DEF StartTables
  <1>2. IsList(rows) /\ ToSet(rows) = Wanted
    <2>1. CASE query = NoQuery
      <3>1. deps.tables = <<>>
        BY <1>1, <2>1 DEF DumpInv, BaseInv, NoDeps
      <3> QED
        BY <2>1, <3>1, WantedTables DEF Wanted, DumpInv
    <2>2. CASE query # NoQuery
      <3>1. deps.tables = query.plan
        BY <1>1, <2>2 DEF DumpInv, BaseInv, DepsOf, PlanTables
      <3>2. query.plan # <<>> /\ query \in Queries
        BY <1>1, <2>2 DEF DumpInv, BaseInv, LoopInv
      <3> QED
        BY <2>2, <3>1, <3>2, QueriesAssumption DEF Wanted, QueriesAssumption
    <2> QED
      BY <2>1, <2>2
  <1> HIDE DEF rows
  <1>3. ScriptInv' /\ ToSet(script') = ToSet(script)
    <2>1. Written \subseteq Written'
      BY <1>1 DEF Written
    <2> QED
      BY <1>1, <2>1, NoMore DEF DumpInv
  <1>4. CompleteInv'
    BY <1>1, <1>3, CompleteGrows DEF DumpInv
  <1>5. LoopInv'
    <2>1. Wanted' = Wanted
      BY <1>1, FromStays
    <2>2. Len(rows) \in Nat
      BY <1>2, ListElements
    <2>3. (/\ IsList(saved) /\ ToSet(saved) = Wanted /\ i \in 0..Len(saved))'
      BY <1>1, <1>2, <2>1, <2>2
    <2>4. (\A k \in 1..i : TableStmt(Row(db.tables, saved[k])) \in ToSet(script))'
      BY <1>1
    <2> QED
      BY <1>1, <2>3, <2>4 DEF LoopInv
  <1> QED
    BY <1>3, <1>4, <1>5

LEMMA DumpTableKeeps ==
  ASSUME DumpInv, DumpTable
  PROVE  ScriptInv' /\ LoopInv' /\ CompleteInv'
  <1> DEFINE st == TableStmt(Row(db.tables, saved[i + 1]))
  <1>1. /\ pc = "table" /\ pc' = "table" /\ UNCHANGED <<db, query, deps, saved>>
        /\ i < Len(saved) /\ i' = i + 1 /\ script' = Append(script, st)
    BY DEF DumpTable, TableRows, SavedRows
  <1>2. /\ IsList(saved) /\ ToSet(saved) = Wanted /\ i \in 0..Len(saved)
        /\ \A k \in 1..i : TableStmt(Row(db.tables, saved[k])) \in ToSet(script)
    BY <1>1 DEF DumpInv, LoopInv
  <1>3. Len(saved) \in Nat /\ i + 1 \in 1..Len(saved) /\ saved[i + 1] \in Wanted
    BY <1>1, <1>2, ListElements
  <1>4. From(st) /\ st.kind = "table"
    BY <1>3, TableStatement
  <1> HIDE DEF st
  <1>5. /\ Written \subseteq Written' /\ st.kind \in Written'
        /\ \A kind \in Written : Before(kind, st.kind)
    BY <1>1, <1>4 DEF Written, Before, Rank
  <1>6. ScriptInv' /\ ToSet(script') = ToSet(script) \cup {st}
    BY <1>1, <1>4, <1>5, OneMore DEF DumpInv
  <1>7. CompleteInv'
    BY <1>1, <1>6, CompleteGrows DEF DumpInv
  <1>8. LoopInv'
    <2>1. Wanted' = Wanted /\ \A id : TableStmt(Row(db.tables, id))' = TableStmt(Row(db.tables, id))
      BY <1>1, FromStays
    <2>2. (/\ IsList(saved) /\ ToSet(saved) = Wanted /\ i \in 0..Len(saved))'
      BY <1>1, <1>2, <1>3, <2>1
    <2>3. ASSUME NEW k \in 1..(i + 1)
          PROVE  TableStmt(Row(db.tables, saved[k])) \in ToSet(script) \cup {st}
      BY <1>2, <1>3 DEF st
    <2>4. (\A k \in 1..i : TableStmt(Row(db.tables, saved[k])) \in ToSet(script))'
      BY <1>1, <1>6, <2>1, <2>3
    <2> QED
      BY <1>1, <2>2, <2>4 DEF LoopInv
  <1> QED
    BY <1>6, <1>7, <1>8

LEMMA EndTablesKeeps ==
  ASSUME DumpInv, EndTables
  PROVE  ScriptInv' /\ LoopInv' /\ CompleteInv'
  <1>1. /\ pc = "table" /\ pc' = "sequences" /\ UNCHANGED <<db, query, deps, script>>
        /\ i >= Len(saved)
    BY DEF EndTables, TableRows, SavedRows
  <1>2. ScriptInv' /\ ToSet(script') = ToSet(script)
    <2>1. Written \subseteq Written'
      BY <1>1 DEF Written
    <2> QED
      BY <1>1, <2>1, NoMore DEF DumpInv
  <1>3. \A id \in Wanted : TableStmt(Row(db.tables, id)) \in ToSet(script')
    <2>1. /\ IsList(saved) /\ ToSet(saved) = Wanted /\ i \in 0..Len(saved)
          /\ \A k \in 1..i : TableStmt(Row(db.tables, saved[k])) \in ToSet(script)
      BY <1>1 DEF DumpInv, LoopInv
    <2>2. Len(saved) \in Nat /\ \A id \in ToSet(saved) : \E k \in 1..Len(saved) : saved[k] = id
      BY <2>1, ListElements
    <2>3. i = Len(saved)
      BY <1>1, <2>1, <2>2
    <2> SUFFICES ASSUME NEW id \in Wanted PROVE TableStmt(Row(db.tables, id)) \in ToSet(script')
      OBVIOUS
    <2>4. PICK k \in 1..Len(saved) : saved[k] = id
      BY <2>1, <2>2
    <2> QED
      BY <1>2, <2>1, <2>3, <2>4
  <1>4. CompleteInv'
    BY <1>1, <1>2, <1>3, CompleteGrows DEF DumpInv
  <1> QED
    BY <1>1, <1>2, <1>4 DEF LoopInv

LEMMA StartSequencesKeeps ==
  ASSUME DumpInv, StartSequences
  PROVE  ScriptInv' /\ LoopInv' /\ CompleteInv'
  <1> DEFINE rows == IF deps.seqs # {} THEN Ids(RowsWith(db.seqs, deps.seqs)) ELSE Ids(db.seqs)
  <1>1. /\ pc = "sequences" /\ UNCHANGED <<db, query, deps, script>>
        /\ \/ deps.seqs = {} /\ deps.analyzed /\ pc' = "views"
           \/ ~(deps.seqs = {} /\ deps.analyzed) /\ pc' = "sequence" /\ spi' = rows /\ i' = 0
    BY DEF StartSequences
  <1>2. ScriptInv' /\ ToSet(script') = ToSet(script)
    <2>1. Written \subseteq Written'
      BY <1>1 DEF Written
    <2> QED
      BY <1>1, <2>1, NoMore DEF DumpInv
  <1>3. CompleteInv'
    BY <1>1, <1>2, CompleteGrows DEF DumpInv
  <1>4. CASE deps.seqs = {} /\ deps.analyzed
    <2>1. pc' = "views"
      BY <1>1, <1>4
    <2> QED
      BY <1>2, <1>3, <2>1 DEF LoopInv
  <1>5. CASE ~(deps.seqs = {} /\ deps.analyzed)
    <2>1. Identified(db.seqs)
      BY Catalogue DEF DumpInv, BaseInv
    <2>2. deps.analyzed <=> query # NoQuery
      BY <1>1 DEF DumpInv, BaseInv, NoDeps, DepsOf
    <2>3. PICK S : /\ IsList(S) /\ rows = Ids(S)
                   /\ \A s \in ToSet(S) : s \in ToSet(db.seqs) /\ (query # NoQuery => s.id \in deps.seqs)
      <3>1. CASE deps.seqs # {}
        <4> DEFINE T == {r \in ToSet(db.seqs) : r.id \in deps.seqs}
                   S == Chosen(db.seqs, T)
        <4>1. Identified(S) /\ ToSet(S) = ToSet(db.seqs) \cap T
          BY <2>1, ChosenIdentified
        <4>2. rows = Ids(S)
          BY <3>1 DEF RowsWith
        <4> HIDE DEF S, rows
        <4>3. \A s \in ToSet(S) : s \in ToSet(db.seqs) /\ (query # NoQuery => s.id \in deps.seqs)
          BY <4>1
        <4> QED
          BY <4>1, <4>2, <4>3, RowByRow
      <3>2. CASE deps.seqs = {}
        <4>1. query = NoQuery
          BY <1>5, <2>2, <3>2
        <4>2. rows = Ids(db.seqs) /\ IsList(db.seqs)
          BY <2>1, <3>2, RowByRow
        <4> QED
          BY <4>1, <4>2
      <3> QED
        BY <3>1, <3>2
    <2>4. /\ Len(S) \in Nat /\ \A k \in 1..Len(S) : S[k] \in ToSet(S)
          /\ IsList(rows) /\ Len(rows) = Len(S) /\ \A k \in 1..Len(S) : rows[k] = S[k].id
      BY <2>3, IdsList, ListElements
    <2>5. ASSUME NEW st \in ToSet(script) PROVE st.kind # "sequence"
      BY <1>1 DEF DumpInv, ScriptInv, Written
    <2>6. pc' = "sequence" /\ spi' = rows /\ i' = 0
      BY <1>1, <1>5
    <2> HIDE DEF rows
    <2>7. ASSUME NEW k \in 1..Len(rows)
          PROVE  \E s \in ToSet(db.seqs) : s.id = rows[k] /\ (query # NoQuery => s.id \in deps.seqs)
      BY <2>3, <2>4
    <2>8. (/\ i \in Nat /\ Len(spi) \in Nat
           /\ i >= 1 => Len(spi) <= 1)'
      BY <2>4, <2>6
    <2>9. (/\ \A st \in ToSet(script) : st.kind # "sequence"
           /\ \A k \in 1..Len(spi) : \E s \in ToSet(db.seqs) :
                s.id = spi[k] /\ (query # NoQuery => s.id \in deps.seqs))'
      BY <1>1, <2>5, <2>6, <2>7
    <2>10. LoopInv'
      BY <2>6, <2>8, <2>9 DEF LoopInv
    <2> QED
      BY <1>2, <1>3, <2>10
  <1> QED
    BY <1>4, <1>5

(* One sequence is written at most: its own queries replace the result. *)
LEMMA DumpSequenceKeeps ==
  ASSUME DumpInv, DumpSequence
  PROVE  ScriptInv' /\ LoopInv' /\ CompleteInv'
  <1> DEFINE r == Row(db.seqs, spi[i + 1])
             st == SequenceStmt(r)
  <1>1. /\ pc = "sequence" /\ pc' = "sequence" /\ UNCHANGED <<db, query, deps>>
        /\ i < Len(spi) /\ i' = i + 1 /\ spi' = OwnerRows(r) /\ script' = Append(script, st)
    BY DEF DumpSequence
  <1> HIDE DEF r, st
  <1>2. i = 0 /\ Len(spi) >= 1 /\ Len(spi) \in Nat
    BY <1>1 DEF DumpInv, LoopInv
  <1>3. /\ \A e \in ToSet(script) : e.kind # "sequence"
        /\ \E s \in ToSet(db.seqs) : s.id = spi[1] /\ (query # NoQuery => s.id \in deps.seqs)
    <2>1. 1 \in 1..Len(spi)
      BY <1>2
    <2> QED
      BY <1>1, <1>2, <2>1 DEF DumpInv, LoopInv
  <1>4. r \in ToSet(db.seqs) /\ (query # NoQuery => r.id \in deps.seqs)
    <2>1. Identified(db.seqs)
      BY Catalogue DEF DumpInv, BaseInv
    <2>2. i + 1 = 1
      BY <1>2
    <2>3. Row(db.seqs, spi[1]) \in ToSet(db.seqs) /\ Row(db.seqs, spi[1]).id = spi[1]
      BY <1>3, <2>1, RowFound
    <2>4. r = Row(db.seqs, spi[1])
      BY <2>2 DEF r
    <2> QED
      BY <1>3, <2>3, <2>4
  <1>5. From(st) /\ st.kind = "sequence"
    BY <1>4, SequenceStatement DEF st
  <1>6. /\ Written \subseteq Written' /\ st.kind \in Written'
        /\ \A kind \in Written : Before(kind, st.kind)
    BY <1>1, <1>5 DEF Written, Before, Rank
  <1>7. ScriptInv' /\ ToSet(script') = ToSet(script) \cup {st}
    BY <1>1, <1>3, <1>5, <1>6, OneMore DEF DumpInv
  <1>8. CompleteInv'
    BY <1>1, <1>7, CompleteGrows DEF DumpInv
  <1>9. LoopInv'
    <2>1. Len(OwnerRows(r)) \in Nat /\ Len(OwnerRows(r)) <= 1
      BY DEF OwnerRows
    <2> QED
      BY <1>1, <1>2, <2>1 DEF LoopInv
  <1> QED
    BY <1>7, <1>8, <1>9

LEMMA EndSequencesKeeps ==
  ASSUME DumpInv, EndSequences
  PROVE  ScriptInv' /\ LoopInv' /\ CompleteInv'
  <1>1. pc = "sequence" /\ pc' = "views" /\ UNCHANGED <<db, query, deps, script>>
    BY DEF EndSequences
  <1>2. ScriptInv' /\ ToSet(script') = ToSet(script)
    <2>1. Written \subseteq Written'
      BY <1>1 DEF Written
    <2> QED
      BY <1>1, <2>1, NoMore DEF DumpInv
  <1>3. CompleteInv'
    BY <1>1, <1>2, CompleteGrows DEF DumpInv
  <1> QED
    BY <1>1, <1>2, <1>3 DEF LoopInv

LEMMA AggregateFailsKeeps ==
  ASSUME DumpInv, AggregateFails
  PROVE  ScriptInv' /\ LoopInv' /\ CompleteInv'
  <1>1. pc = "functions" /\ pc' = "error" /\ UNCHANGED <<db, query, deps, script>>
    BY DEF AggregateFails
  <1>2. ScriptInv' /\ ToSet(script') = ToSet(script)
    <2>1. Written \subseteq Written'
      BY <1>1 DEF Written
    <2> QED
      BY <1>1, <2>1, NoMore DEF DumpInv
  <1>3. CompleteInv'
    BY <1>1, <1>2, CompleteGrows DEF DumpInv
  <1> QED
    BY <1>1, <1>2, <1>3 DEF LoopInv

LEMMA DumpViewsKeeps ==
  ASSUME DumpInv, DumpViews
  PROVE  ScriptInv' /\ LoopInv' /\ CompleteInv'
  <1>0. PICK seen \in SUBSET ToSet(Ids(ViewRows)) :
          LET rows == RowsWith(ViewRows, seen) IN
          Section("views", "indexes", Ids(ViewRows), [k \in DOMAIN rows |-> ViewStmt(rows[k])])
    BY DEF DumpViews
  <1> DEFINE rows == RowsWith(ViewRows, seen)
             new == [k \in DOMAIN rows |-> ViewStmt(rows[k])]
             kinds == {"view"}
  <1>1. /\ pc = "views" /\ pc' = "indexes" /\ UNCHANGED <<db, query, deps>>
        /\ script' = script \o new
    BY <1>0 DEF Section
  <1>2. Identified(rows) /\ ToSet(rows) \subseteq ToSet(ViewRows)
    <2>1. Identified(ViewRows)
      BY RowsOfSections DEF DumpInv
    <2> QED
      BY <2>1, ChosenIdentified DEF RowsWith
  <1>3. /\ DOMAIN new = DOMAIN rows /\ new = [k \in DOMAIN new |-> new[k]]
        /\ \A k \in DOMAIN rows : new[k] = ViewStmt(rows[k])
    OBVIOUS
  <1>4. /\ Written \cup kinds \subseteq Written' /\ kinds \cap Written = {}
        /\ \A kind \in kinds : \A e \in Written \cup kinds : Before(e, kind)
    BY <1>1 DEF Written, Before, Rank
  <1> HIDE DEF rows, new
  <1>5. \A k \in DOMAIN rows : rows[k] \in ToSet(ViewRows)
    BY <1>2, RowByRow
  <1>6. \A k \in DOMAIN new : /\ From(new[k]) /\ new[k].kind \in kinds
                              /\ new[k].id = rows[k].id
    BY <1>3, <1>5, ViewStatement
  <1> HIDE DEF kinds
  <1>7. OneForEach(rows, new, kinds)
    BY <1>2, <1>3, <1>6, RowByRow DEF OneForEach
  <1>8. ScriptInv' /\ ToSet(script') = ToSet(script) \cup ToSet(new)
    <2>1. ScriptInv /\ \A j \in DOMAIN new : From(new[j])
      BY <1>6 DEF DumpInv
    <2> QED
      BY <1>1, <1>4, <1>7, <2>1, SectionGrows, Zenon
  <1>9. CompleteInv'
    <2>1. ToSet(script) \subseteq ToSet(script')
      BY <1>8
    <2> QED
      BY <1>1, <2>1, CompleteGrows DEF DumpInv
  <1> QED
    BY <1>1, <1>8, <1>9 DEF LoopInv

LEMMA DumpIndexesKeeps ==
  ASSUME DumpInv, DumpIndexes
  PROVE  ScriptInv' /\ LoopInv' /\ CompleteInv'
  <1> DEFINE rows == IndexRows
             new == [k \in DOMAIN rows |-> IndexStmt(rows[k])]
             kinds == {"index"}
  <1>1. /\ pc = "indexes" /\ pc' = "constraints" /\ UNCHANGED <<db, query, deps>>
        /\ script' = script \o new
    BY DEF DumpIndexes, Section
  <1>2. Identified(rows)
    BY RowsOfSections DEF DumpInv
  <1>3. /\ DOMAIN new = DOMAIN rows /\ new = [k \in DOMAIN new |-> new[k]]
        /\ \A k \in DOMAIN rows : new[k] = IndexStmt(rows[k])
    OBVIOUS
  <1>4. /\ Written \cup kinds \subseteq Written' /\ kinds \cap Written = {}
        /\ \A kind \in kinds : \A e \in Written \cup kinds : Before(e, kind)
    BY <1>1 DEF Written, Before, Rank
  <1> HIDE DEF rows, new
  <1>5. \A k \in DOMAIN rows : rows[k] \in ToSet(IndexRows)
    BY <1>2, RowByRow DEF rows
  <1>6. \A k \in DOMAIN new : /\ From(new[k]) /\ new[k].kind \in kinds
                              /\ new[k].id = rows[k].id
    BY <1>3, <1>5, IndexStatement
  <1> HIDE DEF kinds
  <1>7. OneForEach(rows, new, kinds)
    BY <1>2, <1>3, <1>6, RowByRow DEF OneForEach
  <1>8. ScriptInv' /\ ToSet(script') = ToSet(script) \cup ToSet(new)
    <2>1. ScriptInv /\ \A j \in DOMAIN new : From(new[j])
      BY <1>6 DEF DumpInv
    <2> QED
      BY <1>1, <1>4, <1>7, <2>1, SectionGrows, Zenon
  <1>9. CompleteInv'
    <2>1. ToSet(script) \subseteq ToSet(script')
      BY <1>8
    <2> QED
      BY <1>1, <2>1, CompleteGrows DEF DumpInv
  <1> QED
    BY <1>1, <1>8, <1>9 DEF LoopInv

LEMMA DumpConstraintsKeeps ==
  ASSUME DumpInv, DumpConstraints
  PROVE  ScriptInv' /\ LoopInv' /\ CompleteInv'
  <1> DEFINE rows == ConstraintRows
             new == [k \in DOMAIN rows |-> ConstraintStmt(rows[k])]
             kinds == {"foreign key", "check", "unique"}
  <1>1. /\ pc = "constraints" /\ pc' = "done" /\ UNCHANGED <<db, query, deps>>
        /\ script' = script \o new
    BY DEF DumpConstraints, Section
  <1>2. Identified(rows)
    BY RowsOfSections DEF DumpInv
  <1>3. /\ DOMAIN new = DOMAIN rows /\ new = [k \in DOMAIN new |-> new[k]]
        /\ \A k \in DOMAIN rows : new[k] = ConstraintStmt(rows[k])
    OBVIOUS
  <1>4. /\ Written \cup kinds \subseteq Written' /\ kinds \cap Written = {}
        /\ \A kind \in kinds : \A e \in Written \cup kinds : Before(e, kind)
    BY <1>1 DEF Written, Before, Rank
  <1> HIDE DEF rows, new
  <1>5. \A k \in DOMAIN rows : rows[k] \in ToSet(ConstraintRows) /\ rows[k].type \in {"f", "c", "u"}
    <2>1. \A k \in DOMAIN rows : rows[k] \in ToSet(ConstraintRows)
      BY <1>2, RowByRow DEF rows
    <2>2. \A c \in ToSet(db.cons) : c.type \in {"f", "c", "u"}
      BY CatalogueAssumption DEF CatalogueAssumption, DumpInv, BaseInv
    <2> QED
      BY <2>1, <2>2, RowsOfSections DEF DumpInv
  <1>6. \A k \in DOMAIN new : /\ From(new[k]) /\ new[k].kind \in kinds
                              /\ new[k].id = rows[k].id
    <2> SUFFICES ASSUME NEW k \in DOMAIN new
                 PROVE  From(new[k]) /\ new[k].kind \in kinds /\ new[k].id = rows[k].id
      OBVIOUS
    <2> DEFINE c == rows[k]
    <2>1. new[k] = ConstraintStmt(c) /\ c \in ToSet(ConstraintRows) /\ c.type \in {"f", "c", "u"}
      BY <1>3, <1>5
    <2> HIDE DEF c, kinds
    <2>2. From(ConstraintStmt(c)) /\ ConstraintStmt(c).id = c.id /\ ConstraintStmt(c).kind \in kinds
      BY <2>1, ConstraintStatement DEF kinds
    <2> QED
      BY <2>1, <2>2 DEF c
  <1> HIDE DEF kinds
  <1>7. OneForEach(rows, new, kinds)
    BY <1>2, <1>3, <1>6, RowByRow DEF OneForEach
  <1>8. ScriptInv' /\ ToSet(script') = ToSet(script) \cup ToSet(new)
    <2>1. ScriptInv /\ \A j \in DOMAIN new : From(new[j])
      BY <1>6 DEF DumpInv
    <2> QED
      BY <1>1, <1>4, <1>7, <2>1, SectionGrows, Zenon
  <1>9. CompleteInv'
    <2>1. ToSet(script) \subseteq ToSet(script')
      BY <1>8
    <2> QED
      BY <1>1, <2>1, CompleteGrows DEF DumpInv
  <1> QED
    BY <1>1, <1>8, <1>9 DEF LoopInv

(* The invariant of the dump. *)
LEMMA DumpInvariant == Spec => []DumpInv
  <1>1. Init /\ BaseInv => ScriptInv /\ LoopInv /\ CompleteInv
    <2> SUFFICES ASSUME Init PROVE ScriptInv /\ LoopInv /\ CompleteInv
      OBVIOUS
    <2>1. script = <<>> /\ pc = "analyze"
      BY DEF Init
    <2>2. IsList(script) /\ ToSet(script) = {} /\ DOMAIN script = {}
      BY <2>1 DEF IsList, ToSet
    <2> QED
      BY <2>1, <2>2 DEF ScriptInv, LoopInv, CompleteInv
  <1>2. ASSUME DumpInv, [Next]_vars PROVE ScriptInv' /\ LoopInv' /\ CompleteInv'
    <2>1. CASE Analyze  BY <1>2, <2>1, AnalyzeKeeps
    <2>2. CASE DumpSchemas  BY <1>2, <2>2, DumpSchemasKeeps
    <2>3. CASE DumpFunctions  BY <1>2, <2>3, DumpFunctionsKeeps
    <2>4. CASE AggregateFails  BY <1>2, <2>4, AggregateFailsKeeps
    <2>5. CASE DumpExtensions  BY <1>2, <2>5, DumpExtensionsKeeps
    <2>6. CASE StartTables  BY <1>2, <2>6, StartTablesKeeps
    <2>7. CASE DumpTable  BY <1>2, <2>7, DumpTableKeeps
    <2>8. CASE EndTables  BY <1>2, <2>8, EndTablesKeeps
    <2>9. CASE StartSequences  BY <1>2, <2>9, StartSequencesKeeps
    <2>10. CASE DumpSequence  BY <1>2, <2>10, DumpSequenceKeeps
    <2>11. CASE EndSequences  BY <1>2, <2>11, EndSequencesKeeps
    <2>12. CASE DumpViews  BY <1>2, <2>12, DumpViewsKeeps
    <2>13. CASE DumpIndexes  BY <1>2, <2>13, DumpIndexesKeeps
    <2>14. CASE DumpConstraints  BY <1>2, <2>14, DumpConstraintsKeeps
    <2>15. CASE UNCHANGED vars
      <3>1. /\ Wanted' = Wanted /\ SchemaRows' = SchemaRows
            /\ \A id : TableStmt(Row(db.tables, id))' = TableStmt(Row(db.tables, id))
            /\ UNCHANGED <<db, query, deps, pc, spi, saved, i, script>>
        BY <2>15, FromStays DEF vars
      <3>2. Written' = Written
        BY <3>1 DEF Written
      <3>3. ScriptInv'
        BY <1>2, <3>1, <3>2, NoMore DEF DumpInv
      <3>4. LoopInv'
        BY <1>2, <3>1 DEF DumpInv, LoopInv
      <3>5. CompleteInv'
        BY <1>2, <3>1 DEF DumpInv, CompleteInv
      <3> QED
        BY <3>3, <3>4, <3>5
    <2> QED
      BY <1>2, <2>1, <2>2, <2>3, <2>4, <2>5, <2>6, <2>7, <2>8, <2>9, <2>10, <2>11, <2>12, <2>13,
         <2>14, <2>15 DEF Next
  <1>3. BaseInv /\ ScriptInv /\ LoopInv /\ CompleteInv <=> DumpInv
    BY DEF DumpInv
  <1> QED
    BY <1>1, <1>2, <1>3, BaseInvariant, PTL DEF Spec

(* Every table wanted is in the script, although the queries about keys and *)
(* checks that run inside the loop replace the result it started from      *)
(* (generate_tables_ddl_query reads a copy of its own).                     *)
THEOREM EveryTableIsWritten == Spec => []EveryTableWritten
  <1>1. ASSUME DumpInv PROVE EveryTableWritten
    <2> SUFFICES ASSUME Done, NEW t \in Wanted
                 PROVE  \E k \in DOMAIN script : script[k].kind = "table" /\ script[k].id = t
      BY DEF EveryTableWritten
    <2>1. TableStmt(Row(db.tables, t)) \in ToSet(script)
      BY <1>1 DEF DumpInv, CompleteInv, Done
    <2>2. Row(db.tables, t).id = t
      BY <1>1, WantedTables DEF DumpInv
    <2>3. PICK k \in DOMAIN script : script[k] = TableStmt(Row(db.tables, t))
      BY <2>1 DEF ToSet
    <2> QED
      BY <2>2, <2>3 DEF TableStmt, Stmt
  <1> QED
    BY <1>1, DumpInvariant, PTL

-----------------------------------------------------------------------------
(* What the statements make.                                               *)

(* The sorts of things a statement may make are told apart by their tags,  *)
(* and two of one sort by what they are for.                               *)
LEMMA Resources ==
  /\ \A s : Schema(s)[1] = "schema" /\ \A t : Schema(s) = Schema(t) => s = t
  /\ \A id : Function(id)[1] = "function" /\ \A jd : Function(id) = Function(jd) => id = jd
  /\ \A id : Extension(id)[1] = "extension" /\ \A jd : Extension(id) = Extension(jd) => id = jd
  /\ \A id : Rel(id)[1] = "rel" /\ \A jd : Rel(id) = Rel(jd) => id = jd
  /\ \A t, k : Key(t, k)[1] = "key" /\ \A u, l : Key(t, k) = Key(u, l) => t = u /\ k = l
  /\ \A t, k : Check(t, k)[1] = "check" /\ \A u, l : Check(t, k) = Check(u, l) => t = u /\ k = l
  <1>1. ASSUME NEW s, NEW t, Schema(s) = Schema(t) PROVE s = t
    BY <1>1, Zenon DEF Schema
  <1>2. ASSUME NEW s, NEW t, Function(s) = Function(t) PROVE s = t
    BY <1>2, Zenon DEF Function
  <1>3. ASSUME NEW s, NEW t, Extension(s) = Extension(t) PROVE s = t
    BY <1>3, Zenon DEF Extension
  <1>4. ASSUME NEW s, NEW t, Rel(s) = Rel(t) PROVE s = t
    BY <1>4, Zenon DEF Rel
  <1>5. ASSUME NEW t, NEW k, NEW u, NEW l, Key(t, k) = Key(u, l) PROVE t = u /\ k = l
    BY <1>5, Zenon DEF Key
  <1>6. ASSUME NEW t, NEW k, NEW u, NEW l, Check(t, k) = Check(u, l) PROVE t = u /\ k = l
    BY <1>6, Zenon DEF Check
  <1>7. /\ \A s : Schema(s)[1] = "schema"
        /\ \A id : Function(id)[1] = "function"
        /\ \A id : Extension(id)[1] = "extension"
        /\ \A id : Rel(id)[1] = "rel"
    BY DEF Schema, Function, Extension, Rel
  <1>8. /\ \A t, k : Key(t, k)[1] = "key"
        /\ \A t, k : Check(t, k)[1] = "check"
    BY DEF Key, Check
  <1> QED
    BY <1>1, <1>2, <1>3, <1>4, <1>5, <1>6, <1>7, <1>8

(* The statement st makes r, seen by the kind of st. *)
Makes(st, r) ==
  \/ st.kind = "schema" /\ \E s : r = Schema(s) /\ st = SchemaStmt(s)
  \/ st.kind = "function" /\ st.id \in IdsOf(db.funcs) /\ r = Function(st.id)
  \/ st.kind = "extension" /\ \E e \in ToSet(db.exts) :
       e.id = st.id /\ (r = Extension(e.id) \/ r \in e.members)
  \/ /\ st.kind = "table" /\ st.id \in IdsOf(db.tables)
     /\ \/ r = Rel(st.id) \/ r = Key(st.id, Primary)
        \/ \E c \in ToSet(db.cons) : c.noInherit /\ r = Check(st.id, c.id)
  \/ st.kind = "sequence" /\ st.id \in IdsOf(db.seqs) /\ r = Rel(st.id)
  \/ st.kind = "view" /\ st.id \in IdsOf(db.views) /\ r = Rel(st.id)
  \/ st.kind = "index" /\ \E x \in ToSet(IndexRows) :
       st.id = x.id /\ (r = Rel(x.id) \/ (x.unique /\ r = Key(x.table, x.id)))
  \/ st.kind = "unique" /\ \E c \in ToSet(ConstraintRows) :
       c.type = "u" /\ st.id = c.id /\ (r = Rel(c.index) \/ r = Key(c.table, c.id))
  \/ st.kind = "check" /\ \E c \in ToSet(ConstraintRows) : st.id = c.id /\ r = Check(c.table, c.id)

LEMMA Making ==
  ASSUME BaseInv, NEW st, From(st), NEW r \in st.makes
  PROVE  Makes(st, r)
  <1>1. ASSUME NEW s \in ToSet(SchemaRows) \ {Default}, st = SchemaStmt(s) PROVE Makes(st, r)
    BY <1>1 DEF SchemaStmt, Stmt, Makes
  <1>2. ASSUME NEW f \in ToSet(db.funcs), st = FunctionStmt(f) PROVE Makes(st, r)
    BY <1>2 DEF FunctionStmt, Stmt, Makes, IdsOf
  <1>3. ASSUME NEW e \in ToSet(db.exts), st = ExtensionStmt(e) PROVE Makes(st, r)
    BY <1>3 DEF ExtensionStmt, Stmt, Makes
  <1>4. ASSUME NEW id \in Wanted, st = TableStmt(Row(db.tables, id)) PROVE Makes(st, r)
    <2> DEFINE t == Row(db.tables, id)
    <2>1. t \in ToSet(db.tables)
      BY WantedTables
    <2> HIDE DEF t
    <2>2. st.kind = "table" /\ st.id = t.id
      BY <1>4 DEF TableStmt, Stmt, t
    <2>3. st.id \in IdsOf(db.tables)
      BY <2>1, <2>2 DEF IdsOf
    <2>4. r \in {Rel(t.id)} \cup (IF t.pk THEN {Key(t.id, Primary)} ELSE {})
                 \cup {Check(t.id, c.id) : c \in InlineChecks(t.id)}
      BY <1>4 DEF TableStmt, Stmt, t
    <2>5. \/ r = Rel(t.id) \/ r = Key(t.id, Primary)
          \/ \E c \in InlineChecks(t.id) : r = Check(t.id, c.id)
      BY <2>4
    <2>6. \A c \in InlineChecks(t.id) : c \in ToSet(db.cons) /\ c.noInherit
      BY DEF InlineChecks
    <2> QED
      BY <2>2, <2>3, <2>5, <2>6 DEF Makes
  <1>5. ASSUME NEW s \in ToSet(db.seqs), st = SequenceStmt(s) PROVE Makes(st, r)
    BY <1>5 DEF SequenceStmt, Stmt, Makes, IdsOf
  <1>6. ASSUME NEW v \in ToSet(ViewRows), st = ViewStmt(v) PROVE Makes(st, r)
    <2>1. v \in ToSet(db.views)
      BY RowsOfSections
    <2> QED
      BY <1>6, <2>1 DEF ViewStmt, Stmt, Makes, IdsOf
  <1>7. ASSUME NEW x \in ToSet(IndexRows), st = IndexStmt(x) PROVE Makes(st, r)
    <2>1. /\ st.kind = "index" /\ st.id = x.id
          /\ r \in {Rel(x.id)} \cup (IF x.unique THEN {Key(x.table, x.id)} ELSE {})
      BY <1>7 DEF IndexStmt, Stmt
    <2>2. r = Rel(x.id) \/ (x.unique /\ r = Key(x.table, x.id))
      BY <2>1
    <2> QED
      BY <2>1, <2>2 DEF Makes
  <1>8. ASSUME NEW c \in ToSet(ConstraintRows), st = ConstraintStmt(c) PROVE Makes(st, r)
    <2>1. c.type \in {"f", "c", "u"}
      BY RowsOfSections, CatalogueAssumption DEF CatalogueAssumption, BaseInv
    <2>2. CASE c.type = "f"
      BY <1>8, <2>2 DEF ConstraintStmt, Stmt
    <2>3. CASE c.type = "c"
      <3>1. st.kind = "check" /\ st.id = c.id /\ r = Check(c.table, c.id)
        BY <1>8, <2>3 DEF ConstraintStmt, Stmt
      <3> QED
        BY <3>1 DEF Makes
    <2>4. CASE c.type = "u"
      <3>1. st.kind = "unique" /\ st.id = c.id /\ (r = Rel(c.index) \/ r = Key(c.table, c.id))
        BY <1>8, <2>4 DEF ConstraintStmt, Stmt
      <3> QED
        BY <2>4, <3>1 DEF Makes
    <2> QED
      BY <2>1, <2>2, <2>3, <2>4
  <1> QED
    BY <1>1, <1>2, <1>3, <1>4, <1>5, <1>6, <1>7, <1>8 DEF From

(* The rows of the indexes and of the constraints are the right ones. *)
LEMMA RightRows ==
  ASSUME BaseInv
  PROVE  /\ \A x \in ToSet(IndexRows) : /\ x \in ToSet(db.indexes) /\ (x.unique => ~HasConstraint(x))
                                        /\ deps.analyzed => x.id \in deps.indexes
         /\ \A c \in ToSet(ConstraintRows) : /\ c \in ToSet(db.cons)
                                             /\ deps.analyzed => c.id \in deps.cons
  <1>1. Identified(db.indexes) /\ Identified(db.cons)
    BY Catalogue DEF BaseInv
  <1>2. ASSUME NEW x \in ToSet(IndexRows)
        PROVE  /\ x \in ToSet(db.indexes) /\ (x.unique => ~HasConstraint(x))
               /\ deps.analyzed => x.id \in deps.indexes
    <2> DEFINE S == {y \in ToSet(db.indexes) : /\ deps.analyzed => y.id \in deps.indexes
                                               /\ y.unique => ~HasConstraint(y)}
    <2>1. IndexRows = Chosen(db.indexes, S)
      BY DEF IndexRows
    <2> HIDE DEF S
    <2>2. x \in S
      BY <1>1, <2>1, ChosenIdentified
    <2> QED
      BY <2>2 DEF S
  <1>3. ASSUME NEW c \in ToSet(ConstraintRows)
        PROVE  c \in ToSet(db.cons) /\ (deps.analyzed => c.id \in deps.cons)
    <2> DEFINE S == {e \in ToSet(db.cons) : /\ deps.analyzed => e.id \in deps.cons
                                            /\ ~e.inherited /\ e.valid}
    <2>1. ConstraintRows = Chosen(db.cons, S)
      BY DEF ConstraintRows
    <2> HIDE DEF S
    <2>2. c \in S
      BY <1>1, <2>1, ChosenIdentified
    <2> QED
      BY <2>2 DEF S
  <1> QED
    BY <1>2, <1>3

(* The kind of a statement tells what it was written for. *)
LEMMA FromKind ==
  ASSUME BaseInv, NEW st, From(st)
  PROVE  \/ st.kind = "schema" /\ \E s \in ToSet(SchemaRows) \ {Default} : st = SchemaStmt(s)
         \/ st.kind = "function" /\ \E f \in ToSet(db.funcs) : st = FunctionStmt(f)
         \/ st.kind = "extension" /\ \E e \in ToSet(db.exts) : st = ExtensionStmt(e)
         \/ st.kind = "table" /\ \E id \in Wanted : st = TableStmt(Row(db.tables, id))
         \/ st.kind = "sequence" /\ \E s \in ToSet(db.seqs) :
              (query # NoQuery => s.id \in deps.seqs) /\ st = SequenceStmt(s)
         \/ st.kind = "view" /\ \E v \in ToSet(ViewRows) : st = ViewStmt(v)
         \/ st.kind = "index" /\ \E x \in ToSet(IndexRows) : st = IndexStmt(x)
         \/ st.kind = "foreign key" /\ \E c \in ToSet(ConstraintRows) :
              c.type = "f" /\ st = ConstraintStmt(c)
         \/ st.kind = "check" /\ \E c \in ToSet(ConstraintRows) :
              c.type = "c" /\ st = ConstraintStmt(c)
         \/ st.kind = "unique" /\ \E c \in ToSet(ConstraintRows) :
              c.type = "u" /\ st = ConstraintStmt(c)
  <1>1. /\ \A s : SchemaStmt(s).kind = "schema"
        /\ \A f : FunctionStmt(f).kind = "function"
        /\ \A e : ExtensionStmt(e).kind = "extension"
        /\ \A t : TableStmt(t).kind = "table"
        /\ \A s : SequenceStmt(s).kind = "sequence"
        /\ \A v : ViewStmt(v).kind = "view"
        /\ \A x : IndexStmt(x).kind = "index"
    BY DEF SchemaStmt, FunctionStmt, ExtensionStmt, TableStmt, SequenceStmt, ViewStmt, IndexStmt, Stmt
  <1>3. \A c \in ToSet(ConstraintRows) : c.type \in {"f", "c", "u"}
    BY RightRows, CatalogueAssumption DEF CatalogueAssumption, BaseInv
  <1>4. \/ \E s \in ToSet(SchemaRows) \ {Default} : st = SchemaStmt(s)
        \/ \E f \in ToSet(db.funcs) : st = FunctionStmt(f)
        \/ \E e \in ToSet(db.exts) : st = ExtensionStmt(e)
        \/ \E id \in Wanted : st = TableStmt(Row(db.tables, id))
        \/ \E s \in ToSet(db.seqs) : (query # NoQuery => s.id \in deps.seqs) /\ st = SequenceStmt(s)
        \/ \E v \in ToSet(ViewRows) : st = ViewStmt(v)
        \/ \E x \in ToSet(IndexRows) : st = IndexStmt(x)
        \/ \E c \in ToSet(ConstraintRows) : st = ConstraintStmt(c)
    BY DEF From
  <1>5. CASE \E s \in ToSet(SchemaRows) \ {Default} : st = SchemaStmt(s)
    BY <1>1, <1>5
  <1>6. CASE \E f \in ToSet(db.funcs) : st = FunctionStmt(f)
    BY <1>1, <1>6
  <1>7. CASE \E e \in ToSet(db.exts) : st = ExtensionStmt(e)
    BY <1>1, <1>7
  <1>8. CASE \E id \in Wanted : st = TableStmt(Row(db.tables, id))
    BY <1>1, <1>8
  <1>9. CASE \E s \in ToSet(db.seqs) : (query # NoQuery => s.id \in deps.seqs) /\ st = SequenceStmt(s)
    BY <1>1, <1>9
  <1>10. CASE \E v \in ToSet(ViewRows) : st = ViewStmt(v)
    BY <1>1, <1>10
  <1>11. CASE \E x \in ToSet(IndexRows) : st = IndexStmt(x)
    BY <1>1, <1>11
  <1>12. CASE \E c \in ToSet(ConstraintRows) : st = ConstraintStmt(c)
    <2>1. PICK c \in ToSet(ConstraintRows) : st = ConstraintStmt(c)
      BY <1>12
    <2>2. CASE c.type = "f"
      <3>1. ConstraintStmt(c).kind = "foreign key"
        BY <2>2 DEF ConstraintStmt, Stmt
      <3>2. st.kind = "foreign key"
        BY <2>1, <3>1
      <3>3. \E d \in ToSet(ConstraintRows) : d.type = "f" /\ st = ConstraintStmt(d)
        BY <2>1, <2>2, Zenon
      <3> QED
        BY <3>2, <3>3, Zenon
    <2>3. CASE c.type = "c"
      <3>1. ConstraintStmt(c).kind = "check"
        BY <2>3 DEF ConstraintStmt, Stmt
      <3>2. st.kind = "check"
        BY <2>1, <3>1
      <3>3. \E d \in ToSet(ConstraintRows) : d.type = "c" /\ st = ConstraintStmt(d)
        BY <2>1, <2>3, Zenon
      <3> QED
        BY <3>2, <3>3, Zenon
    <2>4. CASE c.type = "u"
      <3>1. ConstraintStmt(c).kind = "unique"
        BY <2>4 DEF ConstraintStmt, Stmt
      <3>2. st.kind = "unique"
        BY <2>1, <3>1
      <3>3. \E d \in ToSet(ConstraintRows) : d.type = "u" /\ st = ConstraintStmt(d)
        BY <2>1, <2>4, Zenon
      <3> QED
        BY <3>2, <3>3, Zenon
    <2> QED
      BY <1>3, <2>2, <2>3, <2>4
  <1> QED
    BY <1>4, <1>5, <1>6, <1>7, <1>8, <1>9, <1>10, <1>11, <1>12

(* Who makes what, by its tag; extensions, which may make anything, aside. *)
LEMMA RelMaker ==
  ASSUME BaseInv, NEW st, st.kind # "extension", NEW r, Makes(st, r), r[1] = "rel"
  PROVE  \E id : /\ r = Rel(id)
                 /\ \/ st.kind = "table" /\ st.id = id /\ id \in IdsOf(db.tables)
                    \/ st.kind = "sequence" /\ st.id = id /\ id \in IdsOf(db.seqs)
                    \/ st.kind = "view" /\ st.id = id /\ id \in IdsOf(db.views)
                    \/ st.kind = "index" /\ \E x \in ToSet(IndexRows) : x.id = id /\ st.id = id
                    \/ st.kind = "unique" /\ \E c \in ToSet(ConstraintRows) :
                         c.type = "u" /\ c.id = st.id /\ c.index = id
  <1>1. CASE st.kind \in {"table", "sequence", "view"}
    <2>1. r = Rel(st.id)
      BY <1>1, Resources DEF Makes
    <2> QED
      BY <1>1, <2>1 DEF Makes
  <1>2. CASE st.kind = "index"
    <2>1. PICK x \in ToSet(IndexRows) : st.id = x.id /\ (r = Rel(x.id) \/ r = Key(x.table, x.id))
      BY <1>2 DEF Makes
    <2>2. r = Rel(x.id)
      BY <2>1, Resources
    <2> QED
      BY <1>2, <2>1, <2>2
  <1>3. CASE st.kind = "unique"
    <2>1. PICK c \in ToSet(ConstraintRows) :
            c.type = "u" /\ st.id = c.id /\ (r = Rel(c.index) \/ r = Key(c.table, c.id))
      BY <1>3 DEF Makes
    <2>2. r = Rel(c.index)
      BY <2>1, Resources
    <2> QED
      BY <1>3, <2>1, <2>2
  <1>4. CASE st.kind \notin {"table", "sequence", "view", "index", "unique"}
    BY <1>4, Resources DEF Makes
  <1> QED
    BY <1>1, <1>2, <1>3, <1>4

LEMMA KeyMaker ==
  ASSUME BaseInv, NEW st, st.kind # "extension", NEW r, Makes(st, r), r[1] = "key"
  PROVE  \/ st.kind = "table" /\ r = Key(st.id, Primary)
         \/ st.kind = "index" /\ \E x \in ToSet(IndexRows) :
              st.id = x.id /\ x.unique /\ r = Key(x.table, x.id)
         \/ st.kind = "unique" /\ \E c \in ToSet(ConstraintRows) :
              c.type = "u" /\ st.id = c.id /\ r = Key(c.table, c.id)
  <1>1. CASE st.kind \in {"table", "sequence", "view"}
    BY <1>1, Resources DEF Makes
  <1>2. CASE st.kind = "index"
    <2>1. PICK x \in ToSet(IndexRows) :
            st.id = x.id /\ (r = Rel(x.id) \/ (x.unique /\ r = Key(x.table, x.id)))
      BY <1>2 DEF Makes
    <2>2. r # Rel(x.id)
      BY Resources
    <2> QED
      BY <1>2, <2>1, <2>2
  <1>3. CASE st.kind = "unique"
    <2>1. PICK c \in ToSet(ConstraintRows) :
            c.type = "u" /\ st.id = c.id /\ (r = Rel(c.index) \/ r = Key(c.table, c.id))
      BY <1>3 DEF Makes
    <2>2. r # Rel(c.index)
      BY Resources
    <2> QED
      BY <1>3, <2>1, <2>2
  <1>4. CASE st.kind \notin {"table", "sequence", "view", "index", "unique"}
    BY <1>4, Resources DEF Makes
  <1> QED
    BY <1>1, <1>2, <1>3, <1>4

LEMMA CheckMaker ==
  ASSUME BaseInv, NEW st, st.kind # "extension", NEW r, Makes(st, r), r[1] = "check"
  PROVE  \/ st.kind = "table" /\ \E c \in ToSet(db.cons) : c.noInherit /\ r = Check(st.id, c.id)
         \/ st.kind = "check" /\ \E c \in ToSet(db.cons) : st.id = c.id /\ r = Check(c.table, c.id)
  <1>1. CASE st.kind \in {"table", "sequence", "view"}
    BY <1>1, Resources DEF Makes
  <1>2. CASE st.kind = "index"
    BY <1>2, Resources DEF Makes
  <1>3. CASE st.kind = "unique"
    BY <1>3, Resources DEF Makes
  <1>4. CASE st.kind = "check"
    BY <1>4, RightRows DEF Makes
  <1>5. CASE st.kind \notin {"table", "sequence", "view", "index", "unique", "check"}
    BY <1>5, Resources DEF Makes
  <1> QED
    BY <1>1, <1>2, <1>3, <1>4, <1>5

(* What makes neither of these. *)
LEMMA OtherMaker ==
  ASSUME BaseInv, NEW st, st.kind # "extension", NEW r, Makes(st, r),
         r[1] \notin {"rel", "key", "check"}
  PROVE  \/ st.kind = "schema" /\ r[1] = "schema" /\ \E s : r = Schema(s) /\ st = SchemaStmt(s)
         \/ st.kind = "function" /\ r[1] = "function" /\ r = Function(st.id)
  <1>1. CASE st.kind \in {"table", "sequence", "view"}
    BY <1>1, Resources DEF Makes
  <1>2. CASE st.kind \in {"index", "unique", "check"}
    BY <1>2, Resources DEF Makes
  <1>3. CASE st.kind \notin {"table", "sequence", "view", "index", "unique", "check"}
    BY <1>3, Resources DEF Makes
  <1> QED
    BY <1>1, <1>2, <1>3

(* The catalogue of a relation. *)
LEMMA Names ==
  ASSUME BaseInv
  PROVE  /\ IdsOf(db.tables) \cap IdsOf(db.seqs) = {}
         /\ (IdsOf(db.tables) \cup IdsOf(db.seqs)) \cap IdsOf(db.views) = {}
         /\ (IdsOf(db.tables) \cup IdsOf(db.seqs) \cup IdsOf(db.views)) \cap IdsOf(db.indexes) = {}
         /\ Primary \notin IdsOf(db.indexes) \cup IdsOf(db.cons)
         /\ \A e, f \in ToSet(db.exts) : e.members \cap f.members # {} => e = f
         /\ \A e \in ToSet(db.exts) : \A m \in e.members :
              m[1] # "extension" /\ \A f \in ToSet(db.funcs) : m # Function(f.id)
         /\ \A t \in ToSet(db.tables) : t.id[1] \in ToSet(db.schemas)
  BY CatalogueAssumption DEF CatalogueAssumption, BaseInv

LEMMA UniqueIndexes ==
  ASSUME BaseInv, NEW c \in ToSet(db.cons), c.type = "u"
  PROVE  /\ \E x \in ToSet(db.indexes) : x.id = c.index /\ x.unique
         /\ \A x \in ToSet(db.indexes) : x.id = c.id => x.id = c.index
         /\ \A e \in ToSet(db.cons) : e.type = "u" /\ e.index = c.index => e = c
  BY CatalogueAssumption DEF CatalogueAssumption, BaseInv

(* No index is written that belongs to a unique constraint. *)
LEMMA NoIndexTwice ==
  ASSUME BaseInv, NEW x \in ToSet(IndexRows), NEW c \in ToSet(db.cons), c.type = "u"
  PROVE  x.id # c.index
  <1> SUFFICES ASSUME x.id = c.index PROVE FALSE
    OBVIOUS
  <1>1. x \in ToSet(db.indexes) /\ (x.unique => ~HasConstraint(x))
    BY RightRows
  <1>2. PICK y \in ToSet(db.indexes) : y.id = c.index /\ y.unique
    BY UniqueIndexes
  <1>3. Identified(db.indexes)
    BY Catalogue DEF BaseInv
  <1>4. x = y
    BY <1>1, <1>2, <1>3, SameRow
  <1>5. HasConstraint(x)
    BY DEF HasConstraint
  <1> QED
    BY <1>1, <1>2, <1>4, <1>5

(* Two statements that make the same thing are for one object, but for the *)
(* check of a table that is written inline and once more, and for what an  *)
(* extension makes.                                                        *)
LEMMA MadeTwice ==
  ASSUME BaseInv, NEW a, NEW b, From(a), From(b), NEW r \in a.makes \cap b.makes,
         a.kind # "extension", b.kind # "extension"
  PROVE  \/ Alike(a, b)
         \/ /\ r[1] = "check"
            /\ \/ a.kind = "table" /\ b.kind = "check" /\ Row(db.cons, b.id).noInherit
               \/ b.kind = "table" /\ a.kind = "check" /\ Row(db.cons, a.id).noInherit
  <1>1. Makes(a, r) /\ Makes(b, r)
    BY Making
  <1>2. /\ Identified(db.indexes) /\ Identified(db.cons) /\ Identified(db.exts)
    BY Catalogue DEF BaseInv
  <1>3. CASE r[1] = "rel"
    <2>1. PICK i1 : /\ r = Rel(i1)
                    /\ \/ a.kind = "table" /\ a.id = i1 /\ i1 \in IdsOf(db.tables)
                       \/ a.kind = "sequence" /\ a.id = i1 /\ i1 \in IdsOf(db.seqs)
                       \/ a.kind = "view" /\ a.id = i1 /\ i1 \in IdsOf(db.views)
                       \/ a.kind = "index" /\ \E x \in ToSet(IndexRows) : x.id = i1 /\ a.id = i1
                       \/ a.kind = "unique" /\ \E c \in ToSet(ConstraintRows) :
                            c.type = "u" /\ c.id = a.id /\ c.index = i1
      BY <1>1, <1>3, RelMaker
    <2>2. PICK i2 : /\ r = Rel(i2)
                    /\ \/ b.kind = "table" /\ b.id = i2 /\ i2 \in IdsOf(db.tables)
                       \/ b.kind = "sequence" /\ b.id = i2 /\ i2 \in IdsOf(db.seqs)
                       \/ b.kind = "view" /\ b.id = i2 /\ i2 \in IdsOf(db.views)
                       \/ b.kind = "index" /\ \E x \in ToSet(IndexRows) : x.id = i2 /\ b.id = i2
                       \/ b.kind = "unique" /\ \E c \in ToSet(ConstraintRows) :
                            c.type = "u" /\ c.id = b.id /\ c.index = i2
      BY <1>1, <1>3, RelMaker
    <2>3. i1 = i2
      <3>1. Rel(i1) = Rel(i2)
        BY <2>1, <2>2, Zenon
      <3> QED
        BY <3>1, Resources
    <2>4. \A x \in ToSet(IndexRows) : x.id \in IdsOf(db.indexes)
      BY RightRows DEF IdsOf
    <2>5. ASSUME NEW c \in ToSet(ConstraintRows), c.type = "u"
          PROVE  /\ c \in ToSet(db.cons) /\ c.index \in IdsOf(db.indexes)
                 /\ \A x \in ToSet(IndexRows) : x.id # c.index
                 /\ \A e \in ToSet(db.cons) : e.type = "u" /\ e.index = c.index => e = c
      BY <2>5, RightRows, UniqueIndexes, NoIndexTwice DEF IdsOf
    <2>6. CASE a.kind \in {"table", "sequence", "view"} \/ b.kind \in {"table", "sequence", "view"}
      BY <2>1, <2>2, <2>3, <2>4, <2>5, <2>6, Names DEF Alike
    <2>7. CASE a.kind \in {"index", "unique"} /\ b.kind \in {"index", "unique"}
      BY <2>1, <2>2, <2>3, <2>5, <2>7 DEF Alike
    <2> QED
      BY <2>1, <2>2, <2>6, <2>7
  <1>4. CASE r[1] = "key"
    <2>1. \A x \in ToSet(IndexRows) : x \in ToSet(db.indexes) /\ x.id # Primary
      BY RightRows, Names DEF IdsOf
    <2>2. ASSUME NEW c \in ToSet(ConstraintRows), c.type = "u"
          PROVE  c.id # Primary /\ \A x \in ToSet(IndexRows) : x.id # c.id
      <3>1. c \in ToSet(db.cons)
        BY RightRows
      <3>2. \A x \in ToSet(IndexRows) : x.id # c.id
        BY <2>1, <2>2, <3>1, UniqueIndexes, NoIndexTwice
      <3> QED
        BY <3>1, <3>2, Names DEF IdsOf
    <2>3. \/ a.kind = "table" /\ r = Key(a.id, Primary)
          \/ \E t : a.kind \in {"index", "unique"} /\ a.id # Primary /\ r = Key(t, a.id)
      BY <1>1, <1>4, <2>1, <2>2, KeyMaker
    <2>4. \/ b.kind = "table" /\ r = Key(b.id, Primary)
          \/ \E t : b.kind \in {"index", "unique"} /\ b.id # Primary /\ r = Key(t, b.id)
      BY <1>1, <1>4, <2>1, <2>2, KeyMaker
    <2>5. CASE a.kind = "table" \/ b.kind = "table"
      <3>1. a.kind = "table" /\ b.kind = "table"
        BY <2>3, <2>4, <2>5, Resources
      <3> QED
        BY <2>3, <2>4, <3>1, Resources DEF Alike
    <2>6. CASE a.kind # "table" /\ b.kind # "table"
      <3>1. a.id = b.id
        BY <2>3, <2>4, <2>6, Resources
      <3>2. \/ a.kind = "index" /\ \E x \in ToSet(IndexRows) : a.id = x.id
            \/ a.kind = "unique" /\ \E c \in ToSet(ConstraintRows) : c.type = "u" /\ a.id = c.id
        BY <1>1, <1>4, <2>6, KeyMaker
      <3>3. \/ b.kind = "index" /\ \E x \in ToSet(IndexRows) : b.id = x.id
            \/ b.kind = "unique" /\ \E c \in ToSet(ConstraintRows) : c.type = "u" /\ b.id = c.id
        BY <1>1, <1>4, <2>6, KeyMaker
      <3> QED
        BY <2>2, <3>1, <3>2, <3>3 DEF Alike
    <2> QED
      BY <2>5, <2>6
  <1>5. CASE r[1] = "check"
    <2>1. \/ a.kind = "table" /\ \E c \in ToSet(db.cons) : c.noInherit /\ r = Check(a.id, c.id)
          \/ a.kind = "check" /\ \E c \in ToSet(db.cons) : a.id = c.id /\ r = Check(c.table, c.id)
      BY <1>1, <1>5, CheckMaker
    <2>2. \/ b.kind = "table" /\ \E c \in ToSet(db.cons) : c.noInherit /\ r = Check(b.id, c.id)
          \/ b.kind = "check" /\ \E c \in ToSet(db.cons) : b.id = c.id /\ r = Check(c.table, c.id)
      BY <1>1, <1>5, CheckMaker
    <2>3. CASE a.kind = b.kind
      BY <2>1, <2>2, <2>3, Resources DEF Alike
    <2>4. CASE a.kind = "table" /\ b.kind = "check"
      <3>1. PICK c \in ToSet(db.cons) : c.noInherit /\ r = Check(a.id, c.id)
        BY <2>1, <2>4
      <3>2. PICK d \in ToSet(db.cons) : b.id = d.id /\ r = Check(d.table, d.id)
        BY <2>2, <2>4
      <3>3. b.id = c.id
        <4>1. Check(a.id, c.id) = Check(d.table, d.id)
          BY <3>1, <3>2, Zenon
        <4>2. c.id = d.id
          BY <4>1, Zenon DEF Check
        <4> QED
          BY <3>2, <4>2
      <3>4. Row(db.cons, c.id) = c
        BY <1>2, SameRow
      <3> QED
        BY <1>5, <2>4, <3>1, <3>3, <3>4
    <2>5. CASE b.kind = "table" /\ a.kind = "check"
      <3>1. PICK c \in ToSet(db.cons) : c.noInherit /\ r = Check(b.id, c.id)
        BY <2>2, <2>5
      <3>2. PICK d \in ToSet(db.cons) : a.id = d.id /\ r = Check(d.table, d.id)
        BY <2>1, <2>5
      <3>3. a.id = c.id
        <4>1. Check(b.id, c.id) = Check(d.table, d.id)
          BY <3>1, <3>2, Zenon
        <4>2. c.id = d.id
          BY <4>1, Zenon DEF Check
        <4> QED
          BY <3>2, <4>2
      <3>4. Row(db.cons, c.id) = c
        BY <1>2, SameRow
      <3> QED
        BY <1>5, <2>5, <3>1, <3>3, <3>4
    <2> QED
      BY <2>1, <2>2, <2>3, <2>4, <2>5
  <1>6. CASE r[1] \notin {"rel", "key", "check"}
    <2>1. \/ a.kind = "schema" /\ r[1] = "schema" /\ \E s : r = Schema(s) /\ a = SchemaStmt(s)
          \/ a.kind = "function" /\ r[1] = "function" /\ r = Function(a.id)
      BY <1>1, <1>6, OtherMaker
    <2>2. \/ b.kind = "schema" /\ r[1] = "schema" /\ \E s : r = Schema(s) /\ b = SchemaStmt(s)
          \/ b.kind = "function" /\ r[1] = "function" /\ r = Function(b.id)
      BY <1>1, <1>6, OtherMaker
    <2>3. CASE r[1] = "schema"
      <3>1. PICK s : r = Schema(s) /\ a = SchemaStmt(s)
        BY <2>1, <2>3
      <3>2. PICK t : r = Schema(t) /\ b = SchemaStmt(t)
        BY <2>2, <2>3
      <3>3. s = t
        BY <3>1, <3>2, Resources
      <3> QED
        BY <3>1, <3>2, <3>3 DEF Alike
    <2>4. CASE r[1] = "function"
      <3>1. a.id = b.id
        BY <2>1, <2>2, <2>4, Resources
      <3> QED
        BY <2>1, <2>2, <2>4, <3>1 DEF Alike
    <2> QED
      BY <2>1, <2>3, <2>4
  <1> QED
    BY <1>3, <1>4, <1>5, <1>6

(* What an extension makes, no other extension makes, nor a statement that *)
(* is written before it, if the extension makes no schema.                 *)
LEMMA ExtensionAlone ==
  ASSUME BaseInv, NEW a, NEW b, From(a), From(b), NEW r \in a.makes \cap b.makes,
         b.kind = "extension", r[1] # "schema", a.kind \in {"schema", "function", "extension"}
  PROVE  Alike(a, b)
  <1>1. Makes(a, r) /\ Makes(b, r)
    BY Making
  <1>2. PICK e \in ToSet(db.exts) : e.id = b.id /\ (r = Extension(e.id) \/ r \in e.members)
    BY <1>1 DEF Makes
  <1>3. a.kind # "schema"
    BY <1>1, Resources DEF Makes
  <1>4. a.kind # "function"
    <2> SUFFICES ASSUME a.kind = "function" PROVE FALSE
      OBVIOUS
    <2>1. r = Function(a.id) /\ a.id \in IdsOf(db.funcs)
      BY <1>1 DEF Makes
    <2>2. PICK f \in ToSet(db.funcs) : r = Function(f.id)
      BY <2>1 DEF IdsOf
    <2>3. r # Extension(e.id)
      BY <2>1, Resources
    <2> QED
      BY <1>2, <2>2, <2>3, Names
  <1>5. PICK f \in ToSet(db.exts) : f.id = a.id /\ (r = Extension(f.id) \/ r \in f.members)
    BY <1>1, <1>3, <1>4 DEF Makes
  <1>6. e.id = f.id
    <2>1. CASE r[1] = "extension"
      <3>1. r = Extension(e.id) /\ r = Extension(f.id)
        BY <1>2, <1>5, <2>1, Names
      <3> QED
        BY <3>1, Resources
    <2>2. CASE r[1] # "extension"
      <3>1. r \in e.members \cap f.members
        BY <1>2, <1>5, <2>2, Resources
      <3> QED
        BY <3>1, Names
    <2> QED
      BY <2>1, <2>2
  <1> QED
    BY <1>2, <1>3, <1>4, <1>5, <1>6 DEF Alike

(* A statement of a later section makes nothing that an extension makes,   *)
(* unless it is a member of the extension.                                 *)
LEMMA ExtensionApart ==
  ASSUME BaseInv, NEW a, NEW b, From(a), From(b), a.kind = "extension",
         b.kind \notin {"schema", "function", "extension"}, Own(b)
  PROVE  a.makes \cap b.makes = {}
  <1> SUFFICES ASSUME NEW r \in a.makes \cap b.makes PROVE FALSE
    OBVIOUS
  <1>1. Makes(a, r) /\ Makes(b, r)
    BY Making
  <1>2. PICK e \in ToSet(db.exts) : r = Extension(e.id) \/ r \in e.members
    BY <1>1 DEF Makes
  <1>3. r \notin e.members
    BY DEF Own
  <1>4. r[1] = "extension"
    BY <1>2, <1>3, Resources
  <1> QED
    BY <1>1, <1>4, OtherMaker

(* No two statements create the same relation, tables that the plan names  *)
(* several times and what CREATE EXTENSION makes aside: an index that      *)
(* belongs to a constraint is written with the constraint only             *)
(* (generate_indexes_ddl_query).                                           *)
THEOREM NothingIsMadeTwice == Spec => []MadeOnce
  <1>1. ASSUME DumpInv PROVE MadeOnce
    <2> SUFFICES ASSUME NEW k \in DOMAIN script, NEW l \in DOMAIN script, k < l,
                        script[k].kind # "extension",
                        NEW r \in script[k].makes \cap script[l].makes, r[1] = "rel"
                 PROVE  script[k].kind = "table" /\ script[k] = script[l]
      BY DEF MadeOnce
    <2> DEFINE a == script[k]
               b == script[l]
    <2>1. From(a) /\ From(b)
      BY <1>1 DEF DumpInv, ScriptInv, ToSet
    <2>2. Alike(a, b) => a.kind = "table"
      BY <1>1 DEF DumpInv, ScriptInv
    <2>3. r \in a.makes \cap b.makes /\ a.kind # "extension" /\ Before(a.kind, b.kind)
      BY <1>1 DEF DumpInv, ScriptInv
    <2> HIDE DEF a, b
    <2>4. b.kind # "extension"
      <3> SUFFICES ASSUME b.kind = "extension" PROVE FALSE
        OBVIOUS
      <3>1. a.kind \in {"schema", "function"}
        BY <2>3 DEF Before, Rank
      <3>2. Makes(a, r)
        BY <1>1, <2>1, <2>3, Making DEF DumpInv
      <3> QED
        BY <3>1, <3>2, Resources DEF Makes
    <2>5. Alike(a, b)
      BY <1>1, <2>1, <2>3, <2>4, MadeTwice DEF DumpInv
    <2>6. \A st : From(st) /\ st.kind = "table" => st = TableStmt(Row(db.tables, st.id))
      <3> SUFFICES ASSUME NEW st, From(st), st.kind = "table" PROVE st = TableStmt(Row(db.tables, st.id))
        OBVIOUS
      <3>1. \E id \in Wanted : st = TableStmt(Row(db.tables, id))
        BY <1>1, FromKind DEF DumpInv
      <3>2. PICK id \in Wanted : st = TableStmt(Row(db.tables, id))
        BY <3>1
      <3>3. st.id = id
        BY <1>1, <3>2, WantedTables DEF DumpInv, TableStmt, Stmt
      <3> QED
        BY <3>2, <3>3
    <2> QED
      BY <2>1, <2>2, <2>5, <2>6 DEF a, b, Alike
  <1> QED
    BY <1>1, DumpInvariant, PTL

-----------------------------------------------------------------------------
(* What the statements need.                                               *)

(* As Reliable, but that a table must only be the first table of its name. *)
Good(k) ==
  IF script[k].kind = "table"
    THEN Plain(script[k].id) /\ \A l \in 1..(k - 1) :
           script[l].kind = "table" => script[l].id # script[k].id
    ELSE Reliable(k)

LEMMA ReliableIsGood == \A k : Reliable(k) => Good(k)
  BY DEF Reliable, Good

(* A statement is after the ones of an earlier section. *)
LEMMA EarlierSection ==
  ASSUME DumpInv, NEW k \in DOMAIN script, NEW e \in ToSet(script), ~Before(script[k].kind, e.kind)
  PROVE  k \in 1..Len(script) /\ \E l \in 1..(k - 1) : l \in DOMAIN script /\ script[l] = e
  <1>1. Len(script) \in Nat /\ DOMAIN script = 1..Len(script)
    BY ListElements DEF DumpInv, ScriptInv
  <1>2. PICK l \in DOMAIN script : script[l] = e
    BY DEF ToSet
  <1>3. ~(k < l)
    BY <1>2 DEF DumpInv, ScriptInv
  <1>4. k # l
    <2> SUFFICES ASSUME k = l PROVE FALSE
      OBVIOUS
    <2>1. ~Before(e.kind, e.kind)
      BY <1>2
    <2> QED
      BY <2>1 DEF Before, Rank
  <1> QED
    BY <1>1, <1>2, <1>3, <1>4

(* The dependencies once they are analyzed. *)
LEMMA QueryDeps ==
  ASSUME DumpInv, Done
  PROVE  /\ query = NoQuery => deps = NoDeps
         /\ query # NoQuery => /\ deps.analyzed /\ deps.schemas = {t[1] : t \in Wanted}
                               /\ deps.seqs = SequencesOf(Wanted)
                               /\ deps.cons = ConstraintsOf(Wanted)
                               /\ deps.indexes = IndexesOf(Wanted)
  <1>1. query = NoQuery => deps = NoDeps
    BY DEF DumpInv, BaseInv, Done
  <1>2. ASSUME query # NoQuery
        PROVE  /\ deps.analyzed /\ deps.schemas = {t[1] : t \in Wanted}
               /\ deps.seqs = SequencesOf(Wanted)
               /\ deps.cons = ConstraintsOf(Wanted)
               /\ deps.indexes = IndexesOf(Wanted)
    <2>1. deps = DepsOf(query) /\ Wanted = ToSet(query.plan)
      BY <1>2 DEF DumpInv, BaseInv, Done, Wanted
    <2> QED
      BY <2>1 DEF DepsOf, PlanTables
  <1> QED
    BY <1>1, <1>2

(* The schemas of the tables wanted are in the script. *)
LEMMA WantedInScope ==
  ASSUME DumpInv, Done, NEW id \in Wanted
  PROVE  InScope(id[1])
  <1>1. PICK t \in ToSet(db.tables) : t.id = id
    BY WantedTables DEF DumpInv
  <1>2. id[1] \in ToSet(db.schemas)
    BY <1>1, Names DEF DumpInv
  <1>3. CASE query = NoQuery
    <2>1. SchemaRows = db.schemas
      BY <1>3, QueryDeps DEF NoDeps, SchemaRows
    <2> QED
      BY <1>2, <2>1 DEF InScope
  <1>4. CASE query # NoQuery
    <2>1. id[1] \in deps.schemas
      BY <1>4, QueryDeps
    <2>2. SchemaRows = Chosen(db.schemas, deps.schemas)
      BY <2>1 DEF SchemaRows
    <2>3. IsList(db.schemas)
      BY Catalogue DEF DumpInv, BaseInv
    <2>4. ToSet(SchemaRows) = ToSet(db.schemas) \cap deps.schemas
      BY <2>2, <2>3, ChosenRows
    <2> QED
      BY <1>2, <2>1, <2>4 DEF InScope
  <1> QED
    BY <1>3, <1>4

(* Something that an earlier statement makes for sure. *)
Provided(k, r) == \E l \in 1..(k - 1) : l \in DOMAIN script /\ Good(l) /\ r \in script[l].makes

LEMMA SchemaProvided ==
  ASSUME DumpInv, Done, NEW k \in DOMAIN script, NEW s \in ToSet(SchemaRows) \ {Default},
         script[k].kind # "schema"
  PROVE  Provided(k, Schema(s))
  <1> DEFINE e == SchemaStmt(s)
  <1>1. e \in ToSet(script) /\ e.kind = "schema" /\ Schema(s) \in e.makes
    BY DEF DumpInv, CompleteInv, Done, SchemaStmt, Stmt
  <1> HIDE DEF e
  <1>2. ~Before(script[k].kind, e.kind)
    BY <1>1 DEF Before, Rank
  <1>3. PICK l \in 1..(k - 1) : l \in DOMAIN script /\ script[l] = e
    BY <1>1, <1>2, EarlierSection
  <1>4. Good(l)
    BY <1>1, <1>3 DEF Good, Reliable
  <1> QED
    BY <1>1, <1>3, <1>4 DEF Provided

(* An object in a schema in scope needs nothing else for it. *)
LEMMA InSchemaProvided ==
  ASSUME DumpInv, Done, NEW k \in DOMAIN script, NEW id, InScope(id[1]), NEW r \in InSchema(id),
         script[k].kind # "schema"
  PROVE  Provided(k, r)
  <1>1. id[1] # Default /\ r = Schema(id[1])
    BY DEF InSchema
  <1>2. id[1] \in ToSet(SchemaRows) \ {Default}
    BY <1>1 DEF InScope
  <1> QED
    BY <1>1, <1>2, SchemaProvided

(* What is there early is there for every section about tables. *)
LEMMA EarlyProvided ==
  ASSUME DumpInv, Done, NEW k \in DOMAIN script, NEW r \in Early,
         ~Before(script[k].kind, "function"), ~Before(script[k].kind, "extension")
  PROVE  Provided(k, r)
  <1>1. PICK e \in EarlyStmts : SelfContained(e) /\ r \in e.makes
    BY DEF Early
  <1>2. e \in ToSet(script) /\ e.kind \in {"function", "extension"}
    <2>1. CASE \E f \in ToSet(db.funcs) : e = FunctionStmt(f)
      BY <2>1 DEF DumpInv, CompleteInv, Done, FunctionStmt, Stmt
    <2>2. CASE \E x \in ToSet(db.exts) : e = ExtensionStmt(x)
      BY <2>2 DEF DumpInv, CompleteInv, Done, ExtensionStmt, Stmt
    <2> QED
      BY <2>1, <2>2 DEF EarlyStmts
  <1>3. ~Before(script[k].kind, e.kind)
    BY <1>2
  <1>4. PICK l \in 1..(k - 1) : l \in DOMAIN script /\ script[l] = e
    BY <1>2, <1>3, EarlierSection
  <1>5. Good(l)
    BY <1>1, <1>2, <1>4 DEF Good, Reliable
  <1> QED
    BY <1>1, <1>4, <1>5 DEF Provided

(* A plain table that is wanted is made by the first statement for it. *)
LEMMA TableProvided ==
  ASSUME DumpInv, Done, NEW k \in DOMAIN script, NEW id \in Wanted, Plain(id),
         ~Before(script[k].kind, "table"), NEW r \in TableStmt(Row(db.tables, id)).makes
  PROVE  Provided(k, r)
  <1> DEFINE e == TableStmt(Row(db.tables, id))
             S == {l \in DOMAIN script : script[l].kind = "table" /\ script[l].id = id}
  <1>1. e \in ToSet(script)
    BY DEF DumpInv, CompleteInv, Done
  <1>2. e.kind = "table" /\ e.id = id
    BY WantedTables DEF TableStmt, Stmt, DumpInv
  <1> HIDE DEF e
  <1>3. /\ k \in 1..Len(script)
        /\ \E l \in 1..(k - 1) : l \in DOMAIN script /\ script[l] = e
    BY <1>1, <1>2, EarlierSection
  <1>4. PICK j \in 1..(k - 1) : j \in DOMAIN script /\ script[j] = e
    BY <1>3
  <1>5. Len(script) \in Nat /\ DOMAIN script = 1..Len(script)
    BY ListElements DEF DumpInv, ScriptInv
  <1>6. j \in S /\ S \subseteq Nat
    BY <1>2, <1>4, <1>5
  <1>7. PICK l \in S : \A x \in S : l <= x
    <2> HIDE DEF S
    <2> QED
      BY <1>6, Least
  <1>8. l \in 1..(k - 1) /\ l \in DOMAIN script /\ script[l].kind = "table" /\ script[l].id = id
    BY <1>3, <1>4, <1>5, <1>6, <1>7
  <1>9. script[l] = e
    <2>1. From(script[l])
      BY <1>8 DEF DumpInv, ScriptInv, ToSet
    <2>2. PICK d \in Wanted : script[l] = TableStmt(Row(db.tables, d))
      BY <1>8, <2>1, FromKind DEF DumpInv
    <2>3. Row(db.tables, d).id = d
      BY WantedTables DEF DumpInv
    <2>4. d = id
      BY <1>8, <2>2, <2>3 DEF TableStmt, Stmt
    <2> QED
      BY <2>2, <2>4 DEF e
  <1>10. ASSUME NEW x \in 1..(l - 1), script[x].kind = "table" PROVE script[x].id # id
    <2>1. x \in DOMAIN script /\ x < l
      BY <1>5, <1>8
    <2> QED
      BY <1>5, <1>7, <1>10, <2>1
  <1>11. Good(l)
    BY <1>8, <1>10 DEF Good
  <1> QED
    BY <1>8, <1>9, <1>11 DEF Provided, e

LEMMA RelProvided ==
  ASSUME DumpInv, Done, NEW k \in DOMAIN script, NEW id \in Wanted, Plain(id),
         ~Before(script[k].kind, "table")
  PROVE  Provided(k, Rel(id))
  <1>1. Row(db.tables, id).id = id
    BY WantedTables DEF DumpInv
  <1>2. Rel(id) \in TableStmt(Row(db.tables, id)).makes
    BY <1>1 DEF TableStmt, Stmt
  <1> QED
    BY <1>2, TableProvided

(* Without a query the plain tables are the wanted ones. *)
LEMMA PlainIsWanted ==
  ASSUME DumpInv, NEW id, Plain(id), query = NoQuery
  PROVE  id \in Wanted
  <1>1. PICK t \in ToSet(db.tables) : t.id = id /\ t.kind = "r"
    BY DEF Plain
  <1>2. ToSet(OrdinaryTables) = {x.id : x \in {y \in ToSet(db.tables) : y.kind = "r"}}
    BY WantedTables DEF DumpInv
  <1>3. t.id \in ToSet(OrdinaryTables)
    BY <1>1, <1>2
  <1> QED
    BY <1>1, <1>3 DEF Wanted

LEMMA ConstraintTables ==
  ASSUME DumpInv, Done, NEW c \in ToSet(ConstraintRows)
  PROVE  /\ Row(db.cons, c.id) = c
         /\ Plain(c.table) => c.table \in Wanted
         /\ c.type = "f" /\ Plain(c.ref) => c.ref \in Wanted
  <1>1. Identified(db.cons) /\ c \in ToSet(db.cons) /\ (deps.analyzed => c.id \in deps.cons)
    BY Catalogue, RightRows DEF DumpInv, BaseInv
  <1>2. CASE query = NoQuery
    BY <1>1, <1>2, SameRow, PlainIsWanted
  <1>3. CASE query # NoQuery
    <2>1. c.id \in ConstraintsOf(Wanted)
      BY <1>1, <1>3, QueryDeps
    <2>2. PICK x \in ToSet(db.cons) :
            x.id = c.id /\ x.table \in Wanted /\ (x.type = "f" => x.ref \in Wanted)
      BY <2>1 DEF ConstraintsOf
    <2>3. x = c
      BY <1>1, <2>2, SameRow
    <2> QED
      BY <1>1, <2>2, <2>3, SameRow
  <1> QED
    BY <1>2, <1>3

LEMMA IndexTables ==
  ASSUME DumpInv, Done, NEW x \in ToSet(IndexRows)
  PROVE  Row(db.indexes, x.id) = x /\ (Plain(x.table) => x.table \in Wanted)
  <1>1. /\ Identified(db.indexes) /\ x \in ToSet(db.indexes)
        /\ (deps.analyzed => x.id \in deps.indexes)
    BY Catalogue, RightRows DEF DumpInv, BaseInv
  <1>2. CASE query = NoQuery
    BY <1>1, <1>2, SameRow, PlainIsWanted
  <1>3. CASE query # NoQuery
    <2>1. x.id \in IndexesOf(Wanted)
      BY <1>1, <1>3, QueryDeps
    <2>2. PICK y \in ToSet(db.indexes) : y.id = x.id /\ y.table \in Wanted
      BY <2>1 DEF IndexesOf
    <2>3. y = x
      BY <1>1, <2>2, SameRow
    <2> QED
      BY <1>1, <2>2, <2>3, SameRow
  <1> QED
    BY <1>2, <1>3

LEMMA OwnerTables ==
  ASSUME DumpInv, Done, NEW s \in ToSet(db.seqs), query # NoQuery => s.id \in deps.seqs
  PROVE  Row(db.seqs, s.id) = s /\ (Plain(s.owner) => s.owner \in Wanted)
  <1>1. Identified(db.seqs)
    BY Catalogue DEF DumpInv, BaseInv
  <1>2. CASE query = NoQuery
    BY <1>1, <1>2, SameRow, PlainIsWanted
  <1>3. CASE query # NoQuery
    <2>1. s.id \in SequencesOf(Wanted)
      BY <1>3, QueryDeps
    <2>2. PICK y \in ToSet(db.seqs) : y.id = s.id /\ y.owner \in Wanted
      BY <2>1 DEF SequencesOf
    <2>3. y = s
      BY <1>1, <2>2, SameRow
    <2> QED
      BY <1>1, <2>2, <2>3, SameRow
  <1> QED
    BY <1>2, <1>3

(* Every need of a good statement is provided: section by section. *)
LEMMA TableNeeds ==
  ASSUME DumpInv, Done, NEW k \in DOMAIN script, script[k].kind = "table", Plain(script[k].id),
         NEW id \in Wanted, script[k] = TableStmt(Row(db.tables, id)), NEW r \in script[k].needs
  PROVE  Provided(k, r)
  <1> DEFINE t == Row(db.tables, id)
  <1>1. t \in ToSet(db.tables) /\ t.id = id
    BY WantedTables DEF DumpInv
  <1> HIDE DEF t
  <1>2. script[k].id = id /\ r \in InSchema(id) \cup TableUses(t)
    BY <1>1 DEF TableStmt, Stmt, t
  <1>3. CASE r \in InSchema(id)
    BY <1>3, WantedInScope, InSchemaProvided
  <1>4. CASE r \in TableUses(t)
    <2>1. PICK u \in ToSet(db.tables) : u.id = id /\ TableUses(u) \subseteq Early
      BY <1>2 DEF Plain
    <2>2. Identified(db.tables)
      BY Catalogue DEF DumpInv, BaseInv
    <2>3. u = t
      BY <1>1, <2>1, <2>2, SameRow
    <2>4. ~Before(script[k].kind, "function") /\ ~Before(script[k].kind, "extension")
      BY DEF Before, Rank
    <2> QED
      BY <1>4, <2>1, <2>3, <2>4, EarlyProvided
  <1> QED
    BY <1>2, <1>3, <1>4

LEMMA SequenceNeeds ==
  ASSUME DumpInv, Done, NEW k \in DOMAIN script, script[k].kind = "sequence", Reliable(k),
         NEW s \in ToSet(db.seqs), query # NoQuery => s.id \in deps.seqs,
         script[k] = SequenceStmt(s), NEW r \in script[k].needs
  PROVE  Provided(k, r)
  <1>1. Row(db.seqs, s.id) = s /\ (Plain(s.owner) => s.owner \in Wanted)
    BY OwnerTables
  <1>2. script[k].id = s.id /\ r \in InSchema(s.id) \cup {Rel(t) : t \in ToSet(OwnerRows(s))}
    BY DEF SequenceStmt, Stmt
  <1>3. InScope(s.id[1]) /\ (s.owner # None => Plain(s.owner))
    BY <1>1, <1>2 DEF Reliable
  <1>4. CASE r \in InSchema(s.id)
    BY <1>3, <1>4, InSchemaProvided
  <1>5. CASE r \in {Rel(t) : t \in ToSet(OwnerRows(s))}
    <2>1. PICK t \in ToSet(OwnerRows(s)) : r = Rel(t)
      BY <1>5
    <2>2. t = s.owner /\ s.owner # None
      BY <2>1 DEF OwnerRows, ToSet
    <2>3. ~Before(script[k].kind, "table")
      BY DEF Before, Rank
    <2> QED
      BY <1>1, <1>3, <2>1, <2>2, <2>3, RelProvided
  <1> QED
    BY <1>2, <1>4, <1>5

LEMMA ViewNeeds ==
  ASSUME DumpInv, Done, NEW k \in DOMAIN script, script[k].kind = "view", Reliable(k),
         NEW v \in ToSet(ViewRows), script[k] = ViewStmt(v), NEW r \in script[k].needs
  PROVE  Provided(k, r)
  <1>1. Row(db.views, v.id) = v
    <2>1. Identified(db.views) /\ v \in ToSet(db.views)
      BY Catalogue, RowsOfSections DEF DumpInv, BaseInv
    <2> QED
      BY <2>1, SameRow
  <1>2. script[k].id = v.id /\ r \in InSchema(v.id) \cup v.uses
    BY DEF ViewStmt, Stmt
  <1>3. /\ InScope(v.id[1])
        /\ \A u \in v.uses : u \in Early \/ \E t \in Wanted : u = Rel(t) /\ Plain(t)
    BY <1>1, <1>2 DEF Reliable
  <1>4. CASE r \in InSchema(v.id)
    BY <1>3, <1>4, InSchemaProvided
  <1>5. /\ ~Before(script[k].kind, "function") /\ ~Before(script[k].kind, "extension")
        /\ ~Before(script[k].kind, "table")
    BY DEF Before, Rank
  <1>6. CASE r \in Early
    BY <1>5, <1>6, EarlyProvided
  <1>7. CASE r \in v.uses /\ r \notin Early
    <2>1. PICK t \in Wanted : r = Rel(t) /\ Plain(t)
      BY <1>3, <1>7
    <2> QED
      BY <1>5, <2>1, RelProvided
  <1> QED
    BY <1>2, <1>4, <1>6, <1>7

LEMMA IndexNeeds ==
  ASSUME DumpInv, Done, NEW k \in DOMAIN script, script[k].kind = "index", Reliable(k),
         NEW x \in ToSet(IndexRows), script[k] = IndexStmt(x), NEW r \in script[k].needs
  PROVE  Provided(k, r)
  <1>1. Row(db.indexes, x.id) = x /\ (Plain(x.table) => x.table \in Wanted)
    BY IndexTables
  <1>2. script[k].id = x.id /\ r \in {Rel(x.table)} \cup x.uses
    BY DEF IndexStmt, Stmt
  <1>3. Plain(x.table) /\ x.uses \subseteq Early
    BY <1>1, <1>2 DEF Reliable
  <1>4. /\ ~Before(script[k].kind, "function") /\ ~Before(script[k].kind, "extension")
        /\ ~Before(script[k].kind, "table")
    BY DEF Before, Rank
  <1>5. CASE r = Rel(x.table)
    BY <1>1, <1>3, <1>4, <1>5, RelProvided
  <1>6. CASE r \in x.uses
    BY <1>3, <1>4, <1>6, EarlyProvided
  <1> QED
    BY <1>2, <1>5, <1>6

LEMMA ConstraintNeeds ==
  ASSUME DumpInv, Done, NEW k \in DOMAIN script, script[k].kind \in {"check", "unique"}, Reliable(k),
         NEW c \in ToSet(ConstraintRows), c.type \in {"c", "u"}, script[k] = ConstraintStmt(c),
         NEW r \in script[k].needs
  PROVE  Provided(k, r)
  <1>1. Row(db.cons, c.id) = c /\ (Plain(c.table) => c.table \in Wanted)
    BY ConstraintTables
  <1>2. script[k].id = c.id /\ r \in {Rel(c.table)} \cup c.uses
    <2>1. CASE c.type = "c"
      BY <2>1 DEF ConstraintStmt, Stmt
    <2>2. CASE c.type = "u"
      BY <2>2 DEF ConstraintStmt, Stmt
    <2> QED
      BY <2>1, <2>2
  <1>3. Plain(c.table) /\ c.uses \subseteq Early
    BY <1>1, <1>2 DEF Reliable, Constraint
  <1>4. /\ ~Before(script[k].kind, "function") /\ ~Before(script[k].kind, "extension")
        /\ ~Before(script[k].kind, "table")
    BY DEF Before, Rank
  <1>5. CASE r = Rel(c.table)
    BY <1>1, <1>3, <1>4, <1>5, RelProvided
  <1>6. CASE r \in c.uses
    BY <1>3, <1>4, <1>6, EarlyProvided
  <1> QED
    BY <1>2, <1>5, <1>6

LEMMA KeysAfterTables ==
  \A kind \in {"function", "extension", "table"} : ~Before("foreign key", kind)
  BY DEF Before, Rank

(* A foreign key to a primary key, if its schema is written right. *)
LEMMA ForeignKeyNeeds ==
  ASSUME DumpInv, Done, NEW k \in DOMAIN script, script[k].kind = "foreign key", Reliable(k),
         NEW c \in ToSet(ConstraintRows), c.type = "f", script[k] = ConstraintStmt(c),
         NEW r \in script[k].needs
  PROVE  Provided(k, r)
  <1>1. /\ Row(db.cons, c.id) = c /\ (Plain(c.table) => c.table \in Wanted)
        /\ Plain(c.ref) => c.ref \in Wanted
    BY ConstraintTables
  <1>2. /\ script[k].id = c.id
        /\ r \in {Rel(c.table), Rel(WrittenRef(c)), Key(WrittenRef(c), c.key)} \cup c.uses
    <2> DEFINE st == ConstraintStmt(c)
               needs == {Rel(c.table), Rel(WrittenRef(c)), Key(WrittenRef(c), c.key)} \cup c.uses
    <2>1. st = Stmt("foreign key", c.id, needs, {})
      BY DEF ConstraintStmt
    <2>2. script[k] = st
      OBVIOUS
    <2> HIDE DEF st
    <2>3. st.id = c.id /\ st.needs = needs
      BY <2>1 DEF Stmt
    <2> QED
      BY <2>2, <2>3, Zenon
  <1>3. /\ Plain(c.table) /\ Plain(c.ref) /\ c.key = Primary /\ c.uses \subseteq Early
        /\ Visible(c.ref[1]) => c.table[1] = c.ref[1]
    BY <1>1, <1>2 DEF Reliable, Constraint
  <1>4. /\ ~Before(script[k].kind, "function") /\ ~Before(script[k].kind, "extension")
        /\ ~Before(script[k].kind, "table")
    BY KeysAfterTables, Zenon
  <1>5. /\ c.ref = <<c.ref[1], c.ref[2]>>
        /\ \A t \in ToSet(db.tables) : t.id = c.ref => t.pk
    <2>1. c \in ToSet(db.cons) /\ db \in Databases
      BY RightRows DEF DumpInv, BaseInv
    <2>2. \A d \in ToSet(db.cons) : d.type = "f" =>
              /\ d.ref = <<d.ref[1], d.ref[2]>>
              /\ d.key = Primary => \A t \in ToSet(db.tables) : t.id = d.ref => t.pk
      BY <2>1, CatalogueAssumption DEF CatalogueAssumption
    <2> QED
      BY <1>3, <2>1, <2>2, Zenon
  <1>6. WrittenRef(c) = c.ref
    <2>1. WrittenRef(c) = <<c.ref[1], c.ref[2]>>
      BY <1>3 DEF WrittenRef
    <2> QED
      BY <1>5, <2>1, Zenon
  <1>7. Provided(k, Rel(c.table)) /\ Provided(k, Rel(c.ref))
    BY <1>1, <1>3, <1>4, RelProvided
  <1>8. Provided(k, Key(c.ref, Primary))
    <2>1. Row(db.tables, c.ref) \in ToSet(db.tables) /\ Row(db.tables, c.ref).id = c.ref
      BY <1>1, <1>3, WantedTables DEF DumpInv
    <2>2. Key(c.ref, Primary) \in TableStmt(Row(db.tables, c.ref)).makes
      BY <1>5, <2>1 DEF TableStmt, Stmt
    <2> QED
      BY <1>1, <1>3, <1>4, <2>2, TableProvided
  <1>9. CASE r \in c.uses
    BY <1>3, <1>4, <1>9, EarlyProvided
  <1> QED
    BY <1>2, <1>3, <1>6, <1>7, <1>8, <1>9

LEMMA NeedsProvided ==
  ASSUME DumpInv, Done, NEW k \in DOMAIN script, Good(k), NEW r \in script[k].needs
  PROVE  Provided(k, r)
  <1> DEFINE st == script[k]
  <1>1. From(st)
    BY DEF DumpInv, ScriptInv, ToSet
  <1>2. /\ st.kind = "table" => Plain(st.id)
        /\ st.kind # "table" => Reliable(k)
    BY DEF Good
  <1>3. r \in st.needs /\ st = script[k]
    OBVIOUS
  <1> HIDE DEF st
  <1>4. CASE st.kind = "schema"
    <2>1. \E s \in ToSet(SchemaRows) \ {Default} : st = SchemaStmt(s)
      BY <1>1, <1>4, FromKind DEF DumpInv
    <2>2. PICK s \in ToSet(SchemaRows) \ {Default} : st = SchemaStmt(s)
      BY <2>1
    <2>3. SchemaStmt(s).needs = {}
      BY DEF SchemaStmt, Stmt
    <2> QED
      BY <1>3, <2>2, <2>3
  <1>5. CASE st.kind \in {"function", "extension"}
    <2>1. SelfContained(st)
      BY <1>2, <1>3, <1>5 DEF Reliable
    <2>2. PICK s \in ToSet(SchemaRows) \ {Default} : r = Schema(s)
      BY <1>3, <2>1 DEF SelfContained, NewSchemas
    <2> QED
      BY <1>3, <1>5, <2>2, SchemaProvided
  <1>6. CASE st.kind = "table"
    <2>1. \E id \in Wanted : st = TableStmt(Row(db.tables, id))
      BY <1>1, <1>6, FromKind DEF DumpInv
    <2> QED
      BY <1>2, <1>3, <1>6, <2>1, TableNeeds
  <1>7. CASE st.kind = "sequence"
    <2>1. \E s \in ToSet(db.seqs) : (query # NoQuery => s.id \in deps.seqs) /\ st = SequenceStmt(s)
      BY <1>1, <1>7, FromKind DEF DumpInv
    <2> QED
      BY <1>2, <1>3, <1>7, <2>1, SequenceNeeds
  <1>8. CASE st.kind = "view"
    <2>1. \E v \in ToSet(ViewRows) : st = ViewStmt(v)
      BY <1>1, <1>8, FromKind DEF DumpInv
    <2> QED
      BY <1>2, <1>3, <1>8, <2>1, ViewNeeds
  <1>9. CASE st.kind = "index"
    <2>1. \E x \in ToSet(IndexRows) : st = IndexStmt(x)
      BY <1>1, <1>9, FromKind DEF DumpInv
    <2> QED
      BY <1>2, <1>3, <1>9, <2>1, IndexNeeds
  <1>10. CASE st.kind \in {"check", "unique"}
    <2>1. \E c \in ToSet(ConstraintRows) : c.type \in {"c", "u"} /\ st = ConstraintStmt(c)
      BY <1>1, <1>10, FromKind DEF DumpInv
    <2> QED
      BY <1>2, <1>3, <1>10, <2>1, ConstraintNeeds
  <1>11. CASE st.kind = "foreign key"
    <2>1. \E c \in ToSet(ConstraintRows) : c.type = "f" /\ st = ConstraintStmt(c)
      BY <1>1, <1>11, FromKind DEF DumpInv
    <2> QED
      BY <1>2, <1>3, <1>11, <2>1, ForeignKeyNeeds
  <1> QED
    BY <1>1, <1>4, <1>5, <1>6, <1>7, <1>8, <1>9, <1>10, <1>11, FromKind DEF DumpInv

(* A good statement of a later section makes no member of an extension. *)
LEMMA GoodIsOwn ==
  ASSUME DumpInv, NEW k \in DOMAIN script, Good(k), script[k].makes # {},
         script[k].kind \notin {"schema", "function", "extension"}
  PROVE  Own(script[k])
  <1> DEFINE st == script[k]
  <1>1. From(st)
    BY DEF DumpInv, ScriptInv, ToSet
  <1>2. /\ st.kind = "table" => Plain(st.id)
        /\ st.kind \in {"sequence", "view", "index", "unique", "check"} => Own(st)
    BY DEF Good, Reliable
  <1>3. st.makes # {} /\ st.kind \notin {"schema", "function", "extension"}
    OBVIOUS
  <1> HIDE DEF st
  <1>4. st.kind # "foreign key"
    <2>1. PICK r \in st.makes : TRUE
      BY <1>3
    <2>2. Makes(st, r)
      BY <1>1, Making DEF DumpInv
    <2> QED
      BY <2>2 DEF Makes
  <1>5. CASE st.kind = "table"
    <2>1. \E id \in Wanted : st = TableStmt(Row(db.tables, id))
      BY <1>1, <1>5, FromKind DEF DumpInv
    <2>2. PICK id \in Wanted : st = TableStmt(Row(db.tables, id))
      BY <2>1
    <2>3. Row(db.tables, id) \in ToSet(db.tables) /\ Row(db.tables, id).id = id
      BY WantedTables DEF DumpInv
    <2>4. st.id = id
      BY <2>2, <2>3 DEF TableStmt, Stmt
    <2>5. PICK t \in ToSet(db.tables) : t.id = id /\ Own(TableStmt(t))
      BY <1>2, <1>5, <2>4 DEF Plain
    <2>6. Identified(db.tables)
      BY Catalogue DEF DumpInv, BaseInv
    <2>7. t = Row(db.tables, id)
      BY <2>3, <2>5, <2>6, SameRow
    <2>8. Own(st)
      BY <2>2, <2>5, <2>7
    <2> QED
      BY <2>8 DEF st
  <1>6. CASE st.kind \in {"sequence", "view", "index", "unique", "check"}
    BY <1>2, <1>6 DEF st
  <1> QED
    BY <1>1, <1>3, <1>4, <1>5, <1>6, FromKind DEF DumpInv

(* What a good statement makes, no earlier statement makes. *)
LEMMA NothingInTheWay ==
  ASSUME DumpInv, NEW k \in DOMAIN script, Good(k), NEW l \in 1..(k - 1)
  PROVE  script[l].makes \cap script[k].makes = {}
  <1> SUFFICES ASSUME NEW r \in script[l].makes \cap script[k].makes PROVE FALSE
    OBVIOUS
  <1> DEFINE a == script[l]
             b == script[k]
  <1>1. l \in DOMAIN script /\ l < k
    BY ListElements DEF DumpInv, ScriptInv
  <1>2. /\ From(a) /\ From(b) /\ Before(a.kind, b.kind)
        /\ Alike(a, b) => a.kind = "table"
    BY <1>1 DEF DumpInv, ScriptInv, ToSet
  <1>3. /\ b.kind = "table" => (a.kind = "table" => a.id # b.id)
        /\ b.kind = "check" => ~Row(db.cons, b.id).noInherit
    BY DEF Good, Reliable, Constraint
  <1>4. r \in a.makes \cap b.makes
    OBVIOUS
  <1>5. b.kind = "extension" => SelfContained(b)
    BY DEF Good, Reliable
  <1>6. b.kind \notin {"schema", "function", "extension"} => Own(b)
    BY <1>4, GoodIsOwn
  <1> HIDE DEF a, b
  <1>7. ~Before("check", "table")
    BY DEF Before, Rank
  <1>8. CASE b.kind = "extension"
    <2>1. r[1] # "schema"
      BY <1>4, <1>5, <1>8 DEF SelfContained
    <2>2. a.kind \in {"schema", "function", "extension"}
      BY <1>2, <1>8 DEF Before, Rank
    <2>3. Alike(a, b)
      BY <1>2, <1>4, <1>8, <2>1, <2>2, ExtensionAlone DEF DumpInv
    <2> QED
      BY <1>2, <1>8, <2>3 DEF Alike
  <1>9. CASE b.kind # "extension" /\ a.kind = "extension"
    <2>1. b.kind \notin {"schema", "function", "extension"}
      BY <1>2, <1>9 DEF Before, Rank
    <2> QED
      BY <1>2, <1>4, <1>6, <1>9, <2>1, ExtensionApart DEF DumpInv
  <1>10. CASE b.kind # "extension" /\ a.kind # "extension"
    <2>1. \/ Alike(a, b)
          \/ a.kind = "table" /\ b.kind = "check" /\ Row(db.cons, b.id).noInherit
          \/ b.kind = "table" /\ a.kind = "check"
      BY <1>2, <1>4, <1>10, MadeTwice DEF DumpInv
    <2> QED
      BY <1>2, <1>3, <1>7, <2>1 DEF Alike
  <1> QED
    BY <1>8, <1>9, <1>10

-----------------------------------------------------------------------------
(* Replaying the script.                                                   *)

Replayed(so, st, k) ==
  IF st.needs \subseteq so.have /\ st.makes \cap so.have = {}
    THEN [so EXCEPT !.have = @ \cup st.makes]
    ELSE [so EXCEPT !.failed = @ \cup {k}]

(* The recursion of Outcome, up to one of the statements. *)
Replaying(h, s, n) ==
  /\ h[0] = [have |-> {}, failed |-> {}]
  /\ \A j \in 1..n : h[j] = Replayed(h[j - 1], s[j], j)

LEMMA ReplayingExists ==
  ASSUME NEW s, NEW n \in Nat
  PROVE  \E h : h = [j \in 0..n |-> h[j]] /\ Replaying(h, s, n)
  <1> DEFINE P(m) == \E h : h = [j \in 0..m |-> h[j]] /\ Replaying(h, s, m)
             T == {m \in Nat : P(m)}
  <1>1. 0 \in T
    <2> DEFINE h == [j \in 0..0 |-> [have |-> {}, failed |-> {}]]
    <2>1. h = [j \in 0..0 |-> h[j]] /\ h[0] = [have |-> {}, failed |-> {}]
      OBVIOUS
    <2> HIDE DEF h
    <2>2. Replaying(h, s, 0)
      BY <2>1 DEF Replaying
    <2> QED
      BY <2>1, <2>2
  <1>2. ASSUME NEW m \in Nat, m \in T PROVE m + 1 \in T
    <2>1. PICK g : g = [j \in 0..m |-> g[j]] /\ Replaying(g, s, m)
      BY <1>2
    <2> DEFINE last == Replayed(g[m], s[m + 1], m + 1)
               h == [j \in 0..(m + 1) |-> IF j = m + 1 THEN last ELSE g[j]]
    <2> HIDE DEF last
    <2>2. /\ h = [j \in 0..(m + 1) |-> h[j]]
          /\ h[m + 1] = last /\ \A j \in 0..m : h[j] = g[j]
      OBVIOUS
    <2> HIDE DEF h
    <2>3. Replaying(h, s, m + 1)
      <3>1. h[0] = [have |-> {}, failed |-> {}]
        <4>1. 0 \in 0..m
          OBVIOUS
        <4> QED
          BY <2>1, <2>2, <4>1 DEF Replaying
      <3>2. ASSUME NEW j \in 1..(m + 1) PROVE h[j] = Replayed(h[j - 1], s[j], j)
        <4>1. CASE j = m + 1
          <5>1. j - 1 = m /\ m \in 0..m
            BY <4>1
          <5>2. h[j - 1] = g[j - 1] /\ h[j] = last
            BY <2>2, <4>1, <5>1
          <5> QED
            BY <4>1, <5>1, <5>2 DEF last
        <4>2. CASE j # m + 1
          <5>1. j \in 1..m /\ j \in 0..m /\ j - 1 \in 0..m
            BY <4>2
          <5>2. h[j] = g[j] /\ h[j - 1] = g[j - 1]
            BY <2>2, <5>1
          <5> QED
            BY <2>1, <5>1, <5>2 DEF Replaying
        <4> QED
          BY <4>1, <4>2
      <3> QED
        BY <3>1, <3>2 DEF Replaying
    <2>4. P(m + 1)
      BY <2>2, <2>3
    <2> QED
      BY <2>4
  <1>3. Nat \subseteq T
    <2> HIDE DEF T
    <2> QED
      BY <1>1, <1>2, Induction
  <1> QED
    BY <1>3

LEMMA OutcomeIs ==
  ASSUME Len(script) \in Nat
  PROVE  \E h : Outcome = h[Len(script)] /\ Replaying(h, script, Len(script))
  <1> DEFINE n == Len(script)
             Rec(g) == [k \in 0..n |->
               IF k = 0 THEN [have |-> {}, failed |-> {}]
               ELSE LET st == script[k]  so == g[k - 1] IN
                    IF st.needs \subseteq so.have /\ st.makes \cap so.have = {}
                      THEN [so EXCEPT !.have = @ \cup st.makes]
                      ELSE [so EXCEPT !.failed = @ \cup {k}]]
             f == CHOOSE g : g = Rec(g)
  <1>1. Outcome = f[n]
    BY DEF Outcome
  <1>2. PICK h : h = [j \in 0..n |-> h[j]] /\ Replaying(h, script, n)
    BY ReplayingExists
  <1>3. ASSUME NEW g
        PROVE  Rec(g) = [k \in 0..n |-> IF k = 0 THEN [have |-> {}, failed |-> {}]
                                        ELSE Replayed(g[k - 1], script[k], k)]
    BY DEF Replayed
  <1>4. h = Rec(h)
    <2>1. \A j \in 0..n : h[j] = IF j = 0 THEN [have |-> {}, failed |-> {}]
                                 ELSE Replayed(h[j - 1], script[j], j)
      <3> SUFFICES ASSUME NEW j \in 0..n
                   PROVE  h[j] = IF j = 0 THEN [have |-> {}, failed |-> {}]
                                 ELSE Replayed(h[j - 1], script[j], j)
        OBVIOUS
      <3>1. j = 0 \/ j \in 1..n
        OBVIOUS
      <3> HIDE DEF n
      <3> QED
        BY <1>2, <3>1 DEF Replaying
    <2> HIDE DEF Rec
    <2>2. h = [k \in 0..n |-> IF k = 0 THEN [have |-> {}, failed |-> {}]
                              ELSE Replayed(h[k - 1], script[k], k)]
      BY <1>2, <2>1
    <2> QED
      BY <1>3, <2>2, Zenon
  <1>5. f = Rec(f)
    <2> HIDE DEF Rec
    <2> QED
      BY <1>4
  <1> HIDE DEF f, Rec
  <1>6. f = [k \in 0..n |-> IF k = 0 THEN [have |-> {}, failed |-> {}]
                            ELSE Replayed(f[k - 1], script[k], k)]
    BY <1>3, <1>5, Zenon
  <1>7. Replaying(f, script, n)
    <2>1. \A j \in 0..n : f[j] = IF j = 0 THEN [have |-> {}, failed |-> {}]
                                 ELSE Replayed(f[j - 1], script[j], j)
      BY <1>6
    <2>2. 0 \in 0..n /\ \A j \in 1..n : j \in 0..n /\ j # 0
      OBVIOUS
    <2> HIDE DEF n
    <2> QED
      BY <2>1, <2>2 DEF Replaying
  <1> QED
    BY <1>1, <1>7

(* The first k statements replayed: what is there was made by one of them, *)
(* and none of the good ones has failed.                                   *)
Replayable(so, k) ==
  /\ so = [have |-> so.have, failed |-> so.failed]
  /\ \A r \in so.have : \E l \in 1..k : r \in script[l].makes
  /\ so.failed \subseteq 1..k
  /\ \A l \in 1..k : Good(l) => l \notin so.failed /\ script[l].makes \subseteq so.have

LEMMA ReplayStep ==
  ASSUME DumpInv, Done, NEW k \in Nat, k + 1 \in DOMAIN script, NEW so, Replayable(so, k)
  PROVE  Replayable(Replayed(so, script[k + 1], k + 1), k + 1)
  <1> DEFINE st == script[k + 1]
             new == Replayed(so, st, k + 1)
  <1>1. /\ so = [have |-> so.have, failed |-> so.failed]
        /\ \A r \in so.have : \E l \in 1..k : r \in script[l].makes
        /\ so.failed \subseteq 1..k
        /\ \A l \in 1..k : Good(l) => l \notin so.failed /\ script[l].makes \subseteq so.have
    BY DEF Replayable
  <1>2. k + 1 \notin 1..k /\ 1..k \subseteq 1..(k + 1) /\ k + 1 \in 1..(k + 1)
        /\ (k + 1) - 1 = k /\ \A l \in 1..(k + 1) : l \in 1..k \/ l = k + 1
    OBVIOUS
  <1>3. CASE st.needs \subseteq so.have /\ st.makes \cap so.have = {}
    <2>1. new = [have |-> so.have \cup st.makes, failed |-> so.failed]
      <3>1. new = [so EXCEPT !.have = @ \cup st.makes]
        BY <1>3 DEF Replayed
      <3> HIDE DEF new, st
      <3> QED
        BY <1>1, <3>1
    <2> HIDE DEF new
    <2>2. new.have = so.have \cup st.makes /\ new.failed = so.failed
      BY <2>1
    <2>3. \A r \in new.have : \E l \in 1..(k + 1) : r \in script[l].makes
      BY <1>1, <1>2, <2>2
    <2>4. ASSUME NEW l \in 1..(k + 1), Good(l)
          PROVE  l \notin new.failed /\ script[l].makes \subseteq new.have
      BY <1>1, <1>2, <2>2, <2>4
    <2>5. new = [have |-> new.have, failed |-> new.failed] /\ new.failed \subseteq 1..(k + 1)
      BY <1>1, <1>2, <2>1, <2>2
    <2> QED
      BY <2>3, <2>4, <2>5 DEF Replayable, new
  <1>4. CASE ~(st.needs \subseteq so.have /\ st.makes \cap so.have = {})
    <2>1. ~Good(k + 1)
      <3> SUFFICES ASSUME Good(k + 1) PROVE FALSE
        OBVIOUS
      <3>1. ASSUME NEW r \in st.needs PROVE r \in so.have
        <4>1. Provided(k + 1, r)
          BY NeedsProvided
        <4>2. PICK l \in 1..k : Good(l) /\ r \in script[l].makes
          BY <1>2, <4>1 DEF Provided
        <4> QED
          BY <1>1, <4>2
      <3>2. ASSUME NEW r \in st.makes, r \in so.have PROVE FALSE
        <4>1. PICK l \in 1..k : r \in script[l].makes
          BY <1>1, <3>2
        <4>2. l \in 1..((k + 1) - 1)
          BY <1>2
        <4>3. script[l].makes \cap script[k + 1].makes = {}
          BY <4>2, NothingInTheWay
        <4> QED
          BY <3>2, <4>1, <4>3
      <3> QED
        BY <1>4, <3>1, <3>2
    <2>2. new = [have |-> so.have, failed |-> so.failed \cup {k + 1}]
      <3>1. new = [so EXCEPT !.failed = @ \cup {k + 1}]
        BY <1>4 DEF Replayed
      <3> HIDE DEF new, st
      <3> QED
        BY <1>1, <3>1
    <2> HIDE DEF new
    <2>3. new.have = so.have /\ new.failed = so.failed \cup {k + 1}
      BY <2>2
    <2>4. \A r \in new.have : \E l \in 1..(k + 1) : r \in script[l].makes
      BY <1>1, <1>2, <2>3
    <2>5. ASSUME NEW l \in 1..(k + 1), Good(l)
          PROVE  l \notin new.failed /\ script[l].makes \subseteq new.have
      BY <1>1, <1>2, <2>1, <2>3, <2>5
    <2>6. new = [have |-> new.have, failed |-> new.failed] /\ new.failed \subseteq 1..(k + 1)
      BY <1>1, <1>2, <2>2, <2>3
    <2> QED
      BY <2>4, <2>5, <2>6 DEF Replayable, new
  <1> QED
    BY <1>3, <1>4

(* What the script can be relied on for replays in an empty database: the  *)
(* order of the sections of dump_schema and the choice of constraints,     *)
(* indexes, sequences and views of a query fit together.                   *)
THEOREM ReliableStatementsReplay == Spec => []CoreReplays
  <1>1. ASSUME DumpInv PROVE CoreReplays
    <2> SUFFICES ASSUME Done, NEW k \in Outcome.failed, Reliable(k) PROVE FALSE
      BY DEF CoreReplays
    <2>1. Len(script) \in Nat /\ DOMAIN script = 1..Len(script)
      BY <1>1, ListElements DEF DumpInv, ScriptInv
    <2>2. PICK h : Outcome = h[Len(script)] /\ Replaying(h, script, Len(script))
      BY <2>1, OutcomeIs
    <2> DEFINE T == {m \in Nat : m <= Len(script) => Replayable(h[m], m)}
    <2>3. 0 \in T
      <3>1. h[0] = [have |-> {}, failed |-> {}]
        BY <2>2 DEF Replaying
      <3>2. h[0].have = {} /\ h[0].failed = {}
        BY <3>1
      <3>3. Replayable(h[0], 0)
        BY <3>1, <3>2 DEF Replayable
      <3> QED
        BY <3>3
    <2>4. ASSUME NEW m \in Nat, m \in T PROVE m + 1 \in T
      <3> SUFFICES ASSUME m + 1 <= Len(script) PROVE Replayable(h[m + 1], m + 1)
        OBVIOUS
      <3>1. m + 1 \in 1..Len(script) /\ m <= Len(script) /\ (m + 1) - 1 = m
        BY <2>1
      <3>2. Replayable(h[m], m)
        BY <2>4, <3>1
      <3>3. h[m + 1] = Replayed(h[m], script[m + 1], m + 1)
        BY <2>2, <3>1 DEF Replaying
      <3>4. m + 1 \in DOMAIN script
        BY <2>1, <3>1
      <3> QED
        BY <1>1, <3>2, <3>3, <3>4, ReplayStep
    <2>5. Nat \subseteq T
      <3> HIDE DEF T
      <3> QED
        BY <2>3, <2>4, Induction
    <2>6. Replayable(Outcome, Len(script))
      BY <2>1, <2>2, <2>5
    <2>7. k \in 1..Len(script) /\ Good(k)
      BY <2>6, ReliableIsGood DEF Replayable
    <2> QED
      BY <2>6, <2>7 DEF Replayable
  <1> QED
    BY <1>1, DumpInvariant, PTL

=============================================================================
