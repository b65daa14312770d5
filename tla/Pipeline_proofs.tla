--------------------------- MODULE Pipeline_proofs ---------------------------
(***************************************************************************)
(* Theorems about Pipeline and the script runner it is composed with, for  *)
(* any tables, any thread counts and any scripts.                          *)
(***************************************************************************)
EXTENDS Pipeline, FiniteSetTheorems, SequenceTheorems, WellFoundedInduction, TLAPS

-----------------------------------------------------------------------------
(* Connections.                                                            *)

(* The variables of the pool have the types the code gives them.           *)
TypeOK ==
  /\ settings \in [gen : Nat \ {0}, glob : Nat \ {0}, table : Nat \ {0}]
  /\ leaked \in Nat /\ indexFile \in BOOLEAN
  /\ loading \subseteq Tables
  /\ waiting \in [Tables -> Nat] /\ holding \in [Tables -> Nat]

(* Threads of a table's COPYs exist while the table is loaded, and no more *)
(* of them than storeTable starts.                                         *)
ThreadInv ==
  \A t \in Tables :
    /\ waiting[t] + holding[t] <= TableStores
    /\ t \notin loading => waiting[t] = 0 /\ holding[t] = 0

(* Tables are loaded in the third step of startPipeline only, and no more  *)
(* at a time than there are permits.                                       *)
LoadInv ==
  /\ Cardinality(loading) <= GlobStores
  /\ loading # {} => step = "generate"

(* Each of the two scripts keeps one connection.                           *)
LeakInv ==
  /\ leaked <= 2
  /\ step = "import" => leaked = 0
  /\ step \in {"schema", "generate", "indexes"} => leaked = 1

PoolInv == TypeOK /\ ThreadInv /\ LoadInv /\ LeakInv

LEMMA PoolInit == Init => PoolInv
<1> SUFFICES ASSUME Init PROVE PoolInv
  OBVIOUS
<1>1. TypeOK BY PipelineAssumption DEF Init, TypeOK
<1>2. ThreadInv BY <1>1 DEF Init, TypeOK, ThreadInv, TableStores
<1>3. LoadInv BY <1>1, FS_EmptySet DEF Init, TypeOK, LoadInv, GlobStores
<1>4. LeakInv BY DEF Init, LeakInv
<1> QED BY <1>1, <1>2, <1>3, <1>4 DEF PoolInv

(* Steps of main that leave the tables alone.                              *)
LEMMA PoolMain ==
  ASSUME PoolInv, MainStep \/ UNCHANGED vars
  PROVE  PoolInv'
<1> USE DEF PoolInv
<1>1. UNCHANGED <<settings, indexFile, loading, waiting, holding>>
  BY DEF MainStep, Import, RunScript, ScriptFails, Statistics, GenerateEnds, Indexes,
         IndexesBuilt, Reload, Analyze, TimeOut, vars, tableVars
<1>2. leaked' \in Nat /\ LeakInv'
  BY DEF MainStep, Import, RunScript, ScriptFails, Statistics, GenerateEnds, Indexes,
         IndexesBuilt, Reload, Analyze, TimeOut, vars, tableVars, LeakInv, TypeOK
<1>3. loading # {} => step' = "generate"
  BY DEF MainStep, Import, RunScript, ScriptFails, Statistics, GenerateEnds, Indexes,
         IndexesBuilt, Reload, Analyze, TimeOut, vars, tableVars, LoadInv
<1>4. TypeOK' BY <1>1, <1>2 DEF TypeOK
<1>5. ThreadInv' BY <1>1 DEF ThreadInv, TableStores
<1>6. LoadInv' BY <1>1, <1>3 DEF LoadInv, GlobStores
<1> QED BY <1>2, <1>4, <1>5, <1>6

LEMMA PoolTable ==
  ASSUME PoolInv, NEW t \in Tables, TableStep(t)
  PROVE  PoolInv'
<1> USE DEF PoolInv
<1>1. IsFiniteSet(loading)
  BY PipelineAssumption, FS_Subset DEF TypeOK
<1>2. UNCHANGED <<settings, indexFile, step, leaked>>
  BY DEF TableStep, StartTable, StartStore, Borrow, TryAgain, EndCopy, FinishTable
<1>3. LeakInv' BY <1>2 DEF LeakInv
<1>4. CASE StartTable(t)
  <2>1. loading' = loading \cup {t} /\ UNCHANGED <<waiting, holding>> /\ step = "generate"
    BY <1>4 DEF StartTable
  <2>2. Cardinality(loading) \in Nat /\ Cardinality(loading) < GlobStores
    BY <1>1, <1>4, FS_CardinalityType DEF StartTable
  <2>3. Cardinality(loading') <= GlobStores'
    <3>1. Cardinality(loading \cup {t}) \in {Cardinality(loading), Cardinality(loading) + 1}
      BY <1>1, FS_AddElement
    <3>2. GlobStores \in Nat /\ GlobStores' = GlobStores BY <1>2 DEF TypeOK, GlobStores
    <3> QED BY <2>1, <2>2, <3>1, <3>2
  <2>4. TypeOK' BY <1>2, <2>1 DEF TypeOK
  <2>5. ThreadInv' BY <1>2, <2>1 DEF ThreadInv, TableStores
  <2>6. LoadInv' BY <1>2, <2>1, <2>3 DEF LoadInv, GlobStores
  <2> QED BY <1>3, <2>4, <2>5, <2>6
<1>5. CASE FinishTable(t)
  <2>1. loading' = loading \ {t} /\ UNCHANGED <<waiting, holding>>
        /\ waiting[t] = 0 /\ holding[t] = 0
    BY <1>5 DEF FinishTable
  <2>2. Cardinality(loading') <= Cardinality(loading)
    BY <1>1, <2>1, FS_Subset
  <2>3. Cardinality(loading) \in Nat /\ Cardinality(loading') \in Nat
    BY <1>1, <2>1, FS_CardinalityType, FS_Subset
  <2>4. TypeOK' BY <1>2, <2>1 DEF TypeOK
  <2>5. ThreadInv' BY <1>2, <2>1 DEF ThreadInv, TableStores
  <2>6. LoadInv' BY <1>2, <2>1, <2>2, <2>3 DEF LoadInv, GlobStores, TypeOK
  <2> QED BY <1>3, <2>4, <2>5, <2>6
<1>6. CASE StartStore(t)
  <2>1. PICK n \in 1..TableStores : waiting' = [waiting EXCEPT ![t] = n]
    BY <1>6 DEF StartStore
  <2>2. UNCHANGED <<loading, holding>> /\ t \in loading /\ holding[t] = 0
    BY <1>6 DEF StartStore
  <2>3. TypeOK' BY <1>2, <2>1, <2>2 DEF TypeOK, TableStores
  <2>4. ThreadInv' BY <1>2, <2>1, <2>2 DEF ThreadInv, TypeOK, TableStores
  <2>5. LoadInv' BY <1>2, <2>2 DEF LoadInv, GlobStores
  <2> QED BY <1>3, <2>3, <2>4, <2>5
<1>7. CASE Borrow(t) \/ TryAgain(t) \/ EndCopy(t)
  <2>1. /\ waiting' \in [Tables -> Nat] /\ holding' \in [Tables -> Nat]
        /\ \A u \in Tables : waiting'[u] + holding'[u] <= waiting[u] + holding[u]
        /\ waiting[t] + holding[t] > 0
        /\ \A u \in Tables \ {t} : waiting'[u] = waiting[u] /\ holding'[u] = holding[u]
    BY <1>7 DEF Borrow, TryAgain, EndCopy, TypeOK
  <2>2. loading' = loading BY <1>7 DEF Borrow, TryAgain, EndCopy
  <2>3. t \in loading BY <2>1 DEF ThreadInv, TypeOK
  <2>4. TypeOK' BY <1>2, <2>1, <2>2 DEF TypeOK
  <2>5. ThreadInv' BY <1>2, <2>1, <2>2, <2>3 DEF ThreadInv, TypeOK, TableStores
  <2>6. LoadInv' BY <1>2, <2>2 DEF LoadInv, GlobStores
  <2> QED BY <1>3, <2>4, <2>5, <2>6
<1> QED BY <1>4, <1>5, <1>6, <1>7 DEF TableStep

LEMMA PoolInvariant == Spec => []PoolInv
<1>1. PoolInv /\ [Next]_vars => PoolInv'
  BY PoolMain, PoolTable DEF Next
<1> QED BY PoolInit, <1>1, PTL DEF Spec

(* The state of startPipeline, of the pool and of the chunk threads keeps  *)
(* its type.                                                               *)
THEOREM TypeCorrect == Spec => []TypeOK
<1>1. PoolInv => TypeOK BY DEF PoolInv
<1> QED BY PoolInvariant, <1>1, PTL

(* A larger first factor makes a product no smaller.                       *)
LEMMA ProductGrows ==
  ASSUME NEW a \in Nat, NEW b \in Nat, NEW c \in Nat, a <= b
  PROVE  a * c \in Nat /\ b * c \in Nat /\ a * c <= b * c
<1>1. b * c = a * c + (b - a) * c OBVIOUS
<1>2. (b - a) * c \in Nat OBVIOUS
<1> QED BY <1>1, <1>2

(* The chunk threads of the tables that are loaded are pairs of a table    *)
(* and a number up to tableStoreThreads, at most one pair for each         *)
(* connection that PoolSize plans for them.                                *)
LEMMA Threads ==
  ASSUME PoolInv
  PROVE  /\ IsFiniteSet(loading \X (1..TableStores))
         /\ Cardinality(loading \X (1..TableStores)) \in Nat
         /\ Cardinality(loading \X (1..TableStores)) <= TableStores * GlobStores
         /\ Held \subseteq loading \X (1..TableStores)
<1> USE DEF PoolInv
<1>1. IsFiniteSet(loading) /\ Cardinality(loading) \in Nat
  BY PipelineAssumption, FS_Subset, FS_CardinalityType DEF TypeOK
<1>2. TableStores \in Nat /\ GlobStores \in Nat
  BY DEF TypeOK, TableStores, GlobStores
<1>3. IsFiniteSet(1..TableStores) /\ Cardinality(1..TableStores) = TableStores
  BY <1>2, FS_Interval
<1>4. /\ IsFiniteSet(loading \X (1..TableStores))
      /\ Cardinality(loading \X (1..TableStores)) = Cardinality(loading) * TableStores
  BY <1>1, <1>3, FS_Product
<1>5. Cardinality(loading) * TableStores <= GlobStores * TableStores
  BY <1>1, <1>2, ProductGrows DEF LoadInv
<1>6. GlobStores * TableStores = TableStores * GlobStores BY <1>2
<1>7. Cardinality(loading) * TableStores \in Nat BY <1>1, <1>2, ProductGrows
<1>8. ASSUME NEW h \in Held PROVE h \in loading \X (1..TableStores)
  <2>1. PICK t \in Tables : h \in {t} \X (1..holding[t]) BY DEF Held
  <2>2. holding[t] \in Nat /\ holding[t] <= TableStores
    BY <1>2 DEF TypeOK, ThreadInv
  <2>3. holding[t] # 0 BY <2>1
  <2>4. t \in loading BY <2>3 DEF ThreadInv
  <2> QED BY <2>1, <2>2, <2>4, <1>2
<1> QED BY <1>4, <1>5, <1>6, <1>7, <1>8

LEMMA EnoughConnections == PoolInv => CopyNeverWaits
<1> SUFFICES ASSUME PoolInv PROVE CopyNeverWaits
  OBVIOUS
<1> DEFINE all == loading \X (1..TableStores)
<1>1. /\ IsFiniteSet(all) /\ Cardinality(all) \in Nat
      /\ Cardinality(all) <= TableStores * GlobStores /\ Held \subseteq all
  BY Threads
<1>2. IsFiniteSet(Held) /\ Cardinality(Held) \in Nat /\ Cardinality(Held) <= Cardinality(all)
  BY <1>1, FS_Subset, FS_CardinalityType
<1>3. /\ TableStores \in Nat \ {0} /\ GlobStores \in Nat \ {0} /\ GenThreads \in Nat \ {0}
      /\ TableStores * GlobStores \in Nat \ {0}
  BY DEF PoolInv, TypeOK, TableStores, GlobStores, GenThreads
<1>4. leaked \in Nat /\ leaked <= 2 BY DEF PoolInv, TypeOK, LeakInv
<1>5. ASSUME loading # {} PROVE leaked = 1
  BY <1>5 DEF PoolInv, LoadInv, LeakInv
<1>6. Free >= 0
  <2>1. CASE loading = {}
    <3>1. Held = {} BY <2>1, <1>1
    <3>2. Cardinality(Held) = 0 BY <3>1, FS_EmptySet
    <3> HIDE DEF all
    <3> DEFINE p == TableStores * GlobStores
    <3>3. p \in Nat \ {0} /\ PoolSize = GenThreads + p BY <1>3 DEF PoolSize
    <3> HIDE DEF p
    <3> QED BY <3>2, <3>3, <1>3, <1>4 DEF Free
  <2>2. CASE loading # {}
    <3> HIDE DEF all
    <3> DEFINE p == TableStores * GlobStores
    <3>3. p \in Nat \ {0} /\ PoolSize = GenThreads + p /\ Cardinality(all) <= p
      BY <1>1, <1>3 DEF PoolSize
    <3> HIDE DEF p
    <3> QED BY <3>3, <1>1, <1>2, <1>3, <1>5, <2>2 DEF Free
  <2> QED BY <2>1, <2>2
<1>7. ASSUME NEW t \in Tables, waiting[t] > 0 PROVE Free > 0
  <2>1. t \in loading BY <1>7 DEF PoolInv, ThreadInv
  <2>2. <<t, TableStores>> \in all BY <2>1, <1>3
  <2>3. <<t, TableStores>> \notin Held
    <3> SUFFICES ASSUME NEW u \in Tables, <<t, TableStores>> \in {u} \X (1..holding[u])
                 PROVE  FALSE
      BY DEF Held
    <3>1. u = t /\ TableStores <= holding[t] BY <1>3
    <3> QED BY <3>1, <1>3, <1>7 DEF PoolInv, ThreadInv, TypeOK
  <2>4. Cardinality(Held) # Cardinality(all)
    BY <1>1, <2>2, <2>3, FS_Subset
  <2>5. leaked = 1 BY <2>1, <1>5
  <2> HIDE DEF all
  <2> DEFINE p == TableStores * GlobStores
  <2>6. p \in Nat \ {0} /\ PoolSize = GenThreads + p /\ Cardinality(all) <= p
    BY <1>1, <1>3 DEF PoolSize
  <2> HIDE DEF p
  <2> QED BY <2>4, <2>5, <2>6, <1>1, <1>2, <1>3 DEF Free
<1> QED BY <1>6, <1>7 DEF CopyNeverWaits

(* A COPY never waits for a connection, whatever the thread counts and the *)
(* number of tables: the pool covers import's connection and a chunk       *)
(* thread for every permit.                                                *)
THEOREM CopiesFindConnections == Spec => []CopyNeverWaits
BY PoolInvariant, EnoughConnections, PTL

-----------------------------------------------------------------------------
(* Scripts.                                                                *)

Ordered(d) == \A i, j \in DOMAIN d : i < j => Before(d[i], d[j])

(* The statement t has been executed whole; it stands in d unless it       *)
(* names an undefined table.                                               *)
Settled(t, n, d) ==
  /\ LinesOf(t) \subseteq 1..n
  /\ t \notin Broken
  /\ t \in ToSet(d) <=> script.result[t] = "ok"

(* The builder holds, in order, lines of one statement, none of which ends *)
(* with a semicolon.                                                       *)
OneOpen(q) ==
  /\ \A i, j \in DOMAIN q : i < j => q[i] < q[j]
  /\ \A i, j \in DOMAIN q : Line(q[i]).of = Line(q[j]).of
  /\ \A i \in DOMAIN q : ~IsComment(q[i]) /\ ~Line(q[i]).ends

(* What is true after n lines of a tidy script, with q in the builder and  *)
(* d executed: the builder has all lines read of its statement, and the    *)
(* statements of the other lines are settled.                              *)
TidySoFar(n, q, d) ==
  /\ d \in Seq(Statements)
  /\ OneOpen(q)
  /\ \A i \in DOMAIN q : \A k \in LinesOf(Line(q[i]).of) : k <= n => k \in ToSet(q)
  /\ \A k \in 1..n : ~IsComment(k) => k \in ToSet(q) \/ Settled(Line(k).of, n, d)
  /\ \A t \in ToSet(d) : LinesOf(t) \subseteq 1..n
  /\ Ordered(d)
Reading(n, q, d) ==
  /\ n \in 0..Len(script.lines)
  /\ q \in Seq(1..n)
  /\ Tidy => TidySoFar(n, q, d)

IsScript == script \in Scripts \cup {NoFile}
ScriptInv ==
  /\ IsScript
  /\ runner = "reading" => Reading(at, query, applied)
  /\ ScriptApplied

LEMMA Shape ==
  ASSUME IsScript
  PROVE  /\ Len(script.lines) \in Nat /\ DOMAIN script.lines = 1..Len(script.lines)
         /\ None \notin DOMAIN script.result
         /\ \A k \in 1..Len(script.lines) : Line(k).of \in DOMAIN script.result \cup {None}
         /\ \A j, k, l \in 1..Len(script.lines) :
              j < k /\ k < l /\ Line(j).of = Line(l).of /\ ~IsComment(j)
                => IsComment(k) \/ Line(k).of = Line(j).of
         /\ \A s : LinesOf(s) \subseteq 1..Len(script.lines)
         /\ \A s \in Statements : LinesOf(s) # {} /\ s # None
<1>1. CASE script = NoFile
  <2>1. script.lines = <<>> /\ script.result = <<>> BY <1>1 DEF NoFile
  <2>2. Len(script.lines) = 0 /\ DOMAIN script.lines = {} /\ DOMAIN script.result = {}
    BY <2>1
  <2> QED BY <2>2 DEF LinesOf, Statements
<1>2. CASE script \in Scripts
  <2>1. /\ None \notin DOMAIN script.result
        /\ script.lines \in Seq([of : DOMAIN script.result \cup {None},
                                 ends : BOOLEAN, tail : BOOLEAN])
    BY <1>2, ScriptsAssumption
  <2>2. Len(script.lines) \in Nat /\ DOMAIN script.lines = 1..Len(script.lines)
    BY <2>1, LenProperties
  <2>3. \A k \in 1..Len(script.lines) :
           script.lines[k] \in [of : DOMAIN script.result \cup {None},
                                ends : BOOLEAN, tail : BOOLEAN]
    BY <2>1, ElementOfSeq
  <2>4. \A j, k, l \in 1..Len(script.lines) :
           j < k /\ k < l /\ Line(j).of = Line(l).of /\ ~IsComment(j)
             => IsComment(k) \/ Line(k).of = Line(j).of
    BY <1>2, <2>2, ScriptsAssumption DEF Line, IsComment
  <2> QED BY <2>1, <2>2, <2>3, <2>4 DEF Line, LinesOf, Statements
<1> QED BY <1>1, <1>2 DEF IsScript

(* Of two statements, one with all its lines among the first n and another *)
(* with a line after them: the first is before the second, and the same if *)
(* the second has line n itself.                                           *)
LEMMA EarlierIsBefore ==
  ASSUME IsScript, NEW n \in Nat, NEW s, NEW t,
         s # None, t # None, s # t, LinesOf(t) \subseteq 1..n,
         NEW m \in LinesOf(s), n <= m
  PROVE  Before(t, s)
<1> SUFFICES ASSUME NEW k \in LinesOf(t), NEW l \in LinesOf(s), ~(k < l)
             PROVE  FALSE
  BY DEF Before
<1>1. /\ k \in 1..Len(script.lines) /\ l \in 1..Len(script.lines)
      /\ m \in 1..Len(script.lines) /\ Len(script.lines) \in Nat
  BY Shape
<1>2. Line(k).of = t /\ Line(l).of = s /\ Line(m).of = s BY DEF LinesOf
<1>3. l < k /\ k < m BY <1>1, <1>2
<1>4. ~IsComment(l) /\ ~IsComment(k) BY <1>2 DEF IsComment
<1> QED BY <1>1, <1>2, <1>3, <1>4, Shape

LEMMA InSet == ASSUME NEW S, NEW q \in Seq(S)
               PROVE  /\ \A x : x \in ToSet(q) <=> \E i \in 1..Len(q) : q[i] = x
                      /\ Len(q) \in Nat /\ DOMAIN q = 1..Len(q)
                      /\ \A i \in 1..Len(q) : q[i] \in S
BY LenProperties DEF ToSet

(* A line that is neither a comment nor of a settled statement belongs to  *)
(* the statement whose lines are in the builder.                           *)
LEMMA OneStatement ==
  ASSUME IsScript, NEW n, NEW q, NEW d, Reading(n, q, d), Tidy,
         n < Len(script.lines), ~IsComment(n + 1), NEW s, s = Line(n + 1).of
  PROVE  /\ \A i \in DOMAIN q : Line(q[i]).of = s
         /\ \A k \in LinesOf(s) : k <= n => k \in ToSet(q)
         /\ \A k \in 1..n : ~IsComment(k) /\ Line(k).of # s => Settled(Line(k).of, n, d)
         /\ s \notin ToSet(d) /\ s \in Statements /\ s # None
         /\ n + 1 \in LinesOf(s)
         /\ \A t \in ToSet(d) : t # s /\ Before(t, s)
<1>1. /\ Len(script.lines) \in Nat /\ n \in 0..Len(script.lines)
      /\ DOMAIN script.lines = 1..Len(script.lines) /\ TidySoFar(n, q, d) /\ q \in Seq(1..n)
  BY Shape DEF Reading
<1>2. n + 1 \in 1..Len(script.lines) /\ n \in Nat BY <1>1
<1>3. s # None /\ n + 1 \in LinesOf(s) /\ s \in Statements
  BY <1>1, <1>2 DEF IsComment, LinesOf, Statements, Line
<1>4. ~(LinesOf(s) \subseteq 1..n) BY <1>2, <1>3
<1>5. ~Settled(s, n, d) BY <1>4 DEF Settled
<1>6. ASSUME NEW k \in LinesOf(s), k <= n PROVE k \in ToSet(q)
  <2>1. k \in 1..n /\ Line(k).of = s /\ ~IsComment(k)
    BY <1>2, <1>3, <1>6, Shape DEF LinesOf, IsComment
  <2> QED BY <2>1, <1>1, <1>5 DEF TidySoFar
<1>7. ASSUME NEW i \in DOMAIN q PROVE Line(q[i]).of = s
  <2> SUFFICES ASSUME Line(q[i]).of # s PROVE FALSE
    OBVIOUS
  <2> DEFINE l == q[Len(q)]  u == Line(q[i]).of
  <2>1. /\ Len(q) \in Nat /\ i \in 1..Len(q) /\ Len(q) \in DOMAIN q /\ l \in 1..n
        /\ q[i] \in 1..n
    BY <1>1, InSet
  <2>2. Line(l).of = u /\ ~IsComment(l) /\ ~Line(l).ends /\ u # None
    BY <1>1, <2>1 DEF TidySoFar, OneOpen, IsComment
  <2>3. \A j \in DOMAIN q : q[j] <= l
    <3> SUFFICES ASSUME NEW j \in DOMAIN q, j # Len(q) PROVE q[j] <= l
      BY <2>1
    <3>1. j \in 1..Len(q) /\ q[j] \in 1..n BY <1>1, InSet
    <3>2. j < Len(q) BY <2>1, <3>1
    <3>3. q[j] < l BY <1>1, <2>1, <3>2 DEF TidySoFar, OneOpen
    <3> QED BY <3>1, <3>3, <2>1, <1>2
  <2>4. l \in 1..Len(script.lines) /\ l \in LinesOf(u) BY <1>1, <2>1, <2>2 DEF LinesOf
  <2>5. PICK m \in LinesOf(u) : ~(m <= l)
    BY <1>1, <2>1, <2>2, <2>4 DEF Tidy
  <2>6. m \in 1..Len(script.lines) /\ Line(m).of = u BY Shape DEF LinesOf
  <2>7. CASE m <= n
    <3>1. m \in ToSet(q) BY <1>1, <2>1, <2>2, <2>7 DEF TidySoFar
    <3>2. PICK j \in DOMAIN q : q[j] = m BY <1>1, <3>1, InSet
    <3> QED BY <3>2, <2>3, <2>5
  <2>8. CASE n < m
    <3>1. m # n + 1 BY <2>6
    <3>2. l < n + 1 /\ n + 1 < m BY <2>1, <2>6, <2>8, <3>1, <1>2
    <3> QED BY <3>2, <2>2, <2>4, <2>6, <1>2, Shape
  <2> QED BY <2>7, <2>8, <2>6, <1>2
<1>8. ASSUME NEW k \in 1..n, ~IsComment(k), Line(k).of # s
      PROVE  Settled(Line(k).of, n, d)
  <2>1. k \notin ToSet(q) BY <1>1, <1>7, <1>8, InSet
  <2> QED BY <1>1, <1>8, <2>1 DEF TidySoFar
<1>9. ASSUME NEW t \in ToSet(d) PROVE t # s /\ Before(t, s)
  <2>1. LinesOf(t) \subseteq 1..n /\ t \in Statements
    BY <1>1, InSet DEF TidySoFar
  <2>2. t # s BY <2>1, <1>4
  <2>3. t # None BY <2>1, Shape
  <2>4. n <= n + 1 BY <1>2
  <2> QED BY <1>2, <1>3, <2>1, <2>2, <2>3, <2>4, EarlierIsBefore
<1> QED BY <1>3, <1>6, <1>7, <1>8, <1>9

(* Natural numbers: the least of a set of them, and induction.             *)
LEMMA Least ==
  ASSUME NEW T, T \subseteq Nat, T # {}
  PROVE  \E x \in T : \A y \in T : x <= y
<1> DEFINE R == OpToRel(<, Nat)
<1>1. IsWellFoundedOn(R, Nat) BY NatLessThanWellFounded
<1>2. \A x, y \in Nat : <<x, y>> \in R <=> x < y BY DEF OpToRel
<1> HIDE DEF R
<1>3. PICK x \in T : \A y \in T : ~(<<y, x>> \in R) BY <1>1, WFMin
<1>4. \A y \in T : ~(y < x) BY <1>3, <1>2
<1> QED BY <1>4

LEMMA Induction ==
  ASSUME NEW S, 0 \in S, \A n \in Nat : n \in S => n + 1 \in S
  PROVE  Nat \subseteq S
<1> DEFINE T == Nat \ S
<1> SUFFICES ASSUME T # {} PROVE FALSE
  OBVIOUS
<1>1. PICK x \in T : \A y \in T : x <= y
  <2>1. T \subseteq Nat OBVIOUS
  <2> HIDE DEF T
  <2> QED BY <2>1, Least
<1>2. x \in Nat /\ x \notin S /\ x # 0 BY <1>1
<1>3. x - 1 \in Nat /\ x - 1 \in S BY <1>1, <1>2
<1>4. (x - 1) + 1 \in S BY <1>3
<1> QED BY <1>4, <1>2

(* What a call holds if its lines are of one statement.                    *)
LEMMA CalledOne ==
  ASSUME IsScript, Tidy, NEW lines \in Seq(1..Len(script.lines)), lines # <<>>,
         NEW s, s # None, \A i \in DOMAIN lines : Line(lines[i]).of = s
  PROVE  Text(lines) = lines /\ Called(lines) = <<s>>
<1>1. /\ Len(lines) \in Nat \ {0} /\ DOMAIN lines = 1..Len(lines)
      /\ \A i \in 1..Len(lines) : lines[i] \in DOMAIN script.lines
  BY InSet, EmptySeq, Shape
<1>2. \A i \in DOMAIN lines : ~Line(lines[i]).tail BY <1>1 DEF Tidy
<1>3. Text(lines) = lines
  <2>1. {i \in DOMAIN lines : Line(lines[i]).tail} = {} BY <1>2
  <2> QED BY <2>1 DEF Text
<1> DEFINE text == Text(lines)
           Rec(g) == [i \in 0..Len(text) |->
                        IF i = 0 THEN <<>>
                        ELSE IF i > 1 /\ Line(text[i]).of = Line(text[i - 1]).of THEN g[i - 1]
                        ELSE Append(g[i - 1], Line(text[i]).of)]
           f == CHOOSE g : g = Rec(g)
           h == [i \in 0..Len(text) |-> IF i = 0 THEN <<>> ELSE <<s>>]
<1>4. Called(lines) = f[Len(text)] BY DEF Called
<1>5. h = Rec(h)
  <2> SUFFICES ASSUME NEW i \in 0..Len(text) PROVE h[i] = Rec(h)[i]
    OBVIOUS
  <2>1. CASE i = 0 BY <2>1
  <2>2. CASE i = 1
    <3>1. h[i] = <<s>> /\ h[i - 1] = <<>> BY <2>2, <1>1, <1>3
    <3>2. Rec(h)[i] = Append(h[i - 1], Line(text[i]).of) BY <2>2
    <3>3. Line(text[i]).of = s BY <2>2, <1>1, <1>3
    <3>4. Append(<<>>, s) = <<s>> OBVIOUS
    <3> HIDE DEF h, Rec
    <3> QED BY <3>1, <3>2, <3>3, <3>4
  <2>3. CASE i > 1
    <3>1. Line(text[i]).of = s /\ Line(text[i - 1]).of = s BY <2>3, <1>1, <1>3
    <3>2. Rec(h)[i] = h[i - 1] BY <2>3, <3>1
    <3>3. h[i - 1] = <<s>> /\ h[i] = <<s>> BY <2>3, <1>1, <1>3
    <3> QED BY <3>2, <3>3
  <2> QED BY <2>1, <2>2, <2>3, <1>1, <1>3
<1>6. f = Rec(f)
  <2> HIDE DEF Rec, h
  <2> QED BY <1>5
<1> HIDE DEF f
<1>7. \A i \in 0..Len(text) : f[i] = Rec(f)[i] BY <1>6
<1> DEFINE S == {i \in Nat : i + 1 <= Len(text) => f[i + 1] = <<s>>}
<1>8. 0 \in S
  <2>1. Line(text[1]).of = s BY <1>1, <1>3
  <2>2. f[0] = <<>> BY <1>7, <1>1, <1>3
  <2>3. f[1] = Append(f[0], Line(text[1]).of)
    <3>1. 1 \in 0..Len(text) /\ ~(1 > 1) /\ 1 # 0 /\ 1 - 1 = 0 BY <1>1, <1>3
    <3> HIDE DEF text
    <3> QED BY <1>7, <3>1
  <2>4. Append(<<>>, s) = <<s>> OBVIOUS
  <2>5. f[1] = <<s>> BY <2>1, <2>2, <2>3, <2>4
  <2> QED BY <2>5
<1>9. ASSUME NEW i \in Nat, i \in S PROVE i + 1 \in S
  <2> SUFFICES ASSUME (i + 1) + 1 <= Len(text) PROVE f[(i + 1) + 1] = <<s>>
    OBVIOUS
  <2>1. (i + 1) + 1 \in 0..Len(text) /\ (i + 1) + 1 > 1 /\ ((i + 1) + 1) - 1 = i + 1
    BY <1>1, <1>3
  <2>2. Line(text[(i + 1) + 1]).of = s /\ Line(text[i + 1]).of = s BY <1>1, <1>3, <2>1
  <2>3. f[(i + 1) + 1] = f[i + 1] BY <1>7, <2>1, <2>2
  <2>4. f[i + 1] = <<s>> BY <1>9, <1>1, <1>3
  <2> QED BY <2>3, <2>4
<1>10. Nat \subseteq S
  <2> HIDE DEF S
  <2> QED BY <1>8, <1>9, Induction
<1>11. Len(text) - 1 \in S /\ (Len(text) - 1) + 1 = Len(text)
  <2>1. Len(text) - 1 \in Nat /\ (Len(text) - 1) + 1 = Len(text) BY <1>1, <1>3
  <2> HIDE DEF S, text
  <2> QED BY <2>1, <1>10
<1>12. f[Len(text)] = <<s>> BY <1>11, <1>1, <1>3
<1> QED BY <1>3, <1>4, <1>12

LEMMA SkipKeeps ==
  ASSUME IsScript, NEW n, NEW q, NEW d, Reading(n, q, d),
         n < Len(script.lines), IsComment(n + 1)
  PROVE  Reading(n + 1, q, d)
<1>1. n + 1 \in 0..Len(script.lines) /\ n \in Nat /\ 1..n \subseteq 1..(n + 1)
  BY Shape DEF Reading
<1>2. q \in Seq(1..(n + 1)) BY <1>1, SeqMonotonic DEF Reading
<1>3. ASSUME Tidy PROVE TidySoFar(n + 1, q, d)
  <2>1. TidySoFar(n, q, d) BY <1>3 DEF Reading
  <2>2. \A k \in 1..(n + 1) : k \in 1..n \/ IsComment(k) BY <1>1
  <2>3. \A t : Settled(t, n, d) => Settled(t, n + 1, d) BY <1>1 DEF Settled
  <2>4. \A k \in 1..(n + 1) : ~IsComment(k) => k \in ToSet(q) \/ Settled(Line(k).of, n + 1, d)
    BY <2>1, <2>2, <2>3 DEF TidySoFar
  <2>5. ASSUME NEW i \in DOMAIN q, NEW k \in LinesOf(Line(q[i]).of), k <= n + 1
        PROVE  k \in ToSet(q)
    <3>1. q[i] \in 1..n /\ ~IsComment(q[i])
      BY <2>1, InSet DEF TidySoFar, OneOpen, Reading
    <3>2. k \in 1..Len(script.lines) /\ ~IsComment(k)
      BY <3>1, Shape DEF LinesOf, IsComment
    <3>3. k <= n BY <3>2, <2>5, <1>1
    <3> QED BY <3>3, <2>1 DEF TidySoFar
  <2> QED BY <2>1, <2>4, <2>5, <1>1 DEF TidySoFar
<1> QED BY <1>1, <1>2, <1>3 DEF Reading

LEMMA AppendKeeps ==
  ASSUME IsScript, NEW n, NEW q, NEW d, Reading(n, q, d),
         n < Len(script.lines), ~IsComment(n + 1), ~Line(n + 1).ends
  PROVE  Reading(n + 1, Append(q, n + 1), d)
<1> DEFINE s == Line(n + 1).of
           r == Append(q, n + 1)
<1>1. n + 1 \in 0..Len(script.lines) /\ n \in Nat /\ 1..n \subseteq 1..(n + 1)
  BY Shape DEF Reading
<1>2. q \in Seq(1..(n + 1)) BY <1>1, SeqMonotonic DEF Reading
<1>3. /\ r \in Seq(1..(n + 1)) /\ DOMAIN r = 1..(Len(q) + 1) /\ Len(q) \in Nat
      /\ \A i \in 1..Len(q) : r[i] = q[i] /\ q[i] \in 1..n
      /\ r[Len(q) + 1] = n + 1 /\ DOMAIN q = 1..Len(q)
  BY <1>1, <1>2, AppendProperties, InSet DEF Reading
<1> HIDE DEF s, r
<1>4. ASSUME Tidy PROVE TidySoFar(n + 1, r, d)
  <2>1. TidySoFar(n, q, d) BY <1>4 DEF Reading
  <2>2. /\ \A i \in DOMAIN q : Line(q[i]).of = s
        /\ \A k \in LinesOf(s) : k <= n => k \in ToSet(q)
        /\ \A k \in 1..n : ~IsComment(k) /\ Line(k).of # s => Settled(Line(k).of, n, d)
    BY <1>4, OneStatement DEF s
  <2>3. ToSet(q) \cup {n + 1} \subseteq ToSet(r) BY <1>3 DEF ToSet
  <2>4. \A i \in DOMAIN r : Line(r[i]).of = s
    BY <1>3, <2>2 DEF s
  <2>5. OneOpen(r)
    <3>1. \A i, j \in DOMAIN r : i < j => r[i] < r[j]
      <4> SUFFICES ASSUME NEW i \in DOMAIN r, NEW j \in DOMAIN r, i < j PROVE r[i] < r[j]
        OBVIOUS
      <4>1. i \in 1..Len(q) /\ r[i] = q[i] /\ q[i] \in 1..n BY <1>3
      <4>2. CASE j = Len(q) + 1 BY <4>1, <4>2, <1>3, <1>1
      <4>3. CASE j # Len(q) + 1
        <5>1. j \in 1..Len(q) BY <4>3, <1>3
        <5> QED BY <5>1, <4>1, <1>3, <2>1 DEF TidySoFar, OneOpen
      <4> QED BY <4>2, <4>3
    <3>2. ASSUME NEW i \in DOMAIN r PROVE ~IsComment(r[i]) /\ ~Line(r[i]).ends
      <4>1. CASE i = Len(q) + 1 BY <4>1, <1>3
      <4>2. CASE i # Len(q) + 1
        <5>1. i \in 1..Len(q) BY <4>2, <1>3
        <5> QED BY <5>1, <1>3, <2>1 DEF TidySoFar, OneOpen
      <4> QED BY <4>1, <4>2
    <3> QED BY <3>1, <3>2, <2>4 DEF OneOpen
  <2>6. ASSUME NEW k \in LinesOf(s), k <= n + 1 PROVE k \in ToSet(r)
    <3>1. k \in 1..Len(script.lines) BY Shape
    <3>2. k <= n \/ k = n + 1 BY <3>1, <2>6, <1>1
    <3> QED BY <3>2, <2>2, <2>3
  <2>7. ASSUME NEW k \in 1..(n + 1), ~IsComment(k)
        PROVE  k \in ToSet(r) \/ Settled(Line(k).of, n + 1, d)
    <3>1. CASE k = n + 1 BY <3>1, <2>3
    <3>2. CASE k # n + 1
      <4>1. k \in 1..n BY <3>2, <1>1
      <4>2. k \in ToSet(q) \/ Settled(Line(k).of, n, d)
        BY <4>1, <2>1, <2>7 DEF TidySoFar
      <4> QED BY <4>2, <2>3, <1>1 DEF Settled
    <3> QED BY <3>1, <3>2
  <2> QED BY <2>1, <2>4, <2>5, <2>6, <2>7, <1>1 DEF TidySoFar
<1> QED BY <1>1, <1>3, <1>4 DEF Reading, r

(* What is executed at the end of a call, and what the server makes of it: *)
(* it goes on iff the statement is not one the import stops at.            *)
LEMMA CallOfOne ==
  ASSUME IsScript, NEW n, NEW q, NEW d, Reading(n, q, d), Tidy,
         n < Len(script.lines), ~IsComment(n + 1), Line(n + 1).ends,
         NEW s, s = Line(n + 1).of
  PROVE  /\ Called(Append(q, n + 1)) = <<s>>
         /\ Verdict(Append(q, n + 1)) \in {"ok", "42P01"} <=> s \notin Broken
         /\ Verdict(Append(q, n + 1)) \in {"ok", "42P01"} =>
              /\ LinesOf(s) \subseteq 1..(n + 1)
              /\ Verdict(Append(q, n + 1)) = script.result[s]
<1> DEFINE r == Append(q, n + 1)
<1>1. n + 1 \in 1..Len(script.lines) /\ n \in Nat /\ Len(script.lines) \in Nat
  BY Shape DEF Reading
<1>2. q \in Seq(1..Len(script.lines)) BY <1>1, SeqMonotonic DEF Reading
<1>3. /\ r \in Seq(1..Len(script.lines)) /\ r # <<>> /\ Len(q) \in Nat
      /\ DOMAIN r = 1..(Len(q) + 1) /\ r[Len(q) + 1] = n + 1
      /\ \A i \in 1..Len(q) : r[i] = q[i] /\ q[i] \in 1..n
      /\ DOMAIN q = 1..Len(q)
  BY <1>1, <1>2, AppendProperties, InSet DEF Reading
<1> HIDE DEF r
<1>4. /\ \A i \in DOMAIN q : Line(q[i]).of = s
      /\ \A k \in LinesOf(s) : k <= n => k \in ToSet(q)
      /\ s \in Statements /\ s # None /\ n + 1 \in LinesOf(s)
  BY OneStatement
<1>5. TidySoFar(n, q, d) BY DEF Reading
<1>6. \A i \in DOMAIN r : Line(r[i]).of = s BY <1>3, <1>4
<1>7. Text(r) = r /\ Called(r) = <<s>> BY <1>3, <1>4, <1>6, CalledOne
<1>8. ToSet(Called(r)) = {s} /\ DOMAIN Called(r) = {1} /\ Called(r)[1] = s
  <2>1. DOMAIN <<s>> = {1} /\ <<s>>[1] = s OBVIOUS
  <2> QED BY <2>1, <1>7 DEF ToSet
<1>9. ToSet(r) \subseteq 1..(n + 1)
  BY <1>3, <1>1 DEF ToSet
<1>10. \A k \in LinesOf(s) : k <= n + 1 => k \in ToSet(r)
  <2>1. ToSet(q) \cup {n + 1} \subseteq ToSet(r) BY <1>3 DEF ToSet
  <2>2. \A k \in LinesOf(s) : k \in 1..Len(script.lines) BY Shape
  <2> QED BY <2>1, <2>2, <1>1, <1>4
<1>11. Whole(r) <=> LinesOf(s) \subseteq ToSet(r) BY <1>7, <1>8 DEF Whole
<1>12. ASSUME ~Whole(r) PROVE s \in Broken /\ Verdict(r) = "other"
  <2>1. PICK l \in LinesOf(s) : l \notin ToSet(r) BY <1>11, <1>12
  <2>2. l \in 1..Len(script.lines) BY Shape
  <2>3. n + 1 < l BY <2>1, <2>2, <1>1, <1>10
  <2> QED BY <2>3, <1>4, <1>12 DEF Broken, Verdict
<1>13. ASSUME Whole(r)
       PROVE  /\ LinesOf(s) \subseteq 1..(n + 1) /\ Verdict(r) = script.result[s]
              /\ s \in Broken <=> script.result[s] \notin {"ok", "42P01"}
  <2>1. LinesOf(s) \subseteq 1..(n + 1) BY <1>9, <1>11, <1>13
  <2>2. Verdict(r) = script.result[s]
    <3> DEFINE result == [i \in DOMAIN Called(r) |-> script.result[Called(r)[i]]]
               failing == {i \in DOMAIN result : result[i] # "ok"}
    <3>1. Verdict(r) = IF failing = {} THEN "ok" ELSE result[Min(failing)]
      BY <1>13 DEF Verdict
    <3>2. DOMAIN result = {1} /\ result[1] = script.result[s] BY <1>8
    <3>3. CASE script.result[s] = "ok"
      <4>1. failing = {} BY <3>2, <3>3
      <4> QED BY <3>1, <3>3, <4>1
    <3>4. CASE script.result[s] # "ok"
      <4>1. failing = {1} BY <3>2, <3>4
      <4>2. Min({1}) = 1 BY DEF Min
      <4> HIDE DEF failing, result
      <4> QED BY <3>1, <3>2, <3>4, <4>1, <4>2
    <3> QED BY <3>3, <3>4
  <2>3. ~\E k, l \in LinesOf(s) : k < l /\ Line(k).ends
    <3> SUFFICES ASSUME NEW k \in LinesOf(s), NEW l \in LinesOf(s), k < l, Line(k).ends
                 PROVE  FALSE
      OBVIOUS
    <3>1. k \in 1..(n + 1) /\ l \in 1..(n + 1) BY <2>1
    <3>2. k <= n BY <3>1, <1>1
    <3>3. k \in ToSet(q) BY <3>2, <1>4
    <3>4. PICK i \in DOMAIN q : q[i] = k BY <3>3 DEF ToSet
    <3> QED BY <3>4, <1>5 DEF TidySoFar, OneOpen
  <2> QED BY <2>1, <2>2, <2>3, <1>4 DEF Broken
<1> QED BY <1>7, <1>12, <1>13 DEF r

LEMMA ExecuteKeeps ==
  ASSUME IsScript, NEW n, NEW q, NEW d, Reading(n, q, d),
         n < Len(script.lines), ~IsComment(n + 1), Line(n + 1).ends,
         NEW verdict, verdict = Verdict(Append(q, n + 1)), verdict \in {"ok", "42P01"},
         NEW e, e = IF verdict = "ok" THEN d \o Called(Append(q, n + 1)) ELSE d
  PROVE  Reading(n + 1, <<>>, e)
<1> DEFINE s == Line(n + 1).of
<1>1. n + 1 \in 0..Len(script.lines) /\ n \in Nat /\ 1..n \subseteq 1..(n + 1)
  BY Shape DEF Reading
<1>2. <<>> \in Seq(1..(n + 1)) /\ DOMAIN <<>> = {} OBVIOUS
<1>3. ASSUME Tidy PROVE TidySoFar(n + 1, <<>>, e)
  <2>1. TidySoFar(n, q, d) /\ d \in Seq(Statements) BY <1>3 DEF Reading, TidySoFar
  <2>2. /\ Called(Append(q, n + 1)) = <<s>> /\ s \notin Broken
        /\ LinesOf(s) \subseteq 1..(n + 1) /\ verdict = script.result[s]
    BY <1>3, CallOfOne
  <2>3. /\ \A k \in 1..n : ~IsComment(k) /\ Line(k).of # s => Settled(Line(k).of, n, d)
        /\ s \notin ToSet(d) /\ s \in Statements
        /\ \A t \in ToSet(d) : t # s /\ Before(t, s)
    BY <1>3, OneStatement
  <2> HIDE DEF s
  <2>4. /\ e \in Seq(Statements)
        /\ ToSet(e) = ToSet(d) \cup (IF verdict = "ok" THEN {s} ELSE {})
        /\ Ordered(e)
    <3>1. CASE verdict # "ok" BY <3>1, <2>1 DEF TidySoFar
    <3>2. CASE verdict = "ok"
      <4> DEFINE o == <<s>>
      <4>0. o \in Seq(Statements) /\ Len(o) = 1 /\ o[1] = s BY <2>3
      <4>1. e = d \o o BY <3>2, <2>2
      <4> HIDE DEF o
      <4>2. /\ e \in Seq(Statements) /\ Len(e) = Len(d) + 1
            /\ \A i \in 1..(Len(d) + 1) : e[i] = IF i <= Len(d) THEN d[i] ELSE o[i - Len(d)]
        <5>1. /\ d \o o \in Seq(Statements) /\ Len(d \o o) = Len(d) + Len(o)
              /\ \A i \in 1..(Len(d) + Len(o)) :
                   (d \o o)[i] = IF i <= Len(d) THEN d[i] ELSE o[i - Len(d)]
          BY <4>0, <2>1, ConcatProperties
        <5> QED BY <5>1, <4>0, <4>1
      <4>3. /\ Len(d) \in Nat /\ DOMAIN d = 1..Len(d) /\ DOMAIN e = 1..(Len(d) + 1)
            /\ \A i \in 1..Len(d) : e[i] = d[i]
            /\ e[Len(d) + 1] = s
        BY <4>0, <4>2, <2>1, InSet
      <4>4. ToSet(e) = ToSet(d) \cup {s}
        <5>1. \A i \in DOMAIN e : i \in DOMAIN d \/ i = Len(d) + 1 BY <4>3
        <5>2. \A i \in DOMAIN d : i \in DOMAIN e /\ e[i] = d[i] BY <4>3
        <5>3. Len(d) + 1 \in DOMAIN e BY <4>3
        <5> QED BY <5>1, <5>2, <5>3, <4>3 DEF ToSet
      <4>5. ASSUME NEW i \in DOMAIN e, NEW j \in DOMAIN e, i < j PROVE Before(e[i], e[j])
        <5>1. i \in DOMAIN d /\ e[i] = d[i] BY <4>3, <4>5
        <5>2. CASE j = Len(d) + 1
          <6>1. d[i] \in ToSet(d) BY <5>1 DEF ToSet
          <6> QED BY <5>1, <5>2, <6>1, <4>3, <2>3
        <5>3. CASE j # Len(d) + 1
          <6>1. j \in DOMAIN d /\ e[j] = d[j] BY <4>3, <5>3
          <6> QED BY <5>1, <6>1, <4>5, <2>1 DEF TidySoFar, Ordered
        <5> QED BY <5>2, <5>3
      <4> QED BY <4>2, <4>4, <4>5, <3>2 DEF Ordered
    <3> QED BY <3>1, <3>2
  <2>5. Settled(s, n + 1, e)
    BY <2>2, <2>3, <2>4 DEF Settled
  <2>6. ASSUME NEW k \in 1..(n + 1), ~IsComment(k) PROVE Settled(Line(k).of, n + 1, e)
    <3>1. CASE Line(k).of = s BY <3>1, <2>5
    <3>2. CASE Line(k).of # s
      <4>1. k \in 1..n BY <3>2, <1>1 DEF s
      <4>2. Settled(Line(k).of, n, d) BY <4>1, <3>2, <2>3, <2>6
      <4> QED BY <4>2, <3>2, <2>4, <1>1 DEF Settled
    <3> QED BY <3>1, <3>2
  <2>7. \A t \in ToSet(e) : LinesOf(t) \subseteq 1..(n + 1)
    BY <2>1, <2>2, <2>4, <1>1 DEF TidySoFar
  <2> QED BY <2>4, <2>6, <2>7, <1>2 DEF TidySoFar, OneOpen
<1> QED BY <1>1, <1>2, <1>3 DEF Reading

(* What a script leaves when the import stops at a statement ...           *)
LEMMA StopLeaves ==
  ASSUME IsScript, NEW n, NEW q, NEW d, Reading(n, q, d), Tidy,
         n < Len(script.lines), ~IsComment(n + 1), Line(n + 1).ends,
         Verdict(Append(q, n + 1)) \notin {"ok", "42P01"}
  PROVE  ToSet(d) = Due /\ Ordered(d)
<1> DEFINE s == Line(n + 1).of
<1>1. n \in Nat /\ n + 1 \in 1..Len(script.lines) /\ Len(script.lines) \in Nat
  BY Shape DEF Reading
<1>2. TidySoFar(n, q, d) /\ d \in Seq(Statements) BY DEF Reading, TidySoFar
<1>3. s \in Broken BY CallOfOne
<1>4. /\ \A k \in 1..n : ~IsComment(k) /\ Line(k).of # s => Settled(Line(k).of, n, d)
      /\ s \in Statements /\ s # None /\ n + 1 \in LinesOf(s)
      /\ \A t \in ToSet(d) : t # s /\ Before(t, s)
  BY OneStatement
<1> HIDE DEF s
<1>5. ASSUME NEW t \in ToSet(d) PROVE t \in Due
  <2>1. t \in Statements /\ t # None /\ LinesOf(t) # {} /\ t # s /\ LinesOf(t) \subseteq 1..n
    BY <1>2, <1>4, <1>5, InSet, Shape DEF TidySoFar
  <2>2. PICK k \in LinesOf(t) : TRUE BY <2>1
  <2>3. k \in 1..n /\ Line(k).of = t /\ ~IsComment(k) BY <2>1, <2>2 DEF LinesOf, IsComment
  <2>4. Settled(t, n, d) BY <2>1, <2>3, <1>4
  <2>5. ASSUME NEW u \in Broken PROVE Before(t, u)
    <3>1. CASE u = s BY <3>1, <1>4, <1>5
    <3>2. CASE u # s
      <4>1. u \in Statements /\ u # None /\ LinesOf(u) # {} BY Shape DEF Broken
      <4>2. PICK m \in LinesOf(u) : TRUE BY <4>1
      <4>3. m \in 1..Len(script.lines) /\ Line(m).of = u /\ ~IsComment(m)
        BY <4>1, Shape DEF LinesOf, IsComment
      <4>4. m \notin 1..n BY <4>3, <3>2, <1>4 DEF Settled
      <4>5. n <= m BY <4>3, <4>4, <1>1
      <4>6. u # t BY <2>4 DEF Settled
      <4> QED BY <4>1, <4>2, <4>5, <4>6, <2>1, <1>1, EarlierIsBefore
    <3> QED BY <3>1, <3>2
  <2> QED BY <2>1, <2>4, <2>5, <1>5 DEF Due, Settled
<1>6. ASSUME NEW t \in Due PROVE t \in ToSet(d)
  <2>1. t \in Statements /\ t \notin Broken /\ script.result[t] = "ok" /\ Before(t, s)
    BY <1>3 DEF Due
  <2>2. PICK k \in LinesOf(t) : TRUE BY <2>1, Shape
  <2>3. k < n + 1 BY <2>1, <1>4 DEF Before
  <2>4. k \in 1..n /\ Line(k).of = t /\ ~IsComment(k)
    BY <2>1, <2>3, <1>1, Shape DEF LinesOf, IsComment
  <2>5. Settled(t, n, d) BY <2>1, <2>4, <1>3, <1>4
  <2> QED BY <2>1, <2>5 DEF Settled
<1> QED BY <1>2, <1>5, <1>6 DEF TidySoFar

(* ... and when the import reaches the end of the file.                    *)
LEMMA EndLeaves ==
  ASSUME IsScript, NEW n, NEW q, NEW d, Reading(n, q, d), Tidy, n = Len(script.lines)
  PROVE  ToSet(d) = Due /\ Ordered(d) /\ Broken = {}
<1>1. n \in Nat /\ DOMAIN script.lines = 1..n BY Shape
<1>2. TidySoFar(n, q, d) /\ d \in Seq(Statements) /\ q \in Seq(1..n)
  BY DEF Reading, TidySoFar
<1>3. ToSet(q) = {}
  <2> SUFFICES ASSUME ToSet(q) # {} PROVE FALSE
    OBVIOUS
  <2> DEFINE l == q[Len(q)]
  <2>1. Len(q) \in Nat /\ Len(q) \in DOMAIN q /\ l \in 1..n /\ DOMAIN q = 1..Len(q)
    BY <1>2, InSet
  <2>2. ~IsComment(l) /\ ~Line(l).ends BY <2>1, <1>2 DEF TidySoFar, OneOpen
  <2>3. PICK m \in LinesOf(Line(l).of) : ~(m <= l) BY <2>1, <2>2, <1>1 DEF Tidy
  <2>4. m \in 1..n BY <1>1 DEF LinesOf
  <2>5. m \in ToSet(q) BY <2>1, <2>4, <1>2 DEF TidySoFar
  <2>6. PICK i \in DOMAIN q : q[i] = m BY <2>5 DEF ToSet
  <2>7. i = Len(q) \/ i < Len(q) BY <2>1
  <2>8. CASE i < Len(q)
    <3>1. m < l BY <2>1, <2>6, <2>8, <1>2 DEF TidySoFar, OneOpen
    <3> QED BY <3>1, <2>1, <2>3, <2>4, <1>1
  <2> QED BY <2>6, <2>7, <2>8, <2>3, <2>1, <1>1
<1>4. ASSUME NEW t \in Statements PROVE Settled(t, n, d)
  <2>1. PICK k \in LinesOf(t) : TRUE BY Shape
  <2>2. k \in 1..n /\ Line(k).of = t /\ ~IsComment(k) BY <1>1, Shape DEF LinesOf, IsComment
  <2> QED BY <2>2, <1>2, <1>3 DEF TidySoFar
<1>5. Broken = {} BY <1>4 DEF Broken, Settled
<1>6. \A t \in ToSet(d) : t \in Statements BY <1>2, InSet
<1> QED BY <1>2, <1>4, <1>5, <1>6 DEF TidySoFar, Due, Settled

LEMMA ScriptStart == Init => ScriptInv
BY DEF Init, ScriptInit, ScriptInv, IsScript, ScriptApplied

LEMMA ScriptOpens == ASSUME Open PROVE ScriptInv'
<1>1. IsScript' /\ runner' \in {"reading", "missing"}
      /\ at' = 0 /\ query' = <<>> /\ applied' = <<>>
  BY DEF Open, IsScript
<1>2. Reading(at, query, applied)'
  <2>1. Len(script.lines)' \in Nat
    <3>1. CASE script' = NoFile BY <3>1 DEF NoFile
    <3>2. CASE script' \in Scripts BY <3>2, ScriptsAssumption, LenProperties
    <3> QED BY <3>1, <3>2, <1>1 DEF IsScript
  <2>2. at' \in 0..Len(script.lines)' BY <1>1, <2>1
  <2>3. query' \in Seq(1..at') /\ applied' \in Seq(Statements)' BY <1>1
  <2>4. DOMAIN query' = {} /\ DOMAIN applied' = {} /\ 1..at' = {} BY <1>1
  <2>5. TidySoFar(at, query, applied)'
    BY <2>3, <2>4 DEF TidySoFar, OneOpen, Ordered, ToSet
  <2> QED BY <2>2, <2>3, <2>5 DEF Reading
<1>3. ScriptApplied' BY <1>1 DEF ScriptApplied
<1> QED BY <1>1, <1>2, <1>3 DEF ScriptInv

LEMMA ScriptCloses == Close => ScriptInv'
BY DEF Close, ScriptInv, IsScript, ScriptApplied

LEMMA ScriptRuns ==
  ASSUME ScriptInv, ScriptStep
  PROVE  ScriptInv'
<1>1. IsScript /\ runner = "reading" /\ Reading(at, query, applied) /\ script' = script
  BY DEF ScriptInv, ScriptStep, SkipComment, AppendLine, Execute, Eof
<1>2. IsScript' BY <1>1 DEF IsScript
<1>3. ASSUME Reading(at', query', applied') PROVE Reading(at, query, applied)'
  <2>1. /\ Tidy' = Tidy /\ Statements' = Statements /\ Broken' = Broken
        /\ \A k : Line(k)' = Line(k) /\ (IsComment(k)' <=> IsComment(k))
        /\ \A s : LinesOf(s)' = LinesOf(s)
    BY <1>1 DEF Tidy, Statements, Broken, Line, IsComment, LinesOf
  <2> QED BY <1>1, <1>3, <2>1
    DEF Reading, TidySoFar, OneOpen, Ordered, Before, Settled, ToSet
<1>4. at \in Nat /\ Len(script.lines) \in Nat BY <1>1, Shape DEF Reading
<1>5. CASE SkipComment
  <2>1. Reading(at', query', applied') BY <1>1, <1>5, SkipKeeps DEF SkipComment
  <2>2. ScriptApplied' BY <1>1, <1>5 DEF ScriptApplied, SkipComment
  <2> QED BY <1>2, <1>3, <2>1, <2>2 DEF ScriptInv
<1>6. CASE AppendLine
  <2>1. Reading(at', query', applied') BY <1>1, <1>6, AppendKeeps DEF AppendLine
  <2>2. ScriptApplied' BY <1>1, <1>6 DEF ScriptApplied, AppendLine
  <2> QED BY <1>2, <1>3, <2>1, <2>2 DEF ScriptInv
<1>7. CASE Execute
  <2> DEFINE verdict == Verdict(Append(query, at + 1))
  <2>1. /\ at < Len(script.lines) /\ ~IsComment(at + 1) /\ Line(at + 1).ends
        /\ at' = at + 1 /\ query' = <<>>
        /\ applied' = IF verdict = "ok" THEN applied \o Called(Append(query, at + 1)) ELSE applied
        /\ runner' = IF verdict \in {"ok", "42P01"} THEN "reading" ELSE "threw"
    BY <1>7 DEF Execute, Emptied, Ignored
  <2> HIDE DEF verdict
  <2>2. CASE verdict \in {"ok", "42P01"}
    <3>1. Reading(at', query', applied')
      BY <1>1, <2>1, <2>2, ExecuteKeeps DEF verdict
    <3>2. ScriptApplied' BY <2>1, <2>2 DEF ScriptApplied
    <3> QED BY <1>2, <1>3, <3>1, <3>2 DEF ScriptInv
  <2>3. CASE verdict \notin {"ok", "42P01"}
    <3>1. applied' = applied /\ runner' = "threw" BY <2>1, <2>3
    <3>2. Tidy => ToSet(applied) = Due /\ Ordered(applied)
      BY <1>1, <2>1, <2>3, StopLeaves DEF verdict
    <3>3. Tidy' = Tidy /\ Due' = Due
      BY <1>1 DEF Tidy, Due, Statements, Broken, Line, IsComment, LinesOf, Before
    <3>4. \A s, t : Before(s, t)' <=> Before(s, t) BY <1>1 DEF Before, LinesOf, Line
    <3>5. ScriptApplied' BY <3>1, <3>2, <3>3, <3>4 DEF ScriptApplied, Ordered, ToSet
    <3> QED BY <1>2, <3>1, <3>5 DEF ScriptInv
  <2> QED BY <2>2, <2>3
<1>8. CASE Eof
  <2>1. at = Len(script.lines) /\ applied' = applied /\ runner' = "ended" BY <1>8 DEF Eof
  <2>2. Tidy => ToSet(applied) = Due /\ Ordered(applied) /\ Broken = {}
    BY <1>1, <2>1, EndLeaves
  <2>3. Tidy' = Tidy /\ Due' = Due /\ Broken' = Broken
    BY <1>1 DEF Tidy, Due, Statements, Broken, Line, IsComment, LinesOf, Before
  <2>4. \A s, t : Before(s, t)' <=> Before(s, t) BY <1>1 DEF Before, LinesOf, Line
  <2>5. ScriptApplied' BY <2>1, <2>2, <2>3, <2>4 DEF ScriptApplied, Ordered, ToSet
  <2> QED BY <1>2, <2>1, <2>5 DEF ScriptInv
<1> QED BY <1>5, <1>6, <1>7, <1>8 DEF ScriptStep

LEMMA ScriptRests == ASSUME ScriptInv, UNCHANGED scriptVars PROVE ScriptInv'
<1>1. /\ script' = script /\ at' = at /\ query' = query /\ runner' = runner
      /\ applied' = applied
  BY DEF scriptVars
<1>2. /\ Tidy' = Tidy /\ Statements' = Statements /\ Broken' = Broken /\ Due' = Due
      /\ \A k : Line(k)' = Line(k) /\ (IsComment(k)' <=> IsComment(k))
      /\ \A s : LinesOf(s)' = LinesOf(s)
      /\ \A s, t : Before(s, t)' <=> Before(s, t)
  BY <1>1 DEF Tidy, Due, Statements, Broken, Line, IsComment, LinesOf, Before
<1>3. IsScript' BY <1>1 DEF ScriptInv, IsScript
<1>4. ScriptApplied' BY <1>1, <1>2 DEF ScriptInv, ScriptApplied, ToSet
<1>5. ASSUME Reading(at, query, applied) PROVE Reading(at, query, applied)'
  <2>1. Reading(at', query', applied') BY <1>1, <1>5
  <2> QED BY <1>1, <1>2, <2>1
    DEF Reading, TidySoFar, OneOpen, Ordered, Before, Settled, ToSet
<1> QED BY <1>1, <1>3, <1>4, <1>5 DEF ScriptInv

(* What the import leaves in the database is what ScriptApplied says, for  *)
(* every script, however its statements are spread over lines.             *)
THEOREM ScriptsAreApplied == Spec => []ScriptApplied
<1>1. ASSUME ScriptInv, [Next]_vars PROVE ScriptInv'
  <2>1. \/ Open \/ Close \/ ScriptStep \/ UNCHANGED scriptVars
    BY <1>1 DEF Next, vars, MainStep, Import, RunScript, ScriptFails, Statistics, GenerateEnds,
                Indexes, IndexesBuilt, Reload, Analyze, TimeOut, TableStep, StartTable,
                StartStore, Borrow, TryAgain, EndCopy, FinishTable
  <2> QED BY <2>1, <1>1, ScriptOpens, ScriptCloses, ScriptRuns, ScriptRests
<1>2. ScriptInv => ScriptApplied BY DEF ScriptInv
<1> QED BY ScriptStart, <1>1, <1>2, PTL DEF Spec
=============================================================================
