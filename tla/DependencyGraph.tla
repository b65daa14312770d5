--------------------------- MODULE DependencyGraph ---------------------------
(***************************************************************************)
(* DependencyGraph.getGenerationOrder: the levels in which the tables of   *)
(* one weakly connected component are generated.  A level is what is left  *)
(* without ungenerated parents; its tables are visited one at a time and   *)
(* lower the in-degree of the tables that reference them.                  *)
(*                                                                         *)
(* GraphInit chooses the foreign keys and the component, so one run covers *)
(* every graph of RefGraphs, with self-references and cycles.              *)
(***************************************************************************)
EXTENDS Integers, Sequences, FiniteSets

CONSTANTS
  AllTables,     \* names of the tables (allTables.keySet())
  RefGraphs   \* the sets of foreign keys, pairs <<child, parent>>

ASSUME DependencyGraphAssumption ==
  /\ IsFiniteSet(AllTables)
  /\ RefGraphs \subseteq SUBSET (AllTables \X AllTables)

VARIABLES
  refs,        \* getRefTables() of all tables, as pairs <<child, parent>>
  component,   \* the argument of getGenerationOrder
  inDegree,    \* parents of each table of the component not visited yet
  todo,        \* the tables of currentLevel still to visit
  levelTables, \* currentLevelTables: the visited ones
  nextLevel,   \* tables whose in-degree just became 0
  order        \* the levels finished so far

graphVars == <<refs, component, inDegree, todo, levelTables, nextLevel, order>>

-----------------------------------------------------------------------------

(* TableDependency.dependencies: the tables that reference t.              *)
Children(t) == {c \in AllTables : <<c, t>> \in refs}
ParentTables(t)  == {p \in AllTables : <<t, p>> \in refs}

(* getWeaklyConnectedComponents: the least nonempty sets of tables no      *)
(* foreign key leaves or enters.                                           *)
Closed(S, graph) == \A r \in graph : r[1] \in S <=> r[2] \in S
Components(graph) ==
  {S \in SUBSET AllTables :
     /\ S # {} /\ Closed(S, graph)
     /\ \A T \in SUBSET S : T # {} /\ Closed(T, graph) => T = S}

(* inDegree as getGenerationOrder counts it before the first level.        *)
DegreeOf(t) == Cardinality(ParentTables(t) \cap component)

GraphInit ==
  /\ refs \in RefGraphs
  /\ component \in Components(refs)
  /\ inDegree = [t \in component |-> DegreeOf(t)]
  /\ todo = {t \in component : inDegree[t] = 0}
  /\ levelTables = {} /\ nextLevel = {} /\ order = <<>>

(* A table whose last ungenerated parent was visited joins the next level. *)
FirstParentReleases(t) == inDegree'[t] <= 1
TestedTooEarly(t) == inDegree[t] = 0
Released(t) == inDegree'[t] = 0

(* One iteration of the for loop over the current level.                   *)
Visit(n) ==
  LET children == Children(n) \cap component IN
  /\ n \in todo
  /\ todo' = todo \ {n}
  /\ levelTables' = levelTables \cup {n}
  /\ inDegree' = [t \in component |->
                    IF t \in children THEN inDegree[t] - 1 ELSE inDegree[t]]
  /\ nextLevel' = nextLevel \cup {t \in children : Released(t)}
  /\ UNCHANGED <<refs, component, order>>

(* The end of one iteration of the while loop.                             *)
CloseInnerLevel ==
  /\ todo = {} /\ nextLevel # {}
  /\ order' = Append(order, levelTables)
  /\ todo' = nextLevel
  /\ levelTables' = {} /\ nextLevel' = {}
  /\ UNCHANGED <<refs, component, inDegree>>
CloseLevel ==
  /\ todo = {} /\ levelTables # {}
  /\ order' = Append(order, levelTables)
  /\ todo' = nextLevel
  /\ levelTables' = {} /\ nextLevel' = {}
  /\ UNCHANGED <<refs, component, inDegree>>

GraphNext == (\E n \in component : Visit(n)) \/ CloseLevel

GraphSpec == GraphInit /\ [][GraphNext]_graphVars /\ WF_graphVars(GraphNext)

-----------------------------------------------------------------------------
(* Properties.                                                             *)

Ordered == UNION {order[i] : i \in DOMAIN order}
Visited == Ordered \cup levelTables
Done    == todo = {} /\ levelTables = {}

(* Every variable keeps its range; in-degrees never drop below zero, which *)
(* would release a table for good or keep it back forever.                 *)
GraphTypeOK ==
  /\ refs \in RefGraphs
  /\ component \in SUBSET AllTables
  /\ inDegree \in [component -> Nat]
  /\ todo \in SUBSET component
  /\ levelTables \in SUBSET component
  /\ nextLevel \in SUBSET component
  /\ order \in Seq(SUBSET component)

(* Every table of a level has all its parents in earlier levels, whatever  *)
(* the foreign keys: what makes it safe to load the tables of one level at *)
(* the same time, after the levels before it.                              *)
ParentsEarlier ==
  \A i \in DOMAIN order : \A t \in order[i] : \A p \in ParentTables(t) :
     \E j \in 1..(i - 1) : p \in order[j]

(* No table is put into two levels: it would be loaded twice.              *)
NoTableTwice ==
  \A i \in DOMAIN order : \A j \in 1..(i - 1) : order[i] \cap order[j] = {}

(* No cycle of foreign keys: some table of every set has no parent in it.  *)
Acyclic ==
  \A S \in SUBSET component :
     S # {} => \E t \in S : ParentTables(t) \cap S = {}

(* Without a cycle (nor a self-reference) every table gets a level.        *)
AcyclicIsComplete == Done /\ Acyclic => Ordered = component

(* A table without a level always waits for a parent without a level: only *)
(* tables on a cycle, and those that depend on one, are lost.              *)
LostWaitsForLost ==
  Done => \A t \in component \ Ordered : ParentTables(t) \ Ordered # {}

(* The loop ends for every graph, cycles included.                         *)
OrderIsFound == <>Done
=============================================================================
