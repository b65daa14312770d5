------------------------ MODULE GenScheduler_proofs ------------------------
(***************************************************************************)
(* Proofs about GenScheduler, for any components, levels, number of pool   *)
(* threads and permits: the level barrier, the permits, the futures'       *)
(* results, and that every step is a step of OrderedLoad or stutters; and  *)
(* about DependencyGraph, which makes the levels, for every finite set of  *)
(* tables and every foreign-key graph: that they are what the assumptions  *)
(* of GenScheduler say, and that only tables that wait for a cycle are     *)
(* lost.                                                                   *)
(***************************************************************************)
EXTENDS GenScheduler, DependencyGraph, FiniteSetTheorems, TLAPS

-----------------------------------------------------------------------------
(* DependencyGraph: the levels of a component.                             *)

(* The component is closed under the foreign keys of the graph.            *)
GraphInv == Closed(component, refs)

(* The in-degree of a table counts its parents that are not visited yet.   *)
Waiting(t) == ParentTables(t) \ Visited
DegreeInv == \A t \in component : inDegree[t] = Cardinality(Waiting(t))

(* The tables that wait for nobody are the visited ones and the ones of    *)
(* the current and the next level; no table is in two of these.            *)
Front == todo \cup nextLevel \cup Visited
FrontInv == \A t \in component : t \in Front <=> Waiting(t) = {}
DisjointInv ==
  /\ todo \cap nextLevel = {} /\ todo \cap Visited = {}
  /\ nextLevel \cap Visited = {} /\ levelTables \cap Ordered = {}

(* The parents of the current level are in the levels before it, and the   *)
(* loop does not stop with a level left to visit.                          *)
LevelInv ==
  /\ \A t \in todo \cup levelTables : ParentTables(t) \subseteq Ordered
  /\ Done => nextLevel = {}

OrderIInv ==
  /\ GraphTypeOK
  /\ GraphInv
  /\ DegreeInv
  /\ FrontInv
  /\ DisjointInv
  /\ LevelInv
  /\ ParentsEarlier
  /\ NoTableTwice

-----------------------------------------------------------------------------

(* What a table waits for is a finite set of tables.                       *)
LEMMA WaitingFinite == \A t : IsFiniteSet(Waiting(t))
  <1> SUFFICES ASSUME NEW t PROVE IsFiniteSet(Waiting(t))
    OBVIOUS
  <1>1. Waiting(t) \subseteq AllTables
    BY DEF Waiting, ParentTables
  <1> QED
    BY <1>1, DependencyGraphAssumption, FS_Subset DEF DependencyGraphAssumption

(* Foreign keys do not leave the component.                                *)
LEMMA ParentsInComponent ==
  ASSUME GraphInv, GraphTypeOK, NEW t \in component
  PROVE  ParentTables(t) \subseteq component
  <1> SUFFICES ASSUME NEW p \in ParentTables(t) PROVE p \in component
    OBVIOUS
  <1>1. <<t, p>> \in refs
    BY DEF ParentTables
  <1> QED
    BY <1>1 DEF GraphInv, Closed

LEMMA InitOrderIInv == GraphInit => OrderIInv
  <1> SUFFICES ASSUME GraphInit PROVE OrderIInv
    OBVIOUS
  <1>1. /\ refs \in RefGraphs /\ component \in SUBSET AllTables
        /\ Closed(component, refs)
        /\ inDegree = [t \in component |-> DegreeOf(t)]
        /\ todo = {t \in component : inDegree[t] = 0}
        /\ levelTables = {} /\ nextLevel = {} /\ order = <<>>
    BY DEF GraphInit, Components
  <1>2. DOMAIN order = {} /\ Ordered = {} /\ Visited = {}
    BY <1>1 DEF Ordered, Visited
  <1>3. GraphInv
    BY <1>1 DEF GraphInv
  <1>4. \A t \in component : ParentTables(t) \cap component = Waiting(t)
    <2> SUFFICES ASSUME NEW t \in component
                 PROVE  ParentTables(t) \cap component = Waiting(t)
      OBVIOUS
    <2>1. \A p \in ParentTables(t) : p \in component
      BY <1>1 DEF ParentTables, Closed
    <2> QED
      BY <1>2, <2>1 DEF Waiting
  <1>5. DegreeInv
    BY <1>1, <1>4 DEF DegreeInv, DegreeOf
  <1>6. \A t \in component : Cardinality(Waiting(t)) \in Nat
    BY WaitingFinite, FS_CardinalityType
  <1>7. GraphTypeOK
    <2>1. inDegree \in [component -> Nat]
      BY <1>1, <1>4, <1>6 DEF DegreeOf
    <2>2. order \in Seq(SUBSET component)
      BY <1>1
    <2> QED
      BY <1>1, <2>1, <2>2 DEF GraphTypeOK
  <1>8. FrontInv
    BY <1>1, <1>2, <1>5, WaitingFinite, FS_EmptySet
    DEF FrontInv, Front, DegreeInv
  <1>9. DisjointInv
    BY <1>1, <1>2 DEF DisjointInv
  <1>10. LevelInv
    <2>1. \A t \in todo : ParentTables(t) = {}
      BY <1>1, <1>2, <1>5, WaitingFinite, FS_EmptySet
      DEF DegreeInv, Waiting
    <2> QED
      BY <1>1, <2>1 DEF LevelInv
  <1>11. ParentsEarlier /\ NoTableTwice
    BY <1>2 DEF ParentsEarlier, NoTableTwice
  <1> QED
    BY <1>3, <1>5, <1>7, <1>8, <1>9, <1>10, <1>11 DEF OrderIInv

(* Visiting n takes it from what its children wait for, and from nothing   *)
(* else; a child that waits for nobody any more joins the next level.      *)
LEMMA VisitOrderIInv == OrderIInv /\ (\E n \in component : Visit(n)) => OrderIInv'
  <1> SUFFICES ASSUME OrderIInv, NEW n \in component, Visit(n) PROVE OrderIInv'
    OBVIOUS
  <1> DEFINE children == Children(n) \cap component
  <1>1. /\ n \in todo
        /\ todo' = todo \ {n}
        /\ levelTables' = levelTables \cup {n}
        /\ inDegree' = [t \in component |->
                    IF t \in children THEN inDegree[t] - 1 ELSE inDegree[t]]
        /\ nextLevel' = nextLevel \cup {t \in children : inDegree'[t] = 0}
        /\ UNCHANGED <<refs, component, order>>
    BY DEF Visit, Released
  <1>2. GraphTypeOK /\ GraphInv /\ DegreeInv /\ FrontInv /\ DisjointInv /\ LevelInv
    BY DEF OrderIInv
  <1>3. /\ Ordered' = Ordered /\ Visited' = Visited \cup {n}
        /\ n \notin Visited
        /\ \A t : ParentTables(t)' = ParentTables(t)
    BY <1>1, <1>2 DEF Ordered, Visited, DisjointInv, ParentTables
  <1>4. \A t \in component : t \in children <=> n \in ParentTables(t)
    BY <1>2 DEF Children, ParentTables, GraphTypeOK
  <1>5. \A t \in component : Waiting(t)' = Waiting(t) \ {n}
    BY <1>1, <1>3 DEF Waiting
  <1>6. \A t \in component : t \in children <=> n \in Waiting(t)
    BY <1>3, <1>4 DEF Waiting
  <1>7. \A t \in component :
           /\ IsFiniteSet(Waiting(t)) /\ Cardinality(Waiting(t)) \in Nat
           /\ inDegree[t] = Cardinality(Waiting(t))
    BY <1>2, WaitingFinite, FS_CardinalityType DEF DegreeInv
  <1> HIDE DEF children
  <1>8. \A t \in component : inDegree'[t] = Cardinality(Waiting(t)')
    <2> SUFFICES ASSUME NEW t \in component
                 PROVE  inDegree'[t] = Cardinality(Waiting(t)')
      OBVIOUS
    <2>1. CASE t \in children
      <3>1. Cardinality(Waiting(t) \ {n}) = Cardinality(Waiting(t)) - 1
        BY <1>6, <1>7, <2>1, FS_RemoveElement
      <3>2. inDegree'[t] = inDegree[t] - 1
        BY <1>1, <2>1
      <3> QED
        BY <1>5, <1>7, <3>1, <3>2
    <2>2. CASE t \notin children
      <3>1. Waiting(t) \ {n} = Waiting(t)
        BY <1>6, <2>2
      <3>2. inDegree'[t] = inDegree[t]
        BY <1>1, <2>2
      <3> QED
        BY <1>5, <1>7, <3>1, <3>2
    <2> QED
      BY <2>1, <2>2
  <1>9. \A t \in component :
           /\ IsFiniteSet(Waiting(t) \ {n})
           /\ Cardinality(Waiting(t) \ {n}) \in Nat
           /\ Cardinality(Waiting(t) \ {n}) = 0 <=> Waiting(t) \ {n} = {}
    BY <1>7, FS_Subset, FS_CardinalityType, FS_EmptySet
  <1>10. DegreeInv'
    BY <1>1, <1>8 DEF DegreeInv
  <1>11. GraphTypeOK'
    <2>1. inDegree' \in [component -> Nat]
      <3>1. \A t \in component : inDegree'[t] \in Nat
        BY <1>5, <1>8, <1>9
      <3>2. inDegree' = [t \in component |-> inDegree'[t]]
        BY <1>1
      <3> QED
        BY <3>1, <3>2
    <2>2. children \subseteq component
      BY DEF children
    <2> QED
      BY <1>1, <1>2, <2>1, <2>2 DEF GraphTypeOK
  <1>12. \A t \in component :
            t \in nextLevel' <=>
              t \in nextLevel \/ (n \in Waiting(t) /\ Waiting(t) \ {n} = {})
    BY <1>1, <1>5, <1>6, <1>8, <1>9
  <1>13. FrontInv'
    <2>1. \A t \in component : t \in Front' <=> Waiting(t)' = {}
      BY <1>1, <1>2, <1>3, <1>5, <1>12 DEF FrontInv, Front
    <2> QED
      BY <1>1, <2>1 DEF FrontInv
  <1>14. DisjointInv'
    <2>1. \A t \in component : n \in Waiting(t) => t \notin Front /\ t # n
      BY <1>1, <1>2 DEF FrontInv, Front
    <2>2. \A t \in nextLevel' : t \in component
      BY <1>11, <1>1 DEF GraphTypeOK
    <2>3. nextLevel' \cap todo' = {} /\ nextLevel' \cap Visited' = {}
      BY <1>1, <1>2, <1>3, <1>12, <2>1, <2>2 DEF DisjointInv, Front
    <2>4. todo' \cap Visited' = {}
      BY <1>1, <1>2, <1>3 DEF DisjointInv
    <2>5. levelTables' \cap Ordered' = {}
      BY <1>1, <1>2, <1>3 DEF DisjointInv, Visited
    <2> QED
      BY <2>3, <2>4, <2>5 DEF DisjointInv
  <1>15. LevelInv'
    <2>1. \A t \in todo' \cup levelTables' : ParentTables(t)' \subseteq Ordered'
      BY <1>1, <1>2, <1>3 DEF LevelInv
    <2>2. ~Done'
      BY <1>1 DEF Done
    <2> QED
      BY <2>1, <2>2 DEF LevelInv
  <1>16. ParentsEarlier' /\ NoTableTwice' /\ GraphInv'
    BY <1>1, <1>3 DEF OrderIInv, ParentsEarlier, NoTableTwice, GraphInv
  <1> QED
    BY <1>10, <1>11, <1>13, <1>14, <1>15, <1>16 DEF OrderIInv

(* Closing a level appends tables whose parents are all in order already.  *)
LEMMA CloseOrderIInv == OrderIInv /\ CloseLevel => OrderIInv'
  <1> SUFFICES ASSUME OrderIInv, CloseLevel PROVE OrderIInv'
    OBVIOUS
  <1>1. /\ todo = {} /\ levelTables # {}
        /\ order' = Append(order, levelTables)
        /\ todo' = nextLevel
        /\ levelTables' = {} /\ nextLevel' = {}
        /\ UNCHANGED <<refs, component, inDegree>>
    BY DEF CloseLevel
  <1>2. GraphTypeOK /\ GraphInv /\ DegreeInv /\ FrontInv /\ DisjointInv /\ LevelInv
    BY DEF OrderIInv
  <1>3. /\ order \in Seq(SUBSET component) /\ Len(order) \in Nat
        /\ DOMAIN order = 1..Len(order)
        /\ DOMAIN order' = 1..(Len(order) + 1)
        /\ \A i \in 1..Len(order) : order'[i] = order[i]
        /\ order'[Len(order) + 1] = levelTables
    BY <1>1, <1>2 DEF GraphTypeOK
  <1>4. DOMAIN order' = DOMAIN order \cup {Len(order) + 1}
    BY <1>3
  <1>5. Ordered' = Ordered \cup levelTables
    BY <1>3, <1>4 DEF Ordered
  <1>6. /\ Visited' = Visited /\ Visited = Ordered \cup levelTables
        /\ \A t : ParentTables(t)' = ParentTables(t)
    BY <1>1, <1>5 DEF Visited, ParentTables
  <1>7. \A t : Waiting(t)' = Waiting(t)
    BY <1>6 DEF Waiting
  <1>8. GraphTypeOK'
    <2>1. order' \in Seq(SUBSET component)
      BY <1>1, <1>2 DEF GraphTypeOK
    <2> QED
      BY <1>1, <1>2, <2>1 DEF GraphTypeOK
  <1>9. GraphInv' /\ DegreeInv'
    BY <1>1, <1>2, <1>7 DEF GraphInv, DegreeInv
  <1>10. FrontInv' /\ DisjointInv'
    BY <1>1, <1>2, <1>5, <1>6, <1>7 DEF FrontInv, Front, DisjointInv
  <1>11. LevelInv'
    <2>1. \A t \in nextLevel : ParentTables(t) \subseteq Visited
      BY <1>2 DEF FrontInv, Front, Waiting, GraphTypeOK
    <2> QED
      BY <1>1, <1>5, <1>6, <2>1 DEF LevelInv, Done
  <1>12. ParentsEarlier'
    <2> SUFFICES ASSUME NEW i \in DOMAIN order', NEW t \in order'[i],
                        NEW p \in ParentTables(t)
                 PROVE  \E j \in 1..(i - 1) : p \in order'[j]
      BY <1>6 DEF ParentsEarlier
    <2>1. CASE i \in DOMAIN order
      <3>1. PICK j \in 1..(i - 1) : p \in order[j]
        BY <1>3, <2>1 DEF OrderIInv, ParentsEarlier
      <3> QED
        BY <1>3, <2>1, <3>1
    <2>2. CASE i = Len(order) + 1
      <3>1. p \in Ordered
        BY <1>2, <1>3, <2>2 DEF LevelInv
      <3>2. PICK j \in DOMAIN order : p \in order[j]
        BY <3>1 DEF Ordered
      <3> QED
        BY <1>3, <2>2, <3>2
    <2> QED
      BY <1>4, <2>1, <2>2
  <1>13. NoTableTwice'
    <2> SUFFICES ASSUME NEW i \in DOMAIN order', NEW j \in 1..(i - 1)
                 PROVE  order'[i] \cap order'[j] = {}
      BY DEF NoTableTwice
    <2>1. CASE i \in DOMAIN order
      <3>1. order[i] \cap order[j] = {}
        BY <2>1 DEF OrderIInv, NoTableTwice
      <3> QED
        BY <1>3, <2>1, <3>1
    <2>2. CASE i = Len(order) + 1
      <3>1. j \in DOMAIN order /\ order'[j] = order[j]
        BY <1>3, <2>2
      <3>2. order[j] \subseteq Ordered
        BY <3>1 DEF Ordered
      <3> QED
        BY <1>2, <1>3, <2>2, <3>1, <3>2 DEF DisjointInv
    <2> QED
      BY <1>4, <2>1, <2>2
  <1> QED
    BY <1>8, <1>9, <1>10, <1>11, <1>12, <1>13 DEF OrderIInv

LEMMA StutterOrderIInv == OrderIInv /\ UNCHANGED graphVars => OrderIInv'
  BY DEF OrderIInv, graphVars, GraphTypeOK, GraphInv, DegreeInv, FrontInv, DisjointInv,
         LevelInv, ParentsEarlier, NoTableTwice, Waiting, Front, Done,
         Visited, Ordered, ParentTables, Closed

LEMMA OrderInvariance == GraphSpec => []OrderIInv
  <1>1. OrderIInv /\ [GraphNext]_graphVars => OrderIInv'
    BY VisitOrderIInv, CloseOrderIInv, StutterOrderIInv DEF GraphNext
  <1> QED
    BY InitOrderIInv, <1>1, PTL DEF GraphSpec

-----------------------------------------------------------------------------

(* Every variable keeps its range; in particular no in-degree drops below  *)
(* zero, self-references and cycles included.                              *)
THEOREM OrderTypeCorrect == GraphSpec => []GraphTypeOK
  <1>1. OrderIInv => GraphTypeOK
    BY DEF OrderIInv
  <1> QED
    BY OrderInvariance, <1>1, PTL

(* A table's parents are all in levels before its own, for every graph.    *)
THEOREM LevelsRespectKeys == GraphSpec => []ParentsEarlier
  <1>1. OrderIInv => ParentsEarlier
    BY DEF OrderIInv
  <1> QED
    BY OrderInvariance, <1>1, PTL

(* The levels are disjoint: no table is loaded twice.                      *)
THEOREM LevelsAreDisjoint == GraphSpec => []NoTableTwice
  <1>1. OrderIInv => NoTableTwice
    BY DEF OrderIInv
  <1> QED
    BY OrderInvariance, <1>1, PTL

(* A table that got no level waits for a parent that got none.             *)
LEMMA LostWaits == OrderIInv => LostWaitsForLost
  <1> SUFFICES ASSUME OrderIInv, Done, NEW t \in component \ Ordered
               PROVE  ParentTables(t) \ Ordered # {}
    BY DEF LostWaitsForLost
  <1>1. Visited = Ordered /\ Front = Ordered
    BY DEF Done, Visited, Front, OrderIInv, LevelInv
  <1> QED
    BY <1>1 DEF OrderIInv, FrontInv, Waiting

THEOREM OnlyCyclesAreLost == GraphSpec => []LostWaitsForLost
  BY OrderInvariance, LostWaits, PTL

(* Without a cycle every table gets a level: of the tables without one,    *)
(* some table would have no parent among them, and it would wait for none. *)
THEOREM NoCycleNothingLost == GraphSpec => []AcyclicIsComplete
  <1>1. OrderIInv => AcyclicIsComplete
    <2> SUFFICES ASSUME OrderIInv, Done, Acyclic, component \ Ordered # {}
                 PROVE  FALSE
      <3>1. OrderIInv => Ordered \subseteq component
        BY DEF OrderIInv, GraphTypeOK, Ordered
      <3> QED
        BY <3>1 DEF AcyclicIsComplete
    <2>1. PICK t \in component \ Ordered :
             ParentTables(t) \cap (component \ Ordered) = {}
      BY DEF Acyclic
    <2>2. ParentTables(t) \ Ordered # {}
      BY LostWaits DEF LostWaitsForLost
    <2>3. ParentTables(t) \subseteq component
      BY ParentsInComponent DEF OrderIInv
    <2> QED
      BY <2>1, <2>2, <2>3
  <1> QED
    BY OrderInvariance, <1>1, PTL

(* No level is empty, as a level is closed only when a table was visited.  *)
NoEmptyLevel == \A i \in DOMAIN order : order[i] # {}

LEMMA LevelsNotEmpty == GraphSpec => []NoEmptyLevel
  <1>1. GraphInit => NoEmptyLevel
    BY DEF GraphInit, NoEmptyLevel
  <1>2. OrderIInv /\ NoEmptyLevel /\ [GraphNext]_graphVars => NoEmptyLevel'
    <2> SUFFICES ASSUME OrderIInv, NoEmptyLevel, [GraphNext]_graphVars
                 PROVE  NoEmptyLevel'
      OBVIOUS
    <2>1. CASE order' = order
      BY <2>1 DEF NoEmptyLevel
    <2>2. CASE CloseLevel
      <3>1. order \in Seq(SUBSET component) /\ levelTables \in SUBSET component
        BY DEF OrderIInv, GraphTypeOK
      <3>2. order' = Append(order, levelTables) /\ levelTables # {}
        BY <2>2 DEF CloseLevel
      <3> QED
        BY <3>1, <3>2 DEF NoEmptyLevel
    <2> QED
      BY <2>1, <2>2 DEF GraphNext, Visit, graphVars
  <1> QED
    BY <1>1, <1>2, OrderInvariance, PTL DEF GraphSpec

(* Two components have no table in common, or are the same.                *)
LEMMA ComponentsApart ==
  ASSUME NEW graph \in RefGraphs, NEW S \in Components(graph), NEW T \in Components(graph),
         S \cap T # {}
  PROVE  S = T
  <1>1. Closed(S \cap T, graph)
    BY DEF Components, Closed
  <1>2. S \cap T = S /\ S \cap T = T
    BY <1>1 DEF Components
  <1> QED
    BY <1>2

(* What generateData is handed for a component is what the assumptions of  *)
(* GenScheduler say of it: no empty level, tables of the component only,   *)
(* their parents in earlier levels, no table in two of them.               *)
THEOREM LevelsSuitScheduler ==
  GraphSpec => [](/\ order \in Seq((SUBSET component) \ {{}})
                  /\ ParentsEarlier /\ NoTableTwice)
  <1>1. OrderIInv /\ NoEmptyLevel =>
          /\ order \in Seq((SUBSET component) \ {{}})
          /\ ParentsEarlier /\ NoTableTwice
    BY DEF OrderIInv, GraphTypeOK, NoEmptyLevel
  <1> QED
    BY <1>1, LevelsNotEmpty, OrderInvariance, PTL

-----------------------------------------------------------------------------
(* GenScheduler.                                                           *)

(* The tables of the level a component is at.                              *)
Current(c) == IF level[c] = 0 THEN {} ELSE Levels[c][level[c]]

(* Earlier levels are loaded, later ones not begun, and of the current one *)
(* exactly the tables still to submit have not begun.                      *)
LevelsInv(c) ==
  \A i \in DOMAIN Levels[c] : \A t \in Levels[c][i] :
     /\ i < level[c] => phase[t] = "loaded"
     /\ i > level[c] => phase[t] = "idle"
     /\ i = level[c] => (t \in toSubmit[c] <=> phase[t] = "idle")

(* Only a thread that runs the component's continuation has tables to      *)
(* submit, and it runs while the component's future is pending.            *)
ComposerInv(c) ==
  /\ toSubmit[c] \subseteq Current(c)
  /\ composer[c] = Nobody => toSubmit[c] = {}
  /\ composer[c] # Nobody => result[c] = "running" /\ level[c] # 0
  /\ c > mainAt => level[c] = 0 /\ result[c] = "running"

(* The future of a component ends with its last level, or with the first   *)
(* one in which a table failed, when all tables of it have ended.          *)
ResultInv(c) ==
  /\ result[c] = "ok" => /\ level[c] = Len(Levels[c])
                         /\ \A t \in Current(c) : phase[t] = "loaded"
  /\ result[c] = "failed" => /\ \E t \in Current(c) : phase[t] = "failed"
                             /\ \A t \in Current(c) : Completed(t)

ChainInv(c) == LevelsInv(c) /\ ComposerInv(c) /\ ResultInv(c)

Underway == {"waiting", "loading", "storedAll", "thrown"}

(* A thread's table is underway and is no other thread's; the queue holds  *)
(* queued tables, each once.                                               *)
WorkInv ==
  /\ \A w \in Workers : work[w] # Nobody => phase[work[w]] \in Underway
  /\ \A v, w \in Workers : work[v] # Nobody /\ work[v] = work[w] => v = w
QueueInv ==
  /\ \A i \in 1..Len(queue) : phase[queue[i]] = "queued"
  /\ \A i, j \in 1..Len(queue) : queue[i] = queue[j] => i = j

EndInv == Ended => AllEnded /\ mainAt = Len(Levels)

IInv ==
  /\ TypeOK
  /\ \A c \in Chains : ChainInv(c)
  /\ WorkInv
  /\ QueueInv
  /\ PermitBound
  /\ EndInv

-----------------------------------------------------------------------------
(* The constants.                                                          *)

LEMMA LevelFacts ==
  ASSUME NEW c \in Chains
  PROVE  /\ c \in Nat
         /\ Levels[c] \in Seq(SUBSET Tables)
         /\ Len(Levels[c]) \in Nat
         /\ DOMAIN Levels[c] = 1..Len(Levels[c])
         /\ \A i \in 1..Len(Levels[c]) : Levels[c][i] \subseteq Tables
         /\ LevelTables(c) \subseteq Tables
  <1>1. Levels \in Seq(Seq((SUBSET Tables) \ {{}}))
    BY GenSchedulerAssumption DEF GenSchedulerAssumption
  <1>2. c \in 1..Len(Levels) /\ Len(Levels) \in Nat
    BY <1>1 DEF Chains
  <1>3. Levels[c] \in Seq((SUBSET Tables) \ {{}})
    BY <1>1, <1>2
  <1>4. /\ Len(Levels[c]) \in Nat /\ DOMAIN Levels[c] = 1..Len(Levels[c])
        /\ \A i \in 1..Len(Levels[c]) : Levels[c][i] \in SUBSET Tables
    BY <1>3
  <1>5. Levels[c] \in Seq(SUBSET Tables)
    BY <1>3, <1>4
  <1>6. LevelTables(c) \subseteq Tables
    BY DEF Tables
  <1> QED
    BY <1>2, <1>4, <1>5, <1>6

(* A table is in one level of one component.                               *)
LEMMA OneLevel ==
  ASSUME NEW c \in Chains, NEW d \in Chains,
         NEW i \in DOMAIN Levels[c], NEW j \in DOMAIN Levels[d],
         NEW t \in Levels[c][i], t \in Levels[d][j]
  PROVE  c = d /\ i = j
  BY GenSchedulerAssumption DEF GenSchedulerAssumption

LEMMA OneChain ==
  ASSUME NEW c \in Chains, NEW d \in Chains,
         NEW t \in LevelTables(c), t \in LevelTables(d)
  PROVE  c = d
  BY OneLevel DEF LevelTables

LEMMA ChainOfTable ==
  ASSUME NEW t \in Tables
  PROVE  ChainOf(t) \in Chains /\ t \in LevelTables(ChainOf(t))
  <1>1. \E c \in Chains : t \in LevelTables(c)
    BY DEF Tables
  <1> QED
    BY <1>1 DEF ChainOf

(* A table that has begun and not ended is in its component's current      *)
(* level, and the component's future is pending.                           *)
LEMMA InCurrent ==
  ASSUME TypeOK, NEW c \in Chains, ChainInv(c), NEW t \in LevelTables(c),
         phase[t] \notin {"idle", "loaded", "failed"}
  PROVE  /\ t \in Current(c) /\ level[c] # 0
         /\ t \notin toSubmit[c]
         /\ result[c] = "running"
  <1>1. PICK i \in DOMAIN Levels[c] : t \in Levels[c][i]
    BY DEF LevelTables
  <1>2. i \in Nat /\ level[c] \in Nat /\ i # 0
    BY LevelFacts DEF TypeOK
  <1>3. i = level[c]
    BY <1>1, <1>2 DEF ChainInv, LevelsInv
  <1>4. t \in Current(c) /\ level[c] # 0 /\ t \notin toSubmit[c]
    BY <1>1, <1>2, <1>3 DEF ChainInv, LevelsInv, Current
  <1>5. result[c] # "ok" /\ result[c] # "failed"
    BY <1>4 DEF ChainInv, ResultInv, Completed
  <1> QED
    BY <1>4, <1>5 DEF TypeOK

-----------------------------------------------------------------------------
(* How ChainInv moves.                                                     *)

(* A component that nothing was done to.                                   *)
LEMMA ChainFrame ==
  ASSUME TypeOK, NEW c \in Chains, ChainInv(c),
         level'[c] = level[c], toSubmit'[c] = toSubmit[c],
         composer'[c] = composer[c], result'[c] = result[c],
         \A t \in LevelTables(c) : phase'[t] = phase[t],
         c > mainAt' => c > mainAt
  PROVE  ChainInv(c)'
  <1>1. Current(c)' = Current(c)
    BY DEF Current
  <1>2. \A i \in DOMAIN Levels[c] : \A t \in Levels[c][i] :
           phase'[t] = phase[t]
    BY DEF LevelTables
  <1>3. LevelsInv(c)'
    BY <1>2 DEF ChainInv, LevelsInv
  <1>4. ComposerInv(c)'
    BY <1>1 DEF ChainInv, ComposerInv
  <1>5. \A t \in Current(c) : t \in LevelTables(c)
    BY LevelFacts DEF Current, LevelTables, TypeOK
  <1>6. ResultInv(c)'
    BY <1>1, <1>5 DEF ChainInv, ResultInv, Completed
  <1> QED
    BY <1>3, <1>4, <1>6 DEF ChainInv

(* A table underway in the current level that goes on.                     *)
LEMMA PhaseStep ==
  ASSUME TypeOK, NEW c \in Chains, ChainInv(c), NEW t \in Tables,
         phase[t] \notin {"idle", "loaded", "failed"},
         NEW q, q # "idle", phase' = [phase EXCEPT ![t] = q],
         UNCHANGED <<mainAt, level, toSubmit, composer, result>>
  PROVE  ChainInv(c)'
  <1>1. CASE t \notin LevelTables(c)
    <2>1. \A u \in LevelTables(c) : phase'[u] = phase[u]
      BY <1>1, LevelFacts DEF TypeOK
    <2> QED
      BY <2>1, ChainFrame
  <1>2. CASE t \in LevelTables(c)
    <2>1. /\ t \in Current(c) /\ t \notin toSubmit[c]
          /\ result[c] = "running" /\ level[c] # 0
      BY <1>2, InCurrent
    <2>2. phase'[t] = q /\ \A u \in Tables \ {t} : phase'[u] = phase[u]
      BY DEF TypeOK
    <2>3. ASSUME NEW i \in DOMAIN Levels[c], t \in Levels[c][i]
          PROVE  i = level[c]
      <3>1. level[c] \in DOMAIN Levels[c] /\ t \in Levels[c][level[c]]
        BY <2>1, LevelFacts DEF Current, TypeOK
      <3> QED
        BY <2>3, <3>1, OneLevel
    <2>4. LevelsInv(c)'
      <3> SUFFICES ASSUME NEW i \in DOMAIN Levels[c], NEW u \in Levels[c][i]
                   PROVE  /\ i < level[c] => phase'[u] = "loaded"
                          /\ i > level[c] => phase'[u] = "idle"
                          /\ i = level[c] => (u \in toSubmit[c] <=>
                                              phase'[u] = "idle")
        BY DEF LevelsInv
      <3>1. CASE u = t
        <4>1. i = level[c] /\ level[c] \in Nat
          BY <3>1, <2>3 DEF TypeOK
        <4> QED
          BY <4>1, <3>1, <2>1, <2>2
      <3>2. CASE u # t
        <4>1. phase'[u] = phase[u]
          BY <3>2, <2>2, LevelFacts
        <4> QED
          BY <4>1 DEF ChainInv, LevelsInv
      <3> QED
        BY <3>1, <3>2
    <2>5. ComposerInv(c)' /\ ResultInv(c)'
      BY <2>1 DEF ChainInv, ComposerInv, ResultInv, Current
    <2> QED
      BY <2>4, <2>5 DEF ChainInv
  <1> QED
    BY <1>1, <1>2

(* A component whose level has ended, when its continuation runs.          *)
LEMMA AdvanceChain ==
  ASSUME TypeOK, NEW c \in Chains, ChainInv(c),
         NEW x \in Workers \cup {Main}, NEW outcomes,
         Advance(c, x, outcomes),
         result[c] = "running", toSubmit[c] = {},
         LevelFails(outcomes) <=> \E t \in Current(c) : phase'[t] = "failed",
         \A i \in DOMAIN Levels[c] : \A t \in Levels[c][i] :
            /\ i < level[c] => phase'[t] = "loaded"
            /\ i > level[c] => phase'[t] = "idle"
            /\ i = level[c] => phase'[t] \in {"loaded", "failed"},
         c \in Nat, mainAt' \in Nat, ~(c > mainAt')
  PROVE  ChainInv(c)'
  <1> level[c] \in Nat /\ level[c] <= Len(Levels[c])
    BY LevelFacts DEF TypeOK
  <1>1. CASE LevelFails(outcomes) \/ level[c] = Len(Levels[c])
    <2>1. /\ level' = level /\ toSubmit' = toSubmit
          /\ composer'[c] = Nobody
          /\ result'[c] = IF LevelFails(outcomes) THEN "failed" ELSE "ok"
      BY <1>1 DEF Advance, TypeOK
    <2>2. LevelsInv(c)'
      BY <2>1 DEF LevelsInv
    <2>3. ComposerInv(c)'
      BY <2>1 DEF ComposerInv
    <2>4. Current(c)' = Current(c)
      BY <2>1 DEF Current
    <2>5. \A t \in Current(c) : phase'[t] \in {"loaded", "failed"}
      BY LevelFacts DEF Current
    <2>6. ResultInv(c)'
      <3>1. CASE LevelFails(outcomes)
        <4>1. result'[c] = "failed"
          BY <2>1, <3>1
        <4>2. \E t \in Current(c) : phase'[t] = "failed"
          BY <3>1
        <4> QED
          BY <4>1, <4>2, <2>4, <2>5 DEF ResultInv, Completed
      <3>2. CASE ~LevelFails(outcomes)
        <4>1. result'[c] = "ok" /\ level'[c] = Len(Levels[c])
          BY <1>1, <2>1, <3>2
        <4>2. \A t \in Current(c) : phase'[t] = "loaded"
          BY <2>5, <3>2
        <4> QED
          BY <4>1, <4>2, <2>4 DEF ResultInv
      <3> QED
        BY <3>1, <3>2
    <2> QED
      BY <2>2, <2>3, <2>6 DEF ChainInv
  <1>2. CASE ~(LevelFails(outcomes) \/ level[c] = Len(Levels[c]))
    <2>1. /\ level'[c] = level[c] + 1
          /\ toSubmit'[c] = Levels[c][level[c] + 1]
          /\ result' = result
      BY <1>2 DEF Advance, TypeOK
    <2>2. level[c] + 1 \in DOMAIN Levels[c]
      BY <1>2, LevelFacts
    <2>3. \A t \in Current(c) : phase'[t] = "loaded"
      <3>1. \A t \in Current(c) : phase'[t] \in {"loaded", "failed"}
        BY LevelFacts DEF Current
      <3> QED
        BY <3>1, <1>2
    <2>4. LevelsInv(c)'
      <3> SUFFICES ASSUME NEW i \in DOMAIN Levels[c], NEW t \in Levels[c][i]
                   PROVE  /\ i < level'[c] => phase'[t] = "loaded"
                          /\ i > level'[c] => phase'[t] = "idle"
                          /\ i = level'[c] => (t \in toSubmit'[c] <=>
                                               phase'[t] = "idle")
        BY DEF LevelsInv
      <3>1. i \in Nat /\ i # 0
        BY LevelFacts
      <3>2. CASE i < level[c]
        BY <3>1, <3>2, <2>1
      <3>3. CASE i = level[c]
        <4>1. t \in Current(c)
          BY <3>1, <3>3 DEF Current
        <4> QED
          BY <4>1, <3>3, <2>1, <2>3
      <3>4. CASE i > level[c]
        <4>1. phase'[t] = "idle" /\ ~(i < level[c] + 1)
          BY <3>1, <3>4
        <4> QED
          BY <4>1, <2>1
      <3> QED
        BY <3>1, <3>2, <3>3, <3>4
    <2>5. ComposerInv(c)'
      <3>1. Current(c)' = toSubmit'[c] /\ level'[c] # 0
        BY <2>1 DEF Current
      <3>2. composer'[c] # Nobody
        <4>1. composer'[c] = x
          BY <1>2 DEF Advance, TypeOK
        <4> QED
          BY <4>1, GenSchedulerAssumption DEF GenSchedulerAssumption
      <3> QED
        BY <3>1, <3>2, <2>1 DEF ComposerInv
    <2>6. ResultInv(c)'
      BY <2>1 DEF ResultInv
    <2> QED
      BY <2>4, <2>5, <2>6 DEF ChainInv
  <1> QED
    BY <1>1, <1>2

(* What Advance leaves alone, and the ranges it keeps.                     *)
LEMMA AdvanceFrame ==
  ASSUME TypeOK, NEW c \in Chains, NEW x \in Workers \cup {Main},
         NEW outcomes, Advance(c, x, outcomes)
  PROVE  /\ level' \in [Chains -> Nat]
         /\ \A d \in Chains : level'[d] \in 0..Len(Levels[d])
         /\ toSubmit' \in [Chains -> SUBSET Tables]
         /\ composer' \in [Chains -> Workers \cup {Main, Nobody}]
         /\ result' \in [Chains -> {"running", "ok", "failed"}]
         /\ \A d \in Chains \ {c} :
               /\ level'[d] = level[d] /\ toSubmit'[d] = toSubmit[d]
               /\ composer'[d] = composer[d] /\ result'[d] = result[d]
         /\ \A d \in Chains : result[d] # "running" => result'[d] # "running"
  <1>1. CASE LevelFails(outcomes) \/ level[c] = Len(Levels[c])
    BY <1>1 DEF Advance, TypeOK
  <1>2. CASE ~(LevelFails(outcomes) \/ level[c] = Len(Levels[c]))
    <2>1. /\ level' = [level EXCEPT ![c] = @ + 1]
          /\ toSubmit' = [toSubmit EXCEPT ![c] = Levels[c][level[c] + 1]]
          /\ composer' = [composer EXCEPT ![c] = x]
          /\ result' = result
      BY <1>2 DEF Advance
    <2>2. level[c] + 1 \in 1..Len(Levels[c])
      BY <1>2, LevelFacts DEF TypeOK
    <2>3. Levels[c][level[c] + 1] \in SUBSET Tables
      BY <2>2, LevelFacts
    <2>4. level' \in [Chains -> Nat]
      BY <2>1 DEF TypeOK
    <2>5. \A d \in Chains : level'[d] \in 0..Len(Levels[d])
      BY <2>1, <2>2, LevelFacts DEF TypeOK
    <2> QED
      BY <2>1, <2>3, <2>4, <2>5 DEF TypeOK
  <1> QED
    BY <1>1, <1>2

(* The end stays the end: no future is taken back.                         *)
LEMMA EndFrame ==
  ASSUME EndInv, UNCHANGED <<main, mainAt>>,
         \A c \in Chains : result[c] # "running" => result'[c] # "running"
  PROVE  EndInv'
  BY DEF EndInv, Ended, AllEnded

(* The step of a thread on its own table.                                  *)
LEMMA WorkStep ==
  ASSUME TypeOK, WorkInv, QueueInv, NEW w \in Workers, work[w] # Nobody,
         NEW q, phase' = [phase EXCEPT ![work[w]] = q], queue' = queue,
         \/ q \in Underway /\ work' = work
         \/ work' = [work EXCEPT ![w] = Nobody]
  PROVE  WorkInv' /\ QueueInv'
  <1> DEFINE t == work[w]
  <1>1. t \in Tables /\ phase[t] \in Underway
    BY DEF TypeOK, WorkInv
  <1>2. phase'[t] = q /\ \A u \in Tables \ {t} : phase'[u] = phase[u]
    BY <1>1 DEF TypeOK
  <1>3. \A v \in Workers : work'[v] # Nobody =>
           work'[v] = work[v] /\ (v = w => q \in Underway)
    BY DEF TypeOK
  <1>4. ASSUME NEW v \in Workers, work'[v] # Nobody
        PROVE  phase'[work'[v]] \in Underway
    <2>1. CASE v = w
      BY <1>2, <1>3, <1>4, <2>1
    <2>2. CASE v # w
      <3>1. work[v] # t /\ work[v] \in Tables /\ phase[work[v]] \in Underway
        BY <1>3, <1>4, <2>2 DEF WorkInv, TypeOK
      <3> QED
        BY <1>2, <1>3, <1>4, <3>1
    <2> QED
      BY <2>1, <2>2
  <1>5. WorkInv'
    <2>1. \A v, x \in Workers : work'[v] # Nobody /\ work'[v] = work'[x]
                                  => v = x
      BY <1>3 DEF WorkInv
    <2> QED
      BY <1>4, <2>1 DEF WorkInv, Underway
  <1>6. QueueInv'
    <2>1. \A i \in 1..Len(queue) : queue[i] \in Tables
      BY DEF TypeOK
    <2>2. \A i \in 1..Len(queue) : queue[i] # t
      BY <1>1 DEF QueueInv, Underway
    <2> QED
      BY <1>2, <2>1, <2>2 DEF QueueInv
  <1> QED
    BY <1>5, <1>6

(* Permits and tables being loaded.                                        *)
LEMMA LoadingFinite ==
  TypeOK => IsFiniteSet(Loading) /\ Cardinality(Loading) \in Nat
  <1>1. Loading \subseteq Tables /\ IsFiniteSet(Tables)
    BY GenSchedulerAssumption DEF Loading, GenSchedulerAssumption
  <1>2. IsFiniteSet(Loading)
    BY <1>1, FS_Subset
  <1> QED
    BY <1>2, FS_CardinalityType

LEMMA PermitsFrame ==
  ASSUME TypeOK, PermitBound, NEW t \in Tables, NEW q,
         phase[t] # "loading", q # "loading",
         phase' = [phase EXCEPT ![t] = q], permits' = permits
  PROVE  PermitBound'
  <1>1. Loading' = Loading
    BY DEF Loading, TypeOK
  <1> QED
    BY <1>1 DEF PermitBound

-----------------------------------------------------------------------------
(* The invariant, action by action.                                        *)

LEMMA InitIInv == Init => IInv
  <1> SUFFICES ASSUME Init PROVE IInv
    OBVIOUS
  <1> USE DEF Init
  <1>1. TypeOK
    <2>1. Len(Levels) \in Nat
      BY GenSchedulerAssumption DEF GenSchedulerAssumption
    <2>2. \A c \in Chains : level[c] \in 0..Len(Levels[c])
      BY LevelFacts
    <2>3. /\ phase \in [Tables -> Phases] /\ permits \in Nat
          /\ queue \in Seq(Tables)
      BY GenSchedulerAssumption DEF Phases, GenSchedulerAssumption
    <2> QED
      BY <2>1, <2>2, <2>3 DEF TypeOK
  <1>2. ASSUME NEW c \in Chains PROVE ChainInv(c)
    <2>1. \A i \in DOMAIN Levels[c] : i \in Nat /\ i # 0 /\ i > 0
      BY LevelFacts
    <2>2. \A i \in DOMAIN Levels[c] : \A t \in Levels[c][i] : phase[t] = "idle"
      BY LevelFacts
    <2>3. level[c] = 0 /\ toSubmit[c] = {} /\ result[c] = "running"
          /\ composer[c] = Nobody
      OBVIOUS
    <2>4. LevelsInv(c)
      BY <2>1, <2>2, <2>3 DEF LevelsInv
    <2> QED
      BY <2>3, <2>4 DEF ChainInv, ComposerInv, ResultInv
  <1>3. WorkInv /\ QueueInv /\ EndInv
    BY DEF WorkInv, QueueInv, EndInv, Ended
  <1>4. PermitBound
    <2>1. Loading = {}
      BY DEF Loading
    <2> QED
      BY <2>1, FS_EmptySet, GenSchedulerAssumption
      DEF PermitBound, GenSchedulerAssumption
  <1> QED
    BY <1>1, <1>2, <1>3, <1>4 DEF IInv

LEMMA StartChainIInv == IInv /\ StartChain => IInv'
  <1> SUFFICES ASSUME IInv, StartChain PROVE IInv'
    OBVIOUS
  <1>1. /\ mainAt \in Nat /\ Len(Levels) \in Nat /\ mainAt < Len(Levels)
        /\ Chains = 1..Len(Levels)
    BY GenSchedulerAssumption
    DEF IInv, StartChain, TypeOK, GenSchedulerAssumption, Chains
  <1>2. PICK c \in Chains : c = mainAt + 1
    BY <1>1
  <1>3. /\ TypeOK /\ Advance(c, Main, {}) /\ mainAt' = c
        /\ UNCHANGED <<main, queue, work, phase, permits>>
        /\ c \in Nat /\ mainAt' \in 0..Len(Levels)
        /\ ~(c > mainAt') /\ c > mainAt
    BY <1>1, <1>2 DEF IInv, StartChain
  <1>4. level[c] = 0 /\ result[c] = "running" /\ composer[c] = Nobody
        /\ toSubmit[c] = {}
    BY <1>3 DEF IInv, ChainInv, ComposerInv
  <1>5. ChainInv(c)'
    <2>1. LevelFails({}) <=> \E t \in Current(c) : phase'[t] = "failed"
      BY <1>4 DEF Current, LevelFails
    <2>2. \A i \in DOMAIN Levels[c] : \A t \in Levels[c][i] :
            /\ i < level[c] => phase'[t] = "loaded"
            /\ i > level[c] => phase'[t] = "idle"
            /\ i = level[c] => phase'[t] \in {"loaded", "failed"}
      <3>1. \A i \in DOMAIN Levels[c] : i \in Nat /\ i # 0
        BY <1>3, LevelFacts
      <3> QED
        BY <1>3, <1>4, <3>1 DEF IInv, ChainInv, LevelsInv
    <2>3. ChainInv(c) /\ mainAt' \in Nat
      BY <1>3 DEF IInv
    <2> QED
      BY <1>3, <1>4, <2>1, <2>2, <2>3, AdvanceChain
  <1>6. ASSUME NEW d \in Chains \ {c} PROVE ChainInv(d)'
    <2>1. /\ level'[d] = level[d] /\ toSubmit'[d] = toSubmit[d]
          /\ composer'[d] = composer[d] /\ result'[d] = result[d]
      BY <1>3, <1>6, AdvanceFrame
    <2>2. d > mainAt' => d > mainAt
      BY <1>1, <1>2, <1>3, LevelFacts
    <2> QED
      BY <1>3, <2>1, <2>2, ChainFrame DEF IInv
  <1>7. TypeOK'
    BY <1>3, AdvanceFrame DEF TypeOK
  <1>8. WorkInv' /\ QueueInv' /\ PermitBound'
    BY <1>3 DEF IInv, WorkInv, QueueInv, PermitBound, Loading
  <1>9. EndInv'
    <2>1. ~Ended
      BY <1>1 DEF IInv, EndInv
    <2> QED
      BY <1>3, <2>1 DEF EndInv, Ended
  <1> QED
    BY <1>5, <1>6, <1>7, <1>8, <1>9 DEF IInv

LEMMA SubmitIInv == ASSUME NEW c \in Chains, IInv, Submit(c) PROVE IInv'
  <1> TypeOK
    BY DEF IInv
  <1>1. PICK t \in toSubmit[c] :
          /\ composer[c] # Nobody
          /\ toSubmit' = [toSubmit EXCEPT ![c] = @ \ {t}]
          /\ queue' = Append(queue, t)
          /\ phase' = [phase EXCEPT ![t] = "queued"]
          /\ UNCHANGED <<main, mainAt, level, composer, result, work, permits>>
    BY DEF Submit
  <1>2. /\ ChainInv(c) /\ t \in Current(c) /\ level[c] # 0
        /\ result[c] = "running" /\ t \in Tables
    BY <1>1 DEF IInv, ChainInv, ComposerInv, TypeOK
  <1>3. /\ level[c] \in DOMAIN Levels[c] /\ t \in Levels[c][level[c]]
        /\ t \in LevelTables(c)
    BY <1>2, LevelFacts DEF Current, TypeOK, LevelTables
  <1>4. /\ phase[t] = "idle" /\ phase'[t] = "queued"
        /\ \A u \in Tables \ {t} : phase'[u] = phase[u]
    BY <1>1, <1>2, <1>3 DEF ChainInv, LevelsInv, TypeOK
  <1>5. /\ toSubmit'[c] = toSubmit[c] \ {t}
        /\ \A d \in Chains \ {c} : toSubmit'[d] = toSubmit[d]
    BY <1>1 DEF TypeOK
  <1>6. ChainInv(c)'
    <2>1. LevelsInv(c)'
      <3> SUFFICES ASSUME NEW i \in DOMAIN Levels[c], NEW u \in Levels[c][i]
                   PROVE  /\ i < level[c] => phase'[u] = "loaded"
                          /\ i > level[c] => phase'[u] = "idle"
                          /\ i = level[c] => (u \in toSubmit'[c] <=>
                                              phase'[u] = "idle")
        BY <1>1 DEF LevelsInv
      <3>1. CASE u = t
        <4>1. i = level[c] /\ level[c] \in Nat
          BY <3>1, <1>3, OneLevel DEF TypeOK
        <4> QED
          BY <3>1, <4>1, <1>4, <1>5
      <3>2. CASE u # t
        <4>1. phase'[u] = phase[u] /\ (u \in toSubmit'[c] <=> u \in toSubmit[c])
          BY <3>2, <1>4, <1>5, LevelFacts
        <4> QED
          BY <4>1, <1>2 DEF ChainInv, LevelsInv
      <3> QED
        BY <3>1, <3>2
    <2>2. ComposerInv(c)' /\ ResultInv(c)'
      BY <1>1, <1>2, <1>5 DEF ChainInv, ComposerInv, ResultInv, Current
    <2> QED
      BY <2>1, <2>2 DEF ChainInv
  <1>7. ASSUME NEW d \in Chains \ {c} PROVE ChainInv(d)'
    <2>1. \A u \in LevelTables(d) : phase'[u] = phase[u]
      <3>1. t \notin LevelTables(d)
        BY <1>3, <1>7, OneChain
      <3> QED
        BY <3>1, <1>4, <1>7, LevelFacts
    <2> QED
      BY <1>1, <1>5, <1>7, <2>1, ChainFrame DEF IInv
  <1>8. TypeOK'
    <2>1. phase' \in [Tables -> Phases] /\ toSubmit' \in [Chains -> SUBSET Tables]
      BY <1>1 DEF TypeOK, Phases
    <2>2. queue' \in Seq(Tables)
      BY <1>1, <1>2 DEF TypeOK
    <2> QED
      BY <1>1, <2>1, <2>2 DEF TypeOK
  <1>9. WorkInv'
    <2>1. \A w \in Workers : work[w] # Nobody =>
             phase[work[w]] \in Underway /\ work[w] \in Tables
      BY DEF IInv, WorkInv, TypeOK
    <2>2. \A w \in Workers : work[w] # Nobody => phase'[work[w]] = phase[work[w]]
      BY <1>4, <2>1 DEF Underway
    <2> QED
      BY <1>1, <2>1, <2>2 DEF IInv, WorkInv, Underway
  <1>10. QueueInv'
    <2>1. /\ Len(queue) \in Nat /\ Len(queue') = Len(queue) + 1
          /\ \A i \in 1..Len(queue) : queue'[i] = queue[i] /\ queue[i] \in Tables
          /\ queue'[Len(queue) + 1] = t
      BY <1>1, <1>2 DEF TypeOK
    <2>2. \A i \in 1..Len(queue) : queue[i] # t /\ phase[queue[i]] = "queued"
      BY <1>4 DEF IInv, QueueInv
    <2>3. \A i \in 1..Len(queue') : phase'[queue'[i]] = "queued"
      BY <1>4, <2>1, <2>2
    <2>4. \A i, j \in 1..Len(queue') : queue'[i] = queue'[j] => i = j
      BY <2>1, <2>2 DEF IInv, QueueInv
    <2> QED
      BY <2>3, <2>4 DEF QueueInv
  <1>11. PermitBound'
    BY <1>1, <1>2, <1>4, PermitsFrame DEF IInv
  <1>12. EndInv'
    BY <1>1, EndFrame DEF IInv
  <1> QED
    BY <1>6, <1>7, <1>8, <1>9, <1>10, <1>11, <1>12 DEF IInv

LEMMA ReturnLevelIInv ==
  ASSUME NEW c \in Chains, IInv, ReturnLevel(c) PROVE IInv'
  <1>1. /\ TypeOK /\ ChainInv(c)
        /\ UNCHANGED <<main, mainAt, queue, work, phase, permits>>
    BY DEF IInv, ReturnLevel
  <1>2. /\ composer[c] # Nobody /\ toSubmit[c] = {}
        /\ result[c] = "running" /\ level[c] # 0
    BY <1>1 DEF ReturnLevel, ChainInv, ComposerInv
  <1>3. /\ level[c] \in 1..Len(Levels[c]) /\ level[c] \in DOMAIN Levels[c]
        /\ Current(c) = Levels[c][level[c]]
    BY <1>1, <1>2, LevelFacts DEF TypeOK, Current
  <1>4. c \in Nat /\ mainAt \in Nat /\ ~(c > mainAt)
    BY <1>1, <1>2, LevelFacts DEF TypeOK, ChainInv, ComposerInv
  <1>5. WorkInv' /\ QueueInv' /\ PermitBound'
    BY <1>1 DEF IInv, WorkInv, QueueInv, PermitBound, Loading
  <1>6. CASE OthersCompleted(c, Nobody)
    <2>1. PICK x \in Continuers(c, composer[c]) :
            Advance(c, x, {phase[t] : t \in Levels[c][level[c]]})
      BY <1>6 DEF ReturnLevel
    <2> DEFINE outcomes == {phase[t] : t \in Levels[c][level[c]]}
    <2>2. x \in Workers \cup {Main}
      BY <1>1, <1>2 DEF Continuers, TypeOK
    <2>3. \A t \in Current(c) : phase[t] \in {"loaded", "failed"}
      <3>1. Nobody \notin Tables /\ Current(c) \subseteq Tables
        BY <1>3, LevelFacts, GenSchedulerAssumption DEF GenSchedulerAssumption
      <3> QED
        BY <1>3, <1>6, <3>1 DEF OthersCompleted, Completed
    <2>4. LevelFails(outcomes) <=> \E t \in Current(c) : phase'[t] = "failed"
      BY <1>1, <1>3 DEF LevelFails
    <2>5. \A i \in DOMAIN Levels[c] : \A t \in Levels[c][i] :
            /\ i < level[c] => phase'[t] = "loaded"
            /\ i > level[c] => phase'[t] = "idle"
            /\ i = level[c] => phase'[t] \in {"loaded", "failed"}
      BY <1>1, <1>3, <2>3 DEF ChainInv, LevelsInv
    <2>6. ChainInv(c)'
      <3> HIDE DEF outcomes
      <3>1. Advance(c, x, outcomes)
        BY <2>1 DEF outcomes
      <3>2. mainAt' \in Nat /\ ~(c > mainAt')
        BY <1>1, <1>4
      <3> QED
        BY <1>1, <1>2, <1>4, <2>2, <2>4, <2>5, <3>1, <3>2, AdvanceChain
    <2>7. ASSUME NEW d \in Chains \ {c} PROVE ChainInv(d)'
      <3>1. /\ level'[d] = level[d] /\ toSubmit'[d] = toSubmit[d]
            /\ composer'[d] = composer[d] /\ result'[d] = result[d]
        BY <1>1, <2>1, <2>2, <2>7, AdvanceFrame
      <3> QED
        BY <1>1, <2>7, <3>1, ChainFrame DEF IInv
    <2>8. TypeOK' /\ EndInv'
      BY <1>1, <2>1, <2>2, AdvanceFrame, EndFrame DEF TypeOK, IInv
    <2> QED
      BY <1>5, <2>6, <2>7, <2>8 DEF IInv
  <1>7. CASE ~OthersCompleted(c, Nobody)
    <2>1. /\ composer' = [composer EXCEPT ![c] = Nobody]
          /\ UNCHANGED <<level, toSubmit, result>>
      BY <1>7 DEF ReturnLevel
    <2>2. ChainInv(c)'
      BY <1>1, <1>2, <2>1 DEF ChainInv, LevelsInv, ComposerInv, ResultInv,
                             Current, Completed, TypeOK
    <2>3. ASSUME NEW d \in Chains \ {c} PROVE ChainInv(d)'
      BY <1>1, <2>1, <2>3, ChainFrame DEF IInv, TypeOK
    <2>4. TypeOK'
      BY <1>1, <2>1 DEF TypeOK
    <2>5. EndInv'
      BY <1>1, <2>1, EndFrame DEF IInv
    <2> QED
      BY <1>5, <2>2, <2>3, <2>4, <2>5 DEF IInv
  <1> QED
    BY <1>6, <1>7

LEMMA TakeIInv == ASSUME NEW w \in Workers, IInv, Take(w) PROVE IInv'
  <1> DEFINE t == queue[1]
  <1>1. /\ TypeOK /\ work[w] = Nobody /\ queue # <<>>
        /\ work' = [work EXCEPT ![w] = t] /\ queue' = Tail(queue)
        /\ phase' = [phase EXCEPT ![t] = "waiting"]
        /\ UNCHANGED <<main, mainAt, level, toSubmit, composer, result, permits>>
    BY DEF IInv, Take, TypeOK
  <1>2. /\ Len(queue) \in Nat \ {0} /\ t \in Tables /\ phase[t] = "queued"
        /\ \A i \in 1..Len(queue) : queue[i] \in Tables
        /\ queue' \in Seq(Tables) /\ Len(queue') = Len(queue) - 1
        /\ \A i \in 1..(Len(queue) - 1) : queue'[i] = queue[i + 1]
    BY <1>1 DEF IInv, QueueInv, TypeOK
  <1>3. phase'[t] = "waiting" /\ \A u \in Tables \ {t} : phase'[u] = phase[u]
    BY <1>1, <1>2 DEF TypeOK
  <1>4. \A c \in Chains : ChainInv(c)'
    <2> HIDE DEF t
    <2> QED
      BY <1>1, <1>2, PhaseStep DEF IInv
  <1>5. TypeOK'
    BY <1>1, <1>2 DEF TypeOK, Phases
  <1>6. WorkInv'
    <2>1. work'[w] = t /\ \A v \in Workers \ {w} : work'[v] = work[v]
      BY <1>1 DEF TypeOK
    <2>2. ASSUME NEW v \in Workers \ {w}, work[v] # Nobody
          PROVE  work[v] # t /\ phase'[work[v]] \in Underway
      <3>1. work[v] \in Tables /\ phase[work[v]] \in Underway
        BY <1>1, <2>2 DEF IInv, WorkInv, TypeOK
      <3> QED
        BY <1>2, <1>3, <3>1 DEF Underway
    <2>3. t # Nobody
      BY <1>2, GenSchedulerAssumption DEF GenSchedulerAssumption
    <2>4. \A v \in Workers : work'[v] # Nobody => phase'[work'[v]] \in Underway
      BY <1>3, <2>1, <2>2 DEF Underway
    <2>5. \A v, x \in Workers : work'[v] # Nobody /\ work'[v] = work'[x] => v = x
      BY <2>1, <2>2, <2>3 DEF IInv, WorkInv
    <2> QED
      BY <2>4, <2>5 DEF WorkInv, Underway
  <1>7. QueueInv'
    <2>1. \A i \in 2..Len(queue) : queue[i] # t /\ phase'[queue[i]] = "queued"
      BY <1>2, <1>3 DEF IInv, QueueInv
    <2>2. \A i \in 1..Len(queue') : i + 1 \in 2..Len(queue)
                                    /\ queue'[i] = queue[i + 1]
      BY <1>2
    <2>3. \A i \in 1..Len(queue') : phase'[queue'[i]] = "queued"
      BY <2>1, <2>2
    <2>4. ASSUME NEW i \in 1..Len(queue'), NEW j \in 1..Len(queue'),
                 queue'[i] = queue'[j]
          PROVE  i = j
      <3>1. i + 1 \in 1..Len(queue) /\ j + 1 \in 1..Len(queue)
            /\ queue[i + 1] = queue[j + 1]
        BY <1>2, <2>2, <2>4
      <3>2. i + 1 = j + 1
        BY <3>1 DEF IInv, QueueInv
      <3> QED
        BY <1>2, <3>2
    <2> QED
      BY <2>3, <2>4 DEF QueueInv
  <1>8. PermitBound'
    <2> HIDE DEF t
    <2> QED
      BY <1>1, <1>2, PermitsFrame DEF IInv
  <1>9. EndInv'
    BY <1>1, EndFrame DEF IInv
  <1> QED
    BY <1>4, <1>5, <1>6, <1>7, <1>8, <1>9 DEF IInv

LEMMA AcquireIInv == ASSUME NEW w \in Workers, IInv, Acquire(w) PROVE IInv'
  <1> PICK t \in Tables : t = work[w]
    BY DEF IInv, TypeOK, Acquire
  <1>1. /\ TypeOK /\ work[w] # Nobody /\ phase[t] = "waiting" /\ permits > 0
        /\ permits' = permits - 1
        /\ phase' = [phase EXCEPT ![t] = "loading"]
        /\ UNCHANGED <<main, mainAt, level, toSubmit, composer, result, queue,
                       work>>
    BY DEF IInv, Acquire, HasPermit
  <1>2. \A c \in Chains : ChainInv(c)'
    BY <1>1, PhaseStep DEF IInv
  <1>3. TypeOK'
    <2>1. permits' \in Nat
      BY <1>1 DEF TypeOK
    <2>2. phase' \in [Tables -> Phases]
      BY <1>1 DEF TypeOK, Phases
    <2> QED
      BY <1>1, <2>1, <2>2 DEF TypeOK
  <1>4. WorkInv' /\ QueueInv'
    <2>1. "loading" \in Underway
      BY DEF Underway
    <2> QED
      BY <1>1, <2>1, WorkStep DEF IInv
  <1>5. PermitBound'
    <2>1. Loading' = Loading \cup {t} /\ t \notin Loading
      BY <1>1 DEF Loading, TypeOK
    <2>2. Cardinality(Loading') = Cardinality(Loading) + 1
          /\ Cardinality(Loading) \in Nat
      BY <1>1, <2>1, LoadingFinite, FS_AddElement
    <2>3. permits + Cardinality(Loading) = Permits /\ permits \in Nat
      BY <1>1 DEF IInv, PermitBound, TypeOK
    <2>4. permits' + Cardinality(Loading') = Permits
      BY <1>1, <2>2, <2>3
    <2> QED
      BY <2>4 DEF PermitBound
  <1>6. EndInv'
    BY <1>1, EndFrame DEF IInv
  <1> QED
    BY <1>2, <1>3, <1>4, <1>5, <1>6 DEF IInv

LEMMA ReleaseIInv == ASSUME NEW w \in Workers, IInv, Release(w) PROVE IInv'
  <1> PICK t \in Tables : t = work[w]
    BY DEF IInv, TypeOK, Release
  <1>1. PICK end \in {"storedAll", "thrown"} :
          /\ phase' = [phase EXCEPT ![t] = end] /\ permits' = permits + 1
    BY DEF Release, PermitsAfter
  <1>2. /\ TypeOK /\ work[w] # Nobody /\ phase[t] = "loading"
        /\ UNCHANGED <<main, mainAt, level, toSubmit, composer, result, queue,
                       work>>
    BY DEF IInv, Release
  <1>3. \A c \in Chains : ChainInv(c)'
    BY <1>1, <1>2, PhaseStep DEF IInv
  <1>4. TypeOK'
    <2>1. permits' \in Nat
      BY <1>1, <1>2 DEF TypeOK
    <2>2. phase' \in [Tables -> Phases]
      BY <1>1, <1>2 DEF TypeOK, Phases
    <2> QED
      BY <1>2, <2>1, <2>2 DEF TypeOK
  <1>5. WorkInv' /\ QueueInv'
    <2>1. end \in Underway
      BY DEF Underway
    <2> QED
      BY <1>1, <1>2, <2>1, WorkStep DEF IInv
  <1>6. PermitBound'
    <2>1. Loading' = Loading \ {t} /\ t \in Loading
      BY <1>1, <1>2 DEF Loading, TypeOK
    <2>2. Cardinality(Loading') = Cardinality(Loading) - 1
          /\ Cardinality(Loading) \in Nat
      BY <1>2, <2>1, LoadingFinite, FS_RemoveElement
    <2>3. permits + Cardinality(Loading) = Permits /\ permits \in Nat
      BY <1>2 DEF IInv, PermitBound, TypeOK
    <2>4. permits' + Cardinality(Loading') = Permits
      BY <1>1, <2>2, <2>3
    <2> QED
      BY <2>4 DEF PermitBound
  <1>7. EndInv'
    BY <1>2, EndFrame DEF IInv
  <1> QED
    BY <1>3, <1>4, <1>5, <1>6, <1>7 DEF IInv

LEMMA CompleteIInv == ASSUME NEW w \in Workers, IInv, Complete(w) PROVE IInv'
  <1>1. work[w] # Nobody /\ work[w] \in Tables /\ TypeOK
    BY DEF Complete, IInv, TypeOK
  <1>2. PICK t \in Tables : t = work[w]
    BY <1>1
  <1>3. PICK c \in Chains : c = ChainOf(t) /\ t \in LevelTables(c)
    BY ChainOfTable
  <1>4. PICK ended \in {"loaded", "failed"} :
          phase' = [phase EXCEPT ![t] = ended]
    BY <1>2 DEF Complete
  <1>5. /\ phase[t] \in {"storedAll", "thrown"}
        /\ work' = [work EXCEPT ![w] = Nobody]
        /\ UNCHANGED <<main, mainAt, queue, permits>>
    BY <1>2 DEF Complete
  <1>6. /\ ChainInv(c) /\ t \in Current(c) /\ level[c] # 0
        /\ t \notin toSubmit[c] /\ result[c] = "running"
    BY <1>1, <1>3, <1>5, InCurrent DEF IInv
  <1>7. /\ level[c] \in 1..Len(Levels[c]) /\ level[c] \in DOMAIN Levels[c]
        /\ Current(c) = Levels[c][level[c]]
    BY <1>1, <1>6, LevelFacts DEF TypeOK, Current
  <1>8. phase'[t] = ended /\ \A u \in Tables \ {t} : phase'[u] = phase[u]
    BY <1>1, <1>4 DEF TypeOK
  <1>9. WorkInv' /\ QueueInv'
    BY <1>1, <1>2, <1>4, <1>5, WorkStep DEF IInv
  <1>10. PermitBound'
    BY <1>1, <1>4, <1>5, PermitsFrame DEF IInv
  <1>11. phase' \in [Tables -> Phases] /\ work' \in [Workers -> Tables \cup {Nobody}]
    BY <1>1, <1>4, <1>5 DEF TypeOK, Phases
  <1>12. CASE composer[c] = Nobody /\ OthersCompleted(c, t)
    <2>1. PICK x \in Continuers(c, w) :
            Advance(c, x, {phase'[u] : u \in Levels[c][level[c]]})
      BY <1>2, <1>3, <1>12 DEF Complete
    <2> DEFINE outcomes == {phase'[u] : u \in Levels[c][level[c]]}
    <2>2. x \in Workers \cup {Main}
      BY DEF Continuers
    <2>3. \A u \in Current(c) : phase'[u] \in {"loaded", "failed"}
      <3>1. Current(c) \subseteq Tables
        BY <1>7, LevelFacts
      <3> QED
        BY <1>7, <1>8, <1>12, <3>1 DEF OthersCompleted, Completed
    <2>4. LevelFails(outcomes) <=> \E u \in Current(c) : phase'[u] = "failed"
      BY <1>7 DEF LevelFails
    <2>5. \A i \in DOMAIN Levels[c] : \A u \in Levels[c][i] :
            /\ i < level[c] => phase'[u] = "loaded"
            /\ i > level[c] => phase'[u] = "idle"
            /\ i = level[c] => phase'[u] \in {"loaded", "failed"}
      <3> SUFFICES ASSUME NEW i \in DOMAIN Levels[c], NEW u \in Levels[c][i]
                   PROVE  /\ i < level[c] => phase'[u] = "loaded"
                          /\ i > level[c] => phase'[u] = "idle"
                          /\ i = level[c] => phase'[u] \in {"loaded", "failed"}
        OBVIOUS
      <3>1. CASE i = level[c]
        <4>1. u \in Current(c) /\ ~(i < level[c]) /\ ~(i > level[c])
          BY <1>7, <3>1
        <4> QED
          BY <2>3, <4>1
      <3>2. CASE i # level[c]
        <4>1. u # t
          BY <1>6, <1>7, <3>2, OneLevel
        <4>2. phase'[u] = phase[u]
          BY <1>8, <4>1, LevelFacts
        <4> QED
          BY <1>6, <3>2, <4>2 DEF ChainInv, LevelsInv
      <3> QED
        BY <3>1, <3>2
    <2>6. ChainInv(c)'
      <3> HIDE DEF outcomes
      <3>1. Advance(c, x, outcomes)
        BY <2>1 DEF outcomes
      <3>2. c \in Nat /\ mainAt' \in Nat /\ ~(c > mainAt')
        BY <1>1, <1>5, <1>6, LevelFacts DEF TypeOK, ChainInv, ComposerInv
      <3>3. toSubmit[c] = {}
        BY <1>6, <1>12 DEF ChainInv, ComposerInv
      <3> QED
        BY <1>1, <1>6, <2>2, <2>4, <2>5, <3>1, <3>2, <3>3, AdvanceChain
    <2>7. ASSUME NEW d \in Chains \ {c} PROVE ChainInv(d)'
      <3>1. /\ level'[d] = level[d] /\ toSubmit'[d] = toSubmit[d]
            /\ composer'[d] = composer[d] /\ result'[d] = result[d]
        BY <1>1, <2>1, <2>2, <2>7, AdvanceFrame
      <3>2. \A u \in LevelTables(d) : phase'[u] = phase[u]
        <4>1. t \notin LevelTables(d)
          BY <1>3, <2>7, OneChain
        <4> QED
          BY <1>8, <2>7, <4>1, LevelFacts
      <3> QED
        BY <1>1, <1>5, <2>7, <3>1, <3>2, ChainFrame DEF IInv
    <2>8. TypeOK'
      BY <1>1, <1>5, <1>11, <2>1, <2>2, AdvanceFrame DEF TypeOK
    <2>9. EndInv'
      BY <1>1, <1>5, <2>1, <2>2, AdvanceFrame, EndFrame DEF IInv
    <2> QED
      BY <1>9, <1>10, <2>6, <2>7, <2>8, <2>9 DEF IInv
  <1>13. CASE ~(composer[c] = Nobody /\ OthersCompleted(c, t))
    <2>1. UNCHANGED <<level, toSubmit, composer, result>>
      BY <1>2, <1>3, <1>13 DEF Complete
    <2>2. \A d \in Chains : ChainInv(d)'
      BY <1>1, <1>4, <1>5, <2>1, PhaseStep DEF IInv
    <2>3. TypeOK' /\ EndInv'
      BY <1>1, <1>5, <1>11, <2>1, EndFrame DEF TypeOK, IInv
    <2> QED
      BY <1>9, <1>10, <2>2, <2>3 DEF IInv
  <1> QED
    BY <1>12, <1>13

(* Join, and steps that change nothing.                                    *)
LEMMA FrameIInv ==
  ASSUME IInv, main' \in {"running", "returned", "threw"}, EndInv',
         UNCHANGED <<mainAt, level, toSubmit, composer, result, queue, work,
                     phase, permits>>
  PROVE  IInv'
  <1>1. TypeOK' /\ WorkInv' /\ QueueInv' /\ PermitBound'
    BY DEF IInv, TypeOK, WorkInv, QueueInv, PermitBound, Loading
  <1>2. \A c \in Chains : ChainInv(c)'
    BY ChainFrame DEF IInv
  <1> QED
    BY <1>1, <1>2 DEF IInv

LEMMA JoinIInv == IInv /\ Join => IInv'
  <1> SUFFICES ASSUME IInv, Join PROVE IInv'
    OBVIOUS
  <1>1. /\ UNCHANGED <<mainAt, level, toSubmit, composer, result, queue, work,
                       phase, permits>>
        /\ main' \in {"running", "returned", "threw"}
        /\ mainAt = Len(Levels) /\ AllEnded
    BY DEF Join
  <1>2. EndInv'
    BY <1>1 DEF EndInv, AllEnded
  <1> QED
    BY <1>1, <1>2, FrameIInv

LEMMA StutterIInv == IInv /\ UNCHANGED vars => IInv'
  <1> SUFFICES ASSUME IInv, UNCHANGED vars PROVE IInv'
    OBVIOUS
  <1> QED
    BY FrameIInv DEF vars, IInv, TypeOK, EndInv, Ended, AllEnded

LEMMA NextIInv == IInv /\ [Next]_vars => IInv'
  BY StartChainIInv, JoinIInv, SubmitIInv, ReturnLevelIInv, TakeIInv,
     AcquireIInv, ReleaseIInv, CompleteIInv, StutterIInv
  DEF Next, MainStep, Compose, WorkerStep

LEMMA Invariance == Spec => []IInv
  BY InitIInv, NextIInv, PTL DEF Spec

-----------------------------------------------------------------------------
(* The theorems.                                                           *)

(* The variables of the level chains, the pool and the semaphore keep      *)
(* their ranges; a permit is never taken that is not there.                *)
THEOREM TypeCorrect == Spec => []TypeOK
  <1>1. IInv => TypeOK
    BY DEF IInv
  <1> QED
    BY <1>1, Invariance, PTL

(* No permit of the semaphore is lost or made, whatever loads throw.       *)
THEOREM PermitsAreKept == Spec => []PermitBound
  <1>1. IInv => PermitBound
    BY DEF IInv
  <1> QED
    BY <1>1, Invariance, PTL

(* A table is not begun before every table of every earlier level of its   *)
(* component is loaded, in whatever threads the continuations run.         *)
LEMMA BarrierHolds == IInv => LevelBarrier
  <1> SUFFICES ASSUME IInv, NEW c \in Chains, NEW i \in DOMAIN Levels[c],
                      NEW t \in Levels[c][i], phase[t] # "idle",
                      NEW j \in 1..(i - 1), NEW u \in Levels[c][j]
               PROVE  phase[u] = "loaded"
    BY DEF LevelBarrier
  <1>1. i \in 1..Len(Levels[c]) /\ Len(Levels[c]) \in Nat /\ level[c] \in Nat
    BY LevelFacts DEF IInv, TypeOK
  <1>2. ~(i > level[c])
    BY DEF IInv, ChainInv, LevelsInv
  <1>3. j \in DOMAIN Levels[c] /\ j < level[c]
    BY <1>1, <1>2, LevelFacts
  <1> QED
    BY <1>3 DEF IInv, ChainInv, LevelsInv

THEOREM LevelsAreBarriers == Spec => []LevelBarrier
  BY BarrierHolds, Invariance, PTL

(* What the future of a component says of its tables is true.              *)
LEMMA ResultHolds == IInv => ResultIsTrue
  <1> SUFFICES ASSUME IInv, NEW c \in Chains
               PROVE  /\ result[c] = "ok" =>
                           \A t \in LevelTables(c) : phase[t] = "loaded"
                      /\ result[c] = "failed" =>
                           /\ \E t \in LevelTables(c) : phase[t] = "failed"
                           /\ \A t \in LevelTables(c) :
                                 Completed(t) \/ phase[t] = "idle"
    BY DEF ResultIsTrue
  <1>1. ChainInv(c) /\ level[c] \in 0..Len(Levels[c]) /\ Len(Levels[c]) \in Nat
    BY LevelFacts DEF IInv, TypeOK
  <1>2. \A t \in Current(c) : t \in LevelTables(c)
    BY <1>1, LevelFacts DEF Current, LevelTables
  <1>3. ASSUME NEW t \in LevelTables(c)
        PROVE  phase[t] \in {"loaded", "idle"} \/ t \in Current(c)
    <2>1. PICK i \in DOMAIN Levels[c] : t \in Levels[c][i]
      BY <1>3 DEF LevelTables
    <2>2. i \in Nat /\ i # 0
      BY LevelFacts
    <2>3. CASE i = level[c]
      BY <2>1, <2>2, <2>3 DEF Current
    <2>4. CASE i # level[c]
      <3>1. i < level[c] \/ i > level[c]
        BY <1>1, <2>2, <2>4
      <3> QED
        BY <1>1, <2>1, <3>1 DEF ChainInv, LevelsInv
    <2> QED
      BY <2>3, <2>4
  <1>4. ASSUME result[c] = "ok", NEW t \in LevelTables(c)
        PROVE  phase[t] = "loaded"
    <2>1. level[c] = Len(Levels[c])
          /\ \A u \in Current(c) : phase[u] = "loaded"
      BY <1>1, <1>4 DEF ChainInv, ResultInv
    <2>2. PICK i \in DOMAIN Levels[c] : t \in Levels[c][i]
      BY <1>4 DEF LevelTables
    <2>3. i \in 1..level[c] /\ i # 0 /\ i \in Nat
      BY <2>1, LevelFacts
    <2>4. CASE i = level[c]
      BY <2>1, <2>2, <2>3, <2>4 DEF Current
    <2>5. CASE i # level[c]
      <3>1. i < level[c]
        BY <2>3, <2>5, <1>1
      <3> QED
        BY <1>1, <2>2, <3>1 DEF ChainInv, LevelsInv
    <2> QED
      BY <2>4, <2>5
  <1>5. ASSUME result[c] = "failed"
        PROVE  /\ \E t \in LevelTables(c) : phase[t] = "failed"
               /\ \A t \in LevelTables(c) : Completed(t) \/ phase[t] = "idle"
    BY <1>1, <1>2, <1>3, <1>5 DEF ChainInv, ResultInv, Completed
  <1> QED
    BY <1>4, <1>5

THEOREM FuturesTellTheTruth == Spec => []ResultIsTrue
  BY ResultHolds, Invariance, PTL

(* When every component's future has ended, no table is between idle and   *)
(* its end.                                                                *)
LEMMA EndedTables ==
  ASSUME IInv, AllEnded, NEW t \in Tables
  PROVE  phase[t] \in {"idle", "loaded", "failed"}
  <1>1. PICK c \in Chains : t \in LevelTables(c)
    BY ChainOfTable
  <1>2. result[c] \in {"ok", "failed"}
    BY DEF AllEnded, IInv, TypeOK
  <1> QED
    BY <1>1, <1>2, ResultHolds DEF ResultIsTrue, Completed

(* generateData returns or throws only when the queue is empty, no thread  *)
(* has a table or a continuation, and every permit is back.                *)
LEMMA QuietHolds == IInv => QuietAtEnd
  <1> SUFFICES ASSUME IInv, Ended
               PROVE  /\ queue = <<>> /\ permits = Permits
                      /\ \A w \in Workers : work[w] = Nobody
                      /\ \A c \in Chains : composer[c] = Nobody
    BY DEF QuietAtEnd
  <1>1. AllEnded /\ TypeOK
    BY DEF IInv, EndInv
  <1>2. queue = <<>>
    <2> SUFFICES ASSUME queue # <<>> PROVE FALSE
      OBVIOUS
    <2>1. 1 \in 1..Len(queue) /\ queue[1] \in Tables
      BY <1>1 DEF TypeOK
    <2> QED
      BY <1>1, <2>1, EndedTables DEF IInv, QueueInv
  <1>3. \A w \in Workers : work[w] = Nobody
    BY <1>1, EndedTables DEF IInv, WorkInv, TypeOK, Underway
  <1>4. permits = Permits
    <2>1. Loading = {}
      BY <1>1, EndedTables DEF Loading
    <2> QED
      BY <1>1, <2>1, FS_EmptySet DEF IInv, PermitBound, TypeOK
  <1>5. \A c \in Chains : composer[c] = Nobody
    BY <1>1 DEF IInv, ChainInv, ComposerInv, AllEnded
  <1> QED
    BY <1>2, <1>3, <1>4, <1>5

THEOREM NothingRunsAtTheEnd == Spec => []QuietAtEnd
  BY QuietHolds, Invariance, PTL

-----------------------------------------------------------------------------
(* GenScheduler implements OrderedLoad.                                    *)

(* What the caller sees of the phase of a table.                           *)
Seen(p) == CASE p \in {"idle", "queued", "waiting"} -> "idle"
             [] p = "loading" -> "loading"
             [] p \in {"storedAll", "loaded"} -> "loaded"
             [] p \in {"thrown", "failed"} -> "failed"

LEMMA StatusIsSeen ==
  /\ status = [t \in Tables |-> Seen(phase[t])]
  /\ \A t \in Tables : status[t] = Seen(phase[t])
  BY DEF status, Seen

LEMMA SameTables ==
  /\ Promise!Tables = Tables
  /\ \A c : Promise!LevelTables(c) = LevelTables(c)
  BY DEF Promise!Tables, Promise!LevelTables, Tables, LevelTables, Chains

LEMMA SameLoading == TypeOK => Promise!Loading = Loading
  <1> SUFFICES ASSUME TypeOK PROVE Promise!Loading = Loading
    OBVIOUS
  <1>1. \A t \in Tables : Seen(phase[t]) = "loading" <=> phase[t] = "loading"
    BY DEF TypeOK, Phases, Seen
  <1> QED
    BY <1>1, SameTables, StatusIsSeen DEF Promise!Loading, Loading

(* A step that changes what the caller sees of no table.                   *)
LEMMA Unseen ==
  ASSUME TypeOK, NEW t \in Tables, NEW q, Seen(q) = Seen(phase[t]),
         phase' = [phase EXCEPT ![t] = q], main' = main
  PROVE  UNCHANGED <<status, outcome>>
  <1>1. \A u \in Tables : Seen(phase'[u]) = Seen(phase[u])
    BY DEF TypeOK
  <1> QED
    BY <1>1, StatusIsSeen DEF status, Seen, outcome

LEMMA SeenStep ==
  ASSUME TypeOK, NEW t \in Tables, NEW q,
         phase' = [phase EXCEPT ![t] = q]
  PROVE  status' = [status EXCEPT ![t] = Seen(q)]
  <1>1. status' = [u \in Tables |-> Seen(phase'[u])]
    BY DEF status, Seen
  <1>2. \A u \in Tables : Seen(phase'[u]) = IF u = t THEN Seen(q)
                                            ELSE status[u]
    BY StatusIsSeen DEF TypeOK
  <1> QED
    BY <1>1, <1>2, StatusIsSeen

(* A permit is acquired: the table starts, its parents being loaded and    *)
(* fewer than Permits tables beside it.                                    *)
LEMMA AcquireStarts ==
  ASSUME IInv, NEW w \in Workers, Acquire(w)
  PROVE  \E t \in Tables : Promise!Start(t)
  <1> PICK t \in Tables : t = work[w]
    BY DEF IInv, TypeOK, Acquire
  <1>1. /\ TypeOK /\ phase[t] = "waiting" /\ permits > 0 /\ main' = main
        /\ phase' = [phase EXCEPT ![t] = "loading"]
    BY DEF IInv, Acquire, HasPermit
  <1>2. outcome = "running" /\ outcome' = outcome
    <2>1. ~AllEnded
      BY <1>1, EndedTables
    <2> QED
      BY <1>1, <2>1 DEF IInv, EndInv, Ended, outcome
  <1>3. status[t] = "idle" /\ status' = [status EXCEPT ![t] = "loading"]
    BY <1>1, StatusIsSeen, SeenStep DEF Seen
  <1>4. ASSUME NEW p \in Parents[t] PROVE status[p] = "loaded"
    <2>1. PICK c \in Chains : t \in LevelTables(c)
      BY ChainOfTable
    <2>2. PICK i \in DOMAIN Levels[c] : t \in Levels[c][i]
      BY <2>1 DEF LevelTables
    <2>3. PICK j \in 1..(i - 1) : p \in Levels[c][j]
      BY <2>2, GenSchedulerAssumption DEF GenSchedulerAssumption
    <2>4. phase[p] = "loaded"
      BY <1>1, <2>2, <2>3, BarrierHolds DEF LevelBarrier
    <2>5. p \in Tables
      BY GenSchedulerAssumption DEF GenSchedulerAssumption
    <2> QED
      BY <2>4, <2>5, StatusIsSeen DEF Seen
  <1>5. Promise!Cardinality(Promise!Loading) < Permits
    <2>1. permits + Cardinality(Loading) = Permits /\ permits \in Nat
          /\ Cardinality(Loading) \in Nat
      BY <1>1, LoadingFinite DEF IInv, PermitBound, TypeOK
    <2>2. Cardinality(Loading) < Permits
      BY <1>1, <2>1
    <2>3. Promise!Cardinality(Loading) = Cardinality(Loading)
      BY DEF Promise!Cardinality, Cardinality
    <2> QED
      BY <1>1, <2>2, <2>3, SameLoading
  <1> QED
    BY <1>2, <1>3, <1>4, <1>5 DEF Promise!Start

LEMMA ReleaseEnds ==
  ASSUME IInv, NEW w \in Workers, Release(w)
  PROVE  \E t \in Tables : Promise!Finish(t) \/ Promise!Fail(t)
  <1> PICK t \in Tables : t = work[w]
    BY DEF IInv, TypeOK, Release
  <1>1. PICK end \in {"storedAll", "thrown"} :
          phase' = [phase EXCEPT ![t] = end]
    BY DEF Release
  <1>2. TypeOK /\ phase[t] = "loading" /\ outcome' = outcome
    BY DEF IInv, Release, outcome
  <1>3. status[t] = "loading" /\ status' = [status EXCEPT ![t] = Seen(end)]
    BY <1>1, <1>2, StatusIsSeen, SeenStep DEF Seen
  <1>4. Seen(end) \in {"loaded", "failed"}
    BY DEF Seen
  <1> QED
    BY <1>2, <1>3, <1>4 DEF Promise!Finish, Promise!Fail

LEMMA JoinEnds == ASSUME IInv, Join PROVE Promise!End
  <1>1. /\ TypeOK /\ AllEnded /\ main = "running" /\ phase' = phase
        /\ main' = IF \E c \in Chains : result[c] = "failed"
                   THEN "threw" ELSE "returned"
    BY DEF IInv, Join
  <1>2. status' = status
    BY <1>1 DEF status
  <1>3. Promise!Loading = {}
    BY <1>1, EndedTables, SameLoading DEF Loading
  <1>4. ASSUME NEW c \in Chains
        PROVE  /\ result[c] = "ok" =>
                     \A t \in LevelTables(c) : status[t] = "loaded"
               /\ result[c] = "failed" =>
                     \E t \in LevelTables(c) : status[t] = "failed"
               /\ result[c] \in {"ok", "failed"}
    <2>1. LevelTables(c) \subseteq Tables
      BY LevelFacts
    <2> QED
      BY <1>1, <2>1, ResultHolds, StatusIsSeen
      DEF ResultIsTrue, Seen, AllEnded, TypeOK
  <1>5. \A c \in Chains : \/ \A t \in LevelTables(c) : status[t] = "loaded"
                          \/ \E t \in LevelTables(c) : status[t] = "failed"
    BY <1>4
  <1>6. (\E c \in Chains : result[c] = "failed")
          <=> \E t \in Tables : status[t] = "failed"
    BY <1>4, ChainOfTable, LevelFacts
  <1> QED
    BY <1>1, <1>2, <1>3, <1>5, <1>6, SameTables
    DEF Promise!End, outcome, Chains

LEMMA OthersStutter ==
  ASSUME IInv,
         \/ StartChain
         \/ \E c \in Chains : Compose(c)
         \/ \E w \in Workers : Take(w) \/ Complete(w)
         \/ UNCHANGED vars
  PROVE  UNCHANGED <<status, outcome>>
  <1> TypeOK
    BY DEF IInv
  <1>1. CASE phase' = phase /\ main' = main
    BY <1>1 DEF status, outcome
  <1>2. CASE \E c \in Chains : Submit(c)
    <2>c. PICK c \in Chains : Submit(c)
      BY <1>2
    <2>1. PICK t \in toSubmit[c] :
            /\ composer[c] # Nobody /\ main' = main
            /\ phase' = [phase EXCEPT ![t] = "queued"]
      BY <2>c DEF Submit
    <2>2. t \in Current(c) /\ level[c] # 0
      BY <2>1 DEF IInv, ChainInv, ComposerInv, Current
    <2>3. level[c] \in DOMAIN Levels[c] /\ t \in Levels[c][level[c]]
          /\ t \in Tables
      BY <2>2, LevelFacts DEF Current, TypeOK
    <2>4. phase[t] = "idle"
      BY <2>1, <2>3 DEF IInv, ChainInv, LevelsInv, TypeOK
    <2> QED
      BY <2>1, <2>3, <2>4, Unseen DEF Seen
  <1>3. CASE \E w \in Workers : Take(w)
    <2>1. queue[1] \in Tables /\ phase[queue[1]] = "queued"
          /\ phase' = [phase EXCEPT ![queue[1]] = "waiting"] /\ main' = main
      BY <1>3 DEF Take, IInv, QueueInv, TypeOK
    <2> QED
      BY <2>1, Unseen DEF Seen
  <1>4. ASSUME NEW w \in Workers, Complete(w)
        PROVE  UNCHANGED <<status, outcome>>
    <2>1. PICK t \in Tables : t = work[w]
      BY <1>4 DEF Complete, TypeOK
    <2>2. /\ phase[t] \in {"storedAll", "thrown"} /\ main' = main
          /\ phase' = [phase EXCEPT ![t] = IF phase[t] = "storedAll"
                                           THEN "loaded" ELSE "failed"]
      BY <1>4, <2>1 DEF Complete
    <2> QED
      BY <2>1, <2>2, Unseen DEF Seen
  <1> QED
    BY <1>1, <1>2, <1>3, <1>4 DEF StartChain, Compose, ReturnLevel, vars

LEMMA StepImplements ==
  IInv /\ [Next]_vars => [Promise!Next]_<<status, outcome>>
  <1> SUFFICES ASSUME IInv, [Next]_vars
               PROVE  [Promise!Next]_<<status, outcome>>
    OBVIOUS
  <1>1. CASE Join
    BY <1>1, JoinEnds DEF Promise!Next
  <1>2. CASE \E w \in Workers : Acquire(w)
    BY <1>2, AcquireStarts, SameTables DEF Promise!Next
  <1>3. CASE \E w \in Workers : Release(w)
    BY <1>3, ReleaseEnds, SameTables DEF Promise!Next
  <1>4. CASE \/ StartChain
             \/ \E c \in Chains : Compose(c)
             \/ \E w \in Workers : Take(w) \/ Complete(w)
             \/ UNCHANGED vars
    BY <1>4, OthersStutter
  <1> QED
    BY <1>1, <1>2, <1>3, <1>4 DEF Next, MainStep, WorkerStep

LEMMA InitImplements == Init => Promise!Init
  <1> SUFFICES ASSUME Init PROVE Promise!Init
    OBVIOUS
  <1>1. \A t \in Tables : Seen(phase[t]) = "idle"
    BY DEF Init, Seen
  <1> QED
    BY <1>1, StatusIsSeen, SameTables DEF Init, Promise!Init, outcome

(* The level chains, the pool and the semaphore together do no more than   *)
(* OrderedLoad allows: what the callers of generateData may rely on.       *)
THEOREM SchedulerImplementsOrderedLoad == Spec => KeepsPromise
  BY InitImplements, StepImplements, Invariance, PTL
  DEF Spec, KeepsPromise, Promise!Spec
=============================================================================
