------------------------------ MODULE DumpSort ------------------------------
(***************************************************************************)
(* sortDumpableObjects of app/pg_ozerki/sort.c: TopoSort is tried until it *)
(* succeeds; after each failure findDependencyLoops looks for loops among  *)
(* the leftovers and repairDependencyLoop breaks each one it finds, by     *)
(* dropping a dependency and, for some pairs of objects, by marking one of *)
(* them to be dumped on its own and giving it dependencies instead.        *)
(*                                                                         *)
(* TopoSort itself is module TopoSort, which shows (FailureIsExact) what   *)
(* it leaves over; this module is about which dependencies survive.        *)
(***************************************************************************)
EXTENDS Integers, Sequences, FiniteSets, SequencesExt

CONSTANTS
  NumObjs,   \* objects are numbered by dump id
  Kind,      \* what each object is
  Owner,     \* ruletable, contable, adtable, condomain, parentidx (or 0)
  Shell,     \* shellType of a type (or 0)
  PostBound, \* postDataBoundId
  DepLists,  \* the dependencies collected before the sort
  MaxPasses  \* bound of the model: TopoSort calls

Objs == 1..NumObjs
Kinds == {"type", "shell", "func", "table", "view", "matview", "rule",
          "check", "domaincheck", "attrdef", "index", "pkey", "pre", "post"}
Tables == {o \in Objs : Kind[o] \in {"table", "view", "matview"}}

ASSUME DumpSortAssumption ==
  /\ NumObjs \in Nat
  /\ Kind \in [Objs -> Kinds]
  /\ Owner \in [Objs -> 0..NumObjs] /\ Shell \in [Objs -> 0..NumObjs]
  /\ PostBound \in Objs /\ MaxPasses \in Nat
  /\ DepLists \subseteq [Objs -> Seq(Objs)]

VARIABLES
  deps,         \* dependencies[] of each object
  separate,     \* rules, constraints and defaults to be dumped on their own
  dummy,        \* dummy_view: views printed without their rule
  postponed,    \* postponed_def: functions and matviews moved to post-data
  shells,       \* shell types marked to be dumped
  warned,       \* "could not resolve dependency loop among these items"
  pc,           \* "sort", "repair", "sorted" or "fatal"
  passes,       \* TopoSort calls so far
  leftovers,    \* the leftovers findDependencyLoops still has to look at
  processed,    \* processed[]
  searchFailed, \* searchFailed[]
  fixedloop

marks  == <<separate, dummy, postponed, shells, warned>>
search == <<leftovers, processed, searchFailed, fixedloop>>
vars   == <<deps, marks, pc, passes, search>>

-----------------------------------------------------------------------------
(* The dependency graph.                                                   *)

DependsOn(i, k) == k \in ToSet(deps[i])

Ascending(S) == SelectSeq([n \in Objs |-> n], LAMBDA o : o \in S)

(* What TopoSort cannot place: see TopoSort!Stuck.                         *)
RECURSIVE StuckAmong(_)
StuckAmong(S) ==
  LET T == {k \in S : \E i \in S : DependsOn(i, k)}
  IN IF T = S THEN S ELSE StuckAmong(T)

(* The objects that must be dumped before o.                               *)
RECURSIVE Below(_)
Below(S) ==
  LET T == S \cup UNION {ToSet(deps[o]) : o \in S}
  IN IF T = S THEN S ELSE Below(T)
Needs(o) == Below(ToSet(deps[o]))

(* removeObjectDependency: every entry.                                    *)
Without(list, ref) == SelectSeq(list, LAMBDA x : x # ref)

-----------------------------------------------------------------------------
(* findLoop: depth first from obj along the dependencies, back to start.   *)
(* The result is the loop (empty if there is none) and searchFailed.       *)

RECURSIVE FindLoop(_, _, _, _)
RECURSIVE TryBranches(_, _, _, _)

FindLasso(obj, start, workspace, failed) ==
  IF obj \in processed \/ failed[obj] = start
  THEN [loop |-> <<>>, failed |-> failed]
  ELSE IF Contains(workspace, obj) THEN [loop |-> workspace, failed |-> failed]
  ELSE LET r == TryBranches(deps[obj], start, Append(workspace, obj), failed)
       IN IF r.loop # <<>> THEN r
          ELSE [r EXCEPT !.failed = [@ EXCEPT ![obj] = start]]

FindLoop(obj, start, workspace, failed) ==
  IF obj \in processed \/ failed[obj] = start \/ Contains(workspace, obj)
  THEN [loop |-> <<>>, failed |-> failed]
  ELSE IF DependsOn(obj, start)
  THEN [loop |-> Append(workspace, obj), failed |-> failed]
  ELSE LET r == TryBranches(deps[obj], start, Append(workspace, obj), failed)
       IN IF r.loop # <<>> THEN r
          ELSE [r EXCEPT !.failed = [@ EXCEPT ![obj] = start]]

TryBranches(branches, start, workspace, failed) ==
  IF branches = <<>> THEN [loop |-> <<>>, failed |-> failed]
  ELSE LET r == FindLoop(Head(branches), start, workspace, failed)
       IN IF r.loop # <<>> THEN r
          ELSE TryBranches(Tail(branches), start, workspace, r.failed)

-----------------------------------------------------------------------------
(* repairDependencyLoop: the cases in the order in which they are tried.   *)
(* A repair is the dependencies to cut and to add, as pairs <<from, to>>,  *)
(* and the objects to mark.                                                *)

Cut(from, to) == [cut |-> <<from, to>>, add |-> <<>>, separate |-> {},
                  dummy |-> {}, postponed |-> {}, shells |-> {},
                  warned |-> FALSE]

Members(loop) == ToSet(loop)
Owns(a, b) == Owner[b] = a

(* The first pair of the loop, in the order of the nested scans, of an     *)
(* object of S and an object of kind k it owns.                            *)
OwnedPairs(loop, S, k) ==
  {p \in Members(loop) \X Members(loop) :
     p[1] \in S /\ Kind[p[2]] = k /\ Owns(p[1], p[2])}
At(loop, o) == CHOOSE n \in DOMAIN loop : loop[n] = o
FirstPair(loop, pairs) ==
  CHOOSE p \in pairs : \A q \in pairs :
     \/ At(loop, p[1]) < At(loop, q[1])
     \/ p[1] = q[1] /\ At(loop, p[2]) <= At(loop, q[2])

(* Two objects that need each other by construction: the dependent part    *)
(* stays inside its owner, and gives up its dependency on the owner.       *)
InlineRepair(owner, part) == Cut(part, owner)

(* In a longer loop the part is dumped separately: the owner gives up its  *)
(* dependency, the part gets its own back, and comes after the data if     *)
(* that is the part's place.                                               *)
SeparateRepair(owner, part, later) ==
  [Cut(owner, part) EXCEPT !.add = <<<<part, owner>>>> \o later,
                           !.separate = {part}]

Before(loop, o) ==
  IF o = Head(loop) THEN Last(loop) ELSE loop[At(loop, o) - 1]
After(loop, o) ==
  IF o = Last(loop) THEN Head(loop) ELSE loop[At(loop, o) + 1]

Has(loop, k) == \E o \in Members(loop) : Kind[o] = k
TheOne(loop, k) == CHOOSE o \in Members(loop) : Kind[o] = k

(* The pre-data boundary lets go of the next object of the loop.           *)
BoundaryRepair(loop, kind) ==
  LET pre  == TheOne(loop, "pre")
      next == After(loop, pre)
  IN [Cut(pre, next) EXCEPT !.postponed = {o \in {next} : Kind[o] = kind}]

(* A type and one of its functions: the function needs the shell type only *)
IsTypeFunc(loop) == Len(loop) = 2 /\ Has(loop, "type") /\ Has(loop, "func")
TypeFuncRepair(loop) ==
  LET t == TheOne(loop, "type")
      f == TheOne(loop, "func")
  IN IF Shell[t] = 0 THEN Cut(f, t)
     ELSE [Cut(f, t) EXCEPT !.add = <<<<f, Shell[t]>>>>, !.shells = {Shell[t]}]

IsIndexPair(loop) ==
  /\ Len(loop) = 2 /\ \A o \in Members(loop) : Kind[o] = "index"
  /\ Owner[loop[1]] = loop[2] \/ Owner[loop[2]] = loop[1]

Types == {o \in Objs : Kind[o] = "type"}
Views == {o \in Objs : Kind[o] = "view"}
Relations == {o \in Objs : Kind[o] \in {"view", "matview"}}

(* A part that is dumped on its own must be post-data.                     *)
Anywhere(p) == <<>>
AfterData(p) == <<<<p[2], PostBound>>>>

Repair(loop) ==
  LET two  == Len(loop) = 2
      many == Len(loop) > 2
      Pairs(S, k) == OwnedPairs(loop, S, k)
      Pair(S, k)  == FirstPair(loop, Pairs(S, k))
      Inline(S, k) == InlineRepair(Pair(S, k)[1], Pair(S, k)[2])
      Apart(S, k, later) == SeparateRepair(Pair(S, k)[1], Pair(S, k)[2], later)
  IN
  IF IsTypeFunc(loop) THEN TypeFuncRepair(loop)
  ELSE IF two /\ Pairs(Relations, "rule") # {} THEN Inline(Relations, "rule")
  ELSE IF many /\ Pairs(Views, "rule") # {}
       THEN [Apart(Views, "rule", AfterData(Pair(Views, "rule")))
               EXCEPT !.dummy = {Pair(Views, "rule")[1]}]
  ELSE IF many /\ Has(loop, "matview") /\ Has(loop, "pre")
       THEN BoundaryRepair(loop, "matview")
  ELSE IF many /\ Has(loop, "func") /\ Has(loop, "pre")
       THEN BoundaryRepair(loop, "func")
  ELSE IF two /\ Pairs(Tables, "check") # {} THEN Inline(Tables, "check")
  ELSE IF many /\ Pairs(Tables, "check") # {}
       THEN Apart(Tables, "check", AfterData(Pair(Tables, "check")))
  ELSE IF two /\ Pairs(Tables, "attrdef") # {} THEN Inline(Tables, "attrdef")
  ELSE IF IsIndexPair(loop)
       THEN IF Owner[loop[1]] = loop[2] THEN Cut(loop[1], loop[2])
                                        ELSE Cut(loop[2], loop[1])
  ELSE IF many /\ Pairs(Tables, "attrdef") # {}
       THEN Apart(Tables, "attrdef", <<>>)
  ELSE IF two /\ Pairs(Types, "domaincheck") # {}
       THEN Inline(Types, "domaincheck")
  ELSE IF many /\ Pairs(Types, "domaincheck") # {}
       THEN Apart(Types, "domaincheck", AfterData(Pair(Types, "domaincheck")))
  ELSE IF Len(loop) = 1 /\ loop[1] \in Tables THEN Cut(loop[1], loop[1])
  ELSE [Cut(loop[1], IF Len(loop) > 1 THEN loop[2] ELSE loop[1])
          EXCEPT !.warned = TRUE]

(* The dependencies after a repair.                                        *)
Repaired(r) ==
  LET kept == [deps EXCEPT ![r.cut[1]] = Without(@, r.cut[2])]
  IN [o \in Objs |->
        kept[o] \o [n \in DOMAIN SelectSeq(r.add, LAMBDA a : a[1] = o) |->
                      SelectSeq(r.add, LAMBDA a : a[1] = o)[n][2]]]

-----------------------------------------------------------------------------

Init ==
  /\ deps \in DepLists
  /\ separate = {} /\ dummy = {} /\ postponed = {} /\ shells = {}
  /\ warned = FALSE
  /\ pc = "sort" /\ passes = 0
  /\ leftovers = <<>> /\ processed = {} /\ fixedloop = FALSE
  /\ searchFailed = [o \in Objs |-> 0]

(* One TopoSort; on failure findDependencyLoops starts afresh with the     *)
(* leftovers, which come in the order of their dump ids.                   *)
Sort ==
  LET stuck == StuckAmong(Objs) IN
  /\ pc = "sort" /\ passes < MaxPasses
  /\ passes' = passes + 1
  /\ pc' = IF stuck = {} THEN "sorted" ELSE "repair"
  /\ leftovers' = Ascending(stuck)
  /\ processed' = {} /\ fixedloop' = FALSE
  /\ searchFailed' = [o \in Objs |-> 0]
  /\ UNCHANGED <<deps, marks>>

(* The loop body of findDependencyLoops for the next leftover.             *)
LookAt ==
  LET obj == Head(leftovers)
      found == FindLoop(obj, obj, <<>>, searchFailed)
      r == Repair(found.loop)
  IN
  /\ pc = "repair" /\ leftovers # <<>>
  /\ leftovers' = Tail(leftovers)
  /\ searchFailed' = found.failed
  /\ IF found.loop # <<>>
     THEN /\ deps' = Repaired(r)
          /\ separate' = separate \cup r.separate
          /\ dummy' = dummy \cup r.dummy
          /\ postponed' = postponed \cup r.postponed
          /\ shells' = shells \cup r.shells
          /\ warned' = (warned \/ r.warned)
          /\ processed' = processed \cup Members(found.loop)
          /\ fixedloop' = TRUE
     ELSE /\ processed' = processed \cup {obj}
          /\ UNCHANGED <<deps, marks, fixedloop>>
  /\ UNCHANGED <<pc, passes>>

(* "We'd better have fixed at least one loop."                             *)
EndPass ==
  /\ pc = "repair" /\ leftovers = <<>>
  /\ pc' = IF fixedloop THEN "sort" ELSE "fatal"
  /\ UNCHANGED <<deps, marks, passes, search>>

Next == Sort \/ LookAt \/ EndPass

Spec == Init /\ [][Next]_vars

-----------------------------------------------------------------------------
(* The loop of sortDumpableObjects ends: no pass finds leftovers without a *)
(* loop, and repairs never bring loops back for more than MaxPasses passes.*)
SortEnds == pc # "fatal" /\ (pc = "sort" => passes < MaxPasses)

(* A repair takes away only a dependency that is part of a loop: any other *)
(* one that is lost could have been kept.                                  *)
CutsOnLoops ==
  [][\A o \in Objs : \A p \in ToSet(deps[o]) \ ToSet(deps'[o]) :
        o \in {p} \cup Needs(p)]_vars

Sorted == pc = "sorted" /\ ~warned

(* A rule, constraint or default that is dumped on its own comes after its *)
(* owner ("to ensure the rule won't be emitted before the view") and, but  *)
(* for a default, after the data.                                          *)
SeparateComesLater ==
  \A o \in separate :
     /\ Owner[o] \in Needs(o)
     /\ Kind[o] # "attrdef" => PostBound \in Needs(o)

(* One that is printed inside its owner still pulls whatever it mentions   *)
(* ahead of the owner.                                                     *)
InlineComesFirst ==
  \A o \in Objs \ separate :
     Kind[o] \in {"rule", "check", "attrdef", "domaincheck"}
       => o \in Needs(Owner[o])

(* A function that its own type needs finds the shell type before it, and  *)
(* the shell type is dumped.                                               *)
ShellComesFirst ==
  \A o \in Objs : \A g \in ToSet(deps[o]) :
     /\ Kind[o] = "type" /\ Kind[g] = "func"
     /\ Shell[o] # 0
     => /\ Shell[o] \in Needs(g) /\ Shell[o] \in shells

(* What the repairs do to an object of two parts, in whatever order its    *)
(* loops were found: the part inside its owner comes first, the part apart *)
(* from it later, and a shell is there for the function that needs one.    *)
PartsInPlace == Sorted => SeparateComesLater /\ InlineComesFirst /\ ShellComesFirst
=============================================================================
