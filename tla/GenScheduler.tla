---------------------------- MODULE GenScheduler ----------------------------
(***************************************************************************)
(* The scheduling half of DatabaseDataGenerator.generateData: the level    *)
(* chain of each component (CompletableFuture.thenCompose), the fixed      *)
(* thread pool of Pipeline with its FIFO queue, and the semaphore that     *)
(* bounds how many tables are loaded at once.  Loading a table is one      *)
(* step here (module TableLoad is what it does); it ends well or throws.   *)
(*                                                                         *)
(* A continuation runs in the thread that completes the future it waits    *)
(* for, or in main when that future is complete before main registers it.  *)
(***************************************************************************)
EXTENDS Integers, Sequences, FiniteSets

CONSTANTS
  Levels,   \* getGenerationOrder of every component, in stream order
  Parents,  \* for each table, the tables its foreign keys reference
  Workers,  \* the threads of the generation pool
  Permits,  \* globStoreThreads
  Main,     \* the thread that called generateData
  Nobody

Chains == DOMAIN Levels
LevelTables(c) == UNION {Levels[c][i] : i \in DOMAIN Levels[c]}
Tables == UNION {LevelTables(c) : c \in Chains}

(* The levels as DependencyGraph builds them: LevelsSuitScheduler, for     *)
(* each component.                                                         *)
ASSUME GenSchedulerAssumption ==
  /\ Levels \in Seq(Seq((SUBSET Tables) \ {{}}))
  /\ IsFiniteSet(Tables)
  /\ Parents \in [Tables -> SUBSET Tables]
  /\ \A c \in Chains : \A i \in DOMAIN Levels[c] : \A t \in Levels[c][i] :
        \A p \in Parents[t] : \E j \in 1..(i - 1) : p \in Levels[c][j]
  /\ \A c, d \in Chains : \A i \in DOMAIN Levels[c], j \in DOMAIN Levels[d] :
        Levels[c][i] \cap Levels[d][j] # {} => c = d /\ i = j
  /\ IsFiniteSet(Workers) /\ Workers # {}
  /\ Permits \in Nat \ {0}
  /\ Main \notin Workers /\ Nobody \notin Workers \cup Tables \cup {Main}

VARIABLES
  main,      \* whether generateData runs, or how it ended
  mainAt,    \* the component main is chaining
  level,     \* the level each component is at
  toSubmit,  \* the tables of that level runAsync was not called for yet
  composer,  \* the thread that runs the continuation of each component
  result,    \* the future of each component
  queue,     \* the queue of the pool
  work,      \* the table each pool thread has taken
  phase,     \* how far the task of each table is
  permits    \* the semaphore

vars == <<main, mainAt, level, toSubmit, composer, result, queue, work,
          phase, permits>>

-----------------------------------------------------------------------------

ChainOf(t) == CHOOSE c \in Chains : t \in LevelTables(c)

Completed(t) == phase[t] \in {"loaded", "failed"}

Init ==
  /\ main = "running" /\ mainAt = 0
  /\ level = [c \in Chains |-> 0]
  /\ toSubmit = [c \in Chains |-> {}]
  /\ composer = [c \in Chains |-> Nobody]
  /\ result = [c \in Chains |-> "running"]
  /\ queue = <<>>
  /\ work = [w \in Workers |-> Nobody]
  /\ phase = [t \in Tables |-> "idle"]
  /\ permits = Permits

(* The future of a component's level is complete: its result fails the     *)
(* chain, ends it, or lets thread x run the continuation, which creates    *)
(* the next level's futures.  outcomes are the phases the level ended in.  *)
IgnoreFailures(outcomes) == FALSE
LevelFails(outcomes) == "failed" \in outcomes

Advance(c, x, outcomes) ==
  IF LevelFails(outcomes) \/ level[c] = Len(Levels[c])
  THEN /\ result' = [result EXCEPT ![c] = IF LevelFails(outcomes)
                                           THEN "failed" ELSE "ok"]
       /\ composer' = [composer EXCEPT ![c] = Nobody]
       /\ UNCHANGED <<level, toSubmit>>
  ELSE /\ level' = [level EXCEPT ![c] = @ + 1]
       /\ toSubmit' = [toSubmit EXCEPT ![c] = Levels[c][level[c] + 1]]
       /\ composer' = [composer EXCEPT ![c] = x]
       /\ UNCHANGED result

(* Who may run the next continuation when thread x completes a level: main *)
(* as long as it may not have registered that continuation yet.            *)
Continuers(c, x) == {x} \cup (IF mainAt = c THEN {Main} ELSE {})

(* main maps the next component: its chain starts from a completed future, *)
(* so main itself runs the continuation of the first level.                *)
StartChain ==
  /\ mainAt < Len(Levels)
  /\ mainAt > 0 => composer[mainAt] # Main
  /\ mainAt' = mainAt + 1
  /\ Advance(mainAt + 1, Main, {})
  /\ UNCHANGED <<main, queue, work, phase, permits>>

(* runAsync for one table of the level, in the thread of the continuation. *)
Submit(c) ==
  \E t \in toSubmit[c] :
    /\ composer[c] # Nobody
    /\ toSubmit' = [toSubmit EXCEPT ![c] = @ \ {t}]
    /\ queue' = Append(queue, t)
    /\ phase' = [phase EXCEPT ![t] = "queued"]
    /\ UNCHANGED <<main, mainAt, level, composer, result, work, permits>>

(* The futures of the level's tables, the one of table t aside, are        *)
(* complete: what allOf waits for.                                         *)
OthersTaken(c, t) ==
  \A u \in Levels[c][level[c]] \ {t} : phase[u] \notin {"idle", "queued"}
OthersCompleted(c, t) == \A u \in Levels[c][level[c]] \ {t} : Completed(u)

(* The continuation returns the future of its level.  It is complete       *)
(* already when every task has been; then the same thread goes on.         *)
ReturnLevel(c) ==
  /\ composer[c] # Nobody /\ toSubmit[c] = {}
  /\ IF OthersCompleted(c, Nobody)
     THEN \E x \in Continuers(c, composer[c]) :
            Advance(c, x, {phase[t] : t \in Levels[c][level[c]]})
     ELSE /\ composer' = [composer EXCEPT ![c] = Nobody]
          /\ UNCHANGED <<level, toSubmit, result>>
  /\ UNCHANGED <<main, mainAt, queue, work, phase, permits>>

Composing(w) == \E c \in Chains : composer[c] = w

(* A free thread of the pool takes the oldest task.                        *)
Take(w) ==
  /\ work[w] = Nobody /\ ~Composing(w) /\ queue # <<>>
  /\ work' = [work EXCEPT ![w] = Head(queue)]
  /\ queue' = Tail(queue)
  /\ phase' = [phase EXCEPT ![Head(queue)] = "waiting"]
  /\ UNCHANGED <<main, mainAt, level, toSubmit, composer, result, permits>>

(* globalSemaphore.acquire(): the thread is blocked until a permit is free *)
HasPermit == permits > 0
Acquire(w) ==
  /\ work[w] # Nobody /\ phase[work[w]] = "waiting" /\ HasPermit
  /\ permits' = permits - 1
  /\ phase' = [phase EXCEPT ![work[w]] = "loading"]
  /\ UNCHANGED <<main, mainAt, level, toSubmit, composer, result, queue,
                 work>>

(* The load ends, well or with an exception, and finally gives the permit  *)
(* back before the task's future completes.                                *)
OnlyWhenLoaded(end) == IF end = "storedAll" THEN permits + 1 ELSE permits
PermitsAfter(end) == permits + 1
Release(w) ==
  /\ work[w] # Nobody /\ phase[work[w]] = "loading"
  /\ \E end \in {"storedAll", "thrown"} :
       /\ phase' = [phase EXCEPT ![work[w]] = end]
       /\ permits' = PermitsAfter(end)
  /\ UNCHANGED <<main, mainAt, level, toSubmit, composer, result, queue,
                 work>>

(* The task's future completes.  The last one of its level completes allOf *)
(* as well, and with it the continuation runs, here unless main has not    *)
(* registered it yet.                                                      *)
Complete(w) ==
  LET t == work[w]
      c == ChainOf(t)
      peers == Levels[c][level[c]]
      ended == IF phase[t] = "storedAll" THEN "loaded" ELSE "failed"
  IN
  /\ t # Nobody /\ phase[t] \in {"storedAll", "thrown"}
  /\ phase' = [phase EXCEPT ![t] = ended]
  /\ work' = [work EXCEPT ![w] = Nobody]
  /\ IF composer[c] = Nobody /\ OthersCompleted(c, t)
     THEN \E x \in Continuers(c, w) :
            Advance(c, x, {phase'[u] : u \in peers})
     ELSE UNCHANGED <<level, toSubmit, composer, result>>
  /\ UNCHANGED <<main, mainAt, queue, permits>>

(* join(): main waits for all components and rethrows their failure.       *)
FailFast == \/ \E c \in Chains : result[c] = "failed"
            \/ \A c \in Chains : result[c] # "running"
AllEnded == \A c \in Chains : result[c] # "running"
Join ==
  /\ main = "running" /\ mainAt = Len(Levels)
  /\ mainAt > 0 => composer[mainAt] # Main
  /\ AllEnded
  /\ main' = IF \E c \in Chains : result[c] = "failed"
             THEN "threw" ELSE "returned"
  /\ UNCHANGED <<mainAt, level, toSubmit, composer, result, queue, work,
                 phase, permits>>

WorkerStep(w) == Take(w) \/ Acquire(w) \/ Release(w) \/ Complete(w)
Compose(c) == Submit(c) \/ ReturnLevel(c)
MainStep == StartChain \/ Join

Next ==
  \/ MainStep
  \/ \E c \in Chains : Compose(c)
  \/ \E w \in Workers : WorkerStep(w)

(* Every thread goes on while it can.  The semaphore is not fair, but no   *)
(* holder of a permit waits for another thread and there are finitely many *)
(* tables, so weak fairness is enough.  That a load ends is what TableLoad *)
(* shows, under the assumptions named there.                               *)
Fairness ==
  /\ WF_vars(MainStep)
  /\ \A c \in Chains : WF_vars(Compose(c))
  /\ \A w \in Workers : WF_vars(WorkerStep(w))

Spec == Init /\ [][Next]_vars /\ Fairness
-----------------------------------------------------------------------------
(* Properties.                                                             *)

Ended == main # "running"
Loading == {t \in Tables : phase[t] = "loading"}
Phases == {"idle", "queued", "waiting", "loading", "storedAll", "thrown",
           "loaded", "failed"}

(* Every variable keeps its range; the semaphore never goes below zero.    *)
TypeOK ==
  /\ main \in {"running", "returned", "threw"}
  /\ mainAt \in 0..Len(Levels)
  /\ level \in [Chains -> Nat]
  /\ \A c \in Chains : level[c] \in 0..Len(Levels[c])
  /\ toSubmit \in [Chains -> SUBSET Tables]
  /\ composer \in [Chains -> Workers \cup {Main, Nobody}]
  /\ result \in [Chains -> {"running", "ok", "failed"}]
  /\ queue \in Seq(Tables)
  /\ work \in [Workers -> Tables \cup {Nobody}]
  /\ phase \in [Tables -> Phases]
  /\ permits \in Nat

(* The permits that are free and the tables being loaded always add up to  *)
(* globStoreThreads: no permit is lost when a load throws, none is made.   *)
PermitBound == permits + Cardinality(Loading) = Permits

(* A table is in line, or further, only when every table of every level    *)
(* before its own is loaded.  So a table never generates foreign keys into *)
(* a parent that is incomplete or failed, however the tasks interleave.    *)
LevelBarrier ==
  \A c \in Chains : \A i \in DOMAIN Levels[c] : \A t \in Levels[c][i] :
     phase[t] # "idle" =>
        \A j \in 1..(i - 1) : \A u \in Levels[c][j] : phase[u] = "loaded"

(* The future of a component tells what became of its tables: "ok" when    *)
(* all of them are loaded, "failed" when one failed, and then no task of   *)
(* the component is left in the queue or in a thread.                      *)
ResultIsTrue ==
  \A c \in Chains :
     /\ result[c] = "ok" => \A t \in LevelTables(c) : phase[t] = "loaded"
     /\ result[c] = "failed" =>
           /\ \E t \in LevelTables(c) : phase[t] = "failed"
           /\ \A t \in LevelTables(c) : Completed(t) \/ phase[t] = "idle"

(* When generateData ends, normally or not, nothing runs any more: Pipeline *)
(* closes the data source right after an exception.                        *)
QuietAtEnd ==
  Ended => /\ queue = <<>> /\ permits = Permits
           /\ \A w \in Workers : work[w] = Nobody
           /\ \A c \in Chains : composer[c] = Nobody

(* generateData ends, whatever loads fail.                                 *)
MainEnds == <>Ended

(* What the caller of generateData can rely on: see OrderedLoad.           *)
status == [t \in Tables |->
             CASE phase[t] \in {"idle", "queued", "waiting"} -> "idle"
               [] phase[t] = "loading" -> "loading"
               [] phase[t] \in {"storedAll", "loaded"} -> "loaded"
               [] phase[t] \in {"thrown", "failed"} -> "failed"]
outcome == main
Promise == INSTANCE OrderedLoad
KeepsPromise == Promise!Spec
=============================================================================
