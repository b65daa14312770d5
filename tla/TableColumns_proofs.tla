------------------------- MODULE TableColumns_proofs -------------------------
(***************************************************************************)
(* Proofs about TableColumns, for any tables, batch sizes and parents.     *)
(***************************************************************************)
EXTENDS TableColumns, FiniteSetTheorems, SequenceTheorems, WellFoundedInduction, TLAPS

StateKinds == {"markov", "unique", "plain", "one", "many"}

(* Every state was made for some column of the table.                      *)
StatesInv ==
  /\ table \in Tables
  /\ states \in Seq([kind : StateKinds, cols : {Fills(c) : c \in table.cols}])

-----------------------------------------------------------------------------
(* A column is among those its state fills.                                *)

(* An element of a sequence over a set is in the set. *)
LEMMA ElementAt ==
  ASSUME NEW S, NEW s \in Seq(S), NEW k \in DOMAIN s
  PROVE  s[k] \in S
  OBVIOUS

(* A list of one column is a list of columns. *)
LEMMA SingleElement ==
  ASSUME NEW S, NEW c \in S
  PROVE  <<c>> \in Seq(S)
  OBVIOUS

(* A set of indices that is not empty has a least one: what CHOOSE finds. *)
LEMMA LeastIndex ==
  ASSUME NEW S, S \subseteq Nat, S # {}
  PROVE  \E i \in S : \A j \in S : i <= j
  <1>1. PICK i \in S : \A j \in S : ~ (<<j, i>> \in OpToRel(<, Nat))
    BY NatLessThanWellFounded, WFMin
  <1>2. \A j \in S : i \in Nat /\ j \in Nat /\ ~ (j < i)
    BY <1>1 DEF OpToRel
  <1>3. \A j \in S : i <= j
    BY <1>2
  <1> QED
    BY <1>3

(* The constraint found for a column is on that column. *)
LEMMA FirstOnIsOn ==
  ASSUME NEW c, NEW types, table \in Tables, ConstraintsOn(c, types) # {}
  PROVE  c \in ToSet(FirstOn(c, types).cols)
  <1> DEFINE S == ConstraintsOn(c, types)
  <1>1. table.constraints \in Seq([type : STRING, cols : Seq(table.cols), to : Seq(STRING)])
    BY TableColumnsAssumption DEF TableColumnsAssumption
  <1>2. S \subseteq Nat
    BY <1>1 DEF ConstraintsOn
  <1>3. \E i \in S : \A j \in S : i <= j
    <2> HIDE DEF S
    <2> S # {}
      BY DEF S
    <2> QED
      BY <1>2, LeastIndex
  <1>4. PICK k \in S : FirstOn(c, types) = table.constraints[k]
    BY <1>3 DEF FirstOn
  <1>5. Has(table.constraints[k], c)
    BY DEF ConstraintsOn
  <1> QED
    BY <1>4, <1>5 DEF Has

(* ensureColumnBatchStates fills at least the column it was asked for. *)
LEMMA FillsItself ==
  ASSUME NEW c, table \in Tables
  PROVE  c \in ToSet(Fills(c))
  <1>1. c \in ToSet(<<c>>)
    BY DEF ToSet
  <1>2. c \in ToSet(FirstPeers(c, Keys))
    BY <1>1, FirstOnIsOn DEF FirstPeers
  <1>3. c \in ToSet(FirstPeers(c, {"FK"}))
    BY <1>1, FirstOnIsOn DEF FirstPeers
  <1> QED
    BY <1>1, <1>2, <1>3 DEF Fills

(* It is one of the constraints of the table, and typed as they are. *)
LEMMA FirstOnIsOfTable ==
  ASSUME NEW c, NEW types, table \in Tables, ConstraintsOn(c, types) # {}
  PROVE  FirstOn(c, types).cols \in Seq(table.cols)
  <1>1. table.constraints \in Seq([type : STRING, cols : Seq(table.cols), to : Seq(STRING)])
    BY TableColumnsAssumption DEF TableColumnsAssumption
  <1>2. ConstraintsOn(c, types) \subseteq Nat
    BY <1>1 DEF ConstraintsOn
  <1>3. \E i \in ConstraintsOn(c, types) : \A j \in ConstraintsOn(c, types) : i <= j
    BY <1>2, LeastIndex
  <1>4. PICK k \in DOMAIN table.constraints : FirstOn(c, types) = table.constraints[k]
    BY <1>3 DEF FirstOn, ConstraintsOn
  <1> DEFINE Constraints == [type : STRING, cols : Seq(table.cols), to : Seq(STRING)]
  <1>5. table.constraints[k] \in Constraints
    <2>1. table.constraints \in Seq(Constraints)
      BY <1>1
    <2> HIDE DEF Constraints
    <2> QED
      BY <2>1, ElementAt
  <1> QED
    BY <1>4, <1>5

(* The columns it fills with it are columns of the table. *)
LEMMA FillsOwn ==
  ASSUME table \in Tables, NEW c \in table.cols
  PROVE  ToSet(Fills(c)) \subseteq table.cols
  <1>1. <<c>> \in Seq(table.cols)
    BY SingleElement
  <1>2. FirstPeers(c, Keys) \in Seq(table.cols) /\ FirstPeers(c, {"FK"}) \in Seq(table.cols)
    BY <1>1, FirstOnIsOfTable DEF FirstPeers
  <1>3. Fills(c) \in Seq(table.cols)
    BY <1>1, <1>2 DEF Fills
  <1> QED
    BY <1>3 DEF ToSet

(* What a column's generator fills depends on the table alone. *)
LEMMA FillsStays ==
  ASSUME UNCHANGED table, NEW c
  PROVE  Fills(c)' = Fills(c)
  BY DEF Fills, IsUnique, IsForeign, FirstPeers, FirstOn, ConstraintsOn, Has, Keys

(* Whether two generators overlap depends on the table alone. *)
LEMMA SeparateStays ==
  ASSUME UNCHANGED table
  PROVE  Separate' <=> Separate
  <1>1. \A c : Fills(c)' = Fills(c)
    BY FillsStays
  <1>2. ASSUME Separate PROVE Separate'
    BY <1>1, <1>2 DEF Separate
  <1>3. ASSUME Separate' PROVE Separate
    BY <1>1, <1>3 DEF Separate
  <1> QED
    BY <1>2, <1>3

(* What StatesInv says of one state.                                       *)
LEMMA StateType ==
  ASSUME StatesInv, NEW k \in DOMAIN states
  PROVE  \E c \in table.cols : states[k].cols = Fills(c)
  <1> DEFINE Elements == [kind : StateKinds, cols : {Fills(c) : c \in table.cols}]
  <1>1. states \in Seq(Elements)
    BY DEF StatesInv
  <1>2. states[k] \in Elements
    <2> HIDE DEF Elements
    <2> QED
      BY <1>1, ElementAt
  <1>3. states[k].cols \in {Fills(c) : c \in table.cols}
    BY <1>2
  <1> QED
    BY <1>3, Zenon

(* Every column has one of the five generators. *)
LEMMA KindIsKind == \A c : Kind(c) \in StateKinds
  BY DEF Kind, StateKinds

-----------------------------------------------------------------------------
(* Two states never share a column.                                        *)
Disjoint ==
  Separate => \A i, j \in DOMAIN states :
    ToSet(states[i].cols) \cap ToSet(states[j].cols) # {} => i = j
Complete == pc \notin {"states", "crashed"} => Covered = table.cols
Pcs == {"states", "produce", "store", "done", "crashed", "stopped"}
OneInv ==
  /\ StatesInv
  /\ pc \in Pcs
  /\ Disjoint
  /\ Complete

(* A column whose state is missing gets one that fills no column already filled. *)
LEMMA AddStateKeepsOne ==
  ASSUME OneInv, AddState
  PROVE  OneInv'
  <1> USE DEF OneInv, StatesInv
  <1>0. UNCHANGED table
    BY DEF AddState
  <1>1. \A c : Fills(c)' = Fills(c)
    BY <1>0, FillsStays
  <1>2. PICK c \in table.cols \ Covered :
          \/ states' = Append(states, [kind |-> Kind(c), cols |-> Fills(c)]) /\ pc' = "states"
          \/ UNCHANGED states /\ pc' = "crashed"
    BY DEF AddState
  <1>3. Separate' <=> Separate
    BY <1>0, SeparateStays
  <1> DEFINE Elements == [kind : StateKinds, cols : {Fills(d) : d \in table.cols}]
  <1>4. {Fills(d) : d \in table.cols}' = {Fills(d) : d \in table.cols}
    BY <1>0, <1>1, Zenon
  <1>5. CASE UNCHANGED states /\ pc' = "crashed"
    <2>1. StatesInv'
      BY <1>5, <1>0, <1>4
    <2>2. Disjoint'
      BY <1>5, <1>3 DEF Disjoint
    <2> QED
      BY <2>1, <2>2, <1>5 DEF Complete, Pcs
  <1>6. CASE states' = Append(states, [kind |-> Kind(c), cols |-> Fills(c)]) /\ pc' = "states"
    <2> DEFINE new == [kind |-> Kind(c), cols |-> Fills(c)]
    <2>1. new \in Elements
      BY KindIsKind
    <2>2. states' \in Seq(Elements)
      BY <2>1, <1>6
    <2>3. StatesInv'
      BY <2>2, <1>0, <1>4
    <2>4. Disjoint'
      <3> SUFFICES ASSUME Separate, NEW i \in DOMAIN states', NEW j \in DOMAIN states',
                          ToSet(states'[i].cols) \cap ToSet(states'[j].cols) # {}
                   PROVE  i = j
        BY <1>3 DEF Disjoint
      <3> DEFINE n == Len(states) + 1
      <3>1. /\ DOMAIN states' = DOMAIN states \cup {n}
            /\ n \notin DOMAIN states
            /\ states'[n] = new
            /\ \A k \in DOMAIN states : states'[k] = states[k]
        BY <1>6
      <3>2. ASSUME NEW k \in DOMAIN states, ToSet(states[k].cols) \cap ToSet(Fills(c)) # {}
            PROVE  FALSE
        <4>1. PICK e \in table.cols : states[k].cols = Fills(e)
          BY StateType
        <4>2. PICK d : d \in ToSet(Fills(e)) /\ d \in ToSet(Fills(c))
          BY <3>2, <4>1
        <4>3. ToSet(Fills(e)) = ToSet(Fills(c))
          BY <4>2 DEF Separate
        <4>4. c \in ToSet(states[k].cols)
          BY <4>1, <4>3, FillsItself
        <4> QED
          BY <4>4, <1>2 DEF Covered
      <3>3. ToSet(new.cols) = ToSet(Fills(c))
        OBVIOUS
      <3>4. CASE i \in DOMAIN states /\ j \in DOMAIN states
        BY <3>1, <3>4 DEF Disjoint
      <3>5. CASE i = n /\ j # n
        BY <3>1, <3>2, <3>3, <3>5
      <3>6. CASE j = n /\ i # n
        BY <3>1, <3>2, <3>3, <3>6
      <3> QED
        BY <3>1, <3>4, <3>5, <3>6
    <2> QED
      BY <2>3, <2>4, <1>6 DEF Complete, Pcs
  <1> QED
    BY <1>2, <1>5, <1>6

(* After that the states stay.                                             *)
LEMMA OthersKeepOne ==
  ASSUME OneInv, UNCHANGED <<table, states>>, pc' \in Pcs \ {"states"},
         pc' # "crashed" => Complete /\ pc # "crashed" /\ (pc = "states" => Covered = table.cols)
  PROVE  OneInv'
  <1>1. \A c : Fills(c)' = Fills(c)
    BY FillsStays
  <1>2. Separate' <=> Separate
    BY SeparateStays
  <1>3. StatesInv'
    BY <1>1 DEF OneInv, StatesInv
  <1>4. Disjoint'
    BY <1>2 DEF OneInv, Disjoint
  <1>5. Covered' = Covered
    BY DEF Covered
  <1>6. Complete'
    BY <1>5 DEF OneInv, Complete
  <1> QED
    BY <1>3, <1>4, <1>6 DEF OneInv

(* The states of the table under way never overlap, and once they are made *)
(* they cover its columns: the inductive form of OneStrategy.              *)
THEOREM OneInvariant == Spec => []OneInv
  <1>1. Init => OneInv
    <2> SUFFICES ASSUME Init PROVE OneInv
      OBVIOUS
    <2> QED
      BY DEF Init, OneInv, StatesInv, Pcs, Disjoint, Complete
  <1>2. OneInv /\ [Next]_vars => OneInv'
    <2> SUFFICES ASSUME OneInv, [Next]_vars PROVE OneInv'
      OBVIOUS
    <2>1. CASE AddState
      BY <2>1, AddStateKeepsOne
    <2>2. CASE StatesReady
      BY <2>2, OthersKeepOne DEF StatesReady, genVars, OneInv, Complete, Pcs
    <2>3. CASE ProducePlain
      BY <2>3, OthersKeepOne DEF ProducePlain, Put, Asking, OneInv, Pcs
    <2>4. CASE ProduceUnique
      BY <2>4, OthersKeepOne DEF ProduceUnique, Put, Crash, Asking, OneInv, Pcs
    <2>5. CASE ProduceMany
      BY <2>5, OthersKeepOne DEF ProduceMany, Put, Asking, OneInv, Pcs
    <2>6. CASE ProduceOne
      BY <2>6, OthersKeepOne DEF ProduceOne, Put, Crash, Asking, OneInv, Pcs
    <2>7. CASE ProduceKey
      BY <2>7, OthersKeepOne DEF ProduceKey, Put, Crash, Asking, OneInv, Pcs
    <2>8. CASE Stored
      BY <2>8, OthersKeepOne DEF Stored, NextBatch, OneInv, Pcs
    <2>9. CASE StoreThrew
      BY <2>9, OthersKeepOne DEF StoreThrew, NextBatch, OneInv, Pcs
    <2>10. CASE UNCHANGED vars
      <3>1. UNCHANGED <<table, states, pc>>
        BY <2>10 DEF vars, genVars
      <3>2. \A c : Fills(c)' = Fills(c)
        BY <3>1, FillsStays
      <3>3. Separate' <=> Separate
        BY <3>1, SeparateStays
      <3>4. StatesInv'
        BY <3>1, <3>2 DEF OneInv, StatesInv
      <3>5. Disjoint'
        BY <3>1, <3>3 DEF OneInv, Disjoint
      <3>6. Complete'
        BY <3>1 DEF OneInv, Complete, Covered
      <3> QED
        BY <3>1, <3>4, <3>5, <3>6 DEF OneInv
    <2> QED
      BY <2>1, <2>2, <2>3, <2>4, <2>5, <2>6, <2>7, <2>8, <2>9, <2>10 DEF Next
  <1> QED
    BY <1>1, <1>2, PTL DEF Spec

(* Whatever the tables, no column is filled by two generators, and none is *)
(* left out: ensureColumnBatchStates in any order of its hash map.         *)
THEOREM ColumnsFilledOnce == Spec => []OneStrategy
  <1>1. OneInv => OneStrategy
    BY DEF OneInv, Disjoint, Complete, OneStrategy
  <1> QED
    BY <1>1, OneInvariant, PTL

-----------------------------------------------------------------------------
(* The shares of the batches.                                              *)

(* What integer division leaves. *)
LEMMA QuotientBounds ==
  ASSUME NEW x \in Nat, NEW d \in Nat \ {0}
  PROVE  /\ x \div d \in Nat
         /\ d * (x \div d) <= x
         /\ x < d * (x \div d) + d
  OBVIOUS

(* Integer division keeps order. *)
LEMMA QuotientMonotone ==
  ASSUME NEW x \in Nat, NEW y \in Nat, x <= y, NEW d \in Nat \ {0}
  PROVE  x \div d <= y \div d
  <1> DEFINE p == x \div d
             q == y \div d
  <1>1. /\ p \in Nat /\ q \in Nat
        /\ d * p <= x /\ y < d * q + d
    BY QuotientBounds
  <1>2. ASSUME q < p PROVE FALSE
    <2> HIDE DEF p, q
    <2>1. d * (q + 1) <= d * p
      BY <1>1, <1>2
    <2>2. d * (q + 1) = d * q + d
      BY <1>1
    <2> QED
      BY <1>1, <2>1, <2>2
  <1> QED
    BY <1>1, <1>2

(* A share of the needed values is a number of them. *)
LEMMA ShareType ==
  ASSUME table \in Tables, NEW size \in Nat, NEW at \in Int
  PROVE  /\ Share(size, at) \in Int
         /\ at >= 0 => Share(size, at) >= 0
         /\ at <= 0 => Share(size, at) <= 0
  <1>1. table.count \in Nat \ {0}
    BY TableColumnsAssumption DEF TableColumnsAssumption
  <1>2. CASE at >= 0
    <2>1. size * at \in Nat
      BY <1>2
    <2>2. (size * at) \div table.count \in Nat
      BY <1>1, <2>1, QuotientBounds
    <2>3. at = 0 => size * at = 0
      OBVIOUS
    <2>4. 0 \div table.count = 0
      BY <1>1
    <2> QED
      BY <1>2, <2>2, <2>3, <2>4 DEF Share
  <1>3. CASE at < 0
    <2>1. size * (0 - at) \in Nat
      BY <1>3
    <2>2. (size * (0 - at)) \div table.count \in Nat
      BY <1>1, <2>1, QuotientBounds
    <2> QED
      BY <1>3, <2>2 DEF Share
  <1> QED
    BY <1>2, <1>3

(* Rows generated later never take back a share. *)
LEMMA ShareMonotone ==
  ASSUME table \in Tables, NEW size \in Nat, NEW a \in Int, NEW b \in Int, a <= b
  PROVE  Share(size, a) <= Share(size, b)
  <1>1. table.count \in Nat \ {0}
    BY TableColumnsAssumption DEF TableColumnsAssumption
  <1>2. CASE a >= 0
    <2>1. size * a \in Nat /\ size * b \in Nat /\ size * a <= size * b
      BY <1>2
    <2>2. (size * a) \div table.count <= (size * b) \div table.count
      BY <1>1, <2>1, QuotientMonotone
    <2> QED
      BY <1>2, <2>2 DEF Share
  <1>3. CASE b < 0
    <2>1. size * (0 - a) \in Nat /\ size * (0 - b) \in Nat /\ size * (0 - b) <= size * (0 - a)
      BY <1>3
    <2>2. (size * (0 - b)) \div table.count <= (size * (0 - a)) \div table.count
      BY <1>1, <2>1, QuotientMonotone
    <2>3. /\ (size * (0 - b)) \div table.count \in Nat
          /\ (size * (0 - a)) \div table.count \in Nat
      BY <1>1, <2>1, QuotientBounds
    <2> QED
      BY <1>3, <2>2, <2>3 DEF Share
  <1>4. CASE a < 0 /\ b >= 0
    BY <1>4, ShareType
  <1> QED
    BY <1>2, <1>3, <1>4

-----------------------------------------------------------------------------
(* As long as every generator gave the rows it was asked for, the columns  *)
(* of a batch have its length, and the counts are numbers.                 *)
BatchInv ==
  ~uneven =>
    /\ created \in Nat
    /\ pc \in {"states", "produce", "store"} => created < table.count
    /\ position \in Seq(Int) /\ Len(position) = Len(states)
    /\ pc = "states" => next = 1
    /\ pc = "produce" => next \in 1..Len(states)
    /\ pc = "store" => DOMAIN batch # {}
    /\ \A c \in DOMAIN batch : Len(batch[c]) = Asked

SeedInv == BatchInv /\ MandatorySeeded

(* A table under way has a state to ask for rows. *)
LEMMA SomeStates ==
  ASSUME OneInv, pc \in {"produce", "store"}
  PROVE  Len(states) \in Nat /\ Len(states) >= 1
  <1>1. Covered = table.cols /\ table.cols # {}
    BY TableColumnsAssumption DEF OneInv, Complete, StatesInv, TableColumnsAssumption
  <1>2. DOMAIN states # {}
    BY <1>1 DEF Covered
  <1> QED
    BY <1>2 DEF OneInv, StatesInv

(* A batch asks for a number of rows. *)
LEMMA AskedType ==
  ASSUME OneInv, BatchInv, ~uneven, pc \in {"produce", "store"}
  PROVE  Asked \in Nat \ {0}
  <1>1. table.count \in Nat /\ BatchSize \in Nat \ {0}
    BY TableColumnsAssumption DEF OneInv, StatesInv, TableColumnsAssumption
  <1>2. created \in Nat /\ created < table.count
    BY DEF BatchInv
  <1>3. table.count - created \in Nat \ {0}
    BY <1>1, <1>2
  <1> QED
    BY <1>1, <1>3 DEF Asked, Lesser

(* A function on 1..n is a sequence of n elements. *)
LEMMA LenOfFunction ==
  ASSUME NEW n \in Nat, NEW S, NEW f \in [1..n -> S]
  PROVE  Len(f) = n
  OBVIOUS

(* A column of a result has a value for each of its rows. *)
LEMMA ColumnLen ==
  ASSUME NEW rows, NEW c, Len(rows) \in Nat
  PROVE  Len(Column(rows, c)) = Len(rows)
  <1> DEFINE f == Column(rows, c)
             n == Len(rows)
  <1>1. f \in [1..n -> {f[r] : r \in 1..n}]
    BY DEF Column
  <1> HIDE DEF f, n
  <1>2. n \in Nat
    BY DEF n
  <1>3. Len(f) = n
    BY <1>1, <1>2, LenOfFunction
  <1> QED
    BY <1>3 DEF f, n

(* Put adds full columns to the batch and moves the count of its state. *)
LEMMA PutKeepsBatch ==
  ASSUME OneInv, BatchInv, pc = "produce", NEW rows, NEW moved, ~uneven',
         moved = Len(rows) \/ moved = 0,
         Put(rows, moved), UNCHANGED <<table, states, created>>
  PROVE  /\ BatchInv'
         /\ Len(rows) = Asked /\ Asked \in Nat \ {0}
  <1>1. ~uneven /\ Len(rows) = Asked
    BY DEF Put
  <1>2. Asked \in Nat \ {0} /\ Asked' = Asked
    BY <1>1, AskedType DEF Asked
  <1>3. /\ created' \in Nat
        /\ created' < table'.count
    BY <1>1 DEF BatchInv
  <1>4. position' \in Seq(Int) /\ Len(position') = Len(states')
    BY <1>1, <1>2 DEF BatchInv, Put
  <1>5. next \in 1..Len(states) /\ Len(states) \in Nat
    BY <1>1, SomeStates DEF BatchInv
  <1>6. /\ pc' \in {"store", "produce"}
        /\ pc' = "produce" => next' \in 1..Len(states')
    BY <1>5 DEF Put
  <1>7. batch' = With(rows)
    BY DEF Put
  <1>8. DOMAIN batch' = DOMAIN batch \cup ToSet(Current.cols)
    BY <1>7 DEF With
  <1>9. ToSet(Current.cols) # {}
    <2>1. PICK c \in table.cols : Current.cols = Fills(c)
      BY <1>5, StateType DEF OneInv, Current, StatesInv
    <2> QED
      BY <2>1, FillsItself DEF OneInv, StatesInv
  <1>10. \A c \in DOMAIN batch' : Len(batch'[c]) = Asked
    <2> SUFFICES ASSUME NEW c \in DOMAIN batch' PROVE Len(batch'[c]) = Asked
      OBVIOUS
    <2>1. CASE c \in ToSet(Current.cols)
      <3>1. batch'[c] = Column(rows, c)
        BY <1>7, <2>1 DEF With
      <3> QED
        BY <3>1, <1>1, <1>2, ColumnLen
    <2>2. CASE c \notin ToSet(Current.cols)
      <3>1. c \in DOMAIN batch /\ batch'[c] = batch[c]
        BY <1>7, <1>8, <2>2 DEF With
      <3> QED
        BY <3>1, <1>1 DEF BatchInv
    <2> QED
      BY <2>1, <2>2
  <1> QED
    BY <1>1, <1>2, <1>3, <1>4, <1>6, <1>8, <1>9, <1>10 DEF BatchInv

(* The count of a key generator has passed the share of a value.           *)
Passed(i, c, m) ==
  \/ position[i] >= table.count
  \/ m < Share(Len(table.needed[c]), position[i])

(* MandatorySeeded, by the values whose share has been passed. *)
LEMMA SeededPassed ==
  MandatorySeeded <=>
    \A i \in DOMAIN states :
      states[i].kind = "markov" /\ ~uneven =>
        \A c \in ToSet(states[i].cols) : \A m \in 0..(Len(table.needed[c]) - 1) :
          Passed(i, c, m) => <<c, m>> \in seeded
  BY DEF MandatorySeeded, Passed

(* A column of the table has a number of needed values. *)
LEMMA ColumnNeeds ==
  ASSUME OneInv, NEW c \in table.cols
  PROVE  /\ Len(table.needed[c]) \in Nat
         /\ table.count \in Nat \ {0} /\ table \in Tables
  <1>1. /\ table \in Tables /\ table.count \in Nat \ {0}
        /\ table.needed \in [table.cols -> Seq(Int)]
    BY TableColumnsAssumption DEF OneInv, StatesInv, TableColumnsAssumption
  <1>2. table.needed[c] \in Seq(Int)
    BY <1>1
  <1> QED
    BY <1>1, <1>2

(* So does every column a state fills. *)
LEMMA NeededType ==
  ASSUME OneInv, NEW i \in DOMAIN states, NEW c \in ToSet(states[i].cols)
  PROVE  Len(table.needed[c]) \in Nat
  <1>1. PICK d \in table.cols : states[i].cols = Fills(d)
    BY StateType DEF OneInv
  <1>2. c \in table.cols
    BY <1>1, FillsOwn DEF OneInv, StatesInv
  <1> QED
    BY <1>2, ColumnNeeds

(* Counts that go back pass nothing.                                       *)
LEMMA PassedBack ==
  ASSUME OneInv, UNCHANGED table, NEW i \in DOMAIN states, NEW c \in ToSet(states[i].cols),
         NEW m \in Nat, position[i] \in Int, position'[i] \in Int,
         position'[i] <= position[i], Passed(i, c, m)'
  PROVE  Passed(i, c, m)
  <1>1. PICK p : p = position'[i]
    OBVIOUS
  <1> DEFINE size == Len(table.needed[c])
  <1>2. size \in Nat
    BY NeededType
  <1>3. p >= table.count \/ m < Share(size, p)
    BY <1>1 DEF Passed, Share
  <1>4. table.count \in Nat /\ table \in Tables
    BY TableColumnsAssumption DEF OneInv, StatesInv, TableColumnsAssumption
  <1>5. /\ Share(size, p) <= Share(size, position[i])
        /\ Share(size, p) \in Int /\ Share(size, position[i]) \in Int
    <2> HIDE DEF size
    <2> QED
      BY <1>1, <1>2, <1>4, ShareMonotone, ShareType
  <1> QED
    BY <1>1, <1>3, <1>4, <1>5 DEF Passed

(* Nothing passes while the table and the count stay. *)
LEMMA PassedStays ==
  ASSUME UNCHANGED table, NEW i, NEW c, NEW m, position'[i] = position[i]
  PROVE  Passed(i, c, m)' <=> Passed(i, c, m)
  <1>1. ASSUME Passed(i, c, m)' PROVE Passed(i, c, m)
    BY <1>1 DEF Passed, Share
  <1>2. ASSUME Passed(i, c, m) PROVE Passed(i, c, m)'
    BY <1>2 DEF Passed, Share
  <1> QED
    BY <1>1, <1>2

(* Put moves the count of one state.                                       *)
LEMMA OthersStay ==
  ASSUME BatchInv, ~uneven, NEW rows, NEW moved, Put(rows, moved),
         NEW i, i # next, i \in DOMAIN position
  PROVE  position'[i] = position[i]
  BY DEF Put, BatchInv

(* The values of a generator that is not a key generator are not seeded.   *)
LEMMA OtherStatesSeedNothing ==
  ASSUME MandatorySeeded, OneInv, BatchInv, NEW rows, NEW moved,
         Put(rows, moved), Asking({"unique", "plain", "one", "many"}),
         UNCHANGED <<table, states, seeded>>
  PROVE  MandatorySeeded'
  <1> SUFFICES ASSUME NEW i \in DOMAIN states, states[i].kind = "markov", ~uneven',
                      NEW c \in ToSet(states[i].cols),
                      NEW m \in 0..(Len(table.needed[c]) - 1),
                      Passed(i, c, m)'
               PROVE  <<c, m>> \in seeded
    BY DEF MandatorySeeded, Passed
  <1>1. ~uneven /\ i # next
    BY DEF Put, Asking, Current
  <1>2. position'[i] = position[i]
    BY <1>1, OthersStay DEF BatchInv, OneInv, StatesInv
  <1>3. Passed(i, c, m)
    BY <1>2, PassedStays
  <1> QED
    BY <1>1, <1>3, SeededPassed

-----------------------------------------------------------------------------
(* One lemma for each way the invariant can be disturbed.                  *)

(* A step that leaves the batch and the counts alone. *)
LEMMA QuietStep ==
  ASSUME SeedInv, UNCHANGED <<table, states, position, batch, created, seeded, uneven>>,
         pc' \notin {"states", "produce", "store"}
  PROVE  SeedInv'
  <1>1. BatchInv'
    BY DEF SeedInv, BatchInv, Asked
  <1>2. MandatorySeeded'
    BY DEF SeedInv, MandatorySeeded, Share
  <1> QED
    BY <1>1, <1>2 DEF SeedInv

(* A load that ends with an exception. *)
LEMMA CrashKeeps ==
  ASSUME SeedInv, Crash, UNCHANGED <<table, states, created>>
  PROVE  SeedInv'
  BY QuietStep DEF Crash

(* A new state starts at count zero and has passed nothing. *)
LEMMA AddStateKeepsSeeded ==
  ASSUME OneInv, SeedInv, AddState
  PROVE  SeedInv'
  <1>0. UNCHANGED <<table, next, batch, created, seeded, uneven>> /\ pc = "states"
    BY DEF AddState
  <1>1. PICK c \in table.cols \ Covered :
          \/ /\ states' = Append(states, [kind |-> Kind(c), cols |-> Fills(c)])
             /\ position' = Append(position, 0) /\ pc' = "states"
          \/ UNCHANGED <<states, position>> /\ pc' = "crashed"
    BY DEF AddState
  <1>2. CASE UNCHANGED <<states, position>> /\ pc' = "crashed"
    BY <1>0, <1>2, QuietStep
  <1>3. CASE /\ states' = Append(states, [kind |-> Kind(c), cols |-> Fills(c)])
             /\ position' = Append(position, 0) /\ pc' = "states"
    <2> DEFINE n == Len(states) + 1
    <2>0. OneInv'
      BY AddStateKeepsOne
    <2>1. /\ DOMAIN states' = DOMAIN states \cup {n}
          /\ n \notin DOMAIN states
          /\ \A k \in DOMAIN states : states'[k] = states[k]
          /\ Len(states') = n
      BY <1>3 DEF OneInv, StatesInv
    <2>2. BatchInv'
      <3> SUFFICES ASSUME ~uneven' PROVE BatchInv'
        BY DEF BatchInv
      <3>1. position' \in Seq(Int) /\ Len(position') = n
        BY <1>0, <1>3 DEF SeedInv, BatchInv
      <3>2. Asked' = Asked
        BY <1>0 DEF Asked
      <3> QED
        BY <1>0, <1>3, <2>1, <3>1, <3>2 DEF SeedInv, BatchInv
    <2>3. MandatorySeeded'
      <3> SUFFICES ASSUME NEW i \in DOMAIN states', states'[i].kind = "markov", ~uneven,
                          NEW d \in ToSet(states'[i].cols),
                          NEW m \in 0..(Len(table.needed[d]) - 1),
                          Passed(i, d, m)'
                   PROVE  <<d, m>> \in seeded
        BY <1>0 DEF MandatorySeeded, Passed
      <3>1. position \in Seq(Int) /\ Len(position) = Len(states)
        BY DEF SeedInv, BatchInv
      <3>2. CASE i \in DOMAIN states
        <4>1. position'[i] = position[i] /\ states'[i] = states[i]
          BY <1>3, <2>1, <3>1, <3>2 DEF OneInv, StatesInv
        <4>2. Passed(i, d, m)
          BY <1>0, <4>1, PassedStays
        <4> QED
          BY <3>2, <4>1, <4>2, SeededPassed DEF SeedInv
      <3>3. CASE i = n
        <4>1. position'[i] = 0
          BY <1>3, <3>1, <3>3
        <4>2. PICK size : size = Len(table.needed[d])
          OBVIOUS
        <4>3. size \in Nat
          <5>1. d \in table.cols
            <6>1. PICK e \in table.cols : states'[i].cols = Fills(e)
              <7>1. states'[i].cols = Fills(c)
                BY <1>3, <3>3 DEF OneInv, StatesInv
              <7> QED
                BY <7>1
            <6> QED
              BY <6>1, FillsOwn DEF OneInv, StatesInv
          <5> QED
            BY <4>2, <5>1, ColumnNeeds
        <4>4. table.count \in Nat \ {0} /\ table \in Tables
          BY TableColumnsAssumption DEF OneInv, StatesInv, TableColumnsAssumption
        <4>5. Share(size, 0) \in Int /\ Share(size, 0) <= 0
          <5>1. PICK zero \in Int : zero = 0
            OBVIOUS
          <5>2. Share(size, zero) \in Int /\ (zero <= 0 => Share(size, zero) <= 0)
            BY <4>3, <4>4, ShareType
          <5> QED
            BY <5>1, <5>2
        <4>6. 0 >= table.count \/ m < Share(size, 0)
          BY <1>0, <4>1, <4>2 DEF Passed, Share
        <4> QED
          BY <4>4, <4>5, <4>6
      <3> QED
        BY <2>1, <3>2, <3>3
    <2> QED
      BY <2>2, <2>3 DEF SeedInv
  <1> QED
    BY <1>1, <1>2, <1>3

(* The states are made; the first batch begins. *)
LEMMA StatesReadyKeepsSeeded ==
  ASSUME OneInv, SeedInv, StatesReady
  PROVE  SeedInv'
  <1>0. UNCHANGED <<table, states, position, next, batch, created, seeded, uneven>>
        /\ pc = "states" /\ pc' = "produce"
    BY DEF StatesReady, genVars
  <1>1. table.cols # {}
    BY TableColumnsAssumption DEF OneInv, StatesInv, TableColumnsAssumption
  <1>2. DOMAIN states # {}
    BY <1>1 DEF StatesReady, Covered
  <1>3. 1 \in 1..Len(states)
    BY <1>2 DEF OneInv, StatesInv
  <1>4. BatchInv'
    BY <1>0, <1>3 DEF SeedInv, BatchInv, Asked
  <1>5. MandatorySeeded'
    BY <1>0 DEF SeedInv, MandatorySeeded, Share
  <1> QED
    BY <1>4, <1>5 DEF SeedInv

(* The states that seed nothing.                                           *)
LEMMA PutKeepsSeeded ==
  ASSUME OneInv, SeedInv, NEW rows, NEW moved, Put(rows, moved),
         moved = Len(rows) \/ moved = 0,
         Asking({"unique", "plain", "one", "many"}),
         UNCHANGED <<table, states, created, seeded>>
  PROVE  SeedInv'
  <1>1. BatchInv'
    BY PutKeepsBatch DEF SeedInv, BatchInv, Asking
  <1>2. MandatorySeeded'
    BY OtherStatesSeedNothing DEF SeedInv
  <1> QED
    BY <1>1, <1>2 DEF SeedInv

(* Plain, MCV and histogram values. *)
LEMMA PlainKeepsSeeded ==
  ASSUME OneInv, SeedInv, ProducePlain
  PROVE  SeedInv'
  <1> DEFINE rows == [r \in 1..Asked |-> <<CHOOSE v \in Fresh : TRUE>>]
  <1>1. Put(rows, Asked) /\ UNCHANGED <<table, states, created, seeded>>
        /\ Asking({"unique", "plain", "one", "many"})
    BY DEF ProducePlain, Asking
  <1> HIDE DEF rows
  <1>2. CASE uneven'
    BY <1>1, <1>2 DEF SeedInv, BatchInv, MandatorySeeded
  <1>3. CASE ~uneven'
    <2>1. Put(rows, Len(rows))
      BY <1>1, <1>3 DEF Put
    <2> QED
      BY <1>1, <2>1, PutKeepsSeeded
  <1> QED
    BY <1>2, <1>3

(* Unique values, drawn from a pool that is filled at the first batch. *)
LEMMA UniqueKeepsSeeded ==
  ASSUME OneInv, SeedInv, ProduceUnique
  PROVE  SeedInv'
  <1>1. UNCHANGED <<table, states, created>>
        /\ Asking({"unique", "plain", "one", "many"})
    BY DEF ProduceUnique, Asking
  <1>2. CASE Crash
    BY <1>1, <1>2, CrashKeeps
  <1>3. CASE ~Crash
    <2>1. PICK rows : Put(rows, Len(rows)) /\ UNCHANGED seeded
      BY <1>3 DEF ProduceUnique
    <2> QED
      BY <1>1, <2>1, PutKeepsSeeded
  <1> QED
    BY <1>2, <1>3

(* One-to-many references. *)
LEMMA ManyKeepsSeeded ==
  ASSUME OneInv, SeedInv, ProduceMany
  PROVE  SeedInv'
  <1>1. UNCHANGED <<table, states, created, seeded>>
        /\ Asking({"unique", "plain", "one", "many"})
    BY DEF ProduceMany, Asking
  <1>2. PICK rows : Put(rows, 0)
    BY DEF ProduceMany
  <1> QED
    BY <1>1, <1>2, PutKeepsSeeded

(* One-to-one references. *)
LEMMA OneKeepsSeeded ==
  ASSUME OneInv, SeedInv, ProduceOne
  PROVE  SeedInv'
  <1>1. UNCHANGED <<table, states, created>>
        /\ Asking({"unique", "plain", "one", "many"})
    BY DEF ProduceOne, Asking
  <1>2. CASE Crash
    BY <1>1, <1>2, CrashKeeps
  <1>3. CASE ~Crash
    <2>1. PICK rows : Put(rows, 0) /\ UNCHANGED seeded
      BY <1>3 DEF ProduceOne
    <2> QED
      BY <1>1, <2>1, PutKeepsSeeded
  <1> QED
    BY <1>2, <1>3

(* The key generator: the window of the batch is what its new count adds.  *)
LEMMA WindowReaches ==
  ASSUME OneInv, NEW c \in table.cols, NEW at \in Int, NEW n \in Nat,
         NEW m \in 0..(Len(table.needed[c]) - 1),
         \/ at + n >= table.count
         \/ m < Share(Len(table.needed[c]), at + n),
         ~ (m < Share(Len(table.needed[c]), at))
  PROVE  m \in Window(c, at, n)
  <1> DEFINE size == Len(table.needed[c])
  <1>1. size \in Nat /\ table.count \in Nat \ {0} /\ table \in Tables
    BY ColumnNeeds
  <1>2. Share(size, at) \in Int /\ Share(size, at + n) \in Int
    <2>1. at + n \in Int
      OBVIOUS
    <2> HIDE DEF size
    <2> QED
      BY <1>1, <2>1, ShareType
  <1>3. Share(size, at) <= m
    BY <1>2
  <1>4. WindowEnd(size, at, n) \in Int /\ m < WindowEnd(size, at, n)
    BY <1>1, <1>2 DEF WindowEnd
  <1> QED
    BY <1>2, <1>3, <1>4 DEF Window

(* Markov tuples, which hand out the window of each column of the key. *)
LEMMA KeyKeepsSeeded ==
  ASSUME OneInv, SeedInv, ProduceKey
  PROVE  SeedInv'
  <1>1. UNCHANGED <<table, states, created>> /\ Asking({"markov"})
    BY DEF ProduceKey
  <1>2. CASE Crash
    BY <1>1, <1>2, CrashKeeps
  <1>3. CASE ~Crash
    <2>1. PICK rows : /\ Put(rows, Len(rows))
                      /\ seeded' = seeded \cup Due(Current.cols, position[next], Asked)
      BY <1>3 DEF ProduceKey
    <2>2. CASE uneven'
      BY <2>2 DEF SeedInv, BatchInv, MandatorySeeded
    <2>3. CASE ~uneven'
      <3>1. BatchInv' /\ Len(rows) = Asked /\ Asked \in Nat \ {0}
        BY <1>1, <2>1, <2>3, PutKeepsBatch DEF SeedInv, Asking
      <3>2. ~uneven
        BY <2>1, <2>3 DEF Put
      <3>3. MandatorySeeded'
        <4> SUFFICES ASSUME NEW i \in DOMAIN states, states[i].kind = "markov",
                            NEW c \in ToSet(states[i].cols),
                            NEW m \in 0..(Len(table.needed[c]) - 1),
                            Passed(i, c, m)'
                     PROVE  <<c, m>> \in seeded'
          BY <1>1 DEF MandatorySeeded, Passed
        <4>1. position \in Seq(Int) /\ Len(position) = Len(states)
          BY <3>2 DEF SeedInv, BatchInv
        <4>2. i \in DOMAIN position
          BY <4>1 DEF OneInv, StatesInv
        <4>3. seeded \subseteq seeded'
          BY <2>1
        <4>4. CASE i # next
          <5>1. position'[i] = position[i]
            BY <2>1, <3>2, <4>2, <4>4, OthersStay DEF SeedInv
          <5>2. Passed(i, c, m)
            BY <1>1, <5>1, PassedStays
          <5> QED
            BY <3>2, <4>3, <5>2, SeededPassed DEF SeedInv
        <4>5. CASE i = next
          <5>1. PICK at \in Int, n \in Nat : at = position[i] /\ n = Asked
            BY <3>1, <4>1, <4>2
          <5>2. position'[i] = at + n
            BY <2>1, <3>1, <4>1, <4>2, <4>5, <5>1 DEF Put
          <5>3. c \in table.cols
            <6>1. PICK d \in table.cols : states[i].cols = Fills(d)
              BY StateType DEF OneInv
            <6> QED
              BY <6>1, FillsOwn DEF OneInv, StatesInv
          <5>4. at + n >= table.count \/ m < Share(Len(table.needed[c]), at + n)
            BY <1>1, <5>2 DEF Passed, Share
          <5>5. CASE m < Share(Len(table.needed[c]), at)
            <6>1. Passed(i, c, m)
              BY <5>1, <5>5 DEF Passed
            <6> QED
              BY <3>2, <4>3, <6>1, SeededPassed DEF SeedInv
          <5>6. CASE ~ (m < Share(Len(table.needed[c]), at))
            <6>1. m \in Window(c, at, n)
              BY <5>3, <5>4, <5>6, WindowReaches
            <6>2. <<c, m>> \in Due(Current.cols, at, n)
              BY <4>5, <6>1 DEF Due, Current
            <6> QED
              BY <2>1, <4>5, <5>1, <6>2
          <5> QED
            BY <5>5, <5>6
        <4> QED
          BY <4>4, <4>5
      <3> QED
        BY <3>1, <3>3 DEF SeedInv
    <2> QED
      BY <2>2, <2>3
  <1> QED
    BY <1>2, <1>3

(* After a batch, the counts stay or go back.                              *)
LEMMA NextBatchKeepsSeeded ==
  ASSUME OneInv, SeedInv, pc = "store", NextBatch, UNCHANGED table,
         pc' \in {"produce", "done", "stopped"},
         ~uneven => /\ created' \in Nat
                    /\ pc' = "produce" => created' < table.count
                    /\ position' \in Seq(Int) /\ Len(position') = Len(position)
                    /\ \A i \in DOMAIN position : position'[i] <= position[i]
  PROVE  SeedInv'
  <1>0. UNCHANGED <<states, seeded, uneven>> /\ next' = 1 /\ DOMAIN batch' = {}
    BY DEF NextBatch
  <1>1. Len(states) \in Nat /\ Len(states) >= 1
    BY SomeStates
  <1>2. BatchInv'
    BY <1>0, <1>1 DEF SeedInv, BatchInv
  <1>3. MandatorySeeded'
    <2> SUFFICES ASSUME NEW i \in DOMAIN states, states[i].kind = "markov", ~uneven,
                        NEW c \in ToSet(states[i].cols),
                        NEW m \in 0..(Len(table.needed[c]) - 1),
                        Passed(i, c, m)'
                 PROVE  <<c, m>> \in seeded
      BY <1>0 DEF MandatorySeeded, Passed
    <2>1. position \in Seq(Int) /\ Len(position) = Len(states)
      BY DEF SeedInv, BatchInv
    <2>2. i \in DOMAIN position /\ i \in DOMAIN position'
      BY <2>1 DEF OneInv, StatesInv
    <2>3. position[i] \in Int /\ position'[i] \in Int /\ position'[i] <= position[i]
      BY <2>1, <2>2
    <2>4. m \in Nat
      BY NeededType
    <2>5. Passed(i, c, m)
      BY <2>3, <2>4, PassedBack
    <2> QED
      BY <2>5, SeededPassed DEF SeedInv
  <1> QED
    BY <1>2, <1>3 DEF SeedInv

(* A stored batch moves every count back by its rejected rows. *)
LEMMA StoredKeepsSeeded ==
  ASSUME OneInv, SeedInv, Stored
  PROVE  SeedInv'
  <1>0. pc = "store" /\ NextBatch /\ UNCHANGED table /\ pc' \in {"produce", "done", "stopped"}
    BY DEF Stored, NextBatch
  <1>1. PICK stored \in 0..Rows :
          /\ created' = created + stored
          /\ position' = Unadded(stored)
          /\ pc' = IF created' >= table.count THEN "done"
                   ELSE IF batches + 1 < MaxBatches THEN "produce" ELSE "stopped"
    BY DEF Stored
  <1>2. ASSUME ~uneven
        PROVE  /\ created' \in Nat
               /\ pc' = "produce" => created' < table.count
               /\ position' \in Seq(Int) /\ Len(position') = Len(position)
               /\ \A i \in DOMAIN position : position'[i] <= position[i]
    <2>1. Asked \in Nat \ {0}
      BY <1>0, <1>2, AskedType DEF SeedInv
    <2>2. DOMAIN batch # {} /\ \A c \in DOMAIN batch : Len(batch[c]) = Asked
      BY <1>0, <1>2 DEF SeedInv, BatchInv
    <2>3. {Len(batch[c]) : c \in DOMAIN batch} = {Asked}
      BY <2>2
    <2>4. Rows = Asked
      BY <2>1, <2>2, <2>3 DEF Rows
    <2>5. stored \in Nat /\ stored <= Asked
      BY <2>1, <2>4
    <2>6. created \in Nat /\ position \in Seq(Int)
      BY <1>2 DEF SeedInv, BatchInv
    <2>7. created' \in Nat
      BY <1>1, <2>5, <2>6
    <2>8. table.count \in Nat
      BY TableColumnsAssumption DEF OneInv, StatesInv, TableColumnsAssumption
    <2>9. pc' = "produce" => created' < table.count
      BY <1>1, <2>7, <2>8
    <2>10. PICK back \in Nat : back = Asked - stored
      BY <2>1, <2>5
    <2>11. position' = [i \in DOMAIN position |-> position[i] - back]
      BY <1>1, <2>10 DEF Unadded
    <2>12. position' \in Seq(Int) /\ Len(position') = Len(position)
      BY <2>6, <2>11
    <2>13. \A i \in DOMAIN position : position'[i] <= position[i]
      BY <2>6, <2>11
    <2> QED
      BY <2>7, <2>9, <2>12, <2>13
  <1> QED
    BY <1>0, <1>2, NextBatchKeepsSeeded

(* A batch whose storing failed. *)
LEMMA StoreThrewKeepsSeeded ==
  ASSUME OneInv, SeedInv, StoreThrew
  PROVE  SeedInv'
  <1>0. /\ pc = "store" /\ NextBatch /\ UNCHANGED <<table, created, position>>
        /\ pc' \in {"produce", "done", "stopped"}
    BY DEF StoreThrew, NextBatch
  <1>1. ASSUME ~uneven
        PROVE  /\ created \in Nat /\ created < table.count
               /\ position \in Seq(Int)
    BY <1>0, <1>1 DEF SeedInv, BatchInv
  <1>2. ~uneven => \A i \in DOMAIN position : position'[i] <= position[i]
    BY <1>0, <1>1
  <1> QED
    BY <1>0, <1>1, <1>2, NextBatchKeepsSeeded

(* Every key generator has as many rows in the batch as it was asked for,  *)
(* and the needed values behind its count are seeded: the inductive form   *)
(* of MandatorySeeded.                                                     *)
THEOREM SeededInvariant == Spec => []SeedInv
  <1>1. Init => SeedInv
    <2> SUFFICES ASSUME Init PROVE SeedInv
      OBVIOUS
    <2>1. table.count \in Nat \ {0}
      BY TableColumnsAssumption DEF Init, TableColumnsAssumption
    <2>2. BatchInv
      BY <2>1 DEF Init, BatchInv
    <2>3. MandatorySeeded
      BY DEF Init, MandatorySeeded
    <2> QED
      BY <2>2, <2>3 DEF SeedInv
  <1>2. OneInv /\ SeedInv /\ [Next]_vars => SeedInv'
    <2> SUFFICES ASSUME OneInv, SeedInv, [Next]_vars PROVE SeedInv'
      OBVIOUS
    <2>1. CASE UNCHANGED vars
      <3>1. UNCHANGED <<table, states, position, next, batch, created, seeded, uneven, pc>>
        BY <2>1 DEF vars, genVars
      <3>2. BatchInv'
        BY <3>1 DEF SeedInv, BatchInv, Asked
      <3>3. MandatorySeeded'
        BY <3>1 DEF SeedInv, MandatorySeeded, Share
      <3> QED
        BY <3>2, <3>3 DEF SeedInv
    <2> QED
      BY <2>1, AddStateKeepsSeeded, StatesReadyKeepsSeeded, PlainKeepsSeeded,
         UniqueKeepsSeeded, ManyKeepsSeeded, OneKeepsSeeded, KeyKeepsSeeded,
         StoredKeepsSeeded, StoreThrewKeepsSeeded DEF Next
  <1> QED
    BY <1>1, <1>2, OneInvariant, PTL DEF Spec

(* Every value that other tables refer to is handed to some batch, for any *)
(* tables, batch sizes and fates of the batches, as long as no generator   *)
(* gives more or fewer rows than it was asked for.                         *)
THEOREM NeededValuesAreSeeded == Spec => []MandatorySeeded
  <1>1. SeedInv => MandatorySeeded
    BY DEF SeedInv
  <1> QED
    BY <1>1, SeededInvariant, PTL

-----------------------------------------------------------------------------
(* Sequences and finite sets.                                              *)

(* Induction: what holds of 0 and passes on to the successor. *)
LEMMA Induction ==
  ASSUME NEW S, 0 \in S, \A n \in Nat : n \in S => n + 1 \in S
  PROVE  Nat \subseteq S
  <1> DEFINE T == Nat \ S
  <1> SUFFICES ASSUME T # {} PROVE FALSE
    OBVIOUS
  <1>1. PICK x \in T : \A y \in T : x <= y
    <2>1. T \subseteq Nat
      OBVIOUS
    <2> HIDE DEF T
    <2> QED
      BY <2>1, LeastIndex
  <1>2. x \in Nat /\ x \notin S /\ x # 0
    BY <1>1
  <1>3. x - 1 \in Nat /\ x - 1 \in S
    BY <1>1, <1>2
  <1>4. (x - 1) + 1 \in S
    BY <1>3
  <1> QED
    BY <1>4, <1>2

(* The concatenations of the first i sequences, as FlattenSeq builds them. *)
Joins(h, seqs, n) ==
  \A i \in 1..n : h[i] = IF i = 1 THEN seqs[i] ELSE h[i - 1] \o seqs[i]

(* They can be built up to any of the sequences. *)
LEMMA FlattenExists ==
  ASSUME NEW S, NEW seqs \in Seq(Seq(S)), NEW n \in 1..Len(seqs)
  PROVE  \E h \in [1..n -> Seq(S)] : Joins(h, seqs, n)
  <1>0. Len(seqs) \in Nat /\ \A i \in 1..Len(seqs) : seqs[i] \in Seq(S)
    BY LenProperties, ElementOfSeq
  <1> DEFINE P(m) == \E h \in [1..m -> Seq(S)] : Joins(h, seqs, m)
             T == {m \in Nat : m + 1 \in 1..Len(seqs) => P(m + 1)}
  <1>1. 0 \in T
    <2> SUFFICES ASSUME 1 \in 1..Len(seqs) PROVE P(1)
      OBVIOUS
    <2> DEFINE h == [i \in 1..1 |-> seqs[1]]
    <2>1. h \in [1..1 -> Seq(S)] /\ Joins(h, seqs, 1)
      BY <1>0 DEF Joins
    <2> QED
      BY <2>1
  <1>2. ASSUME NEW m \in Nat, m \in T PROVE m + 1 \in T
    <2> SUFFICES ASSUME m + 2 \in 1..Len(seqs) PROVE P(m + 2)
      <3>1. (m + 1) + 1 = m + 2
        OBVIOUS
      <3> HIDE DEF P
      <3> QED
        BY <3>1
    <2>1. m + 1 \in 1..Len(seqs)
      BY <1>0
    <2>2. PICK g \in [1..(m + 1) -> Seq(S)] : Joins(g, seqs, m + 1)
      <3>1. P(m + 1)
        <4> HIDE DEF P
        <4> QED
          BY <2>1, <1>2
      <3> QED
        BY <3>1
    <2> DEFINE h == [i \in 1..(m + 2) |-> IF i = m + 2 THEN g[m + 1] \o seqs[m + 2] ELSE g[i]]
    <2>3. g[m + 1] \in Seq(S) /\ seqs[m + 2] \in Seq(S)
      BY <1>0
    <2>4. g[m + 1] \o seqs[m + 2] \in Seq(S)
      BY <2>3, ConcatProperties
    <2>5. h \in [1..(m + 2) -> Seq(S)]
      BY <2>4
    <2>6. Joins(h, seqs, m + 2)
      <3> SUFFICES ASSUME NEW i \in 1..(m + 2)
                   PROVE  h[i] = IF i = 1 THEN seqs[i] ELSE h[i - 1] \o seqs[i]
        BY DEF Joins
      <3>1. CASE i = m + 2
        <4>1. i # 1 /\ i - 1 = m + 1 /\ m + 1 # m + 2 /\ m + 1 \in 1..(m + 2)
          BY <3>1
        <4>2. h[i] = g[m + 1] \o seqs[i]
          BY <3>1
        <4>3. h[m + 1] = g[m + 1]
          BY <4>1
        <4> HIDE DEF h
        <4> QED
          BY <4>1, <4>2, <4>3
      <3>2. CASE i # m + 2
        <4>1. i \in 1..(m + 1) /\ h[i] = g[i] /\ (i # 1 => h[i - 1] = g[i - 1])
          BY <3>2
        <4> QED
          BY <4>1, <2>2 DEF Joins
      <3> QED
        BY <3>1, <3>2
    <2> QED
      BY <2>5, <2>6
  <1>3. Nat \subseteq T
    <2> HIDE DEF T
    <2> QED
      BY <1>1, <1>2, Induction
  <1>4. n - 1 \in Nat
    BY <1>0
  <1>5. n - 1 \in T
    BY <1>3, <1>4
  <1>6. (n - 1) + 1 = n
    BY <1>0
  <1>7. P(n)
    <2> HIDE DEF P
    <2> QED
      BY <1>5, <1>6
  <1> QED
    BY <1>7

(* Sequences joined to one have the elements they had, and are not empty   *)
(* unless they all are.                                                    *)
LEMMA FlattenType ==
  ASSUME NEW S, NEW seqs \in Seq(Seq(S))
  PROVE  /\ FlattenSeq(seqs) \in Seq(S)
         /\ seqs # <<>> /\ (\A i \in DOMAIN seqs : seqs[i] # <<>>) => FlattenSeq(seqs) # <<>>
  <1> DEFINE n == Len(seqs)
             Rec(g) == [i \in 1..n |-> IF i = 1 THEN seqs[i] ELSE g[i - 1] \o seqs[i]]
             f == CHOOSE g : g = Rec(g)
  <1>0. n \in Nat /\ DOMAIN seqs = 1..n /\ \A i \in 1..n : seqs[i] \in Seq(S)
    BY LenProperties, ElementOfSeq
  <1>1. CASE n = 0
    <2>1. seqs = <<>>
      BY <1>1, EmptySeq
    <2>2. FlattenSeq(seqs) = <<>>
      BY <1>1, <2>1 DEF FlattenSeq
    <2> QED
      BY <2>1, <2>2, EmptySeq
  <1>2. CASE n # 0
    <2>1. FlattenSeq(seqs) = f[n]
      BY <1>2 DEF FlattenSeq
    <2>2. PICK h \in [1..n -> Seq(S)] : Joins(h, seqs, n)
      <3>1. n \in 1..n
        BY <1>0, <1>2
      <3> QED
        BY <3>1, FlattenExists
    <2>3. h = Rec(h)
      BY <2>2 DEF Joins
    <2>4. f = Rec(f)
      <3> HIDE DEF Rec
      <3> QED
        BY <2>3
    <2> HIDE DEF f
    <2>5. \A i \in 1..n : f[i] = IF i = 1 THEN seqs[i] ELSE f[i - 1] \o seqs[i]
      BY <2>4
    <2> DEFINE Good(s) == s \in Seq(S) /\ ((\A i \in DOMAIN seqs : seqs[i] # <<>>) => s # <<>>)
               T == {i \in Nat : i + 1 \in 1..n => Good(f[i + 1])}
    <2>6. 0 \in T
      <3>1. 1 \in 1..n => f[1] = seqs[1]
        BY <2>5
      <3>2. 1 \in 1..n => Good(f[1])
        BY <3>1, <1>0
      <3>3. 0 + 1 = 1
        OBVIOUS
      <3> HIDE DEF Good
      <3> QED
        BY <3>2, <3>3
    <2>7. ASSUME NEW i \in Nat, i \in T PROVE i + 1 \in T
      <3> SUFFICES ASSUME i + 2 \in 1..n PROVE Good(f[i + 2])
        BY <2>7
      <3>1. i + 1 \in 1..n /\ Good(f[i + 1])
        BY <2>7, <1>0
      <3>2. f[i + 2] = f[i + 1] \o seqs[i + 2]
        <4>1. (i + 2) - 1 = i + 1 /\ i + 2 # 1
          OBVIOUS
        <4> QED
          BY <2>5, <4>1
      <3>3. seqs[i + 2] \in Seq(S)
        BY <1>0
      <3>4. f[i + 1] \o seqs[i + 2] \in Seq(S)
        BY <3>1, <3>3, ConcatProperties
      <3>5. f[i + 1] \o seqs[i + 2] = <<>> => seqs[i + 2] = <<>>
        BY <3>1, <3>3, ConcatEqualIffEmpty, ConcatSimplifications
      <3> QED
        BY <3>2, <3>4, <3>5, <1>0
    <2>8. Nat \subseteq T
      <3> HIDE DEF T
      <3> QED
        BY <2>6, <2>7, Induction
    <2>9. n - 1 \in Nat
      BY <1>0, <1>2
    <2>10. (n - 1) + 1 = n /\ n \in 1..n
      BY <1>0, <1>2
    <2>11. n - 1 \in T
      BY <2>8, <2>9
    <2>12. Good(f[n])
      <3> HIDE DEF Good
      <3> QED
        BY <2>10, <2>11
    <2> QED
      BY <2>1, <2>12
  <1> QED
    BY <1>1, <1>2

(* A finite set has a listing, which is what SetToSeq chooses. *)
LEMMA Listing ==
  ASSUME NEW S, IsFiniteSet(S)
  PROVE  /\ SetToSeq(S) \in Seq(S) /\ Distinct(SetToSeq(S))
         /\ Len(SetToSeq(S)) = Cardinality(S) /\ Cardinality(S) \in Nat
  <1> DEFINE n == Cardinality(S)
  <1>1. n \in Nat /\ ExistsBijection(1..n, S)
    BY FS_CardinalityType
  <1>2. PICK f \in [1..n -> S] : \A a, b \in DOMAIN f : f[a] = f[b] => a = b
    <2>1. PICK f : f \in Bijection(1..n, S)
      BY <1>1 DEF ExistsBijection
    <2> QED
      BY <2>1 DEF Bijection, Injection, IsInjective
  <1>3. \E g \in [1..n -> S] : IsInjective(g)
    BY <1>2 DEF IsInjective
  <1> DEFINE s == SetToSeq(S)
  <1>4. s \in [1..n -> S] /\ IsInjective(s)
    BY <1>3 DEF SetToSeq
  <1> HIDE DEF s, n
  <1>5. s \in Seq(S) /\ Len(s) = n
    BY <1>1, <1>4
  <1> QED
    BY <1>1, <1>4, <1>5 DEF s, n, Distinct, IsInjective

(* What Append does to a sequence of anything. *)
IsSeq(s) == s \in Seq(ToSet(s))
LEMMA AppendAny ==
  ASSUME NEW s, IsSeq(s), NEW e
  PROVE  /\ IsSeq(Append(s, e)) /\ Len(s) \in Nat /\ DOMAIN s = 1..Len(s)
         /\ Len(Append(s, e)) = Len(s) + 1
         /\ DOMAIN Append(s, e) = DOMAIN s \cup {Len(s) + 1}
         /\ \A i \in DOMAIN s : Append(s, e)[i] = s[i]
         /\ Append(s, e)[Len(s) + 1] = e
  <1> DEFINE S == ToSet(s) \cup {e}
             t == Append(s, e)
  <1>1. s \in Seq(S)
    BY SeqMonotonic DEF IsSeq
  <1>2. e \in S
    OBVIOUS
  <1> HIDE DEF S
  <1>3. /\ t \in Seq(S) /\ Len(t) = Len(s) + 1 /\ Len(s) \in Nat /\ DOMAIN s = 1..Len(s)
        /\ DOMAIN t = 1..Len(t)
        /\ \A i \in 1..Len(s) : t[i] = s[i]
        /\ t[Len(s) + 1] = e
    BY <1>1, <1>2, AppendProperties, LenProperties
  <1> HIDE DEF t
  <1>4. t \in Seq(ToSet(t))
    BY <1>3 DEF ToSet
  <1> QED
    BY <1>3, <1>4 DEF t, IsSeq

(* A sequence over a set is one of its own elements. *)
LEMMA SeqOfOwn ==
  ASSUME NEW S, NEW s \in Seq(S)
  PROVE  IsSeq(s) /\ ToSet(s) \subseteq S /\ IsFiniteSet(ToSet(s))
  <1>1. Len(s) \in Nat /\ s \in [1..Len(s) -> S] /\ DOMAIN s = 1..Len(s)
    BY LenProperties
  <1>2. s \in [1..Len(s) -> ToSet(s)]
    BY <1>1 DEF ToSet
  <1>3. s \in Surjection(1..Len(s), ToSet(s))
    BY <1>1, <1>2 DEF Surjection, ToSet
  <1>4. IsFiniteSet(1..Len(s))
    BY <1>1, FS_Interval
  <1>5. IsFiniteSet(ToSet(s))
    BY <1>3, <1>4, FS_Surjection
  <1>6. s \in Seq(ToSet(s))
    BY <1>1, <1>2
  <1> QED
    BY <1>1, <1>5, <1>6 DEF IsSeq, ToSet

(* A function takes finitely many values on a finite set. *)
LEMMA ImageFinite ==
  ASSUME NEW S, IsFiniteSet(S), NEW f, DOMAIN f = S, f = [x \in S |-> f[x]]
  PROVE  IsFiniteSet({f[x] : x \in S})
  <1> DEFINE T == {f[x] : x \in S}
  <1>1. f \in [S -> T]
    OBVIOUS
  <1>2. \A y \in T : \E x \in S : f[x] = y
    OBVIOUS
  <1>3. f \in Surjection(S, T)
    BY <1>1, <1>2 DEF Surjection
  <1> HIDE DEF T
  <1> QED
    BY <1>3, FS_Surjection DEF T

(* There are finitely many rows of n values from a finite set. *)
LEMMA FunctionsFinite ==
  ASSUME NEW n \in Nat, NEW S, IsFiniteSet(S)
  PROVE  IsFiniteSet([1..n -> S])
  <1> DEFINE P == SUBSET ((1..n) \X S)
             graph == [f \in [1..n -> S] |-> {<<i, f[i]>> : i \in 1..n}]
  <1>1. IsFiniteSet(1..n)
    BY FS_Interval
  <1>2. IsFiniteSet((1..n) \X S)
    BY <1>1, FS_Product
  <1>3. IsFiniteSet(P)
    BY <1>2, FS_SUBSET
  <1>4. graph \in [[1..n -> S] -> P]
    OBVIOUS
  <1>5. ASSUME NEW f \in [1..n -> S], NEW g \in [1..n -> S], graph[f] = graph[g]
        PROVE  f = g
    <2> SUFFICES ASSUME NEW i \in 1..n PROVE f[i] = g[i]
      OBVIOUS
    <2>1. <<i, f[i]>> \in graph[g]
      BY <1>5
    <2> QED
      BY <2>1
  <1>6. graph \in Injection([1..n -> S], P)
    <2> HIDE DEF P
    <2>1. DOMAIN graph = [1..n -> S]
      OBVIOUS
    <2> HIDE DEF graph
    <2> QED
      BY <1>4, <1>5, <2>1 DEF Injection, IsInjective
  <1> HIDE DEF graph, P
  <1> QED
    BY <1>3, <1>6, FS_Injection

-----------------------------------------------------------------------------
(* What the parent published.                                              *)

(* The lists a parent column can be looked up in hold rows of the parent. *)
LEMMA PublishedType ==
  ASSUME run \in ParentRuns
  PROVE  /\ Published.p1 \in Seq(Int) /\ Published.p2 \in Seq(Int)
         /\ ParentWhole => Published.p1 = Published.p2
         /\ ParentWhole /\ run # <<>> => Published.p2 # <<>>
  <1> DEFINE Batches == [ids : Seq(Int) \ {<<>>}, keys : Nat]
             short == [b \in DOMAIN run |-> SubSeq(run[b].ids, 1, run[b].keys)]
             whole == [b \in DOMAIN run |-> run[b].ids]
  <1>1. /\ run \in Seq(Batches)
        /\ \A b \in DOMAIN run : run[b].keys <= Len(run[b].ids)
    BY ParentAssumption DEF ParentAssumption
  <1>2. \A b \in DOMAIN run : run[b] \in Batches
    <2> HIDE DEF Batches
    <2> QED
      BY <1>1, ElementAt
  <1>3. Len(run) \in Nat /\ DOMAIN run = 1..Len(run)
    <2> HIDE DEF Batches
    <2> QED
      BY <1>1, LenProperties
  <1>4. \A b \in DOMAIN run : SubSeq(run[b].ids, 1, run[b].keys) \in Seq(Int)
    <2> SUFFICES ASSUME NEW b \in DOMAIN run PROVE SubSeq(run[b].ids, 1, run[b].keys) \in Seq(Int)
      OBVIOUS
    <2>1. run[b].ids \in Seq(Int) /\ run[b].keys \in Nat /\ run[b].keys <= Len(run[b].ids)
      BY <1>1, <1>2
    <2>2. \A i \in 1..run[b].keys : run[b].ids[i] \in Int
      BY <2>1
    <2> QED
      BY <2>1, <2>2, SubSeqProperties
  <1>5. short \in Seq(Seq(Int)) /\ whole \in Seq(Seq(Int))
    BY <1>2, <1>3, <1>4
  <1>6. FlattenSeq(short) \in Seq(Int) /\ FlattenSeq(whole) \in Seq(Int)
    <2> HIDE DEF short, whole
    <2> QED
      BY <1>5, FlattenType
  <1>7. ASSUME ParentWhole PROVE short = whole
    <2> SUFFICES ASSUME NEW b \in DOMAIN run PROVE SubSeq(run[b].ids, 1, run[b].keys) = run[b].ids
      OBVIOUS
    <2>1. run[b].ids \in Seq(Int) /\ run[b].keys = Len(run[b].ids)
      BY <1>2, <1>7 DEF ParentWhole
    <2> QED
      BY <2>1, SubSeqFull
  <1>8. ASSUME run # <<>> PROVE FlattenSeq(whole) # <<>>
    <2>1. \A b \in DOMAIN whole : whole[b] # <<>>
      BY <1>2
    <2>2. whole # <<>>
      <3>1. Len(run) # 0
        <4> HIDE DEF Batches
        <4> QED
          BY <1>1, <1>8, EmptySeq
      <3>2. 1 \in DOMAIN whole
        BY <1>3, <3>1
      <3> HIDE DEF whole
      <3> QED
        BY <3>2
    <2> HIDE DEF whole
    <2> QED
      BY <1>5, <2>1, <2>2, FlattenType
  <1>9. Published.p1 = FlattenSeq(short) /\ Published.p2 = FlattenSeq(whole)
    BY DEF Published
  <1> HIDE DEF short, whole
  <1> QED
    BY <1>6, <1>7, <1>8, <1>9

(* The foreign key found for a column tells which column of the parent. *)
LEMMA ReferenceKnown ==
  ASSUME table \in Tables, NEW c, IsForeign(c)
  PROVE  References(c)[1] \in {"p1", "p2"}
  <1> DEFINE S == ConstraintsOn(c, {"FK"})
  <1>1. table.constraints \in Seq([type : STRING, cols : Seq(table.cols), to : Seq(STRING)])
    BY TableColumnsAssumption DEF TableColumnsAssumption
  <1>2. S \subseteq Nat /\ S # {}
    BY <1>1 DEF ConstraintsOn, IsForeign
  <1>3. \E i \in S : \A j \in S : i <= j
    <2> HIDE DEF S
    <2> QED
      BY <1>2, LeastIndex
  <1>4. PICK k \in S : FirstOn(c, {"FK"}) = table.constraints[k]
    BY <1>3 DEF FirstOn
  <1> DEFINE key == table.constraints[k]
  <1>5. key.type = "FK" /\ c \in ToSet(key.cols) /\ k \in DOMAIN table.constraints
    BY DEF ConstraintsOn, Has
  <1>6. key.to \in Seq({"p1", "p2"}) /\ Len(key.to) = Len(key.cols)
    BY <1>5, ParentAssumption DEF ParentAssumption
  <1>7. key.cols \in Seq(table.cols)
    <2> DEFINE Constraints == [type : STRING, cols : Seq(table.cols), to : Seq(STRING)]
    <2>1. table.constraints \in Seq(Constraints)
      BY <1>1
    <2>2. key \in Constraints
      <3> HIDE DEF Constraints, key
      <3> QED
        BY <2>1, <1>5, ElementAt DEF key
    <2> QED
      BY <2>2
  <1> DEFINE i == CHOOSE i \in DOMAIN key.cols : key.cols[i] = c
  <1>8. i \in DOMAIN key.cols
    BY <1>5 DEF ToSet
  <1>9. i \in DOMAIN key.to
    BY <1>6, <1>7, <1>8
  <1>10. key.to[i] \in {"p1", "p2"}
    <2> HIDE DEF i, key
    <2> QED
      BY <1>6, <1>9, ElementAt
  <1>11. References(c)[1] = key.to[i]
    BY <1>4 DEF References, Target
  <1> QED
    BY <1>10, <1>11

(* What a foreign key column draws from. *)
LEMMA PublishedForType ==
  ASSUME table \in Tables, run \in ParentRuns, NEW c, IsForeign(c)
  PROVE  /\ PublishedFor(c) \in Seq(Int)
         /\ ParentWhole => PublishedFor(c) = Published.p2
  <1>1. References(c)[1] \in {"p1", "p2"}
    BY ReferenceKnown
  <1>2. PublishedFor(c) \in {Published.p1, Published.p2}
    BY <1>1 DEF PublishedFor
  <1> QED
    BY <1>2, PublishedType

-----------------------------------------------------------------------------
(* What the generators draw from.                                          *)

(* The constraints of a table, by their positions. *)
LEMMA ConstraintType ==
  ASSUME table \in Tables, NEW k \in DOMAIN table.constraints
  PROVE  table.constraints[k].cols \in Seq(table.cols)
  <1> DEFINE Constraints == [type : STRING, cols : Seq(table.cols), to : Seq(STRING)]
  <1>1. table.constraints \in Seq(Constraints)
    BY TableColumnsAssumption DEF TableColumnsAssumption
  <1>2. table.constraints[k] \in Constraints
    <2> HIDE DEF Constraints
    <2> QED
      BY <1>1, ElementAt
  <1> QED
    BY <1>2

(* FirstOn finds one of the constraints on the column. *)
LEMMA FirstOnFound ==
  ASSUME table \in Tables, NEW c, NEW types, ConstraintsOn(c, types) # {}
  PROVE  \E k \in ConstraintsOn(c, types) : FirstOn(c, types) = table.constraints[k]
  <1> DEFINE S == ConstraintsOn(c, types)
  <1>1. table.constraints \in Seq([type : STRING, cols : Seq(table.cols), to : Seq(STRING)])
    BY TableColumnsAssumption DEF TableColumnsAssumption
  <1>2. S \subseteq Nat /\ S # {}
    BY <1>1 DEF ConstraintsOn
  <1>3. \E i \in S : \A j \in S : i <= j
    <2> HIDE DEF S
    <2> QED
      BY <1>2, LeastIndex
  <1> QED
    BY <1>3 DEF FirstOn

(* A state fills a list of columns of the table, at least one. *)
LEMMA FillsType ==
  ASSUME table \in Tables, NEW c \in table.cols
  PROVE  /\ Fills(c) \in Seq(table.cols) /\ Fills(c) # <<>>
         /\ Len(Fills(c)) \in Nat \ {0} /\ DOMAIN Fills(c) = 1..Len(Fills(c))
  <1>1. <<c>> \in Seq(table.cols)
    BY SingleElement
  <1>2. FirstPeers(c, Keys) \in Seq(table.cols) /\ FirstPeers(c, {"FK"}) \in Seq(table.cols)
    BY <1>1, FirstOnIsOfTable DEF FirstPeers
  <1>3. Fills(c) \in Seq(table.cols)
    BY <1>1, <1>2 DEF Fills
  <1>4. c \in ToSet(Fills(c))
    BY FillsItself
  <1>5. DOMAIN Fills(c) # {}
    BY <1>4 DEF ToSet
  <1> QED
    BY <1>3, <1>5, LenProperties, EmptySeq

(* A foreign key generator fills foreign key columns. *)
LEMMA ForeignFills ==
  ASSUME table \in Tables, NEW c \in table.cols, Kind(c) \in {"one", "many"}
  PROVE  /\ IsForeign(c) /\ ~IsUnique(c)
         /\ \A d \in ToSet(Fills(c)) : IsForeign(d)
  <1>1. IsForeign(c) /\ ~IsUnique(c)
    BY DEF Kind
  <1>2. Fills(c) = FirstOn(c, {"FK"}).cols /\ ConstraintsOn(c, {"FK"}) # {}
    BY <1>1 DEF Fills, FirstPeers, IsForeign
  <1>3. PICK k \in ConstraintsOn(c, {"FK"}) : FirstOn(c, {"FK"}) = table.constraints[k]
    BY <1>2, FirstOnFound
  <1>4. \A d \in ToSet(Fills(c)) : k \in ConstraintsOn(d, {"FK"})
    BY <1>2, <1>3 DEF ConstraintsOn, Has
  <1> QED
    BY <1>1, <1>4 DEF IsForeign

(* A tuple of one row of the parent. *)
Real(cols) == {[j \in DOMAIN cols |-> row] : row \in ToSet(Published.p2)}

(* The tuples of a foreign key are finitely many, and rows of the parent   *)
(* if it published whole batches.                                          *)
LEMMA ForeignPoolType ==
  ASSUME table \in Tables, run \in ParentRuns, NEW cols \in Seq(table.cols), cols # <<>>,
         \A d \in ToSet(cols) : IsForeign(d)
  PROVE  /\ IsFiniteSet(ForeignPool(cols)) /\ IsFiniteSet(ToSet(RowTuples(cols)))
         /\ ParentWhole => ToSet(RowTuples(cols)) = Real(cols)
         /\ ForeignPool(cols) \subseteq ToSet(RowTuples(cols))
  <1>1. Len(cols) \in Nat \ {0} /\ DOMAIN cols = 1..Len(cols)
    BY EmptySeq, LenProperties
  <1>2. \A j \in DOMAIN cols : IsForeign(cols[j])
    BY DEF ToSet
  <1>3. \A j \in DOMAIN cols : /\ PublishedFor(cols[j]) \in Seq(Int)
                               /\ ParentWhole => PublishedFor(cols[j]) = Published.p2
    BY <1>2, PublishedForType
  <1> DEFINE first == PublishedFor(cols[1])
             tuples == RowTuples(cols)
  <1>4. first \in Seq(Int) /\ Len(first) \in Nat /\ DOMAIN first = 1..Len(first)
    <2>1. first \in Seq(Int)
      BY <1>1, <1>3
    <2> HIDE DEF first
    <2> QED
      BY <2>1, LenProperties
  <1>5. DOMAIN tuples = 1..Len(first)
    BY <1>4 DEF RowTuples
  <1>6. tuples \in Seq(ToSet(tuples))
    <2>1. tuples = [r \in DOMAIN tuples |-> tuples[r]]
      BY DEF RowTuples
    <2> HIDE DEF tuples, first
    <2>2. tuples \in [1..Len(first) -> ToSet(tuples)]
      BY <1>5, <2>1 DEF ToSet
    <2>3. PICK n \in Nat : n = Len(first)
      BY <1>4
    <2> QED
      BY <2>2, <2>3
  <1>7. IsFiniteSet(ToSet(tuples))
    <2> HIDE DEF tuples
    <2> QED
      BY <1>6, SeqOfOwn
  <1>8. ForeignPool(cols) \subseteq ToSet(tuples)
    BY DEF ForeignPool
  <1>9. ASSUME ParentWhole PROVE ToSet(tuples) = Real(cols)
    <2> DEFINE P == Published.p2
    <2>1. P \in Seq(Int) /\ Len(P) \in Nat /\ DOMAIN P = 1..Len(P)
      BY PublishedType, LenProperties
    <2> HIDE DEF P
    <2>2. \A j \in DOMAIN cols : PublishedFor(cols[j]) = P
      BY <1>3, <1>9 DEF P
    <2>3. PublishedFor(cols[1]) = P
      BY <1>1, <2>2
    <2>4. DOMAIN tuples = DOMAIN P
      BY <2>3 DEF RowTuples
    <2>5. \A r \in DOMAIN P : tuples[r] = [j \in DOMAIN cols |-> P[r]]
      BY <2>1, <2>2, <2>3 DEF RowTuples
    <2>6. Real(cols) = {[j \in DOMAIN cols |-> row] : row \in ToSet(P)}
      BY DEF Real, P
    <2> HIDE DEF tuples
    <2> QED
      BY <2>4, <2>5, <2>6 DEF ToSet
  <1>10. IsFiniteSet(ForeignPool(cols))
    <2> HIDE DEF tuples
    <2> QED
      BY <1>7, <1>8, FS_Subset
  <1> QED
    BY <1>7, <1>8, <1>9, <1>10

(* The unique values of a foreign key column. *)
LEMMA DistinctDrawsType ==
  ASSUME table \in Tables, run \in ParentRuns, NEW c \in table.cols, IsForeign(c),
         NEW s \in DistinctDraws(c)
  PROVE  \E n \in Nat : DOMAIN s = 1..n
  <1> DEFINE values == {t[1] : t \in ForeignPool(<<c>>)}
             all == values \cup table.common[c] \cup NullDraw
  <1>0. table.count \in Nat \ {0}
    BY TableColumnsAssumption DEF TableColumnsAssumption
  <1>1. ASSUME NEW S, NEW n \in Nat, NEW q \in Sequences(S, n)
        PROVE  DOMAIN q = 1..n /\ q \in Seq(S) /\ Len(q) = n
    BY DEF Sequences
  <1>2. CASE Relation(c) = "ONE_TO_ONE"
    <2>1. CASE s \in Sequences(values, table.count)
      BY <1>0, <1>1, <2>1
    <2>2. CASE s \notin Sequences(values, table.count)
      <3>1. PICK null \in NullDraw, q \in Sequences(values, table.count - 1) : s = <<null>> \o q
        <4>1. s \in UNION {{<<null>> \o q : q \in Sequences(values, table.count - 1)} : null \in NullDraw}
          BY <1>2, <2>2 DEF DistinctDraws
        <4> HIDE DEF values
        <4> QED
          BY <4>1
      <3>2. table.count - 1 \in Nat
        BY <1>0
      <3> DEFINE S == values \cup {null}
      <3>3. q \in Seq(S) /\ <<null>> \in Seq(S)
        <4>1. q \in Seq(values)
          BY <1>1, <3>2
        <4>2. values \subseteq S /\ null \in S
          OBVIOUS
        <4> HIDE DEF values, S
        <4> QED
          BY <4>1, <4>2, SeqMonotonic, SingleElement
      <3> HIDE DEF S
      <3>4. s \in Seq(S)
        BY <3>1, <3>3, ConcatProperties
      <3> QED
        BY <3>4, LenProperties
    <2> QED
      BY <2>1, <2>2
  <1>3. CASE Relation(c) # "ONE_TO_ONE"
    <2>1. PICK m \in 1..Lesser(table.count, Cardinality(all)) : s \in Sequences(all, m)
      BY <1>3 DEF DistinctDraws
    <2>2. <<c>> \in Seq(table.cols) /\ <<c>> # <<>> /\ ToSet(<<c>>) = {c}
      <3>1. <<c>> \in Seq(table.cols)
        BY SingleElement
      <3>2. DOMAIN <<c>> = {1} /\ <<c>>[1] = c
        OBVIOUS
      <3> QED
        BY <3>1, <3>2 DEF ToSet
    <2>3. IsFiniteSet(ForeignPool(<<c>>))
      BY <2>2, ForeignPoolType
    <2>4. IsFiniteSet(values)
      <3> DEFINE f == [t \in ForeignPool(<<c>>) |-> t[1]]
      <3>1. IsFiniteSet({f[t] : t \in ForeignPool(<<c>>)})
        <4>1. DOMAIN f = ForeignPool(<<c>>) /\ f = [t \in ForeignPool(<<c>>) |-> f[t]]
          OBVIOUS
        <4> HIDE DEF f
        <4> QED
          BY <2>3, <4>1, ImageFinite
      <3>2. {f[t] : t \in ForeignPool(<<c>>)} = values
        OBVIOUS
      <3> QED
        BY <3>1, <3>2
    <2>5. IsFiniteSet(table.common[c]) /\ IsFiniteSet(NullDraw)
      BY ParentAssumption, FS_EmptySet, FS_Singleton DEF ParentAssumption, NullDraw
    <2>6. IsFiniteSet(all)
      <3> HIDE DEF values
      <3> QED
        BY <2>4, <2>5, FS_Union
    <2>7. Cardinality(all) \in Nat
      BY <2>6, FS_CardinalityType
    <2>8. m \in Nat
      BY <1>0, <2>7 DEF Lesser
    <2> QED
      BY <1>1, <2>1, <2>8
  <1> QED
    BY <1>2, <1>3

(* The pool of a state; that of a foreign key generator of several columns *)
(* lists tuples of the parent, each once.                                  *)
LEMMA PoolType ==
  ASSUME table \in Tables, run \in ParentRuns, NEW c \in table.cols, NEW pool \in Pools(c)
  PROVE  /\ IsSeq(pool)
         /\ Kind(c) \in {"one", "many"} =>
              /\ Distinct(pool)
              /\ ParentWhole => ToSet(pool) \subseteq Real(Fills(c))
  <1>1. CASE Kind(c) \in {"one", "many"}
    <2>1. pool = SetToSeq(ForeignPool(Fills(c)))
      BY <1>1 DEF Pools
    <2>2. /\ IsFiniteSet(ForeignPool(Fills(c)))
          /\ ParentWhole => ForeignPool(Fills(c)) \subseteq Real(Fills(c))
      BY <1>1, FillsType, ForeignFills, ForeignPoolType
    <2> DEFINE S == ForeignPool(Fills(c))
    <2>3. pool \in Seq(S) /\ Distinct(pool)
      BY <2>1, <2>2, Listing
    <2> HIDE DEF S
    <2>4. IsSeq(pool) /\ ToSet(pool) \subseteq S
      BY <2>3, SeqOfOwn
    <2> QED
      BY <2>2, <2>3, <2>4 DEF S
  <1>2. CASE Kind(c) = "unique" /\ IsForeign(c)
    <2>1. PICK s \in DistinctDraws(c) : pool = [j \in DOMAIN s |-> <<s[j]>>]
      BY <1>2 DEF Pools
    <2>2. PICK n \in Nat : DOMAIN s = 1..n
      BY <1>2, DistinctDrawsType
    <2>3. pool \in [1..n -> ToSet(pool)]
      BY <2>1, <2>2 DEF ToSet
    <2>4. pool \in Seq(ToSet(pool))
      BY <2>2, <2>3
    <2> QED
      BY <1>2, <2>4 DEF IsSeq
  <1>3. CASE Kind(c) \notin {"one", "many"} /\ ~ (Kind(c) = "unique" /\ IsForeign(c))
    <2>1. pool = <<>>
      BY <1>3 DEF Pools
    <2>2. IsSeq(pool)
      BY <2>1, EmptySeq DEF IsSeq
    <2> QED
      BY <1>3, <2>2
  <1> QED
    BY <1>1, <1>2, <1>3

-----------------------------------------------------------------------------
(* The invariant of the rows, of uneven batches too.                       *)

(* Every state is one that AddState makes for some column. *)
MadeInv ==
  \A k \in DOMAIN states : \E c \in table.cols :
    states[k] = [kind |-> Kind(c), cols |-> Fills(c)]

(* Each state has a pool, a count and a history, and columns are lists. *)
RowInv ==
  /\ run \in ParentRuns
  /\ created \in Nat
  /\ pc \in {"states", "produce", "store"} => created < table.count
  /\ position \in Seq(Int) /\ Len(position) = Len(states)
  /\ IsSeq(pools) /\ Len(pools) = Len(states)
  /\ \A k \in DOMAIN pools : IsSeq(pools[k])
  /\ IsSeq(given) /\ Len(given) = Len(states)
  /\ \A k \in DOMAIN given : IsSeq(given[k])
  /\ pc = "states" => next = 1
  /\ pc = "produce" => next \in 1..Len(states)
  /\ pc = "store" => next = Len(states) + 1 /\ DOMAIN batch # {}
  /\ \A c \in DOMAIN batch : Len(batch[c]) \in Nat

(* What a one-to-one generator has given out is no longer in its pool. *)
OnceInv ==
  \A k \in DOMAIN states :
    IF states[k].kind = "one" THEN Distinct(given[k] \o pools[k]) ELSE given[k] = <<>>

(* The pools of the composite foreign keys hold rows of the parent, and so *)
(* do their columns once they have been asked.                             *)
IsTuple(k) == states[k].kind \in {"one", "many"} /\ Len(states[k].cols) > 1
Carries(k) ==
  \E rowOf \in Seq(ToSet(Published.p2)) :
    \A c \in ToSet(states[k].cols) : c \in DOMAIN batch /\ batch[c] = rowOf
TupleInv ==
  ParentWhole =>
    \A k \in DOMAIN states : IsTuple(k) =>
      /\ ToSet(pools[k]) \subseteq Real(states[k].cols)
      /\ FilledOnce(k) /\ pc \in {"produce", "store"} /\ k < next => Carries(k)

(* Of a table that Harmless describes, no count is behind the stored rows. *)
AheadInv ==
  Harmless /\ ~uneven =>
    /\ pc # "crashed"
    /\ pc = "states" => created = 0
    /\ pc \in {"states", "produce", "store"} =>
         \A k \in DOMAIN states : states[k].kind \in {"unique", "markov"} =>
           position[k] >= created + (IF k < next THEN Asked ELSE 0)

(* The generator of a state, by the column it was made for. *)
LEMMA MadeFor ==
  ASSUME MadeInv, NEW k \in DOMAIN states
  PROVE  \E c \in table.cols : states[k].kind = Kind(c) /\ states[k].cols = Fills(c)
  BY DEF MadeInv

(* Which generator a column gets depends on the table alone. *)
LEMMA KindStays ==
  ASSUME UNCHANGED table, NEW c
  PROVE  Kind(c)' = Kind(c)
  BY DEF Kind, Relation, Fills, IsUnique, IsForeign, FirstPeers, FirstOn, ConstraintsOn, Has, Keys

(* A batch asks for a number of rows. *)
LEMMA AskedRows ==
  ASSUME table \in Tables, RowInv, pc \in {"produce", "store"}
  PROVE  Asked \in Nat \ {0}
  <1>1. table.count \in Nat /\ BatchSize \in Nat \ {0}
    BY TableColumnsAssumption DEF TableColumnsAssumption
  <1>2. created \in Nat /\ created < table.count
    BY DEF RowInv
  <1>3. table.count - created \in Nat \ {0}
    BY <1>1, <1>2
  <1> QED
    BY <1>1, <1>3 DEF Asked, Lesser

(* The shortest column of a batch. *)
LEMMA RowsType ==
  ASSUME RowInv, pc = "store"
  PROVE  Rows \in Nat /\ \A c \in DOMAIN batch : Rows <= Len(batch[c])
  <1> DEFINE S == {Len(batch[c]) : c \in DOMAIN batch}
  <1>1. S \subseteq Nat /\ S # {}
    BY DEF RowInv
  <1>2. \E n \in S : \A j \in S : n <= j
    <2> HIDE DEF S
    <2> QED
      BY <1>1, LeastIndex
  <1>3. \E n \in S : \A c \in DOMAIN batch : n <= Len(batch[c])
    BY <1>2
  <1>4. Rows \in S /\ \A c \in DOMAIN batch : Rows <= Len(batch[c])
    BY <1>3 DEF Rows
  <1> QED
    BY <1>1, <1>4

(* What a column of a key may be sampled from. *)
LEMMA CandidatesFinite ==
  ASSUME table \in Tables, run \in ParentRuns, NEW c \in table.cols
  PROVE  IsFiniteSet(Candidates(c))
  <1>1. IsFiniteSet(table.common[c]) /\ IsFiniteSet(Fresh)
    BY ParentAssumption DEF ParentAssumption
  <1>2. CASE IsForeign(c)
    <2>1. IsFiniteSet(ToSet(PublishedFor(c)))
      BY <1>2, PublishedForType, SeqOfOwn
    <2> QED
      BY <1>1, <1>2, <2>1, FS_Union DEF Candidates
  <1>3. CASE ~IsForeign(c)
    BY <1>1, <1>3, FS_Union DEF Candidates
  <1> QED
    BY <1>2, <1>3

(* Rows a key generator may sample. *)
LEMMA SampledFinite ==
  ASSUME table \in Tables, run \in ParentRuns, NEW cols \in Seq(table.cols)
  PROVE  IsFiniteSet(SampledRows(cols)) /\ IsFiniteSet(GroupedRows(cols))
  <1> DEFINE f == [j \in DOMAIN cols |-> Candidates(cols[j])]
             family == {f[j] : j \in DOMAIN cols}
  <1>1. Len(cols) \in Nat /\ DOMAIN cols = 1..Len(cols) /\ \A j \in DOMAIN cols : cols[j] \in table.cols
    BY LenProperties, ElementAt
  <1>2. IsFiniteSet(DOMAIN cols)
    BY <1>1, FS_Interval
  <1>3. \A T \in family : IsFiniteSet(T)
    BY <1>1, CandidatesFinite
  <1>4. IsFiniteSet(family)
    <2>1. DOMAIN f = DOMAIN cols /\ f = [j \in DOMAIN cols |-> f[j]]
      OBVIOUS
    <2> HIDE DEF f
    <2> QED
      BY <1>2, <2>1, ImageFinite
  <1>5. IsFiniteSet(UNION family)
    <2> HIDE DEF family
    <2> QED
      BY <1>3, <1>4, FS_UNION
  <1>6. IsFiniteSet([DOMAIN cols -> UNION family])
    <2> HIDE DEF family
    <2> QED
      BY <1>1, <1>5, FunctionsFinite
  <1>7. SampledRows(cols) \subseteq [DOMAIN cols -> UNION family]
    <2>1. family = {Candidates(cols[j]) : j \in DOMAIN cols}
      OBVIOUS
    <2> HIDE DEF family
    <2> QED
      BY <2>1 DEF SampledRows
  <1>8. IsFiniteSet(SampledRows(cols))
    <2> HIDE DEF family
    <2> QED
      BY <1>6, <1>7, FS_Subset
  <1>9. GroupedRows(cols) \subseteq SampledRows(cols)
    BY DEF GroupedRows
  <1> QED
    BY <1>8, <1>9, FS_Subset

(* The values due in a batch. *)
LEMMA DueFinite ==
  ASSUME table \in Tables, NEW cols \in Seq(table.cols), NEW at \in Int, NEW n \in Nat
  PROVE  IsFiniteSet(Due(cols, at, n))
  <1> DEFINE f == [c \in ToSet(cols) |-> {<<c, m>> : m \in Window(c, at, n)}]
             family == {f[c] : c \in ToSet(cols)}
  <1>1. IsFiniteSet(ToSet(cols)) /\ ToSet(cols) \subseteq table.cols
    BY SeqOfOwn
  <1>2. ASSUME NEW c \in table.cols PROVE IsFiniteSet({<<c, m>> : m \in Window(c, at, n)})
    <2> DEFINE size == Len(table.needed[c])
               g == [m \in Window(c, at, n) |-> <<c, m>>]
    <2>1. size \in Nat
      <3>1. table.needed[c] \in Seq(Int)
        BY TableColumnsAssumption DEF TableColumnsAssumption
      <3> QED
        BY <3>1
    <2> HIDE DEF size
    <2>2. at + n \in Int
      OBVIOUS
    <2>3. Share(size, at) \in Int /\ Share(size, at + n) \in Int
      BY <2>1, <2>2, ShareType
    <2>4. WindowEnd(size, at, n) - 1 \in Int
      BY <2>1, <2>3 DEF WindowEnd
    <2>5. IsFiniteSet(Window(c, at, n))
      BY <2>3, <2>4, FS_Interval DEF Window, size
    <2>6. IsFiniteSet({g[m] : m \in Window(c, at, n)})
      <3>1. DOMAIN g = Window(c, at, n) /\ g = [m \in Window(c, at, n) |-> g[m]]
        OBVIOUS
      <3> HIDE DEF g
      <3> QED
        BY <2>5, <3>1, ImageFinite
    <2>7. {g[m] : m \in Window(c, at, n)} = {<<c, m>> : m \in Window(c, at, n)}
      OBVIOUS
    <2> QED
      BY <2>6, <2>7
  <1>3. \A T \in family : IsFiniteSet(T)
    BY <1>1, <1>2
  <1>4. IsFiniteSet(family)
    <2>1. DOMAIN f = ToSet(cols) /\ f = [c \in ToSet(cols) |-> f[c]]
      OBVIOUS
    <2> HIDE DEF f
    <2> QED
      BY <1>1, <2>1, ImageFinite
  <1>5. IsFiniteSet(UNION family)
    <2> HIDE DEF family
    <2> QED
      BY <1>3, <1>4, FS_UNION
  <1>6. Due(cols, at, n) = UNION family
    <2>1. family = {{<<c, m>> : m \in Window(c, at, n)} : c \in ToSet(cols)}
      OBVIOUS
    <2> HIDE DEF family
    <2> QED
      BY <2>1 DEF Due
  <1> QED
    BY <1>5, <1>6

(* MarkovGenerator returns finitely many rows. *)
LEMMA KeyRowsFinite ==
  ASSUME table \in Tables, run \in ParentRuns, NEW cols \in Seq(table.cols),
         NEW at \in Int, NEW n \in Nat,
         NEW first \in MandatoryRows(cols, Due(cols, at, n)), NEW rows \in FilledUp(first, cols, n)
  PROVE  IsFiniteSet(rows)
  <1> DEFINE due == Due(cols, at, n)
  <1>1. IsFiniteSet(due)
    BY DueFinite
  <1>2. IsFiniteSet(first)
    <2> HIDE DEF due
    <2>1. first \in MandatoryRows(cols, due)
      BY DEF due
    <2>2. PICK f : DOMAIN f = due /\ f = [p \in due |-> f[p]] /\ first = {f[p] : p \in due}
      BY <2>1 DEF MandatoryRows
    <2> QED
      BY <1>1, <2>2, ImageFinite
  <1>3. CASE rows = first
    BY <1>2, <1>3
  <1>4. CASE rows # first
    <2>1. PICK more \in SUBSET GroupedRows(cols) : rows = first \cup more
      BY <1>4 DEF FilledUp, kSubset
    <2>2. IsFiniteSet(more)
      BY SampledFinite, FS_Subset
    <2> QED
      BY <1>2, <2>1, <2>2, FS_Union
  <1> QED
    BY <1>3, <1>4

(* Put keeps the types, if the generator returned a number of rows. *)
LEMMA PutKeepsRows ==
  ASSUME OneInv, RowInv, pc = "produce", NEW rows, NEW moved \in Int, Len(rows) \in Nat,
         Put(rows, moved), UNCHANGED <<table, run, states, created>>,
         IsSeq(pools'), Len(pools') = Len(pools), \A k \in DOMAIN pools' : IsSeq(pools'[k]),
         IsSeq(given'), Len(given') = Len(given), \A k \in DOMAIN given' : IsSeq(given'[k])
  PROVE  RowInv'
  <1>1. next \in 1..Len(states) /\ Len(states) \in Nat
    BY DEF RowInv, OneInv, StatesInv
  <1>2. /\ pc' \in {"store", "produce"}
        /\ pc' = "produce" => next' \in 1..Len(states)
        /\ pc' = "store" => next' = Len(states) + 1
    BY <1>1 DEF Put
  <1>3. position' \in Seq(Int) /\ Len(position') = Len(position)
    BY DEF Put, RowInv
  <1>4. batch' = With(rows) /\ DOMAIN batch' = DOMAIN batch \cup ToSet(Current.cols)
    BY DEF Put, With
  <1>5. ToSet(Current.cols) # {}
    <2>1. PICK c \in table.cols : Current.cols = Fills(c)
      BY <1>1, StateType DEF OneInv, Current, StatesInv
    <2> QED
      BY <2>1, FillsItself DEF OneInv, StatesInv
  <1>6. \A c \in DOMAIN batch' : Len(batch'[c]) \in Nat
    <2> SUFFICES ASSUME NEW c \in DOMAIN batch' PROVE Len(batch'[c]) \in Nat
      OBVIOUS
    <2>1. CASE c \in ToSet(Current.cols)
      <3>1. batch'[c] = Column(rows, c)
        BY <1>4, <2>1 DEF With
      <3> QED
        BY <3>1, ColumnLen
    <2>2. CASE c \notin ToSet(Current.cols)
      <3>1. c \in DOMAIN batch /\ batch'[c] = batch[c]
        BY <1>4, <2>2 DEF With
      <3> QED
        BY <3>1 DEF RowInv
    <2> QED
      BY <2>1, <2>2
  <1> QED
    BY <1>2, <1>3, <1>4, <1>5, <1>6 DEF RowInv

(* The rows of an asked state, one lemma for each kind.  *)
LEMMA PlainRows ==
  ASSUME OneInv, RowInv, ProducePlain
  PROVE  RowInv'
  <1> DEFINE rows == [r \in 1..Asked |-> <<CHOOSE v \in Fresh : TRUE>>]
  <1>1. Asked \in Nat \ {0}
    BY AskedRows DEF OneInv, StatesInv, ProducePlain, Asking
  <1>2. Len(rows) = Asked
    BY <1>1
  <1>3. Put(rows, Asked) /\ UNCHANGED <<table, run, states, created, pools, given>> /\ pc = "produce"
    BY DEF ProducePlain, Asking
  <1> HIDE DEF rows
  <1> QED
    BY <1>1, <1>2, <1>3, PutKeepsRows DEF RowInv

(* A slice that ends before it begins, or lies within the pool. *)
LEMMA SliceType ==
  ASSUME NEW pool, IsSeq(pool), NEW at \in Int, NEW end \in Int, end <= Len(pool),
         ~ (at < 0 /\ at < end)
  PROVE  Len(SubSeq(pool, at + 1, end)) = IF at <= end THEN end - at ELSE 0
  <1>1. Len(pool) \in Nat /\ DOMAIN pool = 1..Len(pool)
    BY LenProperties DEF IsSeq
  <1>2. CASE at >= 0
    <2>1. \A i \in (at + 1)..end : pool[i] \in ToSet(pool)
      BY <1>1, <1>2 DEF ToSet
    <2>2. at + 1 \in Int
      OBVIOUS
    <2>3. Len(SubSeq(pool, at + 1, end)) = IF at + 1 <= end THEN end - (at + 1) + 1 ELSE 0
      BY <2>1, <2>2, SubSeqProperties
    <2>4. end - (at + 1) + 1 = end - at /\ (at + 1 <= end <=> at < end)
      OBVIOUS
    <2> QED
      BY <2>3, <2>4
  <1>3. CASE end <= at
    <2>1. end < at + 1 /\ at + 1 \in Int
      BY <1>3
    <2>2. SubSeq(pool, at + 1, end) = <<>>
      BY <2>1, SubSeqEmpty
    <2>3. Len(<<>>) = 0
      OBVIOUS
    <2> QED
      BY <1>3, <2>2, <2>3
  <1> QED
    BY <1>2, <1>3

(* What a unique generator returns. *)
UniqueRows(pool, at) ==
  IF pool = <<>> THEN [r \in 1..Asked |-> <<at + r>>]
  ELSE SubSeq(pool, at + 1, Lesser(at + Asked, Len(pool)))
LEMMA UniqueStep ==
  ASSUME OneInv, RowInv, ProduceUnique
  PROVE  /\ Asked \in Nat \ {0} /\ next \in DOMAIN position /\ position[next] \in Int
         /\ \/ Crash /\ position[next] < 0
            \/ \E rows : /\ Put(rows, Len(rows)) /\ Len(rows) \in Nat /\ Len(rows) <= Asked
                         /\ UNCHANGED <<pools, given>>
         /\ pc = "produce" /\ Current.kind = "unique"
         /\ UNCHANGED <<table, run, states, created>>
  <1>1. Asked \in Nat \ {0}
    BY AskedRows DEF OneInv, StatesInv, ProduceUnique, Asking
  <1>2. /\ pc = "produce" /\ Current.kind = "unique"
        /\ UNCHANGED <<table, run, states, created>>
    BY DEF ProduceUnique, Asking
  <1>3. /\ next \in DOMAIN position /\ position[next] \in Int
        /\ next \in DOMAIN pools /\ IsSeq(Pool)
    <2>1. next \in 1..Len(states) /\ Len(position) = Len(states) /\ Len(pools) = Len(states)
      BY <1>2 DEF RowInv
    <2>2. DOMAIN pools = 1..Len(pools)
      BY LenProperties DEF RowInv, IsSeq
    <2> QED
      BY <2>1, <2>2 DEF RowInv, Pool
  <1> DEFINE at == position[next]
             end == IF Pool = <<>> THEN at + Asked ELSE Lesser(at + Asked, Len(Pool))
             rows == UniqueRows(Pool, at)
  <1>4. CASE at < 0 /\ at < end
    BY <1>1, <1>2, <1>3, <1>4 DEF ProduceUnique
  <1>5. CASE ~ (at < 0 /\ at < end)
    <2>1. Put(rows, Len(rows)) /\ UNCHANGED <<pools, given>>
      BY <1>5 DEF ProduceUnique, UniqueRows
    <2>2. Len(rows) \in Nat /\ Len(rows) <= Asked
      <3>1. CASE Pool = <<>>
        <4>1. rows = [r \in 1..Asked |-> <<at + r>>]
          BY <3>1 DEF UniqueRows
        <4> HIDE DEF rows
        <4> QED
          BY <4>1, <1>1
      <3>2. CASE Pool # <<>>
        <4>1. Len(Pool) \in Nat
          BY <1>3, LenProperties DEF IsSeq
        <4>2. end \in Int /\ end <= Len(Pool) /\ end <= at + Asked
          BY <1>1, <1>3, <3>2, <4>1 DEF Lesser
        <4>3. rows = SubSeq(Pool, at + 1, end)
          BY <3>2 DEF UniqueRows
        <4> HIDE DEF end, rows, at
        <4>4. at \in Int
          BY <1>3 DEF at
        <4>5. Len(rows) = IF at <= end THEN end - at ELSE 0
          BY <1>3, <1>5, <4>2, <4>3, <4>4, SliceType
        <4> QED
          BY <1>1, <4>2, <4>4, <4>5
      <3> QED
        BY <3>1, <3>2
    <2> HIDE DEF rows
    <2> QED
      BY <1>1, <1>2, <1>3, <2>1, <2>2
  <1> QED
    BY <1>4, <1>5

(* What an update does to a sequence of anything. *)
LEMMA ExceptAny ==
  ASSUME NEW s, IsSeq(s), NEW i \in DOMAIN s, NEW e
  PROVE  /\ IsSeq([s EXCEPT ![i] = e]) /\ Len([s EXCEPT ![i] = e]) = Len(s)
         /\ DOMAIN [s EXCEPT ![i] = e] = DOMAIN s
         /\ [s EXCEPT ![i] = e][i] = e
         /\ \A j \in DOMAIN s : j # i => [s EXCEPT ![i] = e][j] = s[j]
  <1> DEFINE t == [s EXCEPT ![i] = e]
             S == ToSet(s) \cup {e}
  <1>1. Len(s) \in Nat /\ DOMAIN s = 1..Len(s) /\ s \in [1..Len(s) -> ToSet(s)]
    BY LenProperties DEF IsSeq
  <1>2. DOMAIN t = 1..Len(s) /\ t \in [1..Len(s) -> ToSet(t)]
    BY <1>1 DEF ToSet
  <1>3. t[i] = e /\ \A j \in DOMAIN s : j # i => t[j] = s[j]
    BY <1>1
  <1> HIDE DEF t
  <1>4. PICK n \in Nat : n = Len(s)
    BY <1>1
  <1>5. t \in Seq(ToSet(t)) /\ Len(t) = n
    BY <1>2, <1>4
  <1> QED
    BY <1>1, <1>2, <1>3, <1>4, <1>5 DEF t, IsSeq

(* One-to-many references, a tuple for every row. *)
LEMMA ManyStep ==
  ASSUME OneInv, RowInv, ProduceMany
  PROVE  /\ Asked \in Nat \ {0}
         /\ \E rows \in [1..Asked -> Draws(Current.cols, ToSet(Pool))] :
              Put(rows, 0) /\ Len(rows) = Asked
         /\ pc = "produce" /\ Current.kind = "many"
         /\ UNCHANGED <<table, run, states, created, pools, given>>
  <1>1. Asked \in Nat \ {0}
    BY AskedRows DEF OneInv, StatesInv, ProduceMany, Asking
  <1>2. PICK rows \in [1..Asked -> Draws(Current.cols, ToSet(Pool))] : Put(rows, 0)
    BY DEF ProduceMany
  <1>3. Len(rows) = Asked
    BY <1>1, <1>2, LenOfFunction
  <1> QED
    BY <1>1, <1>2, <1>3 DEF ProduceMany, Asking

(* One-to-one references, from the front of the pool. *)
LEMMA OneStep ==
  ASSUME OneInv, RowInv, ProduceOne
  PROVE  /\ Asked \in Nat \ {0} /\ pc = "produce" /\ Current.kind = "one"
         /\ UNCHANGED <<table, run, states, created>>
         /\ next \in 1..Len(states) /\ next \in DOMAIN pools /\ next \in DOMAIN given
         /\ IsSeq(Pool) /\ IsSeq(given[next])
         /\ \/ Crash
            \/ /\ Asked <= Len(Pool)
               /\ Put(SubSeq(Pool, 1, Asked), 0) /\ Len(SubSeq(Pool, 1, Asked)) = Asked
               /\ pools' = [pools EXCEPT ![next] = Rest(Pool, Asked)]
               /\ given' = [given EXCEPT ![next] = given[next] \o SubSeq(Pool, 1, Asked)]
  <1>1. Asked \in Nat \ {0}
    BY AskedRows DEF OneInv, StatesInv, ProduceOne, Asking
  <1>2. pc = "produce" /\ Current.kind = "one" /\ UNCHANGED <<table, run, states, created>>
    BY DEF ProduceOne, Asking
  <1>3. /\ next \in 1..Len(states) /\ next \in DOMAIN pools /\ next \in DOMAIN given
        /\ IsSeq(Pool) /\ IsSeq(given[next])
    <2>1. next \in 1..Len(states) /\ Len(given) = Len(states) /\ Len(pools) = Len(states)
      BY <1>2 DEF RowInv
    <2>2. DOMAIN pools = 1..Len(pools) /\ DOMAIN given = 1..Len(given)
      BY LenProperties DEF RowInv, IsSeq
    <2> QED
      BY <2>1, <2>2 DEF RowInv, Pool
  <1>4. CASE Crash
    BY <1>1, <1>2, <1>3, <1>4
  <1>5. CASE ~Crash
    <2>1. Len(Pool) \in Nat /\ DOMAIN Pool = 1..Len(Pool)
      BY <1>3, LenProperties DEF IsSeq
    <2>2. Asked <= Len(Pool)
      <3>1. ~ (Asked > Len(Pool))
        BY <1>5, Zenon DEF ProduceOne
      <3> QED
        BY <1>1, <2>1, <3>1
    <2>3. /\ Put(SubSeq(Pool, 1, Asked), 0)
          /\ pools' = [pools EXCEPT ![next] = Rest(@, Asked)]
          /\ given' = [given EXCEPT ![next] = @ \o SubSeq(Pool, 1, Asked)]
      BY <1>5 DEF ProduceOne
    <2>4. pools' = [pools EXCEPT ![next] = Rest(Pool, Asked)]
      BY <2>3 DEF Pool
    <2>5. Len(SubSeq(Pool, 1, Asked)) = Asked
      <3>1. \A i \in 1..Asked : Pool[i] \in ToSet(Pool)
        BY <1>1, <2>1, <2>2 DEF ToSet
      <3>2. Len(SubSeq(Pool, 1, Asked)) = IF 1 <= Asked THEN Asked - 1 + 1 ELSE 0
        BY <1>1, <3>1, SubSeqProperties
      <3> QED
        BY <1>1, <3>2
    <2> QED
      BY <1>1, <1>2, <1>3, <2>2, <2>3, <2>4, <2>5
  <1> QED
    BY <1>4, <1>5

(* Rows of a key. *)
LEMMA KeyStep ==
  ASSUME OneInv, RowInv, MadeInv, ProduceKey
  PROVE  /\ Asked \in Nat \ {0} /\ pc = "produce" /\ Current.kind = "markov"
         /\ UNCHANGED <<table, run, states, created>>
         /\ next \in 1..Len(states) /\ next \in DOMAIN position /\ position[next] \in Int
         /\ \/ /\ Crash
               /\ \/ \E d \in Due(Current.cols, position[next], Asked) : d[2] < 0
                  \/ \E j \in DOMAIN Current.cols : Candidates(Current.cols[j]) = {}
            \/ \E rows : Put(rows, Len(rows)) /\ Len(rows) \in Nat /\ UNCHANGED <<pools, given>>
  <1>1. Asked \in Nat \ {0}
    BY AskedRows DEF OneInv, StatesInv, ProduceKey, Asking
  <1>2. pc = "produce" /\ Current.kind = "markov" /\ UNCHANGED <<table, run, states, created>>
    BY DEF ProduceKey, Asking
  <1>3. next \in 1..Len(states) /\ next \in DOMAIN position /\ position[next] \in Int
    BY <1>2 DEF RowInv
  <1>4. CASE \/ \E d \in Due(Current.cols, position[next], Asked) : d[2] < 0
             \/ \E j \in DOMAIN Current.cols : Candidates(Current.cols[j]) = {}
    BY <1>1, <1>2, <1>3, <1>4 DEF ProduceKey
  <1>5. CASE ~ (\/ \E d \in Due(Current.cols, position[next], Asked) : d[2] < 0
                \/ \E j \in DOMAIN Current.cols : Candidates(Current.cols[j]) = {})
    <2>0. PICK first \in MandatoryRows(Current.cols, Due(Current.cols, position[next], Asked)) :
            \E set \in FilledUp(first, Current.cols, Asked) :
              Put(SetToSeq(set), Len(SetToSeq(set))) /\ UNCHANGED <<pools, given>>
      BY <1>5 DEF ProduceKey
    <2>1. PICK set \in FilledUp(first, Current.cols, Asked) :
            Put(SetToSeq(set), Len(SetToSeq(set))) /\ UNCHANGED <<pools, given>>
      BY <2>0
    <2>2. table \in Tables /\ run \in ParentRuns /\ Current.cols \in Seq(table.cols)
      <3>1. PICK c \in table.cols : Current.cols = Fills(c)
        BY <1>3, StateType DEF OneInv, Current, StatesInv
      <3> QED
        BY <3>1, FillsType DEF OneInv, StatesInv, RowInv
    <2>3. IsFiniteSet(set)
      BY <1>1, <1>3, <2>1, <2>2, KeyRowsFinite
    <2>4. Len(SetToSeq(set)) \in Nat
      BY <2>3, Listing
    <2> QED
      BY <1>1, <1>2, <1>3, <2>1, <2>4
  <1> QED
    BY <1>4, <1>5

(* AddState appends to all the lists, or crashes. *)
LEMMA AddStep ==
  ASSUME AddState
  PROVE  /\ UNCHANGED <<table, run, next, batch, created, uneven>> /\ pc = "states"
         /\ \E c \in table.cols \ Covered :
              \/ /\ \E pool \in Pools(c) :
                      /\ states' = Append(states, [kind |-> Kind(c), cols |-> Fills(c)])
                      /\ pools' = Append(pools, pool)
                      /\ position' = Append(position, 0) /\ given' = Append(given, <<>>)
                 /\ pc' = "states"
              \/ /\ Pools(c) = {} \/ (Kind(c) = "unique" /\ IsForeign(c) /\ DrawsMayThrow(c))
                 /\ pc' = "crashed"
                 /\ UNCHANGED <<states, pools, position, given>>
  BY DEF AddState

(* The lists stay equally long when a state is added. *)
LEMMA AddKeepsRows ==
  ASSUME OneInv, RowInv, AddState
  PROVE  RowInv'
  <1>0. UNCHANGED <<table, run, next, batch, created>> /\ pc = "states"
    BY AddStep
  <1>1. PICK c \in table.cols :
          \/ /\ \E pool \in Pools(c) :
                  /\ states' = Append(states, [kind |-> Kind(c), cols |-> Fills(c)])
                  /\ pools' = Append(pools, pool)
                  /\ position' = Append(position, 0) /\ given' = Append(given, <<>>)
             /\ pc' = "states"
          \/ pc' = "crashed" /\ UNCHANGED <<states, pools, position, given>>
    BY AddStep
  <1>2. CASE pc' = "crashed" /\ UNCHANGED <<states, pools, position, given>>
    BY <1>0, <1>2 DEF RowInv
  <1>3. CASE /\ \E pool \in Pools(c) :
                  /\ states' = Append(states, [kind |-> Kind(c), cols |-> Fills(c)])
                  /\ pools' = Append(pools, pool)
                  /\ position' = Append(position, 0) /\ given' = Append(given, <<>>)
             /\ pc' = "states"
    <2>1. PICK pool \in Pools(c) :
                  /\ states' = Append(states, [kind |-> Kind(c), cols |-> Fills(c)])
                  /\ pools' = Append(pools, pool)
                  /\ position' = Append(position, 0) /\ given' = Append(given, <<>>)
      BY <1>3
    <2>2. IsSeq(pool) /\ IsSeq(<<>>)
      BY PoolType, EmptySeq DEF OneInv, StatesInv, RowInv, IsSeq
    <2>3. Len(states') = Len(states) + 1 /\ Len(states) \in Nat
      BY <2>1 DEF OneInv, StatesInv
    <2>4. position' \in Seq(Int) /\ Len(position') = Len(position) + 1
      BY <2>1 DEF RowInv
    <2>5. /\ IsSeq(pools') /\ Len(pools') = Len(pools) + 1
          /\ \A k \in DOMAIN pools' : IsSeq(pools'[k])
      BY <2>1, <2>2, AppendAny DEF RowInv
    <2>6. /\ IsSeq(given') /\ Len(given') = Len(given) + 1
          /\ \A k \in DOMAIN given' : IsSeq(given'[k])
      BY <2>1, <2>2, AppendAny DEF RowInv
    <2> QED
      BY <1>0, <1>3, <2>3, <2>4, <2>5, <2>6 DEF RowInv
  <1> QED
    BY <1>1, <1>2, <1>3

(* The rest of the pool and the tuples given out are lists. *)
LEMMA OneKeepsRows ==
  ASSUME OneInv, RowInv, ProduceOne
  PROVE  RowInv'
  <1>1. /\ Asked \in Nat \ {0} /\ pc = "produce" /\ UNCHANGED <<table, run, states, created>>
        /\ next \in DOMAIN pools /\ next \in DOMAIN given /\ IsSeq(Pool) /\ IsSeq(given[next])
    BY OneStep
  <1>2. CASE Crash
    BY <1>1, <1>2 DEF RowInv, Crash
  <1>3. CASE ~Crash
    <2> DEFINE rows == SubSeq(Pool, 1, Asked)
               rest == Rest(Pool, Asked)
    <2>1. /\ Asked <= Len(Pool) /\ Put(rows, 0) /\ Len(rows) = Asked
          /\ pools' = [pools EXCEPT ![next] = rest]
          /\ given' = [given EXCEPT ![next] = given[next] \o rows]
      BY <1>3, OneStep
    <2>2. Len(Pool) \in Nat /\ DOMAIN Pool = 1..Len(Pool) /\ Pool \in Seq(ToSet(Pool))
      BY <1>1, LenProperties DEF IsSeq
    <2>3. IsSeq(rest)
      <3>1. \A i \in (Asked + 1)..Len(Pool) : Pool[i] \in ToSet(Pool)
        BY <1>1, <2>2 DEF ToSet
      <3>2. rest \in Seq(ToSet(Pool))
        BY <1>1, <2>2, <3>1, SubSeqProperties DEF Rest
      <3> QED
        BY <3>2, SeqOfOwn
    <2>4. IsSeq(given[next] \o rows)
      <3> DEFINE S == ToSet(given[next]) \cup ToSet(Pool)
      <3>1. \A i \in 1..Asked : Pool[i] \in S
        BY <1>1, <2>1, <2>2 DEF ToSet
      <3>2. rows \in Seq(S)
        BY <1>1, <3>1, SubSeqProperties
      <3>3. given[next] \in Seq(S)
        BY <1>1, SeqMonotonic DEF IsSeq
      <3> HIDE DEF S, rows
      <3>4. given[next] \o rows \in Seq(S)
        BY <3>2, <3>3, ConcatProperties
      <3> QED
        BY <3>4, SeqOfOwn
    <2> HIDE DEF rows, rest
    <2>5. IsSeq(pools') /\ Len(pools') = Len(pools) /\ \A k \in DOMAIN pools' : IsSeq(pools'[k])
      BY <1>1, <2>1, <2>3, ExceptAny DEF RowInv
    <2>6. IsSeq(given') /\ Len(given') = Len(given) /\ \A k \in DOMAIN given' : IsSeq(given'[k])
      BY <1>1, <2>1, <2>4, ExceptAny DEF RowInv
    <2>7. Len(rows) \in Nat
      BY <1>1, <2>1
    <2>8. Put(rows, 0) /\ pc = "produce" /\ UNCHANGED <<table, run, states, created>> /\ 0 \in Int
      BY <1>1, <2>1
    <2> QED
      BY <2>5, <2>6, <2>7, <2>8, PutKeepsRows
  <1> QED
    BY <1>2, <1>3

(* After a batch, any part of which was stored. *)
LEMMA BatchEndKeepsRows ==
  ASSUME OneInv, RowInv, Stored \/ StoreThrew
  PROVE  RowInv'
  <1>0. /\ pc = "store" /\ UNCHANGED <<table, run, states, pools, given>>
        /\ next' = 1 /\ batch' = <<>>
    BY DEF Stored, StoreThrew, NextBatch
  <1>1. Len(states) \in Nat /\ Len(states) >= 1
    BY <1>0, SomeStates
  <1>2. Rows \in Nat
    BY <1>0, RowsType
  <1>3. Asked \in Nat \ {0} /\ table.count \in Nat
    BY <1>0, AskedRows, TableColumnsAssumption DEF OneInv, StatesInv, TableColumnsAssumption
  <1>4. created' \in Nat /\ (pc' = "produce" => created' < table.count)
        /\ pc' \in {"produce", "done", "stopped"}
    <2>1. CASE Stored
      <3>1. PICK stored \in 0..Rows :
              /\ created' = created + stored
              /\ pc' = IF created' >= table.count THEN "done"
                       ELSE IF batches + 1 < MaxBatches THEN "produce" ELSE "stopped"
        BY <2>1 DEF Stored
      <3>2. created' \in Nat
        BY <1>2, <3>1 DEF RowInv
      <3> QED
        BY <1>3, <3>1, <3>2
    <2>2. CASE StoreThrew
      BY <1>0, <2>2 DEF StoreThrew, RowInv
    <2> QED
      BY <2>1, <2>2
  <1>5. position' \in Seq(Int) /\ Len(position') = Len(position)
    <2>1. CASE Stored
      <3>1. PICK stored \in 0..Rows : position' = Unadded(stored)
        BY <2>1 DEF Stored
      <3>2. PICK back \in Int : back = Asked - stored
        BY <1>2, <1>3
      <3>3. position' = [i \in DOMAIN position |-> position[i] - back]
        BY <3>1, <3>2 DEF Unadded
      <3> QED
        BY <3>3 DEF RowInv
    <2>2. CASE StoreThrew
      BY <2>2 DEF StoreThrew, RowInv
    <2> QED
      BY <2>1, <2>2
  <1>6. DOMAIN batch' = {}
    BY <1>0
  <1> QED
    BY <1>0, <1>1, <1>4, <1>5, <1>6 DEF RowInv

(* A step of any kind keeps the lists in step. *)
LEMMA StepKeepsRows ==
  ASSUME OneInv, RowInv, MadeInv, [Next]_vars
  PROVE  RowInv'
  <1>1. CASE StatesReady
    <2>1. pc = "states" /\ pc' = "produce"
          /\ UNCHANGED <<table, run, states, pools, position, next, batch, created, given>>
      BY <1>1 DEF StatesReady, genVars
    <2>2. Covered = table.cols /\ table.cols # {}
      BY <1>1, TableColumnsAssumption DEF StatesReady, OneInv, StatesInv, TableColumnsAssumption
    <2>3. 1 \in 1..Len(states)
      <3>1. DOMAIN states # {}
        BY <2>2 DEF Covered
      <3> QED
        BY <3>1 DEF OneInv, StatesInv
    <2> QED
      BY <2>1, <2>3 DEF RowInv
  <1>2. CASE ProduceUnique
    <2>1. pc = "produce" /\ UNCHANGED <<table, run, states, created>>
      BY <1>2, UniqueStep
    <2>2. CASE Crash
      BY <2>1, <2>2 DEF RowInv, Crash
    <2>3. CASE ~Crash
      <3>1. PICK rows : Put(rows, Len(rows)) /\ Len(rows) \in Nat /\ UNCHANGED <<pools, given>>
        BY <1>2, <2>3, UniqueStep
      <3> QED
        BY <2>1, <3>1, PutKeepsRows DEF RowInv
    <2> QED
      BY <2>2, <2>3
  <1>3. CASE ProduceMany
    <2>1. pc = "produce" /\ UNCHANGED <<table, run, states, created, pools, given>>
      BY <1>3, ManyStep
    <2>2. PICK rows : Put(rows, 0) /\ Len(rows) \in Nat
      BY <1>3, ManyStep
    <2> QED
      BY <2>1, <2>2, PutKeepsRows DEF RowInv
  <1>4. CASE ProduceKey
    <2>1. pc = "produce" /\ UNCHANGED <<table, run, states, created>>
      BY <1>4, KeyStep
    <2>2. CASE Crash
      BY <2>1, <2>2 DEF RowInv, Crash
    <2>3. CASE ~Crash
      <3>1. PICK rows : Put(rows, Len(rows)) /\ Len(rows) \in Nat /\ UNCHANGED <<pools, given>>
        BY <1>4, <2>3, KeyStep
      <3> QED
        BY <2>1, <3>1, PutKeepsRows DEF RowInv
    <2> QED
      BY <2>2, <2>3
  <1>5. CASE UNCHANGED vars
    <2>1. UNCHANGED <<table, run, pc, states, pools, position, next, batch, created, given>>
      BY <1>5 DEF vars, genVars
    <2> QED
      BY <2>1 DEF RowInv
  <1> QED
    BY <1>1, <1>2, <1>3, <1>4, <1>5, AddKeepsRows, PlainRows, OneKeepsRows, BatchEndKeepsRows
    DEF Next

(* Only AddState makes states. *)
LEMMA StepKeepsMade ==
  ASSUME OneInv, MadeInv, [Next]_vars
  PROVE  MadeInv'
  <1>1. UNCHANGED table
    BY DEF Next, AddState, StatesReady, ProducePlain, ProduceUnique, ProduceMany, ProduceOne,
           ProduceKey, Stored, StoreThrew, NextBatch, vars
  <1>2. \A c : Kind(c)' = Kind(c) /\ Fills(c)' = Fills(c)
    BY <1>1, KindStays, FillsStays
  <1>3. CASE UNCHANGED states
    BY <1>1, <1>2, <1>3 DEF MadeInv
  <1>4. CASE states' # states
    <2>1. AddState
      BY <1>4 DEF Next, StatesReady, ProducePlain, ProduceUnique, ProduceMany, ProduceOne,
           ProduceKey, Stored, StoreThrew, NextBatch, genVars, vars
    <2>2. PICK c \in table.cols : states' = Append(states, [kind |-> Kind(c), cols |-> Fills(c)])
      BY <1>4, <2>1, AddStep
    <2> DEFINE new == [kind |-> Kind(c), cols |-> Fills(c)]
    <2>3. IsSeq(states)
      BY SeqOfOwn DEF OneInv, StatesInv
    <2> SUFFICES ASSUME NEW k \in DOMAIN states'
                 PROVE  \E d \in table.cols : states'[k] = [kind |-> Kind(d), cols |-> Fills(d)]
      BY <1>1, <1>2 DEF MadeInv
    <2>4. CASE k \in DOMAIN states
      <3>1. states'[k] = states[k]
        BY <2>2, <2>3, <2>4, AppendAny
      <3> QED
        BY <2>4, <3>1 DEF MadeInv
    <2>5. CASE k \notin DOMAIN states
      <3>1. states'[k] = new
        BY <2>2, <2>3, <2>5, AppendAny
      <3> QED
        BY <3>1
    <2> QED
      BY <2>4, <2>5
  <1> QED
    BY <1>3, <1>4

(* The lists of the states, the batch and the counts keep their types. *)
LEMMA RowsInvariant == Spec => [](RowInv /\ MadeInv)
  <1>1. Init => RowInv /\ MadeInv
    <2> SUFFICES ASSUME Init PROVE RowInv /\ MadeInv
      OBVIOUS
    <2>1. table.count \in Nat \ {0}
      BY TableColumnsAssumption DEF Init, TableColumnsAssumption
    <2>2. IsSeq(<<>>) /\ DOMAIN <<>> = {} /\ Len(<<>>) = 0 /\ <<>> \in Seq(Int)
      BY EmptySeq DEF IsSeq
    <2> QED
      BY <2>1, <2>2 DEF Init, RowInv, MadeInv
  <1>2. OneInv /\ RowInv /\ MadeInv /\ [Next]_vars => RowInv' /\ MadeInv'
    BY StepKeepsRows, StepKeepsMade
  <1> QED
    BY <1>1, <1>2, OneInvariant, PTL DEF Spec

-----------------------------------------------------------------------------
(* One-to-one references.                                                  *)

(* Anything on two lists is on one of their concatenation. *)
LEMMA ConcatAny ==
  ASSUME NEW s, IsSeq(s), NEW t, IsSeq(t)
  PROVE  \E S : s \in Seq(S) /\ t \in Seq(S)
  <1> DEFINE S == ToSet(s) \cup ToSet(t)
  <1>1. s \in Seq(S) /\ t \in Seq(S)
    BY SeqMonotonic DEF IsSeq
  <1> QED
    BY <1>1

(* The front of a list without repetitions has none. *)
LEMMA FrontDistinct ==
  ASSUME NEW s, IsSeq(s), NEW t, IsSeq(t), Distinct(s \o t)
  PROVE  Distinct(s)
  <1>1. PICK S : s \in Seq(S) /\ t \in Seq(S)
    BY ConcatAny
  <1>2. /\ Len(s) \in Nat /\ Len(t) \in Nat /\ DOMAIN s = 1..Len(s)
        /\ DOMAIN (s \o t) = 1..(Len(s) + Len(t))
        /\ \A i \in 1..Len(s) : (s \o t)[i] = s[i]
    BY <1>1, ConcatProperties, LenProperties
  <1>3. 1..Len(s) \subseteq DOMAIN (s \o t)
    BY <1>2
  <1> QED
    BY <1>2, <1>3 DEF Distinct

(* Giving out the front of the pool only moves the border. *)
LEMMA BorderMoves ==
  ASSUME NEW g, IsSeq(g), NEW pool, IsSeq(pool), NEW n \in Nat \ {0}, n <= Len(pool)
  PROVE  (g \o SubSeq(pool, 1, n)) \o Rest(pool, n) = g \o pool
  <1>1. PICK S : g \in Seq(S) /\ pool \in Seq(S)
    BY ConcatAny
  <1>2. Len(pool) \in Nat /\ \A i \in 1..Len(pool) : pool[i] \in S
    BY <1>1, LenProperties, ElementOfSeq
  <1>3. 1 \in 1..(Len(pool) + 1) /\ n \in (1 - 1)..Len(pool) /\ Len(pool) \in n..Len(pool)
    BY <1>2
  <1>4. SubSeq(pool, 1, n) \o SubSeq(pool, n + 1, Len(pool)) = SubSeq(pool, 1, Len(pool))
    BY <1>1, <1>3, ConcatAdjacentSubSeq
  <1>5. SubSeq(pool, 1, n) \in Seq(S) /\ SubSeq(pool, n + 1, Len(pool)) \in Seq(S)
    <2>1. \A i \in 1..n : pool[i] \in S
      BY <1>2
    <2>2. \A i \in (n + 1)..Len(pool) : pool[i] \in S
      BY <1>2
    <2> QED
      BY <1>2, <2>1, <2>2, SubSeqProperties
  <1>6. SubSeq(pool, 1, Len(pool)) = pool
    BY <1>1, SubSeqFull
  <1> DEFINE a == SubSeq(pool, 1, n)
             b == SubSeq(pool, n + 1, Len(pool))
  <1>7. a \in Seq(S) /\ b \in Seq(S) /\ a \o b = pool
    BY <1>4, <1>5, <1>6
  <1>8. (g \o a) \o b = g \o pool
    <2> HIDE DEF a, b
    <2>1. g \in Seq(S) /\ a \in Seq(S) /\ b \in Seq(S)
      BY <1>1, <1>7
    <2>2. \A s, t, u \in Seq(S) : (s \o t) \o u = s \o (t \o u)
      BY ConcatAssociative
    <2>3. (g \o a) \o b = g \o (a \o b)
      BY <2>1, <2>2, Zenon
    <2> QED
      BY <2>3, <1>7
  <1> QED
    BY <1>8 DEF Rest

(* A new state has given out nothing. *)
LEMMA AddKeepsOnce ==
  ASSUME OneInv, RowInv, OnceInv, AddState
  PROVE  OnceInv'
  <1>1. PICK c \in table.cols :
          \/ \E pool \in Pools(c) :
               /\ states' = Append(states, [kind |-> Kind(c), cols |-> Fills(c)])
               /\ pools' = Append(pools, pool) /\ given' = Append(given, <<>>)
          \/ UNCHANGED <<states, pools, position, given>>
    BY AddStep
  <1>2. CASE UNCHANGED <<states, pools, position, given>>
    BY <1>2 DEF OnceInv
  <1>3. CASE ~ UNCHANGED <<states, pools, position, given>>
    <2>1. PICK pool \in Pools(c) :
            /\ states' = Append(states, [kind |-> Kind(c), cols |-> Fills(c)])
            /\ pools' = Append(pools, pool) /\ given' = Append(given, <<>>)
      BY <1>1, <1>3
    <2> DEFINE n == Len(states) + 1
    <2>2. IsSeq(states) /\ IsSeq(pools) /\ IsSeq(given)
      BY SeqOfOwn DEF OneInv, StatesInv, RowInv
    <2>3. /\ DOMAIN states' = DOMAIN states \cup {n}
          /\ \A k \in DOMAIN states : states'[k] = states[k]
          /\ states'[n] = [kind |-> Kind(c), cols |-> Fills(c)]
      BY <2>1, <2>2, AppendAny
    <2>4. /\ \A k \in DOMAIN states : pools'[k] = pools[k] /\ given'[k] = given[k]
          /\ pools'[n] = pool /\ given'[n] = <<>>
      <3>1. Len(pools) = Len(states) /\ Len(given) = Len(states)
        BY DEF RowInv
      <3>2. DOMAIN pools = DOMAIN states /\ DOMAIN given = DOMAIN states
        BY <2>2, <3>1, AppendAny
      <3> QED
        BY <2>1, <2>2, <3>1, <3>2, AppendAny
    <2> HIDE DEF n
    <2>5. Kind(c) = "one" => Distinct(<<>> \o pool)
      <3>1. IsSeq(pool) /\ (Kind(c) = "one" => Distinct(pool))
        BY PoolType DEF OneInv, StatesInv, RowInv
      <3>2. <<>> \o pool = pool
        BY <3>1, ConcatEmptySeq DEF IsSeq
      <3> QED
        BY <3>1, <3>2
    <2> SUFFICES ASSUME NEW k \in DOMAIN states'
                 PROVE  IF states'[k].kind = "one" THEN Distinct(given'[k] \o pools'[k])
                        ELSE given'[k] = <<>>
      BY DEF OnceInv, Distinct
    <2>6. CASE k \in DOMAIN states
      BY <2>3, <2>4, <2>6 DEF OnceInv
    <2>7. CASE k = n
      <3>1. given'[k] = <<>> /\ pools'[k] = pool
        BY <2>4, <2>7, Zenon
      <3>2. states'[k].kind = Kind(c)
        BY <2>3, <2>7
      <3>3. Distinct(<<>> \o pool) => Distinct(given'[k] \o pools'[k])
        BY <3>1, Zenon
      <3> QED
        BY <2>5, <3>1, <3>2, <3>3
    <2> QED
      BY <2>3, <2>6, <2>7
  <1> QED
    BY <1>2, <1>3

(* The tuples given out leave the pool. *)
LEMMA OneKeepsOnce ==
  ASSUME OneInv, RowInv, OnceInv, ProduceOne
  PROVE  OnceInv'
  <1>1. /\ Asked \in Nat \ {0} /\ Current.kind = "one" /\ UNCHANGED states
        /\ next \in 1..Len(states) /\ next \in DOMAIN pools /\ next \in DOMAIN given
        /\ IsSeq(Pool) /\ IsSeq(given[next])
    BY OneStep
  <1>2. CASE Crash
    BY <1>1, <1>2 DEF OnceInv, Crash
  <1>3. CASE ~Crash
    <2>1. /\ Asked <= Len(Pool)
          /\ pools' = [pools EXCEPT ![next] = Rest(Pool, Asked)]
          /\ given' = [given EXCEPT ![next] = given[next] \o SubSeq(Pool, 1, Asked)]
      BY <1>3, OneStep
    <2>2. IsSeq(pools) /\ IsSeq(given) /\ DOMAIN pools = DOMAIN states /\ DOMAIN given = DOMAIN states
      <3>1. IsSeq(states)
        BY SeqOfOwn DEF OneInv, StatesInv
      <3> QED
        BY <3>1, AppendAny DEF RowInv
    <2>3. /\ pools'[next] = Rest(Pool, Asked)
          /\ given'[next] = given[next] \o SubSeq(Pool, 1, Asked)
          /\ \A k \in DOMAIN states : k # next => pools'[k] = pools[k] /\ given'[k] = given[k]
      BY <1>1, <2>1, <2>2, ExceptAny
    <2>4. given'[next] \o pools'[next] = given[next] \o pools[next]
      BY <1>1, <2>1, <2>3, BorderMoves DEF Pool
    <2> SUFFICES ASSUME NEW k \in DOMAIN states
                 PROVE  IF states[k].kind = "one" THEN Distinct(given'[k] \o pools'[k])
                        ELSE given'[k] = <<>>
      BY <1>1 DEF OnceInv, Distinct
    <2>5. CASE k = next
      BY <1>1, <2>4, <2>5 DEF OnceInv, Current
    <2>6. CASE k # next
      BY <2>3, <2>6 DEF OnceInv
    <2> QED
      BY <2>5, <2>6
  <1> QED
    BY <1>2, <1>3

(* The tuples given out and those left in the pool are all different: the  *)
(* inductive form of ReferencedOnce.                                       *)
LEMMA OnceInvariant == Spec => []OnceInv
  <1>1. Init => OnceInv
    BY DEF Init, OnceInv
  <1>2. ASSUME OneInv, RowInv, OnceInv, [Next]_vars PROVE OnceInv'
    <2>1. CASE UNCHANGED <<states, pools, given>>
      BY <1>2, <2>1 DEF OnceInv
    <2> QED
      BY <1>2, <2>1, AddKeepsOnce, OneKeepsOnce
      DEF Next, StatesReady, ProducePlain, ProduceUnique, ProduceMany, ProduceKey, Crash,
          Stored, StoreThrew, NextBatch, genVars, vars
  <1> QED
    BY <1>1, <1>2, OneInvariant, RowsInvariant, PTL DEF Spec

(* No row of the parent is given to two rows of the table by a one-to-one  *)
(* generator, over all batches of a load, rejected rows included.          *)
THEOREM RowsAreReferencedOnce == Spec => []ReferencedOnce
  <1>1. ASSUME OneInv, RowInv, OnceInv PROVE ReferencedOnce
    <2> SUFFICES ASSUME NEW i \in DOMAIN given PROVE Distinct(given[i])
      BY DEF ReferencedOnce
    <2>1. i \in DOMAIN states /\ i \in DOMAIN pools
      <3>1. IsSeq(states) /\ IsSeq(pools) /\ IsSeq(given)
        BY <1>1, SeqOfOwn DEF OneInv, StatesInv, RowInv
      <3> QED
        BY <1>1, <3>1, AppendAny DEF RowInv
    <2>2. CASE states[i].kind = "one"
      BY <1>1, <2>1, <2>2, FrontDistinct DEF OnceInv, RowInv
    <2>3. CASE states[i].kind # "one"
      <3>1. given[i] = <<>>
        BY <1>1, <2>1, <2>3 DEF OnceInv
      <3> QED
        BY <3>1 DEF Distinct
    <2> QED
      BY <2>2, <2>3
  <1> QED
    BY <1>1, OneInvariant, RowsInvariant, OnceInvariant, PTL

-----------------------------------------------------------------------------
(* Tuples of the parent.                                                   *)

(* Whether a state is the only one of its columns depends on the states. *)
LEMMA FilledOnceStays ==
  ASSUME UNCHANGED states, NEW k
  PROVE  /\ FilledOnce(k)' <=> FilledOnce(k)
         /\ IsTuple(k)' <=> IsTuple(k)
  <1>1. IsTuple(k)' <=> IsTuple(k)
    BY DEF IsTuple
  <1>2. ASSUME FilledOnce(k) PROVE FilledOnce(k)'
    BY <1>2 DEF FilledOnce
  <1>3. ASSUME FilledOnce(k)' PROVE FilledOnce(k)
    BY <1>3 DEF FilledOnce
  <1> QED
    BY <1>1, <1>2, <1>3

(* What the parent published stays. *)
LEMMA PublishedStays ==
  ASSUME UNCHANGED run
  PROVE  /\ Published' = Published
         /\ ParentWhole' <=> ParentWhole
         /\ \A cols : Real(cols)' = Real(cols)
  BY DEF Published, ParentWhole, Real

(* What rows put in one of their columns. *)
ValuesOf(rows, cols, c) ==
  [r \in 1..Len(rows) |-> rows[r][CHOOSE j \in DOMAIN cols : cols[j] = c]]

(* Rows of the parent, by column. *)
LEMMA ColumnsOfReal ==
  ASSUME NEW cols, cols # <<>>, NEW rows \in Seq(Real(cols)),
         Len(cols) \in Nat \ {0}, DOMAIN cols = 1..Len(cols)
  PROVE  \E rowOf \in Seq(ToSet(Published.p2)) : \A c \in ToSet(cols) :
           ValuesOf(rows, cols, c) = rowOf
  <1> DEFINE P == ToSet(Published.p2)
             rowOf == [r \in 1..Len(rows) |-> rows[r][1]]
  <1>1. PICK n \in Nat : n = Len(rows)
    BY LenProperties
  <1>2. \A r \in 1..n : rows[r] \in Real(cols)
    BY <1>1, ElementOfSeq
  <1>3. \A r \in 1..n : \E row \in P : rows[r] = [j \in DOMAIN cols |-> row]
    BY <1>2 DEF Real
  <1>4. 1 \in DOMAIN cols
    OBVIOUS
  <1> HIDE DEF P
  <1>5. ASSUME NEW r \in 1..n
        PROVE  rows[r][1] \in P /\ \A j \in DOMAIN cols : rows[r][j] = rows[r][1]
    <2>1. PICK row \in P : rows[r] = [j \in DOMAIN cols |-> row]
      BY <1>3
    <2>2. \A j \in DOMAIN cols : [i \in DOMAIN cols |-> row][j] = row
      OBVIOUS
    <2>3. \A j \in DOMAIN cols : rows[r][j] = row
      BY <2>1, <2>2
    <2> QED
      BY <1>4, <2>3
  <1>6. rowOf \in [1..n -> P]
    BY <1>1, <1>5
  <1>7. rowOf \in Seq(P)
    <2> HIDE DEF rowOf
    <2> QED
      BY <1>6
  <1>8. ASSUME NEW c \in ToSet(cols)
        PROVE  ValuesOf(rows, cols, c) = rowOf
    <2>1. \E j \in DOMAIN cols : cols[j] = c
      BY DEF ToSet
    <2> DEFINE j == CHOOSE j \in DOMAIN cols : cols[j] = c
    <2>2. j \in DOMAIN cols
      BY <2>1
    <2> HIDE DEF j
    <2>3. \A r \in 1..n : rows[r][j] = rows[r][1]
      BY <1>5, <2>2
    <2>4. [r \in 1..Len(rows) |-> rows[r][j]] = rowOf
      BY <1>1, <2>3
    <2> QED
      BY <2>4 DEF j, ValuesOf
  <1> QED
    BY <1>7, <1>8 DEF P

(* A state that is asked leaves the columns of the others alone, and its   *)
(* own carry rows of the parent if it returned such.                       *)
LEMMA PutKeepsTuple ==
  ASSUME OneInv, RowInv, TupleInv, pc = "produce", NEW rows, NEW moved, Put(rows, moved),
         UNCHANGED <<table, run, states>>,
         \A k \in DOMAIN states : ToSet(pools'[k]) \subseteq ToSet(pools[k]),
         ParentWhole /\ IsTuple(next) => rows \in Seq(Real(Current.cols))
  PROVE  TupleInv'
  <1> SUFFICES ASSUME ParentWhole, NEW k \in DOMAIN states, IsTuple(k)
               PROVE  /\ ToSet(pools'[k]) \subseteq Real(states[k].cols)
                      /\ FilledOnce(k) /\ k < next' => Carries(k)'
    <2>1. /\ ParentWhole' <=> ParentWhole
          /\ \A cols : Real(cols)' = Real(cols)
          /\ \A k : (FilledOnce(k)' <=> FilledOnce(k)) /\ (IsTuple(k)' <=> IsTuple(k))
      BY PublishedStays, FilledOnceStays
    <2>2. ToSet(pools[1])' = ToSet(pools'[1])
      BY DEF ToSet
    <2>3. \A k : ToSet(pools[k])' = ToSet(pools'[k])
      BY DEF ToSet
    <2> QED
      BY <2>1, <2>3 DEF TupleInv
  <1>1. ToSet(pools'[k]) \subseteq Real(states[k].cols)
    BY DEF TupleInv
  <1>2. ASSUME FilledOnce(k), k < next' PROVE Carries(k)'
    <2>1. next \in 1..Len(states) /\ next' = next + 1 /\ batch' = With(rows)
          /\ DOMAIN states = 1..Len(states) /\ Len(states) \in Nat
      BY DEF RowInv, Put, OneInv, StatesInv
    <2>2. SUFFICES \E rowOf \in Seq(ToSet(Published.p2)) :
                     \A c \in ToSet(states[k].cols) : c \in DOMAIN batch' /\ batch'[c] = rowOf
      BY PublishedStays DEF Carries
    <2>3. CASE k = next
      <3>1. Current = states[k] /\ rows \in Seq(Real(Current.cols))
        BY <2>3 DEF Current
      <3>2. PICK d \in table.cols : Current.cols = Fills(d)
        BY <3>1, StateType DEF OneInv
      <3>3. Current.cols # <<>> /\ Len(Current.cols) \in Nat \ {0}
            /\ DOMAIN Current.cols = 1..Len(Current.cols)
        BY <3>2, FillsType DEF OneInv, StatesInv
      <3>4. PICK rowOf \in Seq(ToSet(Published.p2)) : \A c \in ToSet(Current.cols) :
              Column(rows, c) = rowOf
        <4>1. \E rowOf \in Seq(ToSet(Published.p2)) : \A c \in ToSet(Current.cols) :
                ValuesOf(rows, Current.cols, c) = rowOf
          BY <3>1, <3>3, ColumnsOfReal
        <4> QED
          BY <4>1 DEF Column, ValuesOf
      <3>5. \A c \in ToSet(Current.cols) : c \in DOMAIN batch' /\ batch'[c] = Column(rows, c)
        BY <2>1 DEF With
      <3> QED
        BY <3>1, <3>4, <3>5
    <2>4. CASE k # next
      <3>1. k < next
        BY <1>2, <2>1, <2>4
      <3>2. PICK rowOf \in Seq(ToSet(Published.p2)) :
              \A c \in ToSet(states[k].cols) : c \in DOMAIN batch /\ batch[c] = rowOf
        BY <1>2, <3>1 DEF TupleInv, Carries
      <3>3. \A c \in ToSet(states[k].cols) : c \notin ToSet(Current.cols)
        BY <1>2, <2>1, <2>4 DEF FilledOnce, Current
      <3>4. \A c \in ToSet(states[k].cols) : c \in DOMAIN batch' /\ batch'[c] = batch[c]
        BY <2>1, <3>2, <3>3 DEF With
      <3> QED
        BY <3>2, <3>4
    <2> QED
      BY <2>3, <2>4
  <1> QED
    BY <1>1, <1>2


(* A new generator draws from rows of the parent. *)
LEMMA AddKeepsTuple ==
  ASSUME OneInv, RowInv, TupleInv, AddState
  PROVE  TupleInv'
  <1>1. UNCHANGED <<table, run>> /\ pc' \notin {"produce", "store"} /\ table \in Tables
        /\ run \in ParentRuns
    BY AddStep DEF OneInv, StatesInv, RowInv
  <1>2. ParentWhole' <=> ParentWhole
    BY <1>1, PublishedStays
  <1>3. \A cols : Real(cols)' = Real(cols)
    BY <1>1, PublishedStays
  <1> SUFFICES ASSUME ParentWhole, NEW k \in DOMAIN states', IsTuple(k)'
               PROVE  ToSet(pools'[k]) \subseteq Real(states'[k].cols)
    <2>1. \A k : ToSet(pools[k])' = ToSet(pools'[k]) /\ states[k].cols' = states'[k].cols
      BY DEF ToSet
    <2>2. \A k : Real(states[k].cols)' = Real(states'[k].cols)
      BY <1>1 DEF Real, Published
    <2> QED
      BY <1>1, <1>2, <2>1, <2>2 DEF TupleInv
  <1>4. states'[k].kind \in {"one", "many"} /\ Len(states'[k].cols) > 1
    BY DEF IsTuple
  <1>5. CASE UNCHANGED <<states, pools>>
    BY <1>4, <1>5 DEF TupleInv, IsTuple
  <1>6. CASE ~UNCHANGED <<states, pools>>
    <2>1. PICK c \in table.cols : \E pool \in Pools(c) :
            /\ states' = Append(states, [kind |-> Kind(c), cols |-> Fills(c)])
            /\ pools' = Append(pools, pool)
      BY <1>6, AddStep
    <2> PICK pool \in Pools(c) :
            /\ states' = Append(states, [kind |-> Kind(c), cols |-> Fills(c)])
            /\ pools' = Append(pools, pool)
      BY <2>1
    <2>2. IsSeq(states) /\ IsSeq(pools) /\ Len(pools) = Len(states)
      BY SeqOfOwn DEF OneInv, StatesInv, RowInv
    <2>3. /\ DOMAIN states' = DOMAIN states \cup {Len(states) + 1}
          /\ \A j \in DOMAIN states : states'[j] = states[j] /\ pools'[j] = pools[j]
          /\ states'[Len(states) + 1] = [kind |-> Kind(c), cols |-> Fills(c)]
          /\ pools'[Len(states) + 1] = pool
      <3>1. DOMAIN states = 1..Len(states) /\ DOMAIN pools = 1..Len(pools)
        BY <2>2, AppendAny
      <3> QED
        BY <2>2, <3>1, AppendAny
    <2>4. CASE k \in DOMAIN states
      BY <1>4, <2>3, <2>4 DEF TupleInv, IsTuple
    <2>5. CASE k = Len(states) + 1
      <3>1. states'[k] = [kind |-> Kind(c), cols |-> Fills(c)] /\ pools'[k] = pool
        BY <2>3, <2>5, Zenon
      <3>2. states'[k].kind = Kind(c) /\ states'[k].cols = Fills(c)
        BY <3>1
      <3> QED
        BY <1>1, <1>4, <3>1, <3>2, PoolType
    <2> QED
      BY <2>3, <2>4, <2>5
  <1> QED
    BY <1>5, <1>6

(* A one-to-many generator of several columns gives out tuples of its pool. *)
LEMMA ManyKeepsTuple ==
  ASSUME OneInv, RowInv, TupleInv, ProduceMany
  PROVE  TupleInv'
  <1>1. /\ Asked \in Nat \ {0} /\ pc = "produce" /\ Current.kind = "many"
        /\ UNCHANGED <<table, run, states, pools>>
    BY ManyStep
  <1>2. PICK rows \in [1..Asked -> Draws(Current.cols, ToSet(Pool))] : Put(rows, 0)
    BY ManyStep
  <1>3. ASSUME ParentWhole, IsTuple(next) PROVE rows \in Seq(Real(Current.cols))
    <2>1. next \in DOMAIN states
      BY <1>1 DEF RowInv, OneInv, StatesInv
    <2>2. Draws(Current.cols, ToSet(Pool)) = ToSet(Pool)
      BY <1>3 DEF Draws, IsTuple, Current
    <2>3. ToSet(Pool) \subseteq Real(Current.cols)
      BY <1>3, <2>1 DEF TupleInv, Pool, Current
    <2>4. rows \in [1..Asked -> Real(Current.cols)]
      BY <2>2, <2>3
    <2> QED
      BY <1>1, <2>4
  <1>4. \A k \in DOMAIN states : ToSet(pools'[k]) \subseteq ToSet(pools[k])
    BY <1>1
  <1> QED
    BY <1>1, <1>2, <1>3, <1>4, PutKeepsTuple

(* A one-to-one generator gives out the first of its pool and keeps the rest. *)
LEMMA OneKeepsTuple ==
  ASSUME OneInv, RowInv, TupleInv, ProduceOne
  PROVE  TupleInv'
  <1>1. /\ Asked \in Nat \ {0} /\ pc = "produce" /\ UNCHANGED <<table, run, states>>
        /\ next \in 1..Len(states) /\ next \in DOMAIN pools /\ IsSeq(Pool)
    BY OneStep
  <1>2. CASE Crash
    <2>1. pc' = "crashed" /\ UNCHANGED <<pools, next, batch>>
      BY <1>2 DEF Crash
    <2>2. \A k : IsTuple(k)' <=> IsTuple(k)
      BY <1>1, FilledOnceStays
    <2>3. \A k : Real(states[k].cols)' = Real(states[k].cols)
      BY <1>1 DEF Real, Published
    <2>4. \A k : ToSet(pools[k])' = ToSet(pools[k])
      BY <2>1 DEF ToSet
    <2> QED
      BY <1>1, <2>1, <2>2, <2>3, <2>4, PublishedStays DEF TupleInv
  <1>3. CASE ~Crash
    <2>1. /\ Asked <= Len(Pool)
          /\ Put(SubSeq(Pool, 1, Asked), 0)
          /\ pools' = [pools EXCEPT ![next] = Rest(Pool, Asked)]
      BY <1>3, OneStep
    <2>2. IsSeq(pools)
      BY DEF RowInv
    <2>3. /\ SubSeq(Pool, 1, Asked) \in Seq(ToSet(Pool))
          /\ Rest(Pool, Asked) \in Seq(ToSet(Pool))
      BY <1>1, <2>1, SubSeqProperties DEF Rest, IsSeq
    <2>4. ASSUME NEW k \in DOMAIN states PROVE ToSet(pools'[k]) \subseteq ToSet(pools[k])
      <3>1. k \in DOMAIN pools
        <4>1. IsSeq(states) /\ Len(pools) = Len(states)
          BY SeqOfOwn DEF OneInv, StatesInv, RowInv
        <4> QED
          BY <2>2, <4>1, AppendAny
      <3>2. CASE k = next
        <4>1. pools'[k] = Rest(Pool, Asked) /\ pools[k] = Pool
          BY <1>1, <2>1, <2>2, <3>2, ExceptAny DEF Pool
        <4> QED
          BY <2>3, <4>1, SeqOfOwn
      <3>3. CASE k # next
        BY <1>1, <2>1, <2>2, <3>1, <3>3, ExceptAny
      <3> QED
        BY <3>2, <3>3
    <2>5. ASSUME ParentWhole, IsTuple(next)
          PROVE  SubSeq(Pool, 1, Asked) \in Seq(Real(Current.cols))
      <3>1. next \in DOMAIN states
        BY <1>1 DEF OneInv, StatesInv
      <3>2. ToSet(Pool) \subseteq Real(Current.cols)
        BY <2>5, <3>1 DEF TupleInv, Pool, Current
      <3> QED
        BY <2>3, <3>2
    <2> QED
      BY <1>1, <2>1, <2>4, <2>5, PutKeepsTuple
  <1> QED
    BY <1>2, <1>3

(* The other generators fill no tuple, and a batch that ends leaves none    *)
(* of its own.                                                             *)
LEMMA StepKeepsTuple ==
  ASSUME OneInv, RowInv, MadeInv, TupleInv, [Next]_vars
  PROVE  TupleInv'
  <1>1. ASSUME NEW rows, NEW moved, Put(rows, moved), Asking({"plain", "unique", "markov"}),
               UNCHANGED <<table, run, states, pools>>
        PROVE  TupleInv'
    <2>1. pc = "produce" /\ ~IsTuple(next)
      BY <1>1 DEF Asking, IsTuple, Current
    <2>2. \A k \in DOMAIN states : ToSet(pools'[k]) \subseteq ToSet(pools[k])
      BY <1>1
    <2> QED
      BY <1>1, <2>1, <2>2, PutKeepsTuple
  <1>2. ASSUME UNCHANGED <<run, states, pools>>,
               \/ pc' \notin {"produce", "store"}
               \/ next' = 1
               \/ UNCHANGED <<pc, next, batch>>
        PROVE  TupleInv'
    <2>1. \A k : (IsTuple(k)' <=> IsTuple(k)) /\ (FilledOnce(k)' <=> FilledOnce(k))
      BY <1>2, FilledOnceStays
    <2>2. \A k : /\ Real(states[k].cols)' = Real(states[k].cols)
                 /\ ToSet(pools[k])' = ToSet(pools[k])
      BY <1>2 DEF Real, Published, ToSet
    <2>3. ASSUME UNCHANGED batch, NEW k PROVE Carries(k)' <=> Carries(k)
      BY <1>2, <2>3 DEF Carries, Published, ToSet
    <2>4. \A k \in DOMAIN states : ~ (k < 1)
      BY DEF OneInv, StatesInv
    <2>5. ParentWhole' <=> ParentWhole
      BY <1>2, PublishedStays
    <2> QED
      BY <1>2, <2>1, <2>2, <2>3, <2>4, <2>5 DEF TupleInv
  <1>3. CASE AddState
    BY <1>3, AddKeepsTuple
  <1>4. CASE StatesReady
    <2>1. next' = 1
      BY <1>4 DEF StatesReady, genVars, RowInv
    <2> QED
      BY <1>2, <1>4, <2>1 DEF StatesReady, genVars
  <1>5. CASE ProducePlain
    BY <1>1, <1>5 DEF ProducePlain, Asking
  <1>6. CASE ProduceUnique
    <2>1. /\ \/ Crash
             \/ \E rows : Put(rows, Len(rows)) /\ UNCHANGED pools
          /\ pc = "produce" /\ Current.kind = "unique"
          /\ UNCHANGED <<table, run, states>>
      BY <1>6, UniqueStep
    <2> QED
      BY <1>1, <1>2, <2>1 DEF Asking, Crash
  <1>7. CASE ProduceMany
    BY <1>7, ManyKeepsTuple
  <1>8. CASE ProduceOne
    BY <1>8, OneKeepsTuple
  <1>9. CASE ProduceKey
    <2>1. /\ \/ Crash
             \/ \E rows : Put(rows, Len(rows)) /\ UNCHANGED pools
          /\ pc = "produce" /\ Current.kind = "markov"
          /\ UNCHANGED <<table, run, states>>
      BY <1>9, KeyStep
    <2> QED
      BY <1>1, <1>2, <2>1 DEF Asking, Crash
  <1>10. CASE Stored \/ StoreThrew
    BY <1>2, <1>10 DEF Stored, StoreThrew, NextBatch
  <1>11. CASE UNCHANGED vars
    BY <1>2, <1>11 DEF vars, genVars
  <1> QED
    BY <1>3, <1>4, <1>5, <1>6, <1>7, <1>8, <1>9, <1>10, <1>11 DEF Next

(* Generators of tuples draw from the rows the parent published, and the   *)
(* columns of those asked carry such rows: the inductive form of           *)
(* TuplesAreReal.                                                          *)
LEMMA TupleInvariant == Spec => []TupleInv
  <1>1. Init => TupleInv
    BY DEF Init, TupleInv
  <1> QED
    BY <1>1, StepKeepsTuple, OneInvariant, RowsInvariant, PTL DEF Spec

(* The rows of a batch refer to rows of the parent: the columns of a       *)
(* foreign key carry the values of one parent row, provided the parent was *)
(* published whole and no other state fills one of them.                   *)
THEOREM BatchesReferToRows == Spec => []TuplesAreReal
  <1>1. ASSUME OneInv, RowInv, TupleInv PROVE TuplesAreReal
    <2> SUFFICES ASSUME pc = "store", ParentWhole, NEW i \in DOMAIN states,
                        states[i].kind \in {"one", "many"}, Len(states[i].cols) > 1,
                        FilledOnce(i), NEW r \in 1..Rows
                 PROVE  \E row \in ToSet(Published.p2) :
                          \A c \in ToSet(states[i].cols) : batch[c][r] = row
      BY DEF TuplesAreReal
    <2>1. i < next
      BY <1>1 DEF RowInv, OneInv, StatesInv
    <2>2. PICK rowOf \in Seq(ToSet(Published.p2)) :
            \A c \in ToSet(states[i].cols) : c \in DOMAIN batch /\ batch[c] = rowOf
      BY <1>1, <2>1 DEF TupleInv, IsTuple, Carries
    <2>3. PICK d \in table.cols : states[i].cols = Fills(d)
      BY <1>1, StateType DEF OneInv
    <2>4. d \in ToSet(states[i].cols)
      BY <1>1, <2>3, FillsItself DEF OneInv, StatesInv
    <2>5. Rows \in Nat /\ Rows <= Len(rowOf)
      BY <1>1, <2>2, <2>4, RowsType
    <2>6. rowOf[r] \in ToSet(Published.p2)
      BY <2>5, ElementOfSeq
    <2> QED
      BY <2>2, <2>6
  <1> QED
    BY <1>1, OneInvariant, RowsInvariant, TupleInvariant, PTL

-----------------------------------------------------------------------------
(* Harmless tables do not crash.                                           *)

(* Whether a table is harmless does not change during a load. *)
LEMMA HarmlessStays ==
  ASSUME UNCHANGED <<table, run>>
  PROVE  Harmless' <=> Harmless
  <1>1. \A c : /\ IsForeign(c)' <=> IsForeign(c)
               /\ Relation(c)' = Relation(c)
               /\ Cardinality(ConstraintsOn(c, {"FK"}))' = Cardinality(ConstraintsOn(c, {"FK"}))
    BY DEF IsForeign, Relation, ConstraintsOn, Keys
  <1>2. ASSUME NEW c
        PROVE  Cardinality(ToSet(PublishedFor(c)))' = Cardinality(ToSet(PublishedFor(c)))
    <2>1. References(c)' = References(c)
      BY DEF References, FirstOn, ConstraintsOn
    <2>2. PublishedFor(c)' = PublishedFor(c)
      BY <2>1, PublishedStays DEF PublishedFor
    <2> QED
      BY <2>2 DEF ToSet
  <1>3. ParentWhole' <=> ParentWhole
    BY PublishedStays
  <1>4. Separate' <=> Separate
    BY SeparateStays
  <1> QED
    BY <1>1, <1>2, <1>3, <1>4 DEF Harmless

(* The parent of a harmless table has rows, enough of them if each may     *)
(* only be referenced once.                                                *)
LEMMA HarmlessColumn ==
  ASSUME table \in Tables, run \in ParentRuns, Harmless, NEW c \in table.cols, IsForeign(c)
  PROVE  /\ Relation(c) # "unknown" /\ PublishedFor(c) = Published.p2 /\ Published.p2 # <<>>
         /\ Relation(c) = "ONE_TO_ONE" =>
              /\ table.nulls = 0 /\ table.common[c] = {}
              /\ Cardinality(ToSet(Published.p2)) >= table.count
  <1>1. PublishedFor(c) = Published.p2 /\ Published.p2 # <<>>
    BY PublishedForType, PublishedType DEF Harmless
  <1>2. Relation(c) # "unknown"
    BY DEF Harmless, Relation
  <1> QED
    BY <1>1, <1>2 DEF Harmless

(* The rows of a parent are as many as the tuples of a foreign key. *)
LEMMA RealCardinality ==
  ASSUME NEW cols, 1 \in DOMAIN cols, IsFiniteSet(Real(cols))
  PROVE  /\ IsFiniteSet(ToSet(Published.p2))
         /\ Cardinality(ToSet(Published.p2)) = Cardinality(Real(cols))
         /\ {t[1] : t \in Real(cols)} = ToSet(Published.p2)
  <1> DEFINE P == ToSet(Published.p2)
             f == [t \in Real(cols) |-> t[1]]
  <1>1. Real(cols) = {[j \in DOMAIN cols |-> row] : row \in P}
    BY DEF Real
  <1> HIDE DEF P
  <1>2. \A t \in Real(cols) : t[1] \in P /\ t = [j \in DOMAIN cols |-> t[1]]
    <2> SUFFICES ASSUME NEW t \in Real(cols)
                 PROVE  t[1] \in P /\ t = [j \in DOMAIN cols |-> t[1]]
      OBVIOUS
    <2>1. PICK row \in P : t = [j \in DOMAIN cols |-> row]
      BY <1>1
    <2>2. t[1] = row
      BY <2>1
    <2> QED
      BY <2>1, <2>2
  <1>3. \A row \in P : \E t \in Real(cols) : t[1] = row
    <2> SUFFICES ASSUME NEW row \in P PROVE \E t \in Real(cols) : t[1] = row
      OBVIOUS
    <2> DEFINE t == [j \in DOMAIN cols |-> row]
    <2>1. t \in Real(cols) /\ t[1] = row
      BY <1>1
    <2> QED
      BY <2>1
  <1>4. f \in Bijection(Real(cols), P)
    <2>1. f \in [Real(cols) -> P]
      BY <1>2
    <2>2. \A s, t \in Real(cols) : f[s] = f[t] => s = t
      BY <1>2, Zenon
    <2>3. \A row \in P : \E t \in Real(cols) : f[t] = row
      BY <1>3
    <2> HIDE DEF f
    <2> QED
      BY <2>1, <2>2, <2>3 DEF Bijection, Injection, Surjection, IsInjective
  <1>5. ExistsBijection(Real(cols), P)
    BY <1>4 DEF ExistsBijection
  <1>6. {t[1] : t \in Real(cols)} = P
    BY <1>2, <1>3
  <1> QED
    BY <1>5, <1>6, FS_Bijection DEF P

(* The pool of a foreign key of a harmless table is that of all rows. *)
LEMMA HarmlessPool ==
  ASSUME table \in Tables, run \in ParentRuns, Harmless,
         NEW cols \in Seq(table.cols), cols # <<>>, \A d \in ToSet(cols) : IsForeign(d)
  PROVE  /\ ForeignPool(cols) = Real(cols) /\ Real(cols) # {} /\ IsFiniteSet(Real(cols))
         /\ Relation(cols[1]) = "ONE_TO_ONE" => Cardinality(Real(cols)) >= table.count
  <1>1. Len(cols) \in Nat \ {0} /\ DOMAIN cols = 1..Len(cols) /\ 1 \in DOMAIN cols
    BY EmptySeq, LenProperties
  <1>2. \A j \in DOMAIN cols : cols[j] \in table.cols /\ IsForeign(cols[j])
    BY ElementAt DEF ToSet
  <1>3. \A j \in DOMAIN cols : PublishedFor(cols[j]) = Published.p2
    BY <1>2, HarmlessColumn
  <1>4. Published.p2 # <<>> /\ Published.p2 \in Seq(Int)
    BY <1>1, <1>2, HarmlessColumn, PublishedType
  <1>5. ToSet(RowTuples(cols)) = Real(cols) /\ IsFiniteSet(Real(cols))
    BY ForeignPoolType DEF Harmless
  <1>6. Real(cols) # {}
    <2> DEFINE P == Published.p2
    <2> HIDE DEF P
    <2>1. 1 \in DOMAIN P
      BY <1>4, EmptySeq, LenProperties DEF P
    <2>2. P[1] \in ToSet(P)
      BY <2>1 DEF ToSet
    <2>3. [j \in DOMAIN cols |-> P[1]] \in Real(cols)
      BY <2>2 DEF Real, P
    <2> QED
      BY <2>3
  <1>7. ~Unpublished(cols)
    BY <1>3, <1>4 DEF Unpublished
  <1>8. ~Ragged(cols)
    <2>1. Len(Published.p2) \in Nat
      BY <1>4, LenProperties
    <2>2. \A j \in DOMAIN cols : Len(PublishedFor(cols[j])) = Len(Published.p2)
      BY <1>3
    <2> QED
      BY <1>1, <2>1, <2>2 DEF Ragged
  <1>9. Relation(cols[1]) # "unknown"
    BY <1>1, <1>2, HarmlessColumn
  <1>10. Cardinality(ToSet(Published.p2)) = Cardinality(Real(cols))
    BY <1>1, <1>5, RealCardinality
  <1>11. ASSUME Relation(cols[1]) = "ONE_TO_ONE"
         PROVE  table.nulls = 0 /\ Cardinality(Real(cols)) >= table.count
    BY <1>1, <1>2, <1>10, <1>11, HarmlessColumn
  <1>12. ASSUME Relation(cols[1]) = "ONE_TO_ONE", NEW nulls, nulls \in {table.nulls, 0}
         PROVE  ~(Cardinality(Real(cols)) < table.count - nulls)
    <2>1. nulls = 0
      BY <1>11, <1>12
    <2>2. Cardinality(Real(cols)) \in Nat /\ table.count \in Nat
      BY <1>5, FS_CardinalityType, TableColumnsAssumption DEF TableColumnsAssumption
    <2> QED
      BY <1>11, <1>12, <2>1, <2>2
  <1>13. ForeignPool(cols) = Real(cols)
    <2> DEFINE nulls == IF Len(cols) = 1 THEN table.nulls ELSE 0
    <2>1. nulls \in {table.nulls, 0}
      OBVIOUS
    <2>2. ~(Relation(cols[1]) = "ONE_TO_ONE" /\ Cardinality(Real(cols)) < table.count - nulls)
      BY <1>12, <2>1
    <2> QED
      BY <1>5, <1>7, <1>8, <1>9, <2>2 DEF ForeignPool
  <1> QED
    BY <1>5, <1>6, <1>11, <1>13

(* A finite set has sequences without repetitions up to its size. *)
LEMMA SequencesExist ==
  ASSUME NEW S, IsFiniteSet(S), NEW n \in Nat, n <= Cardinality(S)
  PROVE  Sequences(S, n) # {}
  <1> DEFINE s == SetToSeq(S)
             t == [i \in 1..n |-> s[i]]
  <1>1. s \in Seq(S) /\ Distinct(s) /\ Len(s) = Cardinality(S) /\ Len(s) \in Nat
    BY Listing
  <1> HIDE DEF s
  <1>2. DOMAIN s = 1..Len(s) /\ \A i \in 1..n : i \in DOMAIN s /\ s[i] \in S
    BY <1>1, LenProperties, ElementAt
  <1>3. t \in [1..n -> S]
    BY <1>2
  <1>4. Distinct(t)
    BY <1>1, <1>2 DEF Distinct
  <1> QED
    BY <1>3, <1>4 DEF Sequences

(* Unique values of a foreign key column can be drawn, without an error. *)
LEMMA HarmlessDraws ==
  ASSUME table \in Tables, run \in ParentRuns, Harmless, NEW c \in table.cols, IsForeign(c)
  PROVE  DistinctDraws(c) # {} /\ ~DrawsMayThrow(c)
  <1> DEFINE cols == <<c>>
             values == {t[1] : t \in ForeignPool(cols)}
             all == values \cup table.common[c] \cup NullDraw
  <1>1. cols \in Seq(table.cols) /\ cols # <<>> /\ ToSet(cols) = {c} /\ cols[1] = c
        /\ 1 \in DOMAIN cols
    <2>1. cols \in Seq(table.cols)
      BY SingleElement
    <2>2. DOMAIN <<c>> = {1} /\ <<c>>[1] = c
      OBVIOUS
    <2> QED
      BY <2>1, <2>2 DEF ToSet
  <1>2. /\ ForeignPool(cols) = Real(cols) /\ Real(cols) # {} /\ IsFiniteSet(Real(cols))
        /\ Relation(c) = "ONE_TO_ONE" => Cardinality(Real(cols)) >= table.count
    <2> HIDE DEF cols
    <2> QED
      BY <1>1, HarmlessPool
  <1>3. /\ IsFiniteSet(values) /\ Cardinality(values) = Cardinality(Real(cols)) /\ values # {}
    <2> HIDE DEF cols
    <2>1. values = ToSet(Published.p2)
      BY <1>1, <1>2, RealCardinality
    <2> QED
      BY <1>1, <1>2, <2>1, RealCardinality
  <1>4. table.count \in Nat \ {0}
    BY TableColumnsAssumption DEF TableColumnsAssumption
  <1>5. CASE Relation(c) = "ONE_TO_ONE"
    <2>1. Sequences(values, table.count) # {}
      <3> HIDE DEF values
      <3>1. Cardinality(values) \in Nat
        BY <1>3, FS_CardinalityType
      <3> QED
        BY <1>2, <1>3, <1>4, <1>5, SequencesExist
    <2>2. Sequences(values, table.count) \subseteq DistinctDraws(c)
      BY <1>3, <1>5 DEF DistinctDraws
    <2>3. Cardinality(ForeignPool(<<c>>)) >= table.count /\ Cardinality(ForeignPool(<<c>>)) \in Nat
      BY <1>2, <1>5, FS_CardinalityType
    <2>4. table.common[c] = {}
      BY <1>5, HarmlessColumn
    <2> QED
      <3>1. DistinctDraws(c) # {}
        <4> HIDE DEF values
        <4> QED
          BY <2>1, <2>2
      <3>2. ~DrawsMayThrow(c)
        BY <1>4, <2>3, <2>4 DEF DrawsMayThrow
      <3> QED
        BY <3>1, <3>2
  <1>6. CASE Relation(c) # "ONE_TO_ONE"
    <2>1. IsFiniteSet(all) /\ all # {}
      <3>1. IsFiniteSet(table.common[c]) /\ IsFiniteSet(NullDraw)
        BY ParentAssumption, FS_EmptySet, FS_Singleton DEF ParentAssumption, NullDraw
      <3> HIDE DEF values
      <3> QED
        BY <1>3, <3>1, FS_Union
    <2> HIDE DEF all
    <2>2. Cardinality(all) \in Nat /\ Cardinality(all) # 0
      BY <2>1, FS_CardinalityType, FS_EmptySet
    <2>3. 1 \in 1..Lesser(table.count, Cardinality(all)) /\ 1 <= Cardinality(all)
      BY <1>4, <2>2 DEF Lesser
    <2>4. Sequences(all, 1) # {}
      BY <2>1, <2>3, SequencesExist
    <2>5. Sequences(all, 1) \subseteq DistinctDraws(c)
      <3>1. DistinctDraws(c) = UNION {Sequences(all, m) : m \in 1..Lesser(table.count, Cardinality(all))}
        BY <1>3, <1>6 DEF DistinctDraws, all
      <3> QED
        BY <2>3, <3>1
    <2> QED
      BY <1>6, <2>4, <2>5 DEF DrawsMayThrow
  <1> QED
    BY <1>5, <1>6

(* Unless constraints overlap, a foreign key whose first column is unique  *)
(* is filled as a unique key: the one-to-one generator of several columns  *)
(* is never made.                                                          *)
LEMMA NoOneToOne ==
  ASSUME table \in Tables, Separate, NEW c \in table.cols
  PROVE  Kind(c) # "one"
  <1> SUFFICES ASSUME Kind(c) = "one" PROVE FALSE
    OBVIOUS
  <1> DEFINE d == Fills(c)[1]
  <1>1. IsForeign(c) /\ ~IsUnique(c) /\ Relation(d) = "ONE_TO_ONE"
    BY DEF Kind
  <1>2. d \in ToSet(Fills(c)) /\ d \in table.cols
    <2>1. d \in ToSet(Fills(c))
      BY FillsType DEF ToSet
    <2> QED
      BY <2>1, FillsOwn
  <1> HIDE DEF d
  <1>3. ConstraintsOn(d, Keys) # {}
    BY <1>1 DEF Relation
  <1>4. Fills(d) = FirstOn(d, Keys).cols
    BY <1>3 DEF Fills, IsUnique, FirstPeers
  <1>5. PICK k \in ConstraintsOn(d, Keys) : FirstOn(d, Keys) = table.constraints[k]
    BY <1>3, FirstOnFound
  <1>6. c \in ToSet(table.constraints[k].cols)
    BY <1>2, <1>4, <1>5, FillsItself DEF Separate
  <1>7. k \in ConstraintsOn(c, Keys)
    BY <1>5, <1>6 DEF ConstraintsOn, Has
  <1> QED
    BY <1>1, <1>7 DEF IsUnique

(* A generator can be made for every column of a harmless table. *)
LEMMA HarmlessPools ==
  ASSUME table \in Tables, run \in ParentRuns, Harmless, NEW c \in table.cols
  PROVE  /\ Pools(c) # {}
         /\ ~(Kind(c) = "unique" /\ IsForeign(c) /\ DrawsMayThrow(c))
  <1>1. CASE Kind(c) \in {"one", "many"}
    <2>1. ForeignPool(Fills(c)) # {}
      BY <1>1, FillsType, ForeignFills, HarmlessPool
    <2>2. SetToSeq(ForeignPool(Fills(c))) \in Pools(c)
      BY <1>1, <2>1 DEF Pools
    <2> QED
      BY <1>1, <2>2
  <1>2. CASE Kind(c) = "unique" /\ IsForeign(c)
    <2>1. PICK s : s \in DistinctDraws(c)
      BY <1>2, HarmlessDraws
    <2>2. [j \in DOMAIN s |-> <<s[j]>>] \in Pools(c)
      BY <1>2, <2>1 DEF Pools
    <2> QED
      BY <1>2, <2>2, HarmlessDraws
  <1>3. CASE Kind(c) \notin {"one", "many"} /\ ~ (Kind(c) = "unique" /\ IsForeign(c))
    BY <1>3 DEF Pools
  <1> QED
    BY <1>1, <1>2, <1>3

(* Every column of a key has something to sample from. *)
LEMMA HarmlessCandidates ==
  ASSUME table \in Tables, run \in ParentRuns, Harmless, NEW c \in table.cols
  PROVE  Candidates(c) # {}
  <1>1. CASE IsForeign(c)
    <2> DEFINE P == Published.p2
    <2>1. PublishedFor(c) = P /\ P # <<>> /\ P \in Seq(Int)
      BY <1>1, HarmlessColumn, PublishedType
    <2> HIDE DEF P
    <2>2. P[1] \in ToSet(P)
      BY <2>1, EmptySeq, LenProperties DEF ToSet
    <2> QED
      BY <1>1, <2>1, <2>2 DEF Candidates
  <1>2. CASE ~IsForeign(c)
    BY <1>2, ParentAssumption DEF ParentAssumption, Candidates
  <1> QED
    BY <1>1, <1>2

(* Every state is ahead of the rows created by those of this batch once it *)
(* was asked.                                                              *)
LEMMA PutKeepsAhead ==
  ASSUME OneInv, RowInv, AheadInv, pc = "produce", NEW rows, NEW moved, Put(rows, moved),
         Len(rows) \in Nat, UNCHANGED <<table, run, states, created>>,
         Current.kind \in {"unique", "markov"} => moved = Len(rows)
  PROVE  AheadInv'
  <1>1. Harmless' <=> Harmless
    BY HarmlessStays
  <1> SUFFICES ASSUME Harmless, ~uneven',
                      NEW k \in DOMAIN states, states[k].kind \in {"unique", "markov"}
               PROVE  position'[k] >= created + (IF k < next' THEN Asked ELSE 0)
    <2>1. pc' \in {"produce", "store"}
      BY DEF Put
    <2>2. Asked' = Asked
      BY DEF Asked
    <2> QED
      BY <1>1, <2>1, <2>2 DEF AheadInv
  <1>2. ~uneven /\ Len(rows) = Asked
    BY DEF Put
  <1>3. Asked \in Nat \ {0} /\ created \in Nat /\ next \in 1..Len(states) /\ next' = next + 1
    BY AskedRows DEF OneInv, StatesInv, RowInv, Put
  <1>4. position \in Seq(Int) /\ DOMAIN position = DOMAIN states /\ DOMAIN states = 1..Len(states)
        /\ Len(states) \in Nat
    BY LenProperties DEF OneInv, StatesInv, RowInv
  <1>5. position[k] \in Int /\ position[k] >= created + (IF k < next THEN Asked ELSE 0)
    BY <1>2, <1>4, ElementAt DEF AheadInv
  <1>6. position' = [position EXCEPT ![next] = position[next] + moved]
    BY DEF Put
  <1>7. CASE k = next
    <2>1. moved = Asked
      BY <1>2, <1>7 DEF Current
    <2>2. position'[k] = position[k] + Asked
      BY <1>4, <1>6, <1>7, <2>1
    <2>3. position[k] >= created
      BY <1>3, <1>5, <1>7
    <2> QED
      BY <1>3, <1>5, <1>7, <2>2, <2>3
  <1>8. CASE k # next
    <2>1. position'[k] = position[k]
      BY <1>4, <1>6, <1>8
    <2>2. k < next' <=> k < next
      BY <1>3, <1>4, <1>8
    <2> QED
      BY <1>5, <2>1, <2>2
  <1> QED
    BY <1>7, <1>8

(* The generators of a harmless table are made, from 0. *)
LEMMA AddKeepsAhead ==
  ASSUME OneInv, RowInv, AheadInv, AddState
  PROVE  AheadInv'
  <1>1. UNCHANGED <<table, run, next, created, uneven>> /\ pc = "states" /\ next = 1
        /\ table \in Tables /\ run \in ParentRuns
    BY AddStep DEF OneInv, StatesInv, RowInv
  <1>2. Harmless' <=> Harmless
    BY <1>1, HarmlessStays
  <1> SUFFICES ASSUME Harmless, ~uneven
               PROVE  /\ pc' = "states" /\ created = 0
                      /\ \A k \in DOMAIN states' : states'[k].kind \in {"unique", "markov"} =>
                           position'[k] >= 0 /\ ~(k < 1)
    <2>1. \A k : position'[k] >= 0 => position'[k] >= 0 + 0
      OBVIOUS
    <2> QED
      BY <1>1, <1>2, <2>1 DEF AheadInv
  <1>3. PICK c \in table.cols : \E pool \in Pools(c) :
          /\ states' = Append(states, [kind |-> Kind(c), cols |-> Fills(c)])
          /\ position' = Append(position, 0)
          /\ pc' = "states"
    BY <1>1, AddStep, HarmlessPools
  <1>4. created = 0
    BY <1>1 DEF AheadInv
  <1>5. IsSeq(states) /\ IsSeq(position) /\ Len(position) = Len(states)
    BY SeqOfOwn DEF OneInv, StatesInv, RowInv
  <1>6. /\ DOMAIN states = 1..Len(states) /\ DOMAIN position = DOMAIN states /\ Len(states) \in Nat
        /\ DOMAIN states' = DOMAIN states \cup {Len(states) + 1}
        /\ \A j \in DOMAIN states : states'[j] = states[j] /\ position'[j] = position[j]
        /\ position'[Len(states) + 1] = 0
    <2>1. /\ DOMAIN states = 1..Len(states) /\ DOMAIN position = 1..Len(position)
          /\ Len(states) \in Nat
      BY <1>5, AppendAny
    <2> QED
      BY <1>3, <1>5, <2>1, AppendAny
  <1>7. ASSUME NEW k \in DOMAIN states', states'[k].kind \in {"unique", "markov"}
        PROVE  position'[k] >= 0 /\ ~(k < 1)
    <2>1. CASE k \in DOMAIN states
      <3>1. position[k] >= created + (IF k < next THEN Asked ELSE 0)
        BY <1>1, <1>6, <1>7, <2>1 DEF AheadInv
      <3>2. ~(k < 1) /\ position[k] >= created + 0
        BY <1>1, <1>6, <2>1, <3>1
      <3> QED
        BY <1>4, <1>6, <2>1, <3>2
    <2>2. CASE k = Len(states) + 1
      BY <1>6, <2>2
    <2> QED
      BY <1>6, <1>7, <2>1, <2>2
  <1> QED
    BY <1>3, <1>4, <1>7

(* The end of a batch takes back what was not stored. *)
LEMMA BatchEndKeepsAhead ==
  ASSUME OneInv, RowInv, AheadInv, Stored \/ StoreThrew
  PROVE  AheadInv'
  <1>1. UNCHANGED <<table, run, states, uneven>> /\ pc = "store" /\ next' = 1
        /\ pc' \notin {"states", "crashed"}
    BY DEF Stored, StoreThrew, NextBatch
  <1>2. Harmless' <=> Harmless
    BY <1>1, HarmlessStays
  <1> SUFFICES ASSUME Harmless, ~uneven,
                      NEW k \in DOMAIN states, states[k].kind \in {"unique", "markov"}
               PROVE  position'[k] >= created' + 0 /\ ~(k < 1)
    BY <1>1, <1>2 DEF AheadInv
  <1>3. Asked \in Nat \ {0} /\ created \in Nat /\ next = Len(states) + 1
    BY <1>1, AskedRows DEF OneInv, StatesInv, RowInv
  <1>4. position \in Seq(Int) /\ DOMAIN position = DOMAIN states /\ DOMAIN states = 1..Len(states)
        /\ Len(states) \in Nat
    BY LenProperties DEF OneInv, StatesInv, RowInv
  <1>5. position[k] \in Int /\ position[k] >= created + Asked /\ k >= 1
    <2>1. k < next
      BY <1>3, <1>4
    <2> QED
      BY <1>1, <1>4, <2>1, ElementAt DEF AheadInv
  <1>6. CASE Stored
    <2>1. Rows \in Nat
      BY <1>1, RowsType
    <2>2. PICK stored \in 0..Rows : created' = created + stored /\ position' = Unadded(stored)
      BY <1>6 DEF Stored
    <2>3. position'[k] = position[k] - (Asked - stored)
      BY <1>4, <2>2 DEF Unadded
    <2> QED
      BY <1>3, <1>5, <2>1, <2>2, <2>3
  <1>7. CASE StoreThrew
    BY <1>3, <1>4, <1>5, <1>7 DEF StoreThrew
  <1> QED
    BY <1>6, <1>7

(* A key generator of a harmless table does not throw. *)
LEMMA KeyKeepsAhead ==
  ASSUME OneInv, RowInv, MadeInv, AheadInv, ProduceKey
  PROVE  AheadInv'
  <1>1. /\ Asked \in Nat \ {0} /\ pc = "produce" /\ Current.kind = "markov"
        /\ UNCHANGED <<table, run, states, created>>
        /\ next \in 1..Len(states) /\ next \in DOMAIN position /\ position[next] \in Int
    BY KeyStep
  <1>2. CASE \E rows : Put(rows, Len(rows)) /\ Len(rows) \in Nat
    BY <1>1, <1>2, PutKeepsAhead
  <1>3. CASE Crash /\ ~(Harmless /\ ~uneven)
    BY <1>1, <1>3, HarmlessStays DEF AheadInv, Crash
  <1>4. ASSUME Harmless, ~uneven
        PROVE  /\ ~ \E d \in Due(Current.cols, position[next], Asked) : d[2] < 0
               /\ ~ \E j \in DOMAIN Current.cols : Candidates(Current.cols[j]) = {}
    <2>1. next \in DOMAIN states /\ table \in Tables /\ run \in ParentRuns /\ created \in Nat
      BY <1>1 DEF OneInv, StatesInv, RowInv
    <2>2. position[next] >= 0
      <3>1. position[next] >= created + (IF next < next THEN Asked ELSE 0)
        BY <1>1, <1>4, <2>1 DEF AheadInv, Current
      <3> QED
        BY <1>1, <2>1, <3>1
    <2>3. PICK e \in table.cols : Current.cols = Fills(e)
      BY <2>1, MadeFor DEF Current
    <2>4. ToSet(Current.cols) \subseteq table.cols
      BY <2>1, <2>3, FillsOwn
    <2>5. ASSUME NEW d \in Due(Current.cols, position[next], Asked) PROVE ~(d[2] < 0)
      <3>1. PICK c \in ToSet(Current.cols) :
              d \in {<<c, m>> : m \in Window(c, position[next], Asked)}
        BY <2>5 DEF Due
      <3>2. PICK m \in Window(c, position[next], Asked) : d = <<c, m>>
        BY <3>1
      <3>3. Len(table.needed[c]) \in Nat
        BY <2>1, <2>4, <3>1, ColumnNeeds
      <3>4. m \in Int /\ m >= Share(Len(table.needed[c]), position[next])
            /\ Share(Len(table.needed[c]), position[next]) \in Int
        <4>1. Share(Len(table.needed[c]), position[next]) \in Int
          BY <1>1, <2>1, <3>3, ShareType
        <4> QED
          BY <3>2, <4>1 DEF Window
      <3>5. Share(Len(table.needed[c]), position[next]) >= 0
        BY <1>1, <2>1, <2>2, <3>3, ShareType
      <3>6. d[2] = m
        BY <3>2
      <3> QED
        BY <3>4, <3>5, <3>6
    <2>6. ASSUME NEW j \in DOMAIN Current.cols PROVE Candidates(Current.cols[j]) # {}
      <3>1. Current.cols[j] \in table.cols
        BY <2>4 DEF ToSet
      <3> QED
        BY <1>4, <2>1, <3>1, HarmlessCandidates
    <2> QED
      BY <2>5, <2>6
  <1> QED
    BY <1>2, <1>3, <1>4, KeyStep

LEMMA StepKeepsAhead ==
  ASSUME OneInv, RowInv, MadeInv, AheadInv, [Next]_vars
  PROVE  AheadInv'
  <1>1. CASE AddState
    BY <1>1, AddKeepsAhead
  <1>2. CASE StatesReady
    <2>1. UNCHANGED <<table, run, states, position, next, created, uneven>>
          /\ pc = "states" /\ pc' = "produce"
      BY <1>2 DEF StatesReady, genVars
    <2>2. Harmless' <=> Harmless
      BY <2>1, HarmlessStays
    <2>3. Asked' = Asked
      BY <2>1 DEF Asked
    <2> QED
      BY <2>1, <2>2, <2>3 DEF AheadInv
  <1>3. CASE ProducePlain
    <2>1. /\ Put([r \in 1..Asked |-> <<CHOOSE v \in Fresh : TRUE>>], Asked)
          /\ UNCHANGED <<table, run, states, created>>
          /\ pc = "produce" /\ Current.kind = "plain"
      BY <1>3 DEF ProducePlain, Asking
    <2>2. Len([r \in 1..Asked |-> <<CHOOSE v \in Fresh : TRUE>>]) \in Nat
      <3>1. Asked \in Nat
        BY <2>1, AskedRows DEF OneInv, StatesInv
      <3> DEFINE v == <<CHOOSE v \in Fresh : TRUE>>
      <3>2. [r \in 1..Asked |-> v] \in [1..Asked -> {v}]
        OBVIOUS
      <3> QED
        BY <3>1, <3>2, LenOfFunction
    <2> QED
      BY <2>1, <2>2, PutKeepsAhead
  <1>4. CASE ProduceUnique
    <2>1. /\ pc = "produce" /\ Current.kind = "unique"
          /\ UNCHANGED <<table, run, states, created>>
          /\ \/ Crash /\ position[next] < 0
             \/ \E rows : Put(rows, Len(rows)) /\ Len(rows) \in Nat
      BY <1>4, UniqueStep
    <2>2. CASE \E rows : Put(rows, Len(rows)) /\ Len(rows) \in Nat
      BY <2>1, <2>2, PutKeepsAhead
    <2>3. CASE Crash /\ ~(Harmless /\ ~uneven)
      BY <2>1, <2>3, HarmlessStays DEF AheadInv, Crash
    <2>4. ASSUME Harmless, ~uneven PROVE ~(position[next] < 0)
      <3>1. position[next] >= created + (IF next < next THEN Asked ELSE 0)
            /\ next \in 1..Len(states) /\ created \in Nat
        BY <2>1, <2>4 DEF AheadInv, Current, OneInv, StatesInv, RowInv
      <3>2. position[next] \in Int
        BY <1>4, UniqueStep
      <3> QED
        BY <3>1, <3>2
    <2> QED
      BY <2>1, <2>2, <2>3, <2>4
  <1>5. CASE ProduceMany
    BY <1>5, ManyStep, PutKeepsAhead
  <1>6. CASE ProduceOne
    <2>1. /\ pc = "produce" /\ Current.kind = "one" /\ UNCHANGED <<table, run, states, created>>
          /\ next \in DOMAIN states /\ table \in Tables
      BY <1>6, OneStep DEF OneInv, StatesInv
    <2>2. ~Separate
      BY <2>1, MadeFor, NoOneToOne DEF Current
    <2> QED
      BY <2>1, <2>2, HarmlessStays DEF AheadInv, Harmless
  <1>7. CASE ProduceKey
    BY <1>7, KeyKeepsAhead
  <1>8. CASE Stored \/ StoreThrew
    BY <1>8, BatchEndKeepsAhead
  <1>9. CASE UNCHANGED vars
    <2>1. UNCHANGED <<table, run, pc, states, position, next, created, uneven>>
      BY <1>9 DEF vars, genVars
    <2>2. Harmless' <=> Harmless
      BY <2>1, HarmlessStays
    <2>3. Asked' = Asked
      BY <2>1 DEF Asked
    <2> QED
      BY <2>1, <2>2, <2>3 DEF AheadInv
  <1> QED
    BY <1>1, <1>2, <1>3, <1>4, <1>5, <1>6, <1>7, <1>8, <1>9 DEF Next

(* The counts of the generators that go through a list never fall behind   *)
(* the rows created: the inductive form of HarmlessLoads.                  *)
LEMMA AheadInvariant == Spec => []AheadInv
  <1>1. Init => AheadInv
    BY DEF Init, AheadInv
  <1> QED
    BY <1>1, StepKeepsAhead, OneInvariant, RowsInvariant, PTL DEF Spec

(* A load crashes only for a table whose constraints overlap, a column of  *)
(* several references, a one-to-one foreign key that may be NULL, has      *)
(* common values or lacks rows, an incomplete parent, or after a generator *)
(* gave another number of rows than it was asked for.                      *)
THEOREM HarmlessTablesLoad == Spec => []HarmlessLoads
  <1>1. AheadInv => HarmlessLoads
    BY DEF AheadInv, HarmlessLoads
  <1> QED
    BY <1>1, AheadInvariant, PTL

=============================================================================
