-------------------------- MODULE CopyStore_proofs --------------------------
(***************************************************************************)
(* Proofs about CopyStore, for batches of any size, any number of threads  *)
(* and any number of faults: what storeTable reports is what happened.     *)
(***************************************************************************)
EXTENDS CopyStore, FiniteSetTheorems, SequenceTheorems, TLAPS

Injective(s) == \A i, j \in DOMAIN s : s[i] = s[j] => i = j

Increasing(s) == \A i, j \in DOMAIN s : i < j => s[i] < s[j]

-----------------------------------------------------------------------------
(* Sequences.                                                              *)

(* A set of positions that is not empty has a first.                       *)
LEMMA LeastPosition ==
  ASSUME NEW S, S \subseteq Nat, S # {}
  PROVE  \E i \in S : \A j \in S : i <= j
  <1>1. PICK i \in S : \A j \in S : ~ (<<j, i>> \in OpToRel(<, Nat))
    BY NatLessThanWellFounded, WFMin
  <1>2. \A j \in S : i \in Nat /\ j \in Nat /\ ~ (j < i)
    BY <1>1 DEF OpToRel
  <1> QED
    BY <1>2

(* Where the others are after a row is removed from a list.                *)
LEMMA RemovalPositions ==
  ASSUME NEW S, NEW s \in Seq(S), NEW i \in DOMAIN s
  PROVE  /\ RemoveAt(s, i) \in Seq(S)
         /\ Len(RemoveAt(s, i)) = Len(s) - 1
         /\ DOMAIN RemoveAt(s, i) = 1..(Len(s) - 1)
         /\ \A k \in 1..(Len(s) - 1) :
              RemoveAt(s, i)[k] = IF k < i THEN s[k] ELSE s[k + 1]
  <1> DEFINE t == RemoveAt(s, i)
             n == Len(s)
  <1>1. /\ n \in Nat /\ i \in 1..n /\ DOMAIN s = 1..n
        /\ \A k \in 1..n : s[k] \in S
    OBVIOUS
  <1>2. /\ t \in Seq(S) /\ Len(t) = n - 1
        /\ \A k \in 1..(n - 1) : t[k] = IF k < i THEN s[k] ELSE s[k + 1]
    <2> DEFINE a == SubSeq(s, 1, i - 1)
               b == SubSeq(s, i + 1, n)
    <2>1. /\ a \in Seq(S) /\ Len(a) = i - 1
          /\ \A k \in 1..(i - 1) : a[k] = s[k]
      <3>1. 1 \in Int /\ i - 1 \in Int /\ \A k \in 1..(i - 1) : s[k] \in S
        BY <1>1
      <3> QED
        BY <1>1, <3>1, SubSeqProperties
    <2>2. /\ b \in Seq(S) /\ Len(b) = n - i
          /\ \A k \in 1..(n - i) : b[k] = s[i + 1 + k - 1]
      <3>1. i + 1 \in Int /\ n \in Int /\ \A k \in (i + 1)..n : s[k] \in S
        BY <1>1
      <3>2. n - (i + 1) + 1 = n - i
        BY <1>1
      <3>3. /\ b \in Seq(S)
            /\ Len(b) = IF i + 1 <= n THEN n - (i + 1) + 1 ELSE 0
            /\ \A k \in 1..(n - (i + 1) + 1) : b[k] = s[i + 1 + k - 1]
        BY <3>1, SubSeqProperties
      <3>4. Len(b) = n - i
        BY <1>1, <3>3
      <3> QED
        BY <3>2, <3>3, <3>4
    <2>3. t = a \o b
      BY DEF RemoveAt
    <2> HIDE DEF a, b, t
    <2>4. /\ a \o b \in Seq(S) /\ Len(a \o b) = Len(a) + Len(b)
          /\ \A k \in 1..(Len(a) + Len(b)) :
               (a \o b)[k] = IF k <= Len(a) THEN a[k] ELSE b[k - Len(a)]
      BY <2>1, <2>2
    <2>5. ASSUME NEW k \in 1..(n - 1)
          PROVE  t[k] = IF k < i THEN s[k] ELSE s[k + 1]
      <3>1. k <= Len(a) <=> k < i
        BY <1>1, <2>1
      <3>2. t[k] = IF k <= Len(a) THEN a[k] ELSE b[k - Len(a)]
        <4>1. k \in 1..(Len(a) + Len(b))
          BY <1>1, <2>1, <2>2
        <4> QED
          BY <2>3, <2>4, <4>1
      <3>3. k < i => a[k] = s[k]
        BY <1>1, <2>1
      <3>4. ~ (k < i) => b[k - Len(a)] = s[k + 1]
        <4> SUFFICES ASSUME ~ (k < i) PROVE b[k - Len(a)] = s[k + 1]
          OBVIOUS
        <4>1. PICK m : m = k - Len(a)
          OBVIOUS
        <4>2. m \in 1..(n - i) /\ i + 1 + m - 1 = k + 1
          BY <1>1, <2>1, <4>1
        <4> QED
          BY <2>2, <4>1, <4>2
      <3> QED
        BY <3>1, <3>2, <3>3, <3>4
    <2> QED
      BY <1>1, <2>1, <2>2, <2>3, <2>4, <2>5
  <1> HIDE DEF t
  <1>3. DOMAIN t = 1..(n - 1)
    BY <1>1, <1>2
  <1> QED
    BY <1>2, <1>3 DEF t

(* A row removed from a list without duplicates is gone, and only it.      *)
LEMMA Removal ==
  ASSUME NEW S, NEW s \in Seq(S), NEW i \in DOMAIN s, Injective(s)
  PROVE  /\ RemoveAt(s, i) \in Seq(S)
         /\ Len(RemoveAt(s, i)) = Len(s) - 1
         /\ Injective(RemoveAt(s, i))
         /\ ToSet(RemoveAt(s, i)) = ToSet(s) \ {s[i]}
  <1> DEFINE t == RemoveAt(s, i)
             n == Len(s)
  <1>1. /\ n \in Nat /\ i \in 1..n /\ DOMAIN s = 1..n
        /\ \A k \in 1..n : s[k] \in S
    OBVIOUS
  <1>2. /\ t \in Seq(S) /\ Len(t) = n - 1
        /\ \A k \in 1..(n - 1) : t[k] = IF k < i THEN s[k] ELSE s[k + 1]
    BY RemovalPositions
  <1> HIDE DEF t
  <1>3. DOMAIN t = 1..(n - 1)
    BY <1>1, <1>2
  <1>4. Injective(t)
    <2> SUFFICES ASSUME NEW j \in 1..(n - 1), NEW k \in 1..(n - 1), t[j] = t[k]
                 PROVE  j = k
      BY <1>3 DEF Injective
    <2> DEFINE a == IF j < i THEN j ELSE j + 1
               b == IF k < i THEN k ELSE k + 1
    <2>1. a \in 1..n /\ b \in 1..n /\ s[a] = s[b]
      BY <1>1, <1>2
    <2>2. a = b
      BY <1>1, <2>1 DEF Injective
    <2> QED
      BY <1>1, <2>2
  <1>5. ToSet(t) = ToSet(s) \ {s[i]}
    <2>1. ASSUME NEW k \in 1..(n - 1)
          PROVE  t[k] \in ToSet(s) \ {s[i]}
      <3> DEFINE a == IF k < i THEN k ELSE k + 1
      <3>1. a \in 1..n /\ a # i /\ t[k] = s[a]
        BY <1>1, <1>2
      <3> QED
        BY <1>1, <3>1 DEF Injective, ToSet
    <2>2. ASSUME NEW k \in 1..n, s[k] # s[i]
          PROVE  s[k] \in ToSet(t)
      <3> DEFINE a == IF k < i THEN k ELSE k - 1
      <3>1. k # i
        BY <2>2
      <3>2. a \in 1..(n - 1) /\ t[a] = s[k]
        BY <1>1, <1>2, <3>1
      <3> QED
        BY <1>3, <3>2 DEF ToSet
    <2> QED
      BY <1>1, <1>3, <2>1, <2>2 DEF ToSet
  <1> QED
    BY <1>2, <1>4, <1>5 DEF t

(* Those that stay keep their order.                                       *)
LEMMA RemovalKeepsOrder ==
  ASSUME NEW S, NEW s \in Seq(S), NEW i \in DOMAIN s, Increasing(s)
  PROVE  Increasing(RemoveAt(s, i))
  <1> DEFINE t == RemoveAt(s, i)
             n == Len(s)
  <1>1. n \in Nat /\ i \in 1..n /\ DOMAIN s = 1..n
    OBVIOUS
  <1>2. /\ DOMAIN t = 1..(n - 1)
        /\ \A k \in 1..(n - 1) : t[k] = IF k < i THEN s[k] ELSE s[k + 1]
    BY RemovalPositions
  <1> HIDE DEF t
  <1> SUFFICES ASSUME NEW j \in 1..(n - 1), NEW k \in 1..(n - 1), j < k
               PROVE  t[j] < t[k]
    BY <1>2 DEF Increasing, t
  <1> DEFINE a == IF j < i THEN j ELSE j + 1
             b == IF k < i THEN k ELSE k + 1
  <1>3. a \in 1..n /\ b \in 1..n /\ a < b
    BY <1>1
  <1>4. t[j] = s[a] /\ t[k] = s[b]
    BY <1>2
  <1> QED
    BY <1>1, <1>3, <1>4 DEF Increasing

(* A list without duplicates has as many rows as elements.                 *)
LEMMA CountOfList ==
  ASSUME NEW S, NEW s \in Seq(S), Injective(s)
  PROVE  IsFiniteSet(ToSet(s)) /\ Cardinality(ToSet(s)) = Len(s)
  <1>1. Len(s) \in Nat /\ DOMAIN s = 1..Len(s)
    OBVIOUS
  <1>2. s \in Bijection(1..Len(s), ToSet(s))
    BY <1>1 DEF Bijection, Injection, Surjection, IsInjective, Injective, ToSet
  <1>3. ExistsBijection(1..Len(s), ToSet(s))
    BY <1>2 DEF ExistsBijection
  <1> QED
    BY <1>1, <1>3, FS_CountingElements, FS_NatBijection

-----------------------------------------------------------------------------
(* The chunks of a batch.                                                  *)

(* What integer division leaves.                                           *)
LEMMA QuotientBounds ==
  ASSUME NEW x \in Nat, NEW d \in Nat \ {0}
  PROVE  /\ x \div d \in Nat
         /\ d * (x \div d) <= x
         /\ x < d * (x \div d) + d
  OBVIOUS

(* The rows of a chunk: start .. start + SubBatchSize - 1.                 *)
Rows(c) == {r \in Batch : SubBatchSize * (c - 1) <= r
                          /\ r < SubBatchSize * (c - 1) + SubBatchSize}

ChunkCount == IF size = 0 THEN 0 ELSE (size + SubBatchSize - 1) \div SubBatchSize

(* A batch with rows is cut into chunks that have rows.                    *)
LEMMA ChunkSize ==
  ASSUME size \in Nat \ {0}
  PROVE  SubBatchSize \in Nat \ {0}
  <1>1. Parallelism \in Nat \ {0}
    BY CopyStoreAssumption DEF CopyStoreAssumption
  <1> DEFINE q == (size + Parallelism - 1) \div Parallelism
  <1>2. /\ q \in Nat
        /\ size + Parallelism - 1 < Parallelism * q + Parallelism
    BY <1>1, QuotientBounds
  <1>3. q # 0
    <2> SUFFICES ASSUME q = 0 PROVE FALSE
      OBVIOUS
    <2>1. Parallelism * q = 0
      BY <1>1
    <2> QED
      BY <1>1, <1>2, <2>1
  <1> QED
    BY <1>2, <1>3 DEF SubBatchSize

(* Products keep order.                                                    *)
LEMMA ProductOrder ==
  ASSUME NEW d \in Nat \ {0}, NEW a \in Int, NEW b \in Int
  PROVE  /\ d * a \in Int /\ d * b \in Int
         /\ a <= b => d * a <= d * b
         /\ a < b => d * a + d <= d * b
  <1>1. d * (a + 1) = d * a + d
    OBVIOUS
  <1>2. \A x, y \in Int : x <= y => d * x <= d * y
    OBVIOUS
  <1> QED
    BY <1>1, <1>2

(* The bounds that put a chunk number in 1..ChunkCount.                    *)
LEMMA ChunkBounds ==
  ASSUME size \in Nat \ {0}, NEW c \in Nat \ {0}
  PROVE  /\ ChunkCount \in Nat
         /\ c <= ChunkCount <=> SubBatchSize * (c - 1) < size
  <1> DEFINE d == SubBatchSize
             n == ChunkCount
  <1>1. d \in Nat \ {0}
    BY ChunkSize
  <1>2. n = (size + d - 1) \div d
    BY DEF ChunkCount
  <1> HIDE DEF d
  <1>3. n \in Nat /\ d * n <= size + d - 1 /\ size + d - 1 < d * n + d
    BY <1>1, <1>2, QuotientBounds
  <1> HIDE DEF n
  <1>4. d * (c - 1) + d = d * c
    BY <1>1
  <1>5. c <= n => d * c <= d * n
    BY <1>1, <1>3, ProductOrder
  <1>6. n < c => d * n + d <= d * c
    BY <1>1, <1>3, ProductOrder
  <1>7. d * c \in Int /\ d * n \in Int /\ d * (c - 1) \in Int
    BY <1>1, <1>3
  <1>8. c <= n <=> d * (c - 1) < size
    BY <1>1, <1>3, <1>4, <1>5, <1>6, <1>7
  <1> QED
    BY <1>3, <1>8 DEF d, n

(* startIdx and endIdx give a chunk its rows, each once.                   *)
LEMMA SliceRows ==
  ASSUME size \in Nat \ {0}, NEW c \in 1..ChunkCount
  PROVE  /\ Slice(c) \in Seq(Batch)
         /\ Injective(Slice(c)) /\ Increasing(Slice(c))
         /\ ToSet(Slice(c)) = Rows(c)
  <1> DEFINE d == SubBatchSize
             start == d * (c - 1)
             n == IF size - start < d THEN size - start ELSE d
  <1>0. ChunkCount \in Nat
    <2>1. PICK one \in Nat \ {0} : one = 1
      OBVIOUS
    <2> QED
      BY <2>1, ChunkBounds
  <1>1. d \in Nat \ {0} /\ c \in Nat \ {0} /\ start \in Nat /\ start < size
    <2>1. d \in Nat \ {0} /\ c \in Nat \ {0} /\ c <= ChunkCount
      BY <1>0, ChunkSize
    <2>2. start < size
      BY <2>1, ChunkBounds
    <2>3. start \in Nat
      BY <2>1
    <2> QED
      BY <2>1, <2>2, <2>3
  <1>2. Slice(c) = [i \in 1..n |-> start + i - 1]
    <2>1. (c - 1) * d = start
      BY <1>1
    <2> QED
      BY <2>1 DEF Slice
  <1>3. n \in Nat
    BY <1>1
  <1>4. \A i \in 1..n : start + i - 1 \in Batch
    BY <1>1, <1>3 DEF Batch
  <1>5. Rows(c) = {r \in Batch : start <= r /\ r < start + d}
    BY DEF Rows
  <1> HIDE DEF d, start
  <1>6. \A r \in Batch : start <= r /\ r < start + d => r - start + 1 \in 1..n
    BY <1>1 DEF Batch
  <1>7. \A i \in 1..n : start <= start + i - 1 /\ start + i - 1 < start + d
    BY <1>1, <1>3
  <1>11. \A r \in Batch : r \in Int /\ start + (r - start + 1) - 1 = r
    BY <1>1 DEF Batch
  <1>12. \A i, j \in 1..n :
           /\ start + i - 1 = start + j - 1 => i = j
           /\ i < j => start + i - 1 < start + j - 1
    BY <1>1, <1>3
  <1> HIDE DEF n
  <1>8. Slice(c) \in Seq(Batch)
    BY <1>2, <1>3, <1>4
  <1>9. Injective(Slice(c)) /\ Increasing(Slice(c))
    BY <1>2, <1>12 DEF Injective, Increasing
  <1>10. ToSet(Slice(c)) = Rows(c)
    BY <1>2, <1>4, <1>5, <1>6, <1>7, <1>11 DEF ToSet
  <1> QED
    BY <1>8, <1>9, <1>10

(* Every row of the batch is in one chunk.                                 *)
LEMMA RowsPartition ==
  ASSUME size \in Nat
  PROVE  /\ \A r \in Batch : \E c \in 1..ChunkCount : r \in Rows(c)
         /\ \A a, b \in 1..ChunkCount : a # b => Rows(a) \cap Rows(b) = {}
  <1>1. CASE size = 0
    BY <1>1 DEF Batch, ChunkCount
  <1>2. CASE size # 0
    <2> DEFINE d == SubBatchSize
    <2>1. d \in Nat \ {0}
      BY <1>2, ChunkSize
    <2>2. PICK one \in Nat \ {0} : one = 1
      OBVIOUS
    <2>3. ChunkCount \in Nat
      BY <1>2, <2>2, ChunkBounds
    <2>4. ASSUME NEW r \in Batch
          PROVE  \E c \in 1..ChunkCount : r \in Rows(c)
      <3>1. r \in Nat /\ r < size
        BY DEF Batch
      <3> DEFINE q == r \div d
                 c == q + 1
      <3> HIDE DEF d
      <3>2. q \in Nat /\ d * q <= r /\ r < d * q + d
        BY <2>1, <3>1, QuotientBounds
      <3> HIDE DEF q
      <3>3. c \in Nat \ {0} /\ c - 1 = q
        BY <3>2
      <3>4. d * q < size
        BY <2>1, <3>1, <3>2
      <3>5. c <= ChunkCount
        BY <1>2, <3>3, <3>4, ChunkBounds DEF d
      <3>6. r \in Rows(c)
        BY <3>2, <3>3 DEF Rows, d
      <3> QED
        BY <2>3, <3>3, <3>5, <3>6
    <2>5. ASSUME NEW a \in 1..ChunkCount, NEW b \in 1..ChunkCount, a < b
          PROVE  Rows(a) \cap Rows(b) = {}
      <3>1. a \in Int /\ b \in Int /\ a - 1 \in Int /\ b - 1 \in Int /\ a - 1 < b - 1
        BY <2>3, <2>5
      <3> HIDE DEF d
      <3>2. d * (a - 1) + d <= d * (b - 1) /\ d * (a - 1) \in Int /\ d * (b - 1) \in Int
        BY <2>1, <3>1, ProductOrder
      <3>3. \A r \in Batch : ~ (r < d * (a - 1) + d /\ d * (b - 1) <= r)
        BY <2>1, <3>2 DEF Batch
      <3> QED
        BY <3>3 DEF Rows, d
    <2> QED
      BY <2>3, <2>4, <2>5
  <1> QED
    BY <1>1, <1>2

-----------------------------------------------------------------------------
(* The invariant.                                                          *)

Statuses == {"copying", "stored", "thrown"}

(* Each chunk keeps its rows: what remains, in the order of the batch and  *)
(* without duplicates, and what it rejected.                               *)
ChunkInv ==
  /\ size \in Nat /\ ChunkCount \in Nat
  /\ remaining \in Seq(Seq(Batch)) /\ Len(remaining) = ChunkCount
  /\ rejected \in [1..ChunkCount -> SUBSET Batch]
  /\ status \in [1..ChunkCount -> Statuses]
  /\ \A c \in 1..ChunkCount :
       /\ Injective(remaining[c]) /\ Increasing(remaining[c])
       /\ ToSet(remaining[c]) \cap rejected[c] = {}
       /\ ToSet(remaining[c]) \cup rejected[c] = Rows(c)

(* The database has what the stored chunks kept, and nothing else.         *)
CommitInv ==
  \A r : r \in committed <=>
    \E c \in 1..ChunkCount : status[c] = "stored" /\ r \in ToSet(remaining[c])

(* What the caller has counted is what the joined chunks kept, and the     *)
(* threads have ended once it leaves.                                      *)
JoinedRows == UNION {ToSet(remaining[c]) : c \in 1..joined}
CallerInv ==
  /\ pc \in {"join", "close", "returned", "threw"}
  /\ joined \in 0..ChunkCount
  /\ pc \in {"join", "returned"} =>
       /\ \A c \in 1..joined : status[c] = "stored"
       /\ IsFiniteSet(JoinedRows) /\ total = Cardinality(JoinedRows)
       /\ allFailed = UNION {rejected[c] : c \in 1..joined}
  /\ pc = "returned" => joined = ChunkCount
  /\ Ended => ThreadsEnded

(* A rejected row was at fault; the row that has its key is in the         *)
(* database, or stands before it and goes there unless it gives way to     *)
(* another one.  What stands before a row whose lines can be counted has   *)
(* lines that can be counted, so that the other one exists.                *)
Deserved(c, r) ==
  \/ kind[r] = "bad"
  \/ \E s \in committed : key[s] = key[r]
  \/ \E s \in ToSet(remaining[c]) : s < r /\ kind[s] # "bad" /\ key[s] = key[r]
RejectInv ==
  \A c \in 1..ChunkCount : \A r \in rejected[c] : Countable(c, r) => Deserved(c, r)

IInv == ChunkInv /\ CommitInv /\ CallerInv /\ RejectInv

-----------------------------------------------------------------------------

(* What a chunk of the invariant is.                                       *)
LEMMA ChunkFacts ==
  ASSUME ChunkInv
  PROVE  /\ DOMAIN remaining = 1..ChunkCount
         /\ DOMAIN rejected = 1..ChunkCount /\ DOMAIN status = 1..ChunkCount
         /\ \A c \in 1..ChunkCount :
              /\ remaining[c] \in Seq(Batch) /\ Len(remaining[c]) \in Nat
              /\ DOMAIN remaining[c] = 1..Len(remaining[c])
              /\ ToSet(remaining[c]) \subseteq Rows(c) /\ rejected[c] \subseteq Rows(c)
              /\ rejected[c] = Rows(c) \ ToSet(remaining[c])
  <1>1. /\ DOMAIN remaining = 1..ChunkCount
        /\ DOMAIN rejected = 1..ChunkCount /\ DOMAIN status = 1..ChunkCount
    BY DEF ChunkInv
  <1>2. ASSUME NEW c \in 1..ChunkCount
        PROVE  remaining[c] \in Seq(Batch)
    <2>1. c \in 1..Len(remaining)
      BY DEF ChunkInv
    <2>2. remaining \in Seq(Seq(Batch))
      BY DEF ChunkInv
    <2> QED
      BY <2>1, <2>2, ElementOfSeq
  <1>3. ASSUME NEW c \in 1..ChunkCount
        PROVE  /\ Len(remaining[c]) \in Nat
               /\ DOMAIN remaining[c] = 1..Len(remaining[c])
    BY <1>2
  <1>4. ASSUME NEW c \in 1..ChunkCount
        PROVE  /\ ToSet(remaining[c]) \subseteq Rows(c) /\ rejected[c] \subseteq Rows(c)
               /\ rejected[c] = Rows(c) \ ToSet(remaining[c])
    <2>1. /\ ToSet(remaining[c]) \cap rejected[c] = {}
          /\ ToSet(remaining[c]) \cup rejected[c] = Rows(c)
      BY DEF ChunkInv
    <2> QED
      BY <2>1
  <1> QED
    BY <1>1, <1>2, <1>3, <1>4

(* The batch and its chunks stay.                                          *)
LEMMA BatchStays ==
  ASSUME UNCHANGED size
  PROVE  /\ Batch' = Batch /\ ChunkCount' = ChunkCount
         /\ \A c : Rows(c)' = Rows(c)
  BY DEF Batch, ChunkCount, Rows, SubBatchSize

(* So do the lines of its rows.                                            *)
LEMMA LinesStay ==
  ASSUME UNCHANGED batchVars
  PROVE  \A c, r : Countable(c, r)' <=> Countable(c, r)
  <1>1. UNCHANGED <<size, kind, multiline>>
    BY DEF batchVars
  <1>2. \A c : Slice(c)' = Slice(c)
    BY <1>1 DEF Slice, SubBatchSize
  <1> QED
    BY <1>1, <1>2 DEF Countable, ToSet

(* A step of one chunk leaves the others alone, and its rows stay its own. *)
LEMMA RowsApart ==
  ASSUME ChunkInv, NEW a \in 1..ChunkCount, NEW b \in 1..ChunkCount, a # b
  PROVE  ToSet(remaining[a]) \cap Rows(b) = {}
  <1>1. ToSet(remaining[a]) \subseteq Rows(a)
    BY ChunkFacts
  <1>2. Rows(a) \cap Rows(b) = {}
    BY RowsPartition DEF ChunkInv
  <1> QED
    BY <1>1, <1>2

(* A row of a chunk that has not stored is not in the database.            *)
LEMMA NotYetCommitted ==
  ASSUME ChunkInv, CommitInv, NEW c \in 1..ChunkCount, status[c] # "stored",
         NEW r \in Rows(c)
  PROVE  r \notin committed
  <1>1. ASSUME r \in committed PROVE FALSE
    <2>1. PICK d \in 1..ChunkCount : status[d] = "stored" /\ r \in ToSet(remaining[d])
      BY <1>1 DEF CommitInv
    <2>2. d # c
      BY <2>1
    <2> QED
      BY <2>1, <2>2, RowsApart
  <1> QED
    BY <1>1

(* Neither is a rejected one.                                              *)
LEMMA RejectedNotCommitted ==
  ASSUME ChunkInv, CommitInv, NEW c \in 1..ChunkCount, NEW r \in rejected[c]
  PROVE  r \notin committed
  <1>0. r \in Rows(c) /\ r \notin ToSet(remaining[c])
    BY ChunkFacts
  <1>1. ASSUME r \in committed PROVE FALSE
    <2>1. PICK d \in 1..ChunkCount : status[d] = "stored" /\ r \in ToSet(remaining[d])
      BY <1>1 DEF CommitInv
    <2>2. d # c
      BY <1>0, <2>1
    <2> QED
      BY <1>0, <2>1, <2>2, RowsApart
  <1> QED
    BY <1>1

-----------------------------------------------------------------------------
(* Init.                                                                   *)

LEMMA InitEstablishes ==
  ASSUME Init
  PROVE  IInv
  <1>1. size \in Nat /\ ChunkCount \in Nat
    <2>1. size \in Nat
      BY CopyStoreAssumption DEF Init, CopyStoreAssumption
    <2>2. PICK one \in Nat \ {0} : one = 1
      OBVIOUS
    <2>3. CASE size = 0
      BY <2>1, <2>3 DEF ChunkCount
    <2>4. CASE size # 0
      BY <2>1, <2>2, <2>4, ChunkBounds
    <2> QED
      BY <2>1, <2>3, <2>4
  <1>2. /\ remaining \in Seq(Seq(Batch)) /\ Len(remaining) = ChunkCount
        /\ \A c \in 1..ChunkCount : size # 0 /\ remaining[c] = Slice(c)
    <2>1. CASE size = 0
      <3>1. remaining = <<>> /\ ChunkCount = 0
        BY <2>1 DEF Init, ChunkCount
      <3> QED
        BY <3>1
    <2>2. CASE size # 0
      <3>1. remaining = [c \in 1..ChunkCount |-> Slice(c)]
        BY <2>2 DEF Init, Chunks, ChunkCount
      <3>2. \A c \in 1..ChunkCount : Slice(c) \in Seq(Batch)
        BY <1>1, <2>2, SliceRows
      <3>3. remaining \in [1..ChunkCount -> Seq(Batch)]
        BY <3>1, <3>2
      <3> QED
        BY <1>1, <2>2, <3>1, <3>3
    <2> QED
      BY <2>1, <2>2
  <1>3. DOMAIN remaining = 1..ChunkCount
    BY <1>1, <1>2
  <1>4. /\ rejected = [c \in 1..ChunkCount |-> {}]
        /\ status = [c \in 1..ChunkCount |-> "copying"]
    BY <1>3 DEF Init
  <1>5. ChunkInv
    <2>1. ASSUME NEW c \in 1..ChunkCount
          PROVE  /\ Injective(remaining[c]) /\ Increasing(remaining[c])
                 /\ ToSet(remaining[c]) \cap rejected[c] = {}
                 /\ ToSet(remaining[c]) \cup rejected[c] = Rows(c)
      <3>1. /\ Injective(Slice(c)) /\ Increasing(Slice(c))
            /\ ToSet(Slice(c)) = Rows(c)
        BY <1>1, <1>2, SliceRows
      <3> QED
        BY <1>2, <1>4, <3>1
    <2>2. /\ rejected \in [1..ChunkCount -> SUBSET Batch]
          /\ status \in [1..ChunkCount -> Statuses]
      BY <1>4 DEF Statuses
    <2> QED
      BY <1>1, <1>2, <2>1, <2>2 DEF ChunkInv
  <1>6. CommitInv
    BY <1>4 DEF Init, CommitInv
  <1>7. CallerInv
    <2>1. joined = 0 /\ total = 0 /\ allFailed = {} /\ pc = "join"
      BY DEF Init
    <2>2. 1..joined = {}
      BY <2>1
    <2>3. JoinedRows = {}
      BY <2>2 DEF JoinedRows
    <2> QED
      BY <1>1, <2>1, <2>2, <2>3, FS_EmptySet DEF CallerInv, Ended
  <1>8. RejectInv
    BY <1>4 DEF RejectInv
  <1> QED
    BY <1>5, <1>6, <1>7, <1>8 DEF IInv

-----------------------------------------------------------------------------
(* The steps of a chunk.                                                   *)

(* A step of a copying chunk that leaves the joined chunks alone leaves    *)
(* what the caller knows of them.                                          *)
LEMMA CallerKeeps ==
  ASSUME ChunkInv, CallerInv, NEW c \in 1..ChunkCount, status[c] = "copying",
         UNCHANGED <<batchVars, callerVars>>,
         \A d \in 1..ChunkCount : d # c =>
           /\ status'[d] = status[d] /\ remaining'[d] = remaining[d]
           /\ rejected'[d] = rejected[d]
  PROVE  CallerInv'
  <1>1. UNCHANGED <<size, pc, joined, total, allFailed>> /\ ChunkCount' = ChunkCount
    BY BatchStays DEF batchVars, callerVars
  <1>2. ~ Ended /\ ~ Ended'
    <2>1. ~ ThreadsEnded
      BY ChunkFacts DEF ThreadsEnded
    <2> QED
      BY <1>1, <2>1 DEF CallerInv, Ended
  <1>3. ASSUME pc = "join"
        PROVE  /\ \A d \in 1..joined : status'[d] = "stored"
               /\ JoinedRows' = JoinedRows
               /\ allFailed = UNION {rejected'[d] : d \in 1..joined}
    <2>1. \A d \in 1..joined : d \in 1..ChunkCount /\ status[d] = "stored"
      <3>1. joined \in 0..ChunkCount /\ ChunkCount \in Nat
        BY DEF CallerInv, ChunkInv
      <3> QED
        BY <1>3, <3>1 DEF CallerInv
    <2>2. \A d \in 1..joined :
            /\ status'[d] = status[d] /\ remaining'[d] = remaining[d]
            /\ rejected'[d] = rejected[d]
      BY <2>1
    <2>3. {rejected'[d] : d \in 1..joined} = {rejected[d] : d \in 1..joined}
      BY <2>2
    <2>4. JoinedRows' = UNION {ToSet(remaining'[d]) : d \in 1..joined}
      BY <1>1 DEF JoinedRows, ToSet
    <2>5. {ToSet(remaining'[d]) : d \in 1..joined} = {ToSet(remaining[d]) : d \in 1..joined}
      BY <2>2
    <2> QED
      BY <1>3, <2>1, <2>2, <2>3, <2>4, <2>5 DEF CallerInv, JoinedRows
  <1>4. pc \in {"join", "close"} /\ joined \in 0..ChunkCount
        /\ (pc = "join" => IsFiniteSet(JoinedRows) /\ total = Cardinality(JoinedRows))
    BY <1>2 DEF CallerInv, Ended
  <1>5. pc = "join" =>
          /\ \A d \in 1..joined' : status'[d] = "stored"
          /\ IsFiniteSet(JoinedRows') /\ total' = Cardinality(JoinedRows')
          /\ allFailed' = UNION {rejected'[d] : d \in 1..joined'}
    BY <1>1, <1>3, <1>4
  <1> QED
    BY <1>1, <1>2, <1>4, <1>5 DEF CallerInv

(* A COPY that commits.                                                    *)
LEMMA SucceedKeeps ==
  ASSUME IInv, NEW c \in 1..ChunkCount, status[c] = "copying",
         CopySucceeds(c), UNCHANGED <<batchVars, callerVars>>
  PROVE  IInv'
  <1>1. UNCHANGED <<size, key, kind, multiline, remaining, rejected>>
    BY DEF CopySucceeds, batchVars
  <1>2. /\ ChunkCount' = ChunkCount /\ Batch' = Batch
        /\ \A d : Rows(d)' = Rows(d)
    BY <1>1, BatchStays
  <1>3. /\ committed' = committed \cup ToSet(remaining[c])
        /\ status' = [status EXCEPT ![c] = "stored"]
        /\ status \in [1..ChunkCount -> Statuses]
    BY DEF CopySucceeds, IInv, ChunkInv
  <1>4. /\ status' \in [1..ChunkCount -> Statuses] /\ status'[c] = "stored"
        /\ \A d \in 1..ChunkCount : d # c => status'[d] = status[d]
    BY <1>3 DEF Statuses
  <1>5. ChunkInv'
    BY <1>1, <1>2, <1>4 DEF IInv, ChunkInv
  <1>6. CommitInv'
    <2>1. ASSUME NEW r
          PROVE  r \in committed' <=>
                   \E d \in 1..ChunkCount : status'[d] = "stored" /\ r \in ToSet(remaining[d])
      <3>1. r \in committed <=>
              \E d \in 1..ChunkCount : status[d] = "stored" /\ r \in ToSet(remaining[d])
        BY DEF IInv, CommitInv
      <3> QED
        BY <1>3, <1>4, <3>1
    <2> QED
      BY <1>1, <1>2, <2>1 DEF CommitInv
  <1>7. CallerInv'
    BY <1>1, <1>4, CallerKeeps DEF IInv
  <1>8. RejectInv'
    BY <1>1, <1>2, <1>3, LinesStay DEF IInv, RejectInv, Deserved
  <1> QED
    BY <1>5, <1>6, <1>7, <1>8 DEF IInv

(* An error thrown out of the thread.                                      *)
LEMMA ThrowKeeps ==
  ASSUME IInv, NEW c \in 1..ChunkCount, status[c] = "copying",
         Throw(c), UNCHANGED <<batchVars, callerVars>>
  PROVE  IInv'
  <1>1. UNCHANGED <<size, key, kind, multiline, remaining, rejected, committed>>
    BY DEF Throw, batchVars
  <1>2. /\ ChunkCount' = ChunkCount /\ Batch' = Batch
        /\ \A d : Rows(d)' = Rows(d)
    BY <1>1, BatchStays
  <1>3. /\ status' = [status EXCEPT ![c] = "thrown"]
        /\ status \in [1..ChunkCount -> Statuses]
    BY DEF Throw, IInv, ChunkInv
  <1>4. /\ status' \in [1..ChunkCount -> Statuses] /\ status'[c] = "thrown"
        /\ \A d \in 1..ChunkCount : d # c => status'[d] = status[d]
    BY <1>3 DEF Statuses
  <1>5. ChunkInv'
    BY <1>1, <1>2, <1>4 DEF IInv, ChunkInv
  <1>6. CommitInv'
    <2>1. \A d \in 1..ChunkCount : status'[d] = "stored" <=> status[d] = "stored"
      BY <1>4
    <2> QED
      BY <1>1, <1>2, <2>1 DEF IInv, CommitInv
  <1>7. CallerInv'
    BY <1>1, <1>4, CallerKeeps DEF IInv
  <1>8. RejectInv'
    BY <1>1, <1>2, LinesStay DEF IInv, RejectInv, Deserved
  <1> QED
    BY <1>5, <1>6, <1>7, <1>8 DEF IInv

(* The line of the first offender: no row before it offends.               *)
LEMMA FirstOffenderIsFirst ==
  ASSUME NEW rows, Offenders(rows) # {}, NEW n \in Nat, DOMAIN rows = 1..n
  PROVE  /\ FirstOffender(rows) \in 1..n /\ Offends(rows, FirstOffender(rows))
         /\ \A j \in 1..(FirstOffender(rows) - 1) : j \in 1..n /\ ~ Offends(rows, j)
  <1>1. Offenders(rows) \subseteq 1..n
    BY DEF Offenders
  <1>2. \E i \in Offenders(rows) : \A j \in Offenders(rows) : i <= j
    BY <1>1, LeastPosition
  <1>3. PICK f : f = FirstOffender(rows)
    OBVIOUS
  <1>4. f \in Offenders(rows) /\ \A j \in Offenders(rows) : f <= j
    BY <1>2, <1>3 DEF FirstOffender
  <1>5. f \in 1..n /\ Offends(rows, f)
    BY <1>1, <1>4 DEF Offenders
  <1>6. ASSUME NEW j \in 1..(f - 1)
        PROVE  j \in 1..n /\ ~ Offends(rows, j)
    <2>1. j \in 1..n /\ ~ (f <= j)
      BY <1>5
    <2>2. j \notin Offenders(rows)
      BY <1>4, <2>1
    <2> QED
      BY <2>1, <2>2 DEF Offenders
  <1> QED
    BY <1>3, <1>5, <1>6

(* The row the line names is moved from what remains to what was rejected. *)
LEMMA DropParts ==
  ASSUME ChunkInv, NEW c \in 1..ChunkCount, NEW line, DropRow(c, line)
  PROVE  /\ line \in DOMAIN remaining[c] /\ remaining[c][line] \in ToSet(remaining[c])
         /\ remaining'[c] \in Seq(Batch)
         /\ Injective(remaining'[c]) /\ Increasing(remaining'[c])
         /\ Len(remaining'[c]) = Len(remaining[c]) - 1
         /\ ToSet(remaining'[c]) = ToSet(remaining[c]) \ {remaining[c][line]}
         /\ rejected'[c] = rejected[c] \cup {remaining[c][line]}
         /\ status'[c] = IF Len(remaining[c]) = 1 THEN "stored" ELSE "copying"
         /\ remaining' \in Seq(Seq(Batch)) /\ Len(remaining') = Len(remaining)
         /\ status' \in [1..ChunkCount -> Statuses]
         /\ rejected' \in [1..ChunkCount -> SUBSET Batch]
         /\ \A d \in 1..ChunkCount : d # c =>
              /\ remaining'[d] = remaining[d] /\ rejected'[d] = rejected[d]
              /\ status'[d] = status[d]
  <1>0. line \in DOMAIN remaining[c]
    BY DEF DropRow
  <1>1. /\ remaining[c] \in Seq(Batch) /\ DOMAIN remaining = 1..ChunkCount
        /\ rejected[c] \subseteq Rows(c)
    BY ChunkFacts
  <1>2. Injective(remaining[c]) /\ Increasing(remaining[c])
    BY DEF ChunkInv
  <1> DEFINE new == RemoveAt(remaining[c], line)
  <1>3. /\ new \in Seq(Batch) /\ Injective(new) /\ Increasing(new)
        /\ Len(new) = Len(remaining[c]) - 1
        /\ ToSet(new) = ToSet(remaining[c]) \ {remaining[c][line]}
    BY <1>0, <1>1, <1>2, Removal, RemovalKeepsOrder
  <1>4. remaining' = [remaining EXCEPT ![c] = new]
    BY DEF DropRow
  <1>5. remaining[c][line] \in ToSet(remaining[c]) /\ remaining[c][line] \in Batch
    BY <1>0, <1>1, ElementOfSeq DEF ToSet
  <1> HIDE DEF new
  <1>6. /\ remaining'[c] = new
        /\ \A d \in 1..ChunkCount : d # c => remaining'[d] = remaining[d]
    BY <1>1, <1>4
  <1>7. remaining' \in Seq(Seq(Batch)) /\ Len(remaining') = Len(remaining)
    <2>1. remaining \in Seq(Seq(Batch)) /\ c \in 1..Len(remaining)
      BY DEF ChunkInv
    <2> QED
      BY <1>3, <1>4, <2>1
  <1>8. /\ rejected'[c] = rejected[c] \cup {remaining[c][line]}
        /\ rejected' \in [1..ChunkCount -> SUBSET Batch]
        /\ \A d \in 1..ChunkCount : d # c => rejected'[d] = rejected[d]
    <2>1. /\ rejected \in [1..ChunkCount -> SUBSET Batch]
          /\ rejected' = [rejected EXCEPT ![c] = @ \cup {remaining[c][line]}]
      BY DEF ChunkInv, DropRow
    <2> QED
      BY <1>5, <2>1
  <1>9. /\ status'[c] = IF Len(remaining[c]) = 1 THEN "stored" ELSE "copying"
        /\ status' \in [1..ChunkCount -> Statuses]
        /\ \A d \in 1..ChunkCount : d # c => status'[d] = status[d]
    BY DEF ChunkInv, DropRow, Statuses
  <1> QED
    BY <1>0, <1>3, <1>5, <1>6, <1>7, <1>8, <1>9

(* Where the lines can be counted, the message names the first offender.   *)
LEMMA CountedLine ==
  ASSUME ChunkInv, NEW c \in 1..ChunkCount, Offenders(remaining[c]) # {},
         NEW line \in LineInError(remaining[c]), line \in DOMAIN remaining[c],
         Countable(c, remaining[c][line])
  PROVE  line = FirstOffender(remaining[c])
  <1> DEFINE rows == remaining[c]
             f == FirstOffender(rows)
             x == rows[line]
  <1>1. rows \in Seq(Batch) /\ Len(rows) \in Nat /\ DOMAIN rows = 1..Len(rows)
        /\ ToSet(rows) \subseteq Rows(c) /\ Increasing(rows) /\ size \in Nat
    BY ChunkFacts DEF ChunkInv
  <1>2. f \in 1..Len(rows)
    BY <1>1, FirstOffenderIsFirst
  <1>3. \A j \in 1..Len(rows) : rows[j] \in Rows(c) /\ rows[j] \in Int
    <2>1. \A j \in 1..Len(rows) : rows[j] \in Rows(c)
      BY <1>1 DEF ToSet
    <2>2. \A s \in Rows(c) : s \in Int
      BY <1>1 DEF Rows, Batch
    <2> QED
      BY <2>1, <2>2
  <1>4. ToSet(Slice(c)) = Rows(c)
    <2>1. size # 0
      BY <1>1 DEF ChunkCount
    <2> QED
      BY <1>1, <2>1, SliceRows
  <1>5. \A j \in 1..Len(rows) :
          kind[rows[j]] # "quoting" /\ (rows[j] \in multiline => x < rows[j])
    BY <1>3, <1>4 DEF Countable
  <1> HIDE DEF rows, f, x
  <1>6. kind[rows[f]] # "quoting"
    BY <1>2, <1>5
  <1>7. CASE \E j \in 1..f : rows[j] \in multiline
    <2>1. PICK j \in 1..f : rows[j] \in multiline
      BY <1>7
    <2>2. line \in f..(size + 1)
      BY <1>6, <1>7 DEF LineInError, rows, f
    <2>3. j \in 1..Len(rows) /\ line \in 1..Len(rows) /\ j <= line
      BY <1>1, <1>2, <2>1, <2>2 DEF rows
    <2>4. rows[j] <= x
      BY <1>1, <1>3, <2>3 DEF Increasing, x
    <2> QED
      BY <1>3, <1>5, <2>1, <2>3, <2>4 DEF x
  <1>8. CASE ~ \E j \in 1..f : rows[j] \in multiline
    BY <1>6, <1>8 DEF LineInError, rows, f
  <1> QED
    BY <1>7, <1>8 DEF rows, f

(* The row dropped had a fault of its own when its lines can be counted,   *)
(* and the rows rejected before it keep theirs.                            *)
LEMMA DropIsDeserved ==
  ASSUME IInv, NEW c \in 1..ChunkCount, status[c] = "copying",
         Offenders(remaining[c]) # {}, NEW line \in LineInError(remaining[c]),
         DropRow(c, line), NEW d \in 1..ChunkCount, NEW r \in rejected'[d],
         Countable(d, r)
  PROVE  \/ kind[r] = "bad"
         \/ \E s \in committed : key[s] = key[r]
         \/ \E s \in ToSet(remaining'[d]) : s < r /\ kind[s] # "bad" /\ key[s] = key[r]
  <1> DEFINE rows == remaining[c]
             f == FirstOffender(rows)
             x == rows[line]
  <1>0. ChunkInv /\ CommitInv /\ RejectInv
    BY DEF IInv
  <1>1. rows \in Seq(Batch) /\ Len(rows) \in Nat /\ DOMAIN rows = 1..Len(rows)
        /\ Increasing(rows) /\ ToSet(rows) \subseteq Rows(c)
    BY <1>0, ChunkFacts DEF ChunkInv
  <1>2. /\ f \in 1..Len(rows) /\ Offends(rows, f)
        /\ \A j \in 1..(f - 1) : j \in 1..Len(rows) /\ ~ Offends(rows, j)
    BY <1>1, FirstOffenderIsFirst
  <1>3. \A j \in 1..Len(rows) : rows[j] \in Batch /\ rows[j] \in ToSet(rows)
    BY <1>1, ElementOfSeq DEF ToSet
  <1>4. Countable(c, x) => line = f
    BY <1>0, CountedLine DEF DropRow
  <1>5. /\ ToSet(remaining'[c]) = ToSet(rows) \ {x}
        /\ rejected'[c] = rejected[c] \cup {x}
        /\ x \in ToSet(rows)
        /\ \A e \in 1..ChunkCount : e # c =>
             remaining'[e] = remaining[e] /\ rejected'[e] = rejected[e]
    BY <1>0, DropParts
  <1>6. \A s \in Batch : s \in Int
    BY <1>0 DEF ChunkInv, Batch
  (* What Offends says of the dropped row. *)
  <1>7. ASSUME Countable(c, x)
        PROVE  \/ kind[x] = "bad"
               \/ \E s \in committed : key[s] = key[x]
               \/ \E s \in ToSet(rows) : s < x /\ kind[s] # "bad" /\ key[s] = key[x]
    <2>0. line = f
      BY <1>4, <1>7
    <2>1. CASE kind[rows[f]] \in {"bad", "quoting"}
      <3>1. kind[rows[f]] # "quoting"
        <4>1. size \in Nat \ {0}
          BY <1>0 DEF ChunkInv, ChunkCount
        <4>2. rows[f] \in ToSet(Slice(c))
          BY <1>1, <1>2, <1>3, <4>1, SliceRows
        <4> QED
          BY <1>7, <4>2 DEF Countable
      <3> QED
        BY <2>0, <2>1, <3>1
    <2>2. CASE \E s \in committed : key[s] = key[rows[f]]
      BY <2>0, <2>2
    <2>3. CASE \E j \in 1..(f - 1) : key[rows[j]] = key[rows[f]]
      <3>1. PICK j \in 1..(f - 1) : key[rows[j]] = key[rows[f]]
        BY <2>3
      <3>2. j \in 1..Len(rows) /\ ~ Offends(rows, j) /\ j < f
        BY <1>1, <1>2
      <3>3. kind[rows[j]] # "bad"
        BY <3>2 DEF Offends
      <3>4. rows[j] < rows[f]
        BY <1>1, <1>2, <3>2 DEF Increasing
      <3> QED
        BY <1>3, <2>0, <3>1, <3>2, <3>3, <3>4
    <2> QED
      BY <1>2, <2>1, <2>2, <2>3 DEF Offends
  <1> HIDE DEF rows, f, x
  <1>8. CASE d = c /\ r = x
    <2>1. Countable(c, x)
      BY <1>8
    <2>2. CASE kind[x] = "bad" \/ \E s \in committed : key[s] = key[x]
      BY <1>8, <2>2
    <2>3. CASE \E s \in ToSet(rows) : s < x /\ kind[s] # "bad" /\ key[s] = key[x]
      <3>1. PICK s \in ToSet(rows) : s < x /\ kind[s] # "bad" /\ key[s] = key[x]
        BY <2>3
      <3>2. s # x
        BY <1>1, <1>5, <1>6, <3>1 DEF Rows
      <3> QED
        BY <1>5, <1>8, <3>1, <3>2
    <2> QED
      BY <1>7, <2>1, <2>2, <2>3
  <1>9. CASE d = c /\ r # x
    <2>1. r \in rejected[c] /\ Countable(c, r) /\ r \in Rows(c)
      BY <1>0, <1>5, <1>9, ChunkFacts
    <2>2. CASE kind[r] = "bad" \/ \E s \in committed : key[s] = key[r]
      BY <2>2
    <2>3. CASE \E s \in ToSet(rows) : s < r /\ kind[s] # "bad" /\ key[s] = key[r]
      <3>1. PICK s \in ToSet(rows) : s < r /\ kind[s] # "bad" /\ key[s] = key[r]
        BY <2>3
      <3>2. CASE s # x
        BY <1>5, <1>9, <3>1, <3>2
      (* The witness itself is dropped: for its key, so another row has it. *)
      <3>3. CASE s = x
        <4>1. r \in Int /\ x \in Int /\ x < r
          BY <1>1, <1>5, <1>6, <2>1, <3>1, <3>3 DEF Rows
        <4>2. Countable(c, x)
          <5>1. size \in Nat \ {0}
            BY <1>0 DEF ChunkInv, ChunkCount
          <5>2. \A q \in ToSet(Slice(c)) : q \in Int
            BY <1>6, <5>1, SliceRows DEF Rows
          <5> QED
            BY <2>1, <4>1, <5>2 DEF Countable
        <4>3. kind[x] # "bad" /\ key[x] = key[r]
          BY <3>1, <3>3
        <4>4. CASE \E q \in committed : key[q] = key[x]
          BY <4>3, <4>4
        <4>5. CASE \E q \in ToSet(rows) : q < x /\ kind[q] # "bad" /\ key[q] = key[x]
          <5>1. PICK q \in ToSet(rows) : q < x /\ kind[q] # "bad" /\ key[q] = key[x]
            BY <4>5
          <5>2. q \in Int
            BY <1>1, <1>6 DEF Rows
          <5>3. q # x /\ q < r /\ key[q] = key[r]
            BY <4>1, <4>3, <5>1, <5>2
          <5> QED
            BY <1>5, <1>9, <5>1, <5>3
        <4> QED
          BY <1>7, <4>2, <4>3, <4>4, <4>5
      <3> QED
        BY <3>2, <3>3
    <2> QED
      BY <1>0, <2>1, <2>2, <2>3 DEF RejectInv, Deserved, rows
  <1>10. CASE d # c
    BY <1>0, <1>5, <1>10 DEF RejectInv, Deserved
  <1> QED
    BY <1>8, <1>9, <1>10

(* A row dropped; the others are copied again.                             *)
LEMMA DropKeeps ==
  ASSUME IInv, NEW c \in 1..ChunkCount, status[c] = "copying",
         Offenders(remaining[c]) # {}, NEW line \in LineInError(remaining[c]),
         DropRow(c, line), UNCHANGED <<batchVars, callerVars>>
  PROVE  IInv'
  <1>0. ChunkInv /\ CommitInv /\ CallerInv /\ RejectInv
    BY DEF IInv
  <1>1. UNCHANGED <<size, key, kind, multiline, committed>>
    BY DEF DropRow, batchVars
  <1>2. /\ ChunkCount' = ChunkCount /\ Batch' = Batch
        /\ \A d : Rows(d)' = Rows(d)
    BY <1>1, BatchStays
  <1>3. /\ line \in DOMAIN remaining[c] /\ remaining[c][line] \in ToSet(remaining[c])
        /\ remaining'[c] \in Seq(Batch)
        /\ Injective(remaining'[c]) /\ Increasing(remaining'[c])
        /\ Len(remaining'[c]) = Len(remaining[c]) - 1
        /\ ToSet(remaining'[c]) = ToSet(remaining[c]) \ {remaining[c][line]}
        /\ rejected'[c] = rejected[c] \cup {remaining[c][line]}
        /\ status'[c] = IF Len(remaining[c]) = 1 THEN "stored" ELSE "copying"
        /\ remaining' \in Seq(Seq(Batch)) /\ Len(remaining') = Len(remaining)
        /\ status' \in [1..ChunkCount -> Statuses]
        /\ rejected' \in [1..ChunkCount -> SUBSET Batch]
        /\ \A d \in 1..ChunkCount : d # c =>
             /\ remaining'[d] = remaining[d] /\ rejected'[d] = rejected[d]
             /\ status'[d] = status[d]
    BY <1>0, DropParts
  <1>4. ChunkInv'
    <2>1. ASSUME NEW d \in 1..ChunkCount
          PROVE  /\ Injective(remaining'[d]) /\ Increasing(remaining'[d])
                 /\ ToSet(remaining'[d]) \cap rejected'[d] = {}
                 /\ ToSet(remaining'[d]) \cup rejected'[d] = Rows(d)
      <3>1. /\ Injective(remaining[d]) /\ Increasing(remaining[d])
            /\ ToSet(remaining[d]) \cap rejected[d] = {}
            /\ ToSet(remaining[d]) \cup rejected[d] = Rows(d)
        BY <1>0 DEF ChunkInv
      <3> QED
        BY <1>3, <3>1
    <2>2. ChunkCount \in Nat /\ size \in Nat /\ Len(remaining) = ChunkCount
      BY <1>0 DEF ChunkInv
    <2>3. ASSUME NEW d \in 1..ChunkCount
          PROVE  /\ Injective(remaining[d])' /\ Increasing(remaining[d])'
                 /\ ToSet(remaining[d])' \cap rejected'[d] = {}
                 /\ ToSet(remaining[d])' \cup rejected'[d] = Rows(d)'
      BY <1>2, <2>1 DEF Injective, Increasing, ToSet
    <2> QED
      BY <1>1, <1>2, <1>3, <2>2, <2>3 DEF ChunkInv
  <1>5. CommitInv'
    <2>1. \A d \in 1..ChunkCount : \A r :
            (status'[d] = "stored" /\ r \in ToSet(remaining'[d]))
              <=> (status[d] = "stored" /\ r \in ToSet(remaining[d]))
      <3>1. status'[c] = "stored" => ToSet(remaining'[c]) = {}
        <4>1. remaining'[c] \in Seq(Batch) /\ (status'[c] = "stored" => Len(remaining'[c]) = 0)
          BY <1>3
        <4>2. status'[c] = "stored" => DOMAIN remaining'[c] = {}
          BY <4>1
        <4> QED
          BY <4>2 DEF ToSet
      <3> QED
        BY <1>3, <3>1
    <2>2. \A d \in 1..ChunkCount : ToSet(remaining[d])' = ToSet(remaining'[d])
      BY DEF ToSet
    <2> QED
      BY <1>0, <1>1, <1>2, <2>1, <2>2 DEF CommitInv
  <1>6. CallerInv'
    BY <1>0, <1>3, CallerKeeps
  <1>7. RejectInv'
    <2> SUFFICES ASSUME NEW d \in 1..ChunkCount, NEW r \in rejected'[d], Countable(d, r)
                 PROVE  \/ kind[r] = "bad"
                        \/ \E s \in committed : key[s] = key[r]
                        \/ \E s \in ToSet(remaining[d])' :
                              s < r /\ kind[s] # "bad" /\ key[s] = key[r]
      BY <1>1, <1>2, LinesStay DEF RejectInv, Deserved
    <2>1. ToSet(remaining[d])' = ToSet(remaining'[d])
      BY DEF ToSet
    <2> QED
      BY <2>1, DropIsDeserved
  <1> QED
    BY <1>4, <1>5, <1>6, <1>7 DEF IInv

(* One COPY of a chunk.                                                    *)
LEMMA AttemptKeeps ==
  ASSUME IInv, NEW c \in DOMAIN status, Attempt(c)
  PROVE  IInv'
  <1>1. /\ c \in 1..ChunkCount /\ status[c] = "copying"
        /\ UNCHANGED <<batchVars, callerVars>>
    BY ChunkFacts DEF IInv, Attempt
  <1>2. CASE CopySucceeds(c)
    BY <1>1, <1>2, SucceedKeeps
  <1>3. CASE Throw(c)
    BY <1>1, <1>3, ThrowKeeps
  <1>4. ASSUME Offenders(remaining[c]) # {}, NEW line \in LineInError(remaining[c]),
               DropRow(c, line)
        PROVE  IInv'
    BY <1>1, <1>4, DropKeeps
  <1> QED
    BY <1>2, <1>3, <1>4 DEF Attempt

-----------------------------------------------------------------------------
(* The steps of the caller.                                                *)

(* Only the caller moves: the chunks and the database stay.                *)
LEMMA CallerStep ==
  ASSUME IInv,
         UNCHANGED <<batchVars, remaining, rejected, status, committed>>,
         CallerInv'
  PROVE  IInv'
  <1>1. UNCHANGED <<size, key, kind, multiline, remaining, rejected, status, committed>>
    BY DEF batchVars
  <1>2. /\ ChunkCount' = ChunkCount /\ Batch' = Batch
        /\ \A d : Rows(d)' = Rows(d)
    BY <1>1, BatchStays
  <1>3. ChunkInv'
    BY <1>1, <1>2 DEF IInv, ChunkInv
  <1>4. CommitInv'
    BY <1>1, <1>2 DEF IInv, CommitInv
  <1>5. RejectInv'
    BY <1>1, <1>2, LinesStay DEF IInv, RejectInv, Deserved
  <1> QED
    BY <1>3, <1>4, <1>5 DEF IInv

(* The rows of the next chunk are none of those counted so far.            *)
LEMMA NextJoined ==
  ASSUME ChunkInv, CallerInv, pc = "join", joined < Len(remaining)
  PROVE  LET c == joined + 1
             rows == UNION {ToSet(remaining[d]) : d \in 1..c}
         IN  /\ c \in 1..ChunkCount
             /\ IsFiniteSet(rows) /\ Cardinality(rows) = total + TotalAdded(c)
             /\ UNION {rejected[d] : d \in 1..c} = allFailed \cup rejected[c]
  <1> DEFINE c == joined + 1
             new == ToSet(remaining[c])
  <1>1. joined \in 0..ChunkCount /\ ChunkCount \in Nat /\ Len(remaining) = ChunkCount
    BY DEF CallerInv, ChunkInv
  <1>2. c \in 1..ChunkCount /\ 1..c = (1..joined) \cup {c}
        /\ \A d \in 1..joined : d \in 1..ChunkCount /\ d # c
    BY <1>1
  <1>3. IsFiniteSet(JoinedRows) /\ total = Cardinality(JoinedRows)
        /\ allFailed = UNION {rejected[d] : d \in 1..joined}
    BY DEF CallerInv
  <1> HIDE DEF c
  <1>4. IsFiniteSet(new) /\ Cardinality(new) = TotalAdded(c)
    <2>1. remaining[c] \in Seq(Batch) /\ Injective(remaining[c])
      BY <1>2, ChunkFacts DEF ChunkInv
    <2> QED
      BY <2>1, CountOfList DEF TotalAdded
  <1>5. JoinedRows \cap new = {}
    <2>1. \A d \in 1..joined : ToSet(remaining[d]) \cap new = {}
      <3>1. new \subseteq Rows(c)
        BY <1>2, ChunkFacts
      <3> QED
        BY <1>2, <3>1, RowsApart
    <2> QED
      BY <2>1 DEF JoinedRows
  <1>6. IsFiniteSet(JoinedRows \cup new)
        /\ Cardinality(JoinedRows \cup new) = total + TotalAdded(c)
    <2>1. Cardinality(JoinedRows \cap new) = 0
      BY <1>5, FS_EmptySet
    <2>2. Cardinality(JoinedRows) \in Nat /\ Cardinality(new) \in Nat
      BY <1>3, <1>4, FS_CardinalityType
    <2>3. /\ IsFiniteSet(JoinedRows \cup new)
          /\ Cardinality(JoinedRows \cup new)
               = Cardinality(JoinedRows) + Cardinality(new) - Cardinality(JoinedRows \cap new)
      BY <1>3, <1>4, FS_Union
    <2> QED
      BY <1>3, <1>4, <2>1, <2>2, <2>3
  <1>7. UNION {ToSet(remaining[d]) : d \in 1..c} = JoinedRows \cup new
    BY <1>2 DEF JoinedRows
  <1>8. UNION {rejected[d] : d \in 1..c} = allFailed \cup rejected[c]
    BY <1>2, <1>3
  <1> QED
    BY <1>2, <1>6, <1>7, <1>8 DEF c

(* A chunk joined.                                                         *)
LEMMA JoinKeeps ==
  ASSUME IInv, Join
  PROVE  IInv'
  <1> DEFINE c == joined + 1
  <1>0. ChunkInv /\ CallerInv
    BY DEF IInv
  <1>1. UNCHANGED <<size, key, kind, multiline, remaining, rejected, status, committed>>
        /\ ChunkCount' = ChunkCount
    BY BatchStays DEF Join, batchVars
  <1>2. /\ pc = "join" /\ joined < Len(remaining) /\ status[c] # "copying"
        /\ joined' = c
    BY DEF Join
  <1>3. /\ c \in 1..ChunkCount
        /\ IsFiniteSet(UNION {ToSet(remaining[d]) : d \in 1..c})
        /\ Cardinality(UNION {ToSet(remaining[d]) : d \in 1..c}) = total + TotalAdded(c)
        /\ UNION {rejected[d] : d \in 1..c} = allFailed \cup rejected[c]
    BY <1>0, <1>2, NextJoined
  <1>4. ChunkCount \in Nat /\ joined \in 0..ChunkCount
    BY <1>0 DEF ChunkInv, CallerInv
  <1>5. c \in 0..ChunkCount
    BY <1>3, <1>4
  <1>6. JoinedRows' = UNION {ToSet(remaining[d]) : d \in 1..c}
    BY <1>1, <1>2 DEF JoinedRows
  <1>7. CASE status[c] = "stored"
    <2>1. /\ total' = total + TotalAdded(c)
          /\ allFailed' = allFailed \cup rejected[c] /\ pc' = "join"
      BY <1>2, <1>7 DEF Join
    <2>2. \A d \in 1..c : status[d] = "stored"
      <3>1. \A d \in 1..joined : status[d] = "stored"
        BY <1>0, <1>2 DEF CallerInv
      <3>2. \A d \in 1..c : d \in 1..joined \/ d = c
        BY <1>4
      <3> QED
        BY <1>7, <3>1, <3>2
    <2> HIDE DEF c
    <2>3. CallerInv'
      BY <1>1, <1>2, <1>3, <1>5, <1>6, <2>1, <2>2 DEF CallerInv, Ended
    <2> QED
      BY <1>1, <2>3, CallerStep DEF batchVars
  <1>8. CASE status[c] # "stored"
    <2>1. pc' = "close"
      BY <1>2, <1>8 DEF Join
    <2> HIDE DEF c
    <2>2. CallerInv'
      BY <1>1, <1>2, <1>5, <2>1 DEF CallerInv, Ended
    <2> QED
      BY <1>1, <2>2, CallerStep DEF batchVars
  <1> QED
    BY <1>7, <1>8

(* The end of the call.                                                    *)
LEMMA CloseKeeps ==
  ASSUME IInv, Close
  PROVE  IInv'
  <1>0. ChunkInv /\ CallerInv
    BY DEF IInv
  <1>1. UNCHANGED <<size, key, kind, multiline, remaining, rejected, status, committed>>
        /\ ChunkCount' = ChunkCount /\ UNCHANGED <<joined, total, allFailed>>
    BY BatchStays DEF Close, batchVars
  <1>2. JoinedRows' = JoinedRows /\ (ThreadsEnded' <=> ThreadsEnded)
    BY <1>1 DEF JoinedRows, ThreadsEnded
  <1>3. CASE pc = "join" /\ joined = Len(remaining) /\ pc' = "returned"
    <2>1. joined = ChunkCount
      BY <1>0, <1>3 DEF ChunkInv
    <2>2. ThreadsEnded
      <3>1. DOMAIN status = 1..joined
        BY <1>0, <2>1, ChunkFacts
      <3> QED
        BY <1>0, <1>3, <3>1 DEF CallerInv, ThreadsEnded
    <2>3. CallerInv'
      BY <1>0, <1>1, <1>2, <1>3, <2>1, <2>2 DEF CallerInv
    <2> QED
      BY <1>1, <2>3, CallerStep DEF batchVars
  <1>4. CASE pc = "close" /\ ThreadsEnded /\ pc' = "threw"
    <2>1. CallerInv'
      BY <1>0, <1>1, <1>2, <1>4 DEF CallerInv
    <2> QED
      BY <1>1, <2>1, CallerStep DEF batchVars
  <1> QED
    BY <1>3, <1>4 DEF Close

(* The invariant holds at all times.                                       *)
THEOREM StoreInvariant == Spec => []IInv
  <1>1. Init => IInv
    BY InitEstablishes
  <1>2. IInv /\ [Next]_vars => IInv'
    <2> SUFFICES ASSUME IInv, [Next]_vars PROVE IInv'
      OBVIOUS
    <2>1. CASE \E c \in DOMAIN status : Attempt(c)
      BY <2>1, AttemptKeeps
    <2>2. CASE Join
      BY <2>2, JoinKeeps
    <2>3. CASE Close
      BY <2>3, CloseKeeps
    <2>4. CASE UNCHANGED vars
      <3>1. /\ UNCHANGED <<batchVars, remaining, rejected, status, committed>>
            /\ UNCHANGED <<size, remaining, rejected, status, pc, joined, total, allFailed>>
            /\ ChunkCount' = ChunkCount
        BY <2>4, BatchStays DEF vars, batchVars, callerVars
      <3>2. CallerInv'
        BY <3>1 DEF IInv, CallerInv, JoinedRows, Ended, ThreadsEnded
      <3> QED
        BY <3>1, <3>2, CallerStep
    <2> QED
      BY <2>1, <2>2, <2>3, <2>4 DEF Next
  <1> QED
    BY <1>1, <1>2, PTL DEF Spec

-----------------------------------------------------------------------------
(* Types.                                                                  *)

(* Rounding up cuts a batch into no more chunks than threads asked for.    *)
LEMMA FewChunks ==
  ASSUME size \in Nat
  PROVE  ChunkCount \in Nat /\ ChunkCount <= Parallelism
  <1>1. CASE size = 0
    <2>1. Parallelism \in Nat
      BY CopyStoreAssumption DEF CopyStoreAssumption
    <2> QED
      BY <1>1, <2>1 DEF ChunkCount
  <1>2. CASE size # 0
    <2> DEFINE d == SubBatchSize
               n == ChunkCount
    <2>1. Parallelism \in Nat \ {0} /\ d \in Nat \ {0}
      BY <1>2, ChunkSize, CopyStoreAssumption DEF CopyStoreAssumption
    <2>2. d = (size + Parallelism - 1) \div Parallelism
      BY DEF SubBatchSize
    <2>3. n = (size + d - 1) \div d
      BY <1>2 DEF ChunkCount
    <2> HIDE DEF d
    <2>4. size + Parallelism - 1 < Parallelism * d + Parallelism
      BY <2>1, <2>2, QuotientBounds
    <2>5. n \in Nat /\ d * n <= size + d - 1
      BY <2>1, <2>3, QuotientBounds
    <2> HIDE DEF n
    <2>6. Parallelism * d = d * Parallelism /\ d * Parallelism \in Int /\ d * n \in Int
      BY <2>1, <2>5
    <2>7. Parallelism < n => d * Parallelism + d <= d * n
      BY <2>1, <2>5, ProductOrder
    <2>8. ~ (Parallelism < n)
      BY <2>1, <2>4, <2>5, <2>6, <2>7
    <2> QED
      BY <2>1, <2>5, <2>8 DEF n
  <1> QED
    BY <1>1, <1>2

(* A set of rows has at most as many as the batch.                         *)
LEMMA CountInBatch ==
  ASSUME size \in Nat, NEW S \in SUBSET Batch
  PROVE  IsFiniteSet(S) /\ Cardinality(S) \in 0..size
  <1>1. PICK a \in Int, b \in Int : a = 0 /\ b = size - 1
    OBVIOUS
  <1>2. Batch = a..b
    BY <1>1 DEF Batch
  <1>3. IsFiniteSet(Batch) /\ Cardinality(Batch) = size
    BY <1>1, <1>2, FS_Interval
  <1>4. IsFiniteSet(S) /\ Cardinality(S) <= size
    BY <1>3, FS_Subset
  <1>5. Cardinality(S) \in Nat
    BY <1>4, FS_CardinalityType
  <1> QED
    BY <1>4, <1>5

(* The variables keep their types; in particular storeTable starts at most *)
(* as many chunks as it was given threads, so that Pipeline's pool covers  *)
(* them.                                                                   *)
THEOREM TypeCorrect == Spec => []TypeOK
  <1>1. ASSUME Init PROVE TypeOK
    <2>1. IInv
      BY <1>1, InitEstablishes
    <2>2. /\ size \in BatchSizes /\ multiline \in SUBSET Batch
          /\ pc = "join" /\ joined = 0 /\ total = 0
          /\ allFailed = {} /\ committed = {} /\ faults = 0
      BY <1>1 DEF Init
    <2>3. size \in Nat /\ MaxFaults \in Nat
      BY <2>2, CopyStoreAssumption DEF CopyStoreAssumption
    <2> QED
      BY <2>1, <2>2, <2>3, FewChunks, ChunkFacts
         DEF IInv, ChunkInv, TypeOK, Statuses, Rows
  <1>2. ASSUME IInv, IInv', TypeOK, [Next]_vars PROVE TypeOK'
    <2>1. /\ ChunkInv /\ CallerInv /\ size \in Nat /\ MaxFaults \in Nat
          /\ UNCHANGED <<size, multiline>> /\ Batch' = Batch /\ ChunkCount' = ChunkCount
      <3>1. UNCHANGED <<size, multiline>>
        BY <1>2 DEF Next, Attempt, Join, Close, batchVars, vars
      <3> QED
        BY <1>2, <3>1, BatchStays, CopyStoreAssumption
           DEF IInv, ChunkInv, CopyStoreAssumption
    <2>2. /\ size' \in BatchSizes /\ multiline' \in SUBSET Batch'
          /\ pc' \in {"join", "close", "returned", "threw"}
          /\ Len(remaining') <= Parallelism /\ Len(remaining') = ChunkCount
          /\ status' \in [DOMAIN remaining' -> {"copying", "stored", "thrown"}]
          /\ joined' \in 0..Len(remaining')
      <3>1. ChunkInv' /\ CallerInv'
        BY <1>2 DEF IInv
      <3>2. Len(remaining') = ChunkCount /\ DOMAIN remaining' = 1..ChunkCount
        BY <2>1, <3>1 DEF ChunkInv
      <3> QED
        BY <1>2, <2>1, <3>1, <3>2, FewChunks
           DEF ChunkInv, CallerInv, Statuses, TypeOK
    <2>3. \A c \in DOMAIN remaining' : ToSet(remaining[c])' \subseteq Batch'
      <3>1. ChunkInv' /\ DOMAIN remaining' = 1..ChunkCount'
        <4>1. ChunkInv'
          BY <1>2 DEF IInv
        <4>2. ChunkCount' \in Nat /\ remaining' \in Seq(Seq(Batch)')
              /\ Len(remaining') = ChunkCount'
          BY <4>1 DEF ChunkInv
        <4> QED
          BY <4>1, <4>2
      <3>2. \A c \in 1..ChunkCount' : ToSet(remaining[c])' \cup rejected'[c] = Rows(c)'
        BY <3>1 DEF ChunkInv
      <3>3. \A c : Rows(c)' \subseteq Batch'
        BY DEF Rows
      <3> QED
        BY <3>1, <3>2, <3>3
    <2>4. total' \in 0..size /\ allFailed' \in SUBSET Batch
      <3>1. CASE UNCHANGED <<total, allFailed>>
        BY <1>2, <3>1 DEF TypeOK
      <3>2. CASE Join /\ ~ UNCHANGED <<total, allFailed>>
        <4> DEFINE c == joined + 1
                   rows == UNION {ToSet(remaining[d]) : d \in 1..c}
        <4>1. /\ pc = "join" /\ joined < Len(remaining)
              /\ total' = total + TotalAdded(c) /\ allFailed' = allFailed \cup rejected[c]
          BY <3>2 DEF Join
        <4>2. c \in 1..ChunkCount /\ Cardinality(rows) = total + TotalAdded(c)
          BY <2>1, <4>1, NextJoined
        <4>3. rows \subseteq Batch
          <5>1. \A d \in 1..c : d \in 1..ChunkCount
            BY <2>1, <4>2 DEF ChunkInv, CallerInv
          <5>2. \A d \in 1..ChunkCount : ToSet(remaining[d]) \subseteq Batch
            BY <2>1, ChunkFacts DEF Rows
          <5> QED
            BY <5>1, <5>2
        <4> HIDE DEF c, rows
        <4>4. Cardinality(rows) \in 0..size
          BY <2>1, <4>3, CountInBatch
        <4>5. rejected[c] \subseteq Batch
          BY <2>1, <4>2 DEF ChunkInv
        <4> QED
          BY <1>2, <4>1, <4>2, <4>4, <4>5 DEF TypeOK
      <3> QED
        BY <1>2, <3>1, <3>2 DEF Next, Attempt, Close, vars, callerVars
    <2>5. committed' \in SUBSET Batch
      <3>1. CommitInv' /\ DOMAIN remaining' = 1..ChunkCount'
        BY <1>2 DEF IInv, ChunkInv
      <3>2. \A r : r \in committed' => \E c \in 1..ChunkCount' : r \in ToSet(remaining[c])'
        BY <3>1 DEF CommitInv
      <3> QED
        BY <2>1, <2>3, <3>1, <3>2
    <2>6. faults' \in 0..MaxFaults
      BY <1>2, <2>1 DEF TypeOK, Next, Attempt, CopySucceeds, DropRow, Throw, Join, Close, vars
    <2> QED
      BY <2>1, <2>2, <2>3, <2>4, <2>5, <2>6 DEF TypeOK
  <1>3. Spec => [](IInv /\ TypeOK)
    BY <1>1, <1>2, StoreInvariant, PTL DEF Spec
  <1> QED
    BY <1>3, PTL

-----------------------------------------------------------------------------
(* What storeTable promises.                                               *)

(* Once all chunks are joined, what was counted is what was committed and  *)
(* the failed indices are the other rows of the batch.                     *)
LEMMA JoinedIsCommitted ==
  ASSUME IInv, pc \in {"join", "returned"}, joined = ChunkCount
  PROVE  /\ total = Cardinality(committed)
         /\ allFailed = Batch \ committed
  <1>0. ChunkInv /\ CommitInv /\ CallerInv
    BY DEF IInv
  <1>1. /\ \A c \in 1..ChunkCount : status[c] = "stored"
        /\ total = Cardinality(JoinedRows)
        /\ allFailed = UNION {rejected[c] : c \in 1..ChunkCount}
    BY <1>0 DEF CallerInv
  <1>2. committed = JoinedRows
    <2>1. ASSUME NEW r
          PROVE  r \in committed <=> r \in JoinedRows
      <3>1. r \in committed <=> \E c \in 1..ChunkCount : r \in ToSet(remaining[c])
        BY <1>0, <1>1 DEF CommitInv
      <3> QED
        BY <3>1 DEF JoinedRows
    <2> QED
      BY <2>1
  <1>3. ASSUME NEW r \in allFailed
        PROVE  r \in Batch /\ r \notin committed
    <2>1. PICK c \in 1..ChunkCount : r \in rejected[c]
      BY <1>1
    <2> QED
      BY <1>0, <2>1, RejectedNotCommitted DEF ChunkInv
  <1>4. ASSUME NEW r \in Batch, r \notin committed
        PROVE  r \in allFailed
    <2>1. PICK c \in 1..ChunkCount : r \in Rows(c)
      BY <1>0, RowsPartition DEF ChunkInv
    <2>2. r \notin ToSet(remaining[c])
      BY <1>0, <1>1, <1>4 DEF CommitInv
    <2>3. r \in rejected[c]
      BY <1>0, <2>1, <2>2, ChunkFacts
    <2> QED
      BY <1>1, <2>3
  <1> QED
    BY <1>1, <1>2, <1>3, <1>4

(* A returned StoreResult partitions the batch, whatever its size, the     *)
(* number of threads and the faults: stored counts the committed rows and  *)
(* failedIndices names the others.                                         *)
THEOREM ResultIsAPartition == Spec => []ResultPartitions
  <1>1. IInv => ResultPartitions
    BY JoinedIsCommitted DEF IInv, CallerInv, ResultPartitions
  <1> QED
    BY <1>1, StoreInvariant, PTL

(* Up to the first text of a chunk that has a line end, and unless a       *)
(* message quotes a line number, only rows with a fault of their own are   *)
(* rejected, although every retry moves the line numbers.                  *)
THEOREM OnlyFaultyRowsAreRejected == Spec => []OnlyOffendersRejected
  <1>1. ASSUME IInv PROVE OnlyOffendersRejected
    <2> SUFFICES ASSUME NEW c \in DOMAIN rejected, NEW r \in rejected[c],
                        Countable(c, r)
                 PROVE  \/ kind[r] = "bad"
                        \/ \E s \in committed \cup ToSet(remaining[c]) :
                              s # r /\ key[s] = key[r]
      BY DEF OnlyOffendersRejected
    <2>0. ChunkInv /\ CommitInv /\ RejectInv
      BY <1>1 DEF IInv
    <2>1. c \in 1..ChunkCount
      BY <2>0, ChunkFacts
    <2>2. \/ kind[r] = "bad"
          \/ \E s \in committed : key[s] = key[r]
          \/ \E s \in ToSet(remaining[c]) : kind[s] # "bad" /\ key[s] = key[r]
      BY <2>0, <2>1 DEF RejectInv, Deserved
    <2>3. r \notin committed
      BY <2>0, <2>1, RejectedNotCommitted
    <2>4. r \notin ToSet(remaining[c])
      BY <2>0, <2>1, ChunkFacts
    <2> QED
      BY <2>2, <2>3, <2>4
  <1> QED
    BY <1>1, StoreInvariant, PTL

(* A chunk whose thread still copies keeps the call from ending.           *)
LEMMA RunningWhileCopying ==
  ASSUME IInv, NEW c \in DOMAIN status, status[c] = "copying"
  PROVE  ~ Ended
  BY DEF IInv, CallerInv, ThreadsEnded

(* The database and the chunks do not change after the call: the caller's  *)
(* count of rows stays true, and so does the transaction it rolls back.    *)
THEOREM NothingIsCopiedAfterwards == Spec => NothingOutlivesCall
  <1>1. IInv /\ [Next]_vars => [Ended => UNCHANGED <<status, committed>>]_vars
    <2> SUFFICES ASSUME IInv, Next, Ended PROVE UNCHANGED <<status, committed>>
      OBVIOUS
    <2>1. CASE \E c \in DOMAIN status : Attempt(c)
      BY <2>1, RunningWhileCopying DEF Attempt
    <2>2. CASE Join
      BY <2>2 DEF Join
    <2>3. CASE Close
      BY <2>3 DEF Close
    <2> QED
      BY <2>1, <2>2, <2>3 DEF Next
  <1> QED
    BY <1>1, StoreInvariant, PTL DEF Spec, NothingOutlivesCall

-----------------------------------------------------------------------------
(* The refinement.                                                         *)

(* Each step of storeTable is a step of the contract or invisible to it.   *)
LEMMA StepsAreContractSteps ==
  ASSUME IInv, [Next]_vars
  PROVE  [Contract!Next]_<<Batch, committed, outcome, storeResult>>
  <1>0. ChunkInv /\ CommitInv /\ CallerInv
    BY DEF IInv
  <1>1. CASE UNCHANGED vars
    BY <1>1 DEF vars, batchVars, callerVars, Batch, outcome, storeResult, Ended
  <1>2. ASSUME NEW c \in DOMAIN status, Attempt(c)
        PROVE  [Contract!Next]_<<Batch, committed, outcome, storeResult>>
    <2>1. ~ Ended /\ UNCHANGED <<size, pc>> /\ Batch' = Batch /\ c \in 1..ChunkCount
      BY <1>0, <1>2, RunningWhileCopying, BatchStays, ChunkFacts
         DEF Attempt, batchVars, callerVars
    <2>2. outcome = "running" /\ UNCHANGED <<outcome, storeResult>>
      BY <2>1 DEF outcome, storeResult, Ended
    <2>3. UNCHANGED committed \/ CopySucceeds(c)
      BY <1>2 DEF Attempt, DropRow, Throw
    <2>4. CASE UNCHANGED committed
      BY <2>1, <2>2, <2>4
    <2>5. CASE CopySucceeds(c)
      <3>1. committed' = committed \cup ToSet(remaining[c])
        BY <2>5 DEF CopySucceeds
      <3>2. ToSet(remaining[c]) \in SUBSET (Batch \ committed)
        <4>1. ToSet(remaining[c]) \subseteq Rows(c) /\ status[c] = "copying"
          BY <1>0, <1>2, <2>1, ChunkFacts DEF Attempt
        <4>2. \A r \in Rows(c) : r \notin committed
          BY <1>0, <2>1, <4>1, NotYetCommitted
        <4> QED
          BY <4>1, <4>2 DEF Rows
      <3>3. Contract!Commit
        BY <2>1, <2>2, <3>1, <3>2 DEF Contract!Commit
      <3> QED
        BY <3>3 DEF Contract!Next
    <2> QED
      BY <2>3, <2>4, <2>5
  <1>3. CASE Join
    BY <1>3, BatchStays DEF Join, batchVars, outcome, storeResult, Ended
  <1>4. CASE Close
    <2>1. UNCHANGED <<committed, total, allFailed>> /\ Batch' = Batch
      BY <1>4, BatchStays DEF Close, batchVars
    <2>2. CASE pc = "join" /\ joined = Len(remaining) /\ pc' = "returned"
      <3>1. outcome = "running" /\ outcome' = "returned"
        BY <2>2 DEF outcome, Ended
      <3>2. joined = ChunkCount
        BY <1>0, <2>2 DEF ChunkInv
      <3>3. total = Cardinality(committed) /\ allFailed = Batch \ committed
        BY <2>2, <3>2, JoinedIsCommitted
      <3>4. storeResult' = [stored |-> total, failedIndices |-> allFailed]
        BY <2>1, <2>2 DEF storeResult
      <3>5. Contract!Cardinality(committed) = Cardinality(committed)
        BY DEF Contract!Cardinality, Cardinality
      <3>6. Contract!Return
        BY <2>1, <3>1, <3>3, <3>4, <3>5 DEF Contract!Return
      <3> QED
        BY <3>6 DEF Contract!Next
    <2>3. CASE pc = "close" /\ ThreadsEnded /\ pc' = "threw"
      <3>1. outcome = "running" /\ outcome' = "threw" /\ storeResult' = storeResult
        BY <2>3 DEF outcome, storeResult, Ended
      <3>2. Contract!Throw
        BY <2>1, <3>1 DEF Contract!Throw
      <3> QED
        BY <3>2 DEF Contract!Next
    <2> QED
      BY <1>4, <2>2, <2>3 DEF Close
  <1> QED
    BY <1>1, <1>2, <1>3, <1>4 DEF Next

(* storeTable implements StoreContract: chunks, threads, retries and lost  *)
(* futures are invisible to generateTableData.                             *)
THEOREM StoreKeepsContract == Spec => KeepsContract
  <1>1. Init => Contract!Init
    BY DEF Init, Contract!Init, outcome, storeResult, Ended
  <1>2. IInv /\ [Next]_vars => [Contract!Next]_<<Batch, committed, outcome, storeResult>>
    BY StepsAreContractSteps
  <1> QED
    BY <1>1, <1>2, StoreInvariant, PTL DEF Spec, KeepsContract, Contract!Spec
=============================================================================
