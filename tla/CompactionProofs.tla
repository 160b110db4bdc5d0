-------------------------- MODULE CompactionProofs --------------------------
(***************************************************************************)
(* Lemmas on Compact, for sequences of any length.                         *)
(***************************************************************************)
EXTENDS Compaction, NatOrder, FiniteSetTheorems, SequenceTheorems, TLAPS

(* KeptUpTo counts the kept positions up to i: it starts at 0, grows by one  *)
(* at each kept position and stays at the others.                            *)
LEMMA KeptUpToCounts ==
  ASSUME NEW N \in Nat, NEW keep \in SUBSET (1..N)
  PROVE  /\ IsFiniteSet(keep) /\ Cardinality(keep) \in 0..N
         /\ KeptUpTo(keep, 0) = 0
         /\ KeptUpTo(keep, N) = Cardinality(keep)
         /\ \A i \in 0..N : KeptUpTo(keep, i) \in 0..i
         /\ \A i \in 1..N : KeptUpTo(keep, i) =
              IF i \in keep THEN KeptUpTo(keep, i - 1) + 1
              ELSE KeptUpTo(keep, i - 1)
<1> DEFINE Up(i) == {j \in keep : j <= i}
<1>0. \A j \in keep : j \in Int /\ 1 <= j /\ j <= N
  OBVIOUS
<1>1. ASSUME NEW i \in 0..N
      PROVE  IsFiniteSet(Up(i)) /\ KeptUpTo(keep, i) \in 0..i
  <2>1. \A j \in Up(i) : j \in 1..i
    OBVIOUS
  <2>2. IsFiniteSet(1..i) /\ Cardinality(1..i) = i
    BY FS_Interval
  <2>3. IsFiniteSet(Up(i)) /\ Cardinality(Up(i)) <= i
    BY <2>1, <2>2, FS_Subset, Up(i) \in SUBSET (1..i)
  <2>4. Cardinality(Up(i)) \in Nat
    BY <2>3, FS_CardinalityType
  <2> QED
    BY <2>3, <2>4 DEF KeptUpTo
<1>2. Up(N) = keep /\ Up(0) = {}
  <2>1. \A j : j \in Up(N) <=> j \in keep
    BY <1>0
  <2>2. \A j \in keep : ~(j <= 0)
    BY <1>0
  <2> QED
    BY <2>1, <2>2, Zenon
<1>3. IsFiniteSet(keep) /\ Cardinality(keep) \in 0..N
      /\ KeptUpTo(keep, N) = Cardinality(keep) /\ KeptUpTo(keep, 0) = 0
  BY <1>1, <1>2, FS_EmptySet DEF KeptUpTo
<1>4. ASSUME NEW i \in 1..N
      PROVE  KeptUpTo(keep, i) = IF i \in keep THEN KeptUpTo(keep, i - 1) + 1
                                 ELSE KeptUpTo(keep, i - 1)
  <2>1. i - 1 \in 0..N /\ i \notin Up(i - 1)
    OBVIOUS
  <2>2. IsFiniteSet(Up(i - 1)) /\ KeptUpTo(keep, i - 1) \in 0..(i - 1)
    BY <1>1, <2>1, Zenon
  <2>3. \A j \in keep : j <= i <=> j <= i - 1 \/ j = i
    BY <1>0
  <2>4. CASE i \in keep
    <3>1. Up(i) = Up(i - 1) \cup {i}
      BY <2>3, <2>4
    <3> QED
      BY <2>1, <2>2, <2>4, <3>1, FS_AddElement DEF KeptUpTo
  <2>5. CASE i \notin keep
    <3>1. Up(i) = Up(i - 1)
      BY <2>3, <2>5
    <3> QED
      BY <2>5, <3>1 DEF KeptUpTo
  <2> QED
    BY <2>4, <2>5
<1> QED
  BY <1>1, <1>3, <1>4

(* Every count from 1 to the number of kept positions is the count at some   *)
(* kept position.                                                            *)
LEMMA KeptUpToOnto ==
  ASSUME NEW N \in Nat, NEW keep \in SUBSET (1..N),
         NEW n \in 1..Cardinality(keep)
  PROVE  \E i \in keep : KeptUpTo(keep, i) = n
<1> DEFINE T == {i \in 1..N : KeptUpTo(keep, i) >= n}
<1>1. Cardinality(keep) \in 0..N /\ KeptUpTo(keep, N) = Cardinality(keep)
  BY KeptUpToCounts
<1>2. N \in T
  BY <1>1
<1>3. PICK i \in T : \A y \in T : i <= y
  <2>1. T \in SUBSET Nat /\ T # {}
    BY <1>2
  <2> HIDE DEF T
  <2> QED
    BY <2>1, LeastNat
<1>4. KeptUpTo(keep, i - 1) \in Nat /\ KeptUpTo(keep, i - 1) < n
  <2>1. CASE i = 1
    <3>1. KeptUpTo(keep, 0) = 0 /\ i - 1 = 0 /\ n \in Nat /\ n > 0
      BY <1>1, <2>1, KeptUpToCounts
    <3> QED
      BY <3>1
  <2>2. CASE i # 1
    <3>1. i - 1 \in 1..N /\ i - 1 \notin T
      BY <1>3, <2>2
    <3>2. \A k \in 0..N : KeptUpTo(keep, k) \in 0..k
      BY KeptUpToCounts
    <3>3. KeptUpTo(keep, i - 1) \in 0..(i - 1)
      BY <3>1, <3>2
    <3>4. ~(KeptUpTo(keep, i - 1) >= n)
      BY <3>1
    <3> QED
      BY <1>1, <3>1, <3>3, <3>4
  <2> QED
    BY <2>1, <2>2
<1>5. KeptUpTo(keep, i) = IF i \in keep THEN KeptUpTo(keep, i - 1) + 1
                          ELSE KeptUpTo(keep, i - 1)
  BY KeptUpToCounts
<1> QED
  BY <1>4, <1>5

(* The position in q of the n-th entry that Compact(q, keep) keeps.          *)
Kept(keep, n) == CHOOSE i \in keep : KeptUpTo(keep, i) = n

(* Compaction moves no entry backwards, keeps distinct entries distinct and  *)
(* makes the queue no longer.                                                *)
LEMMA CompactKeeps ==
  ASSUME NEW S, NEW q \in Seq(S), NEW keep \in SUBSET (DOMAIN q)
  PROVE  /\ Compact(q, keep) \in Seq(S)
         /\ Len(Compact(q, keep)) <= Len(q)
         /\ \A n \in DOMAIN Compact(q, keep) :
              /\ Kept(keep, n) \in keep
              /\ n <= Kept(keep, n)
              /\ KeptUpTo(keep, Kept(keep, n)) = n
              /\ Compact(q, keep)[n] = q[Kept(keep, n)]
<1> DEFINE N == Len(q)
<1> DEFINE C == Cardinality(keep)
<1>1. N \in Nat /\ DOMAIN q = 1..N /\ keep \in SUBSET (1..N)
  BY LenProperties
<1>2. C \in 0..N
  BY <1>1, KeptUpToCounts
<1>3. ASSUME NEW n \in 1..C
      PROVE  /\ Kept(keep, n) \in keep /\ n <= Kept(keep, n)
             /\ KeptUpTo(keep, Kept(keep, n)) = n
             /\ Compact(q, keep)[n] = q[Kept(keep, n)]
  <2>1. \E i \in keep : KeptUpTo(keep, i) = n
    BY <1>1, KeptUpToOnto
  <2>2. Kept(keep, n) \in keep /\ KeptUpTo(keep, Kept(keep, n)) = n
    BY <2>1 DEF Kept
  <2>3. KeptUpTo(keep, Kept(keep, n)) \in 0..Kept(keep, n)
    BY <1>1, <2>2, KeptUpToCounts
  <2> QED
    BY <1>1, <2>2, <2>3 DEF Compact, Kept
<1>4. \A n \in 1..C : q[Kept(keep, n)] \in S
  BY <1>1, <1>3, ElementOfSeq
<1>5. Compact(q, keep) = [n \in 1..C |-> q[Kept(keep, n)]]
  BY DEF Compact, Kept
<1>6. Compact(q, keep) \in [1..C -> S]
  BY <1>4, <1>5
<1>7. Compact(q, keep) \in Seq(S) /\ Len(Compact(q, keep)) = C
  BY <1>2, <1>5, <1>6, SeqDef, LenProperties
<1>8. DOMAIN Compact(q, keep) = 1..C
  BY <1>5
<1> QED
  BY <1>1, <1>2, <1>3, <1>7, <1>8

(* No two kept positions have the same count.                              *)
LEMMA KeptUpToOne ==
  ASSUME NEW N \in Nat, NEW keep \in SUBSET (1..N), NEW i \in keep, NEW j \in keep,
         KeptUpTo(keep, i) = KeptUpTo(keep, j)
  PROVE  i = j
<1> DEFINE Up(k) == {x \in keep : x <= k}
<1>1. IsFiniteSet(keep)
  BY KeptUpToCounts
<1>2. ASSUME NEW x \in keep, NEW y \in keep, x < y
      PROVE  KeptUpTo(keep, x) < KeptUpTo(keep, y)
  <2>1. \A z \in keep : z \in Int
    OBVIOUS
  <2>2. /\ \A z \in keep : z <= x => z <= y
        /\ y <= y /\ ~(y <= x)
    BY <1>2, <2>1
  <2>3. Up(x) \subseteq Up(y) /\ y \in Up(y) /\ y \notin Up(x)
    BY <2>2, Zenon
  <2>4. IsFiniteSet(Up(y)) /\ IsFiniteSet(Up(x))
    BY <1>1, FS_Subset, Up(y) \subseteq keep, Up(x) \subseteq keep
  <2>5. Cardinality(Up(x)) < Cardinality(Up(y))
    <3>1. /\ Cardinality(Up(x)) \in Nat /\ Cardinality(Up(y)) \in Nat
          /\ Cardinality(Up(x)) <= Cardinality(Up(y))
          /\ Cardinality(Up(x)) = Cardinality(Up(y)) => Up(x) = Up(y)
      BY <2>3, <2>4, FS_Subset, FS_CardinalityType
    <3> QED
      BY <2>3, <3>1
  <2> QED
    BY <2>5 DEF KeptUpTo
<1>3. /\ i \in Int /\ j \in Int
      /\ KeptUpTo(keep, i) \in Nat /\ KeptUpTo(keep, j) \in Nat
  <2>1. i \in 0..N /\ j \in 0..N
    OBVIOUS
  <2>2. \A k \in 0..N : KeptUpTo(keep, k) \in 0..k
    BY KeptUpToCounts
  <2> QED
    BY <2>1, <2>2
<1> QED
  BY <1>2, <1>3

(* No kept entry is lost.                                                  *)
LEMMA CompactAll ==
  ASSUME NEW S, NEW q \in Seq(S), NEW keep \in SUBSET (DOMAIN q), NEW i \in keep
  PROVE  \E n \in DOMAIN Compact(q, keep) : Compact(q, keep)[n] = q[i]
<1>1. Len(q) \in Nat /\ DOMAIN q = 1..Len(q) /\ keep \in SUBSET (1..Len(q))
  BY LenProperties
<1> DEFINE n == KeptUpTo(keep, i)
<1>2. n \in 1..Cardinality(keep)
  <2>1. i \in 1..Len(q)
    BY <1>1
  <2>2. n \in Int /\ 1 <= n
    <3>1. KeptUpTo(keep, i) = KeptUpTo(keep, i - 1) + 1
      BY <1>1, <2>1, KeptUpToCounts
    <3>2. \A k \in 0..Len(q) : KeptUpTo(keep, k) \in 0..k
      BY <1>1, KeptUpToCounts
    <3>3. i - 1 \in 0..Len(q)
      BY <1>1, <2>1
    <3>4. KeptUpTo(keep, i - 1) \in 0..(i - 1)
      BY <3>2, <3>3
    <3> QED
      BY <3>1, <3>4
  <2>3. n <= Cardinality(keep)
    <3>1. IsFiniteSet(keep)
      BY <1>1, KeptUpToCounts
    <3>2. {j \in keep : j <= i} \subseteq keep
      OBVIOUS
    <3> QED
      BY <3>1, <3>2, FS_Subset DEF KeptUpTo
  <2>4. Cardinality(keep) \in Nat
    BY <1>1, KeptUpToCounts
  <2> QED
    BY <2>2, <2>3, <2>4
<1>3. Compact(q, keep)[n] = q[CHOOSE j \in keep : KeptUpTo(keep, j) = n]
      /\ n \in DOMAIN Compact(q, keep)
  BY <1>2 DEF Compact
<1>4. \A j \in keep : KeptUpTo(keep, j) = n => j = i
  BY <1>1, KeptUpToOne
<1>5. (CHOOSE j \in keep : KeptUpTo(keep, j) = n) = i
  BY <1>4
<1> QED
  BY <1>3, <1>5
=============================================================================
