-------------------------- MODULE ModSequenceProofs --------------------------
(***************************************************************************)
(* Proofs about ModSequence, for any UIDs and any number of changes.       *)
(***************************************************************************)
EXTENDS ModSequence, FiniteSetTheorems, FunctionTheorems, SequenceTheorems, TLAPS

-----------------------------------------------------------------------------
(* Places and ranks. *)

\* The ranks of the elements of a set of places are the numbers up to its size,
\* in the order of the places.
LEMMA Ranks ==
    ASSUME NEW N \in Nat, NEW K \in SUBSET (1..N)
    PROVE  /\ IsFiniteSet(K) /\ Cardinality(K) \in Nat
           /\ \A i \in K : Rank(K, i) \in 1..Cardinality(K)
           /\ \A i, j \in K : i < j => Rank(K, i) < Rank(K, j)
           /\ \A k \in 1..Cardinality(K) : \E i \in K : Rank(K, i) = k
<1> DEFINE Upto(i) == {v \in K : v <= i}
<1>1. IsFiniteSet(K) /\ Cardinality(K) \in Nat
  <2>1. IsFiniteSet(1..N)
    BY FS_Interval
  <2>2. IsFiniteSet(K)
    BY <2>1, FS_Subset
  <2> QED  BY <2>2, FS_CardinalityType
<1>2. ASSUME NEW i \in K
      PROVE  IsFiniteSet(Upto(i)) /\ Cardinality(Upto(i)) \in Nat /\ Cardinality(Upto(i)) <= Cardinality(K)
             /\ Cardinality(Upto(i)) # 0
  <2>1. Upto(i) \subseteq K /\ i \in Upto(i)
    OBVIOUS
  <2> HIDE DEF Upto
  <2>2. IsFiniteSet(Upto(i)) /\ Cardinality(Upto(i)) <= Cardinality(K)
    BY <1>1, <2>1, FS_Subset
  <2>3. Upto(i) # {}
    BY <2>1
  <2> QED  BY <2>2, <2>3, FS_CardinalityType, FS_EmptySet
<1>3. \A i \in K : Rank(K, i) \in 1..Cardinality(K)
  BY <1>1, <1>2 DEF Rank
<1>4. ASSUME NEW i \in K, NEW j \in K, i < j
      PROVE  Rank(K, i) < Rank(K, j)
  <2>1. j \notin Upto(i) /\ Upto(i) \cup {j} \subseteq Upto(j)
    <3>1. i \in Int /\ j \in Int /\ \A v \in K : v \in Int
      OBVIOUS
    <3>2. \A v \in K : v <= i => v <= j
      BY <1>4, <3>1
    <3>3. ~ (j <= i) /\ j <= j
      BY <1>4, <3>1
    <3> QED  BY <3>2, <3>3
  <2> HIDE DEF Upto
  <2>2. IsFiniteSet(Upto(i) \cup {j}) /\ Cardinality(Upto(i) \cup {j}) = Cardinality(Upto(i)) + 1
    BY <1>2, <2>1, FS_AddElement
  <2>3. Cardinality(Upto(i) \cup {j}) <= Cardinality(Upto(j))
    BY <1>2, <2>1, FS_Subset
  <2>4. Cardinality(Upto(i)) < Cardinality(Upto(j))
    BY <1>2, <2>2, <2>3
  <2> QED  BY <2>4 DEF Rank, Upto
<1>5. \A k \in 1..Cardinality(K) : \E i \in K : Rank(K, i) = k
  <2> DEFINE f == [i \in K |-> Rank(K, i)]
  <2>1. \A i, j \in K : Rank(K, i) = Rank(K, j) => i = j
    <3> SUFFICES ASSUME NEW i \in K, NEW j \in K, Rank(K, i) = Rank(K, j), i # j PROVE FALSE
      OBVIOUS
    <3>1. i < j \/ j < i
      OBVIOUS
    <3>2. Rank(K, i) \in Int /\ Rank(K, j) \in Int
      BY <1>3
    <3> QED  BY <1>4, <3>1, <3>2
  <2>2. f \in Injection(K, 1..Cardinality(K))
    BY <1>3, <2>1 DEF Injection, IsInjective
  <2>3. IsFiniteSet(1..Cardinality(K)) /\ Cardinality(1..Cardinality(K)) = Cardinality(K)
    BY <1>1, FS_Interval
  <2> HIDE DEF f
  <2>4. f \in Surjection(K, 1..Cardinality(K))
    BY <2>2, <2>3, FS_Injection
  <2> QED  BY <2>4 DEF f, Surjection
<1> QED  BY <1>1, <1>3, <1>4, <1>5

\* An ascending list without some numbers is ascending and has the others.
LEMMA RemovedRight ==
    ASSUME NEW T, NEW list, NEW gone, list \in Seq(T), T \subseteq Nat,
           \A i, j \in DOMAIN list : i < j => list[i] < list[j]
    PROVE  /\ Removed(list, gone) \in Seq(T)
           /\ \A i, j \in DOMAIN Removed(list, gone) :
                 i < j => Removed(list, gone)[i] < Removed(list, gone)[j]
           /\ \A m : m \in Range(Removed(list, gone)) <=> m \in Range(list) /\ m \notin gone
<1> DEFINE K == {i \in DOMAIN list : list[i] \notin gone}
           c == Cardinality(K)
           Place(k) == CHOOSE i \in K : Rank(K, i) = k
           less == Removed(list, gone)
<1>1. Len(list) \in Nat /\ DOMAIN list = 1..Len(list) /\ \A i \in DOMAIN list : list[i] \in T
  BY LenProperties, ElementOfSeq
<1>2. K \in SUBSET (1..Len(list)) /\ \A i \in K : i \in Nat
  BY <1>1
<1>3. /\ c \in Nat /\ \A i \in K : Rank(K, i) \in 1..c
      /\ \A i, j \in K : i < j => Rank(K, i) < Rank(K, j)
      /\ \A k \in 1..c : \E i \in K : Rank(K, i) = k
  <2> HIDE DEF K
  <2> QED  BY <1>1, <1>2, Ranks
<1>4. \A k \in 1..c : Place(k) \in K /\ Rank(K, Place(k)) = k
  BY <1>3
<1>5. less = [k \in 1..c |-> list[Place(k)]]
  BY DEF Removed
<1>6. \A i, j \in K : Rank(K, i) = Rank(K, j) => i = j
  <2> SUFFICES ASSUME NEW i \in K, NEW j \in K, Rank(K, i) = Rank(K, j), i # j PROVE FALSE
    OBVIOUS
  <2>1. i < j \/ j < i
    BY <1>2
  <2>2. Rank(K, i) \in Int /\ Rank(K, j) \in Int
    BY <1>3
  <2> QED  BY <1>3, <2>1, <2>2
<1>7. \A i \in K : list[i] \in T /\ list[i] \notin gone /\ i \in DOMAIN list
  BY <1>1
<1>8. \A i \in DOMAIN list : list[i] \notin gone => i \in K
  OBVIOUS
<1> HIDE DEF K, c, Place, less
<1>9. DOMAIN less = 1..c /\ \A k \in 1..c : less[k] = list[Place(k)]
  BY <1>5
<1>10. less \in Seq(T)
  BY <1>3, <1>4, <1>5, <1>7
<1>11. ASSUME NEW k \in 1..c, NEW m \in 1..c, k < m
       PROVE  less[k] < less[m]
  <2>1. Place(k) \in K /\ Place(m) \in K /\ Rank(K, Place(k)) = k /\ Rank(K, Place(m)) = m
    BY <1>4
  <2>2. Place(k) # Place(m)
    BY <1>11, <2>1
  <2>3. ~ (Place(m) < Place(k))
    BY <1>3, <1>11, <2>1
  <2>4. Place(k) < Place(m)
    <3>1. Place(k) \in Nat /\ Place(m) \in Nat
      BY <1>2, <2>1
    <3> QED  BY <2>2, <2>3, <3>1
  <2>5. list[Place(k)] < list[Place(m)]
    BY <1>7, <2>1, <2>4
  <2> QED  BY <1>9, <2>5
<1>12. \A k \in 1..c : less[k] \notin gone /\ \E i \in DOMAIN list : list[i] = less[k]
  BY <1>4, <1>7, <1>9
<1>13. ASSUME NEW i \in DOMAIN list, list[i] \notin gone
       PROVE  \E k \in 1..c : less[k] = list[i]
  <2>1. i \in K /\ Rank(K, i) \in 1..c
    BY <1>3, <1>8, <1>13
  <2>2. Place(Rank(K, i)) = i
    BY <1>4, <1>6, <2>1
  <2> QED  BY <1>9, <2>1, <2>2
<1>14. \A m : m \in Range(less) <=> m \in Range(list) /\ m \notin gone
  <2>1. \A m : m \in Range(less) <=> \E k \in 1..c : less[k] = m
    BY <1>9 DEF Range
  <2>2. \A m : m \in Range(list) <=> \E i \in DOMAIN list : list[i] = m
    BY DEF Range
  <2>3. \A k \in 1..c : less[k] \in Range(list) /\ less[k] \notin gone
    BY <1>12, <2>2, Zenon
  <2>4. \A m \in Range(list) : m \notin gone => m \in Range(less)
    BY <1>13, <2>1, <2>2, Zenon
  <2> QED  BY <2>1, <2>3, <2>4, Zenon
<1> QED  BY <1>9, <1>10, <1>11, <1>14 DEF less

\* The binary search of an ascending list finds where the numbers from n on begin.
LEMMA BisectRightly ==
    ASSUME NEW list \in Seq(Nat), NEW n \in Nat,
           \A i, j \in DOMAIN list : i < j => list[i] < list[j]
    PROVE  /\ BisectLeft(list, n) \in Nat /\ BisectLeft(list, n) >= 1
           /\ \A i \in DOMAIN list : BisectLeft(list, n) <= i <=> list[i] >= n
<1> DEFINE B == {i \in DOMAIN list : list[i] < n}
<1>1. Len(list) \in Nat /\ DOMAIN list = 1..Len(list) /\ \A i \in DOMAIN list : list[i] \in Nat /\ i \in Nat
  BY LenProperties, ElementOfSeq
<1>2. IsFiniteSet(B) /\ Cardinality(B) \in Nat
  <2>1. IsFiniteSet(1..Len(list)) /\ B \subseteq 1..Len(list)
    BY <1>1, FS_Interval
  <2> HIDE DEF B
  <2>2. IsFiniteSet(B)
    BY <2>1, FS_Subset
  <2> QED  BY <2>2, FS_CardinalityType
<1>3. BisectLeft(list, n) = 1 + Cardinality(B)
  BY DEF BisectLeft
<1>4. ASSUME NEW i \in DOMAIN list, list[i] >= n PROVE Cardinality(B) <= i - 1
  <2>1. B \subseteq 1..(i - 1)
    <3> SUFFICES ASSUME NEW j \in DOMAIN list, list[j] < n PROVE j \in 1..(i - 1)
      OBVIOUS
    <3>1. j # i /\ ~ (i < j)
      BY <1>1, <1>4
    <3> QED  BY <1>1, <3>1
  <2>2. IsFiniteSet(1..(i - 1)) /\ Cardinality(1..(i - 1)) = i - 1
    <3>1. 1 \in Int /\ i - 1 \in Int /\ i >= 1
      BY <1>1
    <3> DEFINE b == i - 1
    <3>2. b \in Int
      BY <3>1
    <3> HIDE DEF b
    <3>3. IsFiniteSet(1..b) /\ Cardinality(1..b) = IF 1 > b THEN 0 ELSE b - 1 + 1
      BY <3>2, FS_Interval
    <3>4. b >= 0
      BY <3>1 DEF b
    <3>5. Cardinality(1..b) = b
      BY <3>2, <3>3, <3>4
    <3> QED  BY <3>3, <3>5 DEF b
  <2> HIDE DEF B
  <2> QED  BY <2>1, <2>2, FS_Subset
<1>5. ASSUME NEW i \in DOMAIN list, list[i] < n PROVE i <= Cardinality(B)
  <2>1. 1..i \subseteq B
    <3> SUFFICES ASSUME NEW j \in 1..i PROVE j \in DOMAIN list /\ list[j] < n
      OBVIOUS
    <3>1. j \in DOMAIN list /\ (j = i \/ j < i)
      BY <1>1
    <3>2. j < i => list[j] < list[i]
      BY <3>1
    <3> QED  BY <1>1, <1>5, <3>1, <3>2
  <2>2. Cardinality(1..i) = i
    BY <1>1, FS_Interval
  <2> HIDE DEF B
  <2> QED  BY <1>2, <2>1, <2>2, FS_Subset
<1>6. \A i \in DOMAIN list : list[i] >= n \/ list[i] < n
  BY <1>1
<1> HIDE DEF B
<1> QED  BY <1>1, <1>2, <1>3, <1>4, <1>5, <1>6

-----------------------------------------------------------------------------
(* One call of update() or expunge(). *)

\* What is left of a dictionary, under the numbers that still have a UID.
LEMMA WithoutPrevHolds ==
    ASSUME MappingInv, NEW S \in SUBSET Uid, Renumber(S), NEW data, Holds(data)
    PROVE  LET left == WithoutPrev(S, data)
           IN  /\ DOMAIN left = DOMAIN data \ Emptied(S, data)
               /\ DOMAIN left \subseteq 1..highest
               /\ \A n \in DOMAIN left : left[n] = {u \in Uid : uids'[u] = n}
               /\ \A u \in Uid \ S : uids[u] \in DOMAIN data => uids[u] \in DOMAIN left
<1> DEFINE left == WithoutPrev(S, data)
<1>1. /\ uids \in [Uid -> Nat] /\ highest \in Nat
      /\ uids' = [u \in Uid |-> IF u \in S THEN highest + 1 ELSE uids[u]]
  BY DEF MappingInv, TypeOK, Renumber
<1>2. /\ DOMAIN left = DOMAIN data \ Emptied(S, data)
      /\ \A n \in DOMAIN left : left[n] = {u \in data[n] : ~(u \in S /\ uids[u] = n)}
  BY DEF WithoutPrev
<1>3. DOMAIN data \subseteq 1..highest /\ \A n \in DOMAIN data : data[n] = {u \in Uid : uids[u] = n}
  BY DEF Holds
<1> HIDE DEF left
<1>4. DOMAIN left \subseteq 1..highest /\ DOMAIN left \subseteq DOMAIN data
  BY <1>2, <1>3
<1>5. ASSUME NEW n \in DOMAIN left PROVE left[n] = {u \in Uid : uids'[u] = n}
  <2>1. n \in DOMAIN data /\ n # highest + 1
    BY <1>1, <1>4
  <2>2. left[n] = {u \in Uid : uids[u] = n /\ u \notin S}
    BY <1>2, <1>3, <2>1
  <2>3. \A u \in Uid : uids'[u] = n <=> uids[u] = n /\ u \notin S
    BY <1>1, <2>1
  <2> QED  BY <2>2, <2>3
<1>6. ASSUME NEW u \in Uid \ S, uids[u] \in DOMAIN data PROVE uids[u] \in DOMAIN left
  <2>1. u \in data[uids[u]]
    BY <1>3, <1>6
  <2>2. uids[u] \notin Emptied(S, data)
    BY <2>1 DEF Emptied
  <2> QED  BY <1>2, <1>6, <2>2
<1> QED  BY <1>2, <1>4, <1>5, <1>6 DEF left

\* The dictionary that has the new entry, and the other.
LEMMA Renumbered ==
    ASSUME MappingInv, NEW S \in SUBSET Uid, Renumber(S),
           NEW data, NEW other, Holds(data), Holds(other), DOMAIN data \cap DOMAIN other = {},
           Range(modSeqsOrder) = DOMAIN data \cup DOMAIN other,
           Emptied(S, updates) \cup Emptied(S, expunges) = Emptied(S, data) \cup Emptied(S, other),
           NEW new, new = WithEntry(WithoutPrev(S, data), highest + 1, S),
           NEW left, left = WithoutPrev(S, other)
    PROVE  /\ highest' = highest + 1 /\ highest' \in 1..MaxModSeq /\ uids' \in [Uid -> 0..MaxModSeq]
           /\ highest' \in DOMAIN new /\ DOMAIN new \subseteq 1..highest' /\ DOMAIN left \subseteq 1..highest
           /\ \A m \in DOMAIN new : new[m] = {u \in Uid : uids'[u] = m}
           /\ \A m \in DOMAIN left : left[m] = {u \in Uid : uids'[u] = m}
           /\ \A u \in S : uids'[u] = highest'
           /\ \A u \in Uid \ S : /\ uids'[u] = uids[u]
                                 /\ uids[u] \in DOMAIN data <=> uids[u] \in DOMAIN new
                                 /\ uids[u] \in DOMAIN other <=> uids[u] \in DOMAIN left
           /\ modSeqsOrder' \in Seq(1..MaxModSeq)
           /\ \A i, j \in DOMAIN modSeqsOrder' : i < j => modSeqsOrder'[i] < modSeqsOrder'[j]
           /\ Range(modSeqsOrder') = DOMAIN new \cup DOMAIN left
           /\ DOMAIN new \cap DOMAIN left = {}
<1> DEFINE n == highest + 1
           kept == WithoutPrev(S, data)
           gone == Emptied(S, data) \cup Emptied(S, other)
           list == Append(modSeqsOrder, n)
<1>1. /\ uids \in [Uid -> 0..MaxModSeq] /\ highest \in Nat /\ modSeqsOrder \in Seq(1..MaxModSeq)
      /\ highest < MaxModSeq /\ highest' = n /\ MaxModSeq \in Nat
      /\ uids' = [u \in Uid |-> IF u \in S THEN n ELSE uids[u]]
      /\ modSeqsOrder' = Removed(list, gone)
  <2>1. modSeqsOrder' = Removed(list, Emptied(S, updates) \cup Emptied(S, expunges))
    BY DEF Renumber
  <2>2. /\ highest < MaxModSeq /\ highest' = n
        /\ uids' = [u \in Uid |-> IF u \in S THEN n ELSE uids[u]]
    BY DEF Renumber
  <2>3. uids \in [Uid -> 0..MaxModSeq] /\ highest \in Nat /\ modSeqsOrder \in Seq(1..MaxModSeq)
    BY LogAssumption DEF MappingInv, TypeOK
  <2> QED  BY <2>1, <2>2, <2>3, LogAssumption
<1>2. /\ DOMAIN kept = DOMAIN data \ Emptied(S, data) /\ DOMAIN kept \subseteq 1..highest
      /\ \A m \in DOMAIN kept : kept[m] = {u \in Uid : uids'[u] = m}
      /\ \A u \in Uid \ S : uids[u] \in DOMAIN data => uids[u] \in DOMAIN kept
  BY WithoutPrevHolds
<1>3. /\ DOMAIN left = DOMAIN other \ Emptied(S, other) /\ DOMAIN left \subseteq 1..highest
      /\ \A m \in DOMAIN left : left[m] = {u \in Uid : uids'[u] = m}
      /\ \A u \in Uid \ S : uids[u] \in DOMAIN other => uids[u] \in DOMAIN left
  BY WithoutPrevHolds
<1>4. DOMAIN new = DOMAIN kept \cup {n} /\ new[n] = S /\ \A m \in DOMAIN kept \ {n} : new[m] = kept[m]
  BY DEF WithEntry, kept
<1>5. Emptied(S, data) \subseteq DOMAIN data /\ Emptied(S, other) \subseteq DOMAIN other
      /\ DOMAIN data \subseteq 1..highest /\ DOMAIN other \subseteq 1..highest
      /\ \A u \in Uid : uids[u] <= highest /\ uids[u] \in Nat
  <2>1. \A u \in Uid : uids[u] = 0 \/ uids[u] \in DOMAIN data \cup DOMAIN other
    BY DEF MappingInv, OrderListsTheNumbers
  <2> QED  BY <1>1, <2>1 DEF Emptied, Holds
<1> HIDE DEF kept, gone, list
<1>6. n \in 1..MaxModSeq /\ n \notin 1..highest /\ 1..highest \subseteq 1..n
  BY <1>1
<1>7. uids' \in [Uid -> 0..MaxModSeq] /\ (\A u \in S : uids'[u] = n) /\ \A u \in Uid \ S : uids'[u] = uids[u]
  BY <1>1
<1>8. \A m \in DOMAIN new : new[m] = {u \in Uid : uids'[u] = m}
  <2>1. S = {u \in Uid : uids'[u] = n}
    <3>1. \A u \in Uid \ S : uids'[u] # n
      BY <1>1, <1>5, <1>7
    <3> QED  BY <1>7, <3>1
  <2> QED  BY <1>2, <1>4, <2>1
<1>9. ASSUME NEW u \in Uid \ S
      PROVE  /\ uids[u] \in DOMAIN data <=> uids[u] \in DOMAIN new
             /\ uids[u] \in DOMAIN other <=> uids[u] \in DOMAIN left
  <2>1. uids[u] # n
    BY <1>1, <1>5
  <2> QED  BY <1>2, <1>3, <1>4, <2>1
<1>10. DOMAIN new \cap DOMAIN left = {}
  BY <1>2, <1>3, <1>4, <1>6
<1>11. /\ list \in Seq(1..MaxModSeq)
       /\ \A i, j \in DOMAIN list : i < j => list[i] < list[j]
       /\ Range(list) = DOMAIN data \cup DOMAIN other \cup {n}
  <2>1. /\ list \in Seq(1..MaxModSeq) /\ Len(list) = Len(modSeqsOrder) + 1 /\ Len(modSeqsOrder) \in Nat
        /\ DOMAIN modSeqsOrder = 1..Len(modSeqsOrder) /\ DOMAIN list = 1..(Len(modSeqsOrder) + 1)
        /\ \A i \in 1..Len(modSeqsOrder) : list[i] = modSeqsOrder[i]
        /\ list[Len(modSeqsOrder) + 1] = n
    BY <1>1, <1>6, AppendProperties, LenProperties DEF list
  <2>2. \A i \in DOMAIN modSeqsOrder : modSeqsOrder[i] \in 1..highest
    BY <1>5 DEF Range
  <2>3. \A i, j \in DOMAIN modSeqsOrder : i < j => modSeqsOrder[i] < modSeqsOrder[j]
    BY DEF MappingInv, OrderListsTheNumbers
  <2>4. ASSUME NEW i \in DOMAIN list, NEW j \in DOMAIN list, i < j PROVE list[i] < list[j]
    <3>1. i \in DOMAIN modSeqsOrder
      BY <2>1, <2>4
    <3>2. CASE j \in DOMAIN modSeqsOrder
      BY <2>1, <2>3, <2>4, <3>1, <3>2
    <3>3. CASE j = Len(modSeqsOrder) + 1
      BY <1>1, <2>1, <2>2, <3>1, <3>3
    <3> QED  BY <2>1, <3>2, <3>3
  <2>5. Range(list) = Range(modSeqsOrder) \cup {n}
    <3>1. DOMAIN list = DOMAIN modSeqsOrder \cup {Len(modSeqsOrder) + 1}
      BY <2>1
    <3> QED  BY <2>1, <3>1 DEF Range
  <2> QED  BY <2>1, <2>4, <2>5
<1>12. /\ modSeqsOrder' \in Seq(1..MaxModSeq)
       /\ \A i, j \in DOMAIN modSeqsOrder' : i < j => modSeqsOrder'[i] < modSeqsOrder'[j]
       /\ Range(modSeqsOrder') = Range(list) \ gone
  <2> DEFINE T == 1..MaxModSeq
  <2>1. list \in Seq(T) /\ T \subseteq Nat /\ \A i, j \in DOMAIN list : i < j => list[i] < list[j]
    BY <1>11
  <2>2. modSeqsOrder' = Removed(list, gone)
    BY <1>1
  <2> HIDE DEF T
  <2>3. /\ Removed(list, gone) \in Seq(T)
        /\ \A i, j \in DOMAIN Removed(list, gone) :
              i < j => Removed(list, gone)[i] < Removed(list, gone)[j]
        /\ \A m : m \in Range(Removed(list, gone)) <=> m \in Range(list) /\ m \notin gone
    BY <2>1, RemovedRight
  <2> QED  BY <2>2, <2>3 DEF T
<1>13. (DOMAIN data \cup DOMAIN other \cup {n}) \ gone = DOMAIN new \cup DOMAIN left
  <2>1. n \notin gone
    BY <1>5, <1>6 DEF gone
  <2> QED  BY <1>2, <1>3, <1>4, <1>5, <2>1 DEF gone
<1>14. n \in DOMAIN new /\ DOMAIN new \subseteq 1..n
  BY <1>2, <1>4, <1>6
<1>15. highest' = highest + 1 /\ highest' \in 1..MaxModSeq /\ highest' \in DOMAIN new /\ DOMAIN new \subseteq 1..highest'
       /\ \A u \in S : uids'[u] = highest'
  BY <1>1, <1>6, <1>7, <1>14
<1>16. Range(modSeqsOrder') = DOMAIN new \cup DOMAIN left
  BY <1>11, <1>12, <1>13, Zenon
<1>17. \A u \in Uid \ S : /\ uids'[u] = uids[u]
                          /\ uids[u] \in DOMAIN data <=> uids[u] \in DOMAIN new
                          /\ uids[u] \in DOMAIN other <=> uids[u] \in DOMAIN left
  BY <1>7, <1>9
<1>18. uids' \in [Uid -> 0..MaxModSeq] /\ DOMAIN left \subseteq 1..highest
       /\ \A m \in DOMAIN left : left[m] = {u \in Uid : uids'[u] = m}
  BY <1>3, <1>7
<1>19. /\ modSeqsOrder' \in Seq(1..MaxModSeq)
       /\ \A i, j \in DOMAIN modSeqsOrder' : i < j => modSeqsOrder'[i] < modSeqsOrder'[j]
  BY <1>12
<1> HIDE DEF n
<1> QED  BY <1>8, <1>10, <1>15, <1>16, <1>17, <1>18, <1>19, Zenon

LEMMA UpdateStep ==
    ASSUME MappingInv, NEW S \in SUBSET Uid, Update(S)
    PROVE  /\ MappingInv' /\ highest' = highest + 1 /\ highest < MaxModSeq
           /\ \A u \in S : uids'[u] = highest + 1 /\ KindOf(u)' = "update"
           /\ \A u \in Uid \ S : uids'[u] = uids[u] /\ KindOf(u)' = KindOf(u)
<1>1. /\ Holds(updates) /\ Holds(expunges) /\ DOMAIN updates \cap DOMAIN expunges = {}
      /\ Range(modSeqsOrder) = DOMAIN updates \cup DOMAIN expunges
  BY DEF MappingInv, OrderListsTheNumbers
<1>2. /\ Renumber(S) /\ highest < MaxModSeq /\ highest \in Nat
      /\ updates' = WithEntry(WithoutPrev(S, updates), highest + 1, S) /\ expunges' = WithoutPrev(S, expunges)
  BY DEF Update, Renumber, MappingInv, TypeOK
<1>3. Emptied(S, updates) \cup Emptied(S, expunges) = Emptied(S, updates) \cup Emptied(S, expunges)
      /\ DOMAIN updates \cap DOMAIN expunges = {}
      /\ Range(modSeqsOrder) = DOMAIN updates \cup DOMAIN expunges
  BY <1>1, Zenon
<1>4. /\ highest' = highest + 1 /\ highest' \in 1..MaxModSeq /\ uids' \in [Uid -> 0..MaxModSeq]
      /\ highest' \in DOMAIN updates' /\ DOMAIN updates' \subseteq 1..highest' /\ DOMAIN expunges' \subseteq 1..highest
      /\ \A m \in DOMAIN updates' : updates'[m] = {u \in Uid : uids'[u] = m}
      /\ \A m \in DOMAIN expunges' : expunges'[m] = {u \in Uid : uids'[u] = m}
      /\ \A u \in S : uids'[u] = highest'
      /\ \A u \in Uid \ S : /\ uids'[u] = uids[u]
                            /\ uids[u] \in DOMAIN updates <=> uids[u] \in DOMAIN updates'
                            /\ uids[u] \in DOMAIN expunges <=> uids[u] \in DOMAIN expunges'
      /\ modSeqsOrder' \in Seq(1..MaxModSeq)
      /\ \A i, j \in DOMAIN modSeqsOrder' : i < j => modSeqsOrder'[i] < modSeqsOrder'[j]
      /\ Range(modSeqsOrder') = DOMAIN updates' \cup DOMAIN expunges'
      /\ DOMAIN updates' \cap DOMAIN expunges' = {}
  BY <1>1, <1>2, <1>3, Renumbered
<1>5. 1..highest \subseteq 1..highest' /\ 1..highest' \subseteq 1..MaxModSeq /\ highest' \in 0..MaxModSeq
  BY <1>2, <1>4, LogAssumption
<1>6. Holds(updates)' /\ Holds(expunges)'
  BY <1>4, <1>5 DEF Holds
<1>7. TypeOK'
  BY <1>4, <1>5 DEF TypeOK
<1>8. OrderListsTheNumbers'
  BY <1>4 DEF OrderListsTheNumbers
<1>9. \A u \in Uid : uids'[u] # 0 => uids'[u] \in DOMAIN updates' \cup DOMAIN expunges'
  <2>1. \A u \in Uid : uids[u] # 0 => uids[u] \in DOMAIN updates \cup DOMAIN expunges
    BY DEF MappingInv
  <2> QED  BY <1>4, <2>1
<1>10. \A u \in S : KindOf(u)' = "update"
  <2>1. highest' # 0 /\ highest' \notin DOMAIN expunges'
    BY <1>2, <1>4
  <2> QED  BY <1>4, <2>1 DEF KindOf
<1>11. \A u \in Uid \ S : KindOf(u)' = KindOf(u)
  BY <1>4 DEF KindOf
<1> QED  BY <1>2, <1>4, <1>6, <1>7, <1>8, <1>9, <1>10, <1>11 DEF MappingInv

LEMMA ExpungeStep ==
    ASSUME MappingInv, NEW S \in SUBSET Uid, Expunge(S)
    PROVE  /\ MappingInv' /\ highest' = highest + 1 /\ highest < MaxModSeq
           /\ \A u \in S : uids'[u] = highest + 1 /\ KindOf(u)' = "expunge"
           /\ \A u \in Uid \ S : uids'[u] = uids[u] /\ KindOf(u)' = KindOf(u)
<1>1. /\ Holds(updates) /\ Holds(expunges) /\ DOMAIN updates \cap DOMAIN expunges = {}
      /\ Range(modSeqsOrder) = DOMAIN updates \cup DOMAIN expunges
  BY DEF MappingInv, OrderListsTheNumbers
<1>2. /\ Renumber(S) /\ highest < MaxModSeq /\ highest \in Nat
      /\ expunges' = WithEntry(WithoutPrev(S, expunges), highest + 1, S) /\ updates' = WithoutPrev(S, updates)
  BY DEF Expunge, Renumber, MappingInv, TypeOK
<1>3. Emptied(S, updates) \cup Emptied(S, expunges) = Emptied(S, expunges) \cup Emptied(S, updates)
      /\ DOMAIN expunges \cap DOMAIN updates = {}
      /\ Range(modSeqsOrder) = DOMAIN expunges \cup DOMAIN updates
  BY <1>1, Zenon
<1>4. /\ highest' = highest + 1 /\ highest' \in 1..MaxModSeq /\ uids' \in [Uid -> 0..MaxModSeq]
      /\ highest' \in DOMAIN expunges' /\ DOMAIN expunges' \subseteq 1..highest' /\ DOMAIN updates' \subseteq 1..highest
      /\ \A m \in DOMAIN expunges' : expunges'[m] = {u \in Uid : uids'[u] = m}
      /\ \A m \in DOMAIN updates' : updates'[m] = {u \in Uid : uids'[u] = m}
      /\ \A u \in S : uids'[u] = highest'
      /\ \A u \in Uid \ S : /\ uids'[u] = uids[u]
                            /\ uids[u] \in DOMAIN expunges <=> uids[u] \in DOMAIN expunges'
                            /\ uids[u] \in DOMAIN updates <=> uids[u] \in DOMAIN updates'
      /\ modSeqsOrder' \in Seq(1..MaxModSeq)
      /\ \A i, j \in DOMAIN modSeqsOrder' : i < j => modSeqsOrder'[i] < modSeqsOrder'[j]
      /\ Range(modSeqsOrder') = DOMAIN expunges' \cup DOMAIN updates'
      /\ DOMAIN expunges' \cap DOMAIN updates' = {}
  BY <1>1, <1>2, <1>3, Renumbered
<1>5. 1..highest \subseteq 1..highest' /\ 1..highest' \subseteq 1..MaxModSeq /\ highest' \in 0..MaxModSeq
  BY <1>2, <1>4, LogAssumption
<1>6. Holds(updates)' /\ Holds(expunges)'
  BY <1>4, <1>5 DEF Holds
<1>7. TypeOK'
  BY <1>4, <1>5 DEF TypeOK
<1>8. OrderListsTheNumbers'
  BY <1>4 DEF OrderListsTheNumbers
<1>9. \A u \in Uid : uids'[u] # 0 => uids'[u] \in DOMAIN updates' \cup DOMAIN expunges'
  <2>1. \A u \in Uid : uids[u] # 0 => uids[u] \in DOMAIN updates \cup DOMAIN expunges
    BY DEF MappingInv
  <2> QED  BY <1>4, <2>1
<1>10. \A u \in S : KindOf(u)' = "expunge"
  <2>1. highest' # 0 /\ highest' \notin DOMAIN updates'
    BY <1>2, <1>4
  <2> QED  BY <1>4, <2>1 DEF KindOf
<1>11. \A u \in Uid \ S : KindOf(u)' = KindOf(u)
  BY <1>4 DEF KindOf
<1> QED  BY <1>2, <1>4, <1>6, <1>7, <1>8, <1>9, <1>10, <1>11 DEF MappingInv

-----------------------------------------------------------------------------
(* The theorems. *)

LEMMA MappingStarts == Init => MappingInv
<1> SUFFICES ASSUME Init PROVE MappingInv
  OBVIOUS
<1>1. DOMAIN updates = {} /\ DOMAIN expunges = {} /\ modSeqsOrder = << >> /\ uids = [u \in Uid |-> 0] /\ highest = 0
  BY DEF Init
<1>2. TypeOK
  <2>1. 0 \in 0..MaxModSeq
    BY LogAssumption
  <2> QED  BY <1>1, <2>1 DEF TypeOK
<1>3. OrderListsTheNumbers
  BY <1>1 DEF OrderListsTheNumbers, Range
<1> QED  BY <1>1, <1>2, <1>3 DEF MappingInv, Holds

LEMMA MappingStep == MappingInv /\ [Next]_vars => MappingInv'
<1>1. ASSUME MappingInv, UNCHANGED vars PROVE MappingInv'
  BY <1>1 DEF vars, MappingInv, TypeOK, OrderListsTheNumbers, Holds
<1> QED  BY <1>1, UpdateStep, ExpungeStep DEF Next

LEMMA MappingAlways == Spec => []MappingInv
  BY MappingStarts, MappingStep, PTL DEF Spec

\* The list that find_updated searches is ascending, and has the numbers of the
\* two dictionaries and no other, whatever sets of UIDs are recorded in which order.
THEOREM OrderCorrect == Spec => []OrderListsTheNumbers
<1>1. MappingInv => OrderListsTheNumbers
  BY DEF MappingInv
<1> QED  BY <1>1, MappingAlways, PTL

\* What a session is told to have changed since a number is what has changed since.
THEOREM SinceCorrect == Spec => []FindUpdatedIsSince
<1>1. ASSUME MappingInv, NEW n \in 0..highest, NEW data, Holds(data),
             DOMAIN data \subseteq Range(modSeqsOrder)
      PROVE  FindIn(data, n) = {u \in Uid : uids[u] >= n /\ uids[u] \in DOMAIN data}
  <2> DEFINE order == modSeqsOrder
             found == {j \in BisectLeft(order, n)..Len(order) : order[j] \in DOMAIN data}
  <2>1. /\ order \in Seq(1..MaxModSeq) /\ order \in Seq(Nat) /\ n \in Nat /\ uids \in [Uid -> Nat]
        /\ \A i, j \in DOMAIN order : i < j => order[i] < order[j]
    <3>1. order \in Seq(1..MaxModSeq) /\ 1..MaxModSeq \subseteq Nat
      BY <1>1, LogAssumption DEF MappingInv, TypeOK
    <3>2. order \in Seq(Nat)
      BY <3>1, SeqMonotonic
    <3> QED  BY <1>1, <3>1, <3>2 DEF MappingInv, TypeOK, OrderListsTheNumbers
  <2>2. /\ BisectLeft(order, n) \in Nat /\ BisectLeft(order, n) >= 1
        /\ \A i \in DOMAIN order : BisectLeft(order, n) <= i <=> order[i] >= n
    <3> HIDE DEF order
    <3> QED  BY <2>1, BisectRightly
  <2>3. Len(order) \in Nat /\ DOMAIN order = 1..Len(order)
    BY <2>1, LenProperties
  <2>4. \A j \in found : j \in DOMAIN order /\ order[j] >= n /\ order[j] \in DOMAIN data
    BY <2>2, <2>3
  <2>5. \A j \in DOMAIN order : order[j] >= n /\ order[j] \in DOMAIN data => j \in found
    BY <2>2, <2>3
  <2>6. FindIn(data, n) = UNION {data[order[j]] : j \in found}
    BY DEF FindIn
  <2>7. \A m \in DOMAIN data : data[m] = {u \in Uid : uids[u] = m}
    BY <1>1 DEF Holds
  <2>8. \A m \in DOMAIN data : \E j \in DOMAIN order : order[j] = m
    BY <1>1 DEF Range
  <2> HIDE DEF found, order
  <2>9. ASSUME NEW u PROVE u \in FindIn(data, n) <=> u \in Uid /\ uids[u] >= n /\ uids[u] \in DOMAIN data
    <3>1. u \in FindIn(data, n) <=> \E j \in found : u \in data[order[j]]
      BY <2>6, Zenon
    <3>2. ASSUME NEW j \in found, u \in data[order[j]]
          PROVE  u \in Uid /\ uids[u] >= n /\ uids[u] \in DOMAIN data
      <4>1. order[j] >= n /\ order[j] \in DOMAIN data
        BY <2>4
      <4>2. u \in {v \in Uid : uids[v] = order[j]}
        BY <2>7, <3>2, <4>1
      <4> QED  BY <4>1, <4>2
    <3>3. ASSUME u \in Uid, uids[u] >= n, uids[u] \in DOMAIN data
          PROVE  \E j \in found : u \in data[order[j]]
      <4>1. PICK j \in DOMAIN order : order[j] = uids[u]
        BY <2>8, <3>3
      <4>2. j \in found
        BY <2>5, <3>3, <4>1
      <4>3. u \in data[order[j]]
        BY <2>7, <3>3, <4>1
      <4> QED  BY <4>2, <4>3
    <3> QED  BY <3>1, <3>2, <3>3
  <2> QED  BY <2>9
<1>2. ASSUME MappingInv, NEW n \in 0..highest
      PROVE  /\ FindIn(updates, n) = {u \in Uid : uids[u] >= n /\ KindOf(u) = "update"}
             /\ FindIn(expunges, n) = {u \in Uid : uids[u] >= n /\ KindOf(u) = "expunge"}
  <2>1. /\ Holds(updates) /\ Holds(expunges) /\ DOMAIN updates \cap DOMAIN expunges = {}
        /\ Range(modSeqsOrder) = DOMAIN updates \cup DOMAIN expunges
        /\ \A u \in Uid : uids[u] # 0 => uids[u] \in DOMAIN updates \cup DOMAIN expunges
    BY <1>2 DEF MappingInv, OrderListsTheNumbers
  <2>2. /\ FindIn(updates, n) = {u \in Uid : uids[u] >= n /\ uids[u] \in DOMAIN updates}
        /\ FindIn(expunges, n) = {u \in Uid : uids[u] >= n /\ uids[u] \in DOMAIN expunges}
    BY <1>1, <1>2, <2>1
  <2>3. 0 \notin DOMAIN updates /\ 0 \notin DOMAIN expunges
    BY <2>1 DEF Holds
  <2>4. \A u \in Uid : /\ KindOf(u) = "update" <=> uids[u] \in DOMAIN updates
                       /\ KindOf(u) = "expunge" <=> uids[u] \in DOMAIN expunges
    BY <2>1, <2>3 DEF KindOf
  <2> QED  BY <2>2, <2>4
<1>3. MappingInv => FindUpdatedIsSince
  BY <1>2 DEF FindUpdatedIsSince
<1> QED  BY <1>3, MappingAlways, PTL

\* The two dictionaries and the list implement the change log of ChangeLogSpec:
\* what DictMailbox uses in their place is what they do.
THEOREM MappingImplementsChangeLog == Spec => ImplementsChangeLog
<1> DEFINE log == [highest |-> highest, last |-> [u \in Uid |-> [seq |-> uids[u], kind |-> KindOf(u)]]]
<1>1. Init => Abstract!Init
  BY DEF Init, KindOf, Abstract!Init, Abstract!EmptyLog, Abstract!Uid, Uid
<1>2. ASSUME MappingInv, NEW S \in SUBSET Uid, NEW kind \in {"update", "expunge"},
             highest' = highest + 1, highest < MaxModSeq,
             \A u \in S : uids'[u] = highest + 1 /\ KindOf(u)' = kind,
             \A u \in Uid \ S : uids'[u] = uids[u] /\ KindOf(u)' = KindOf(u)
      PROVE  Abstract!Next
  <2>1. [u \in Uid |-> [seq |-> uids[u], kind |-> KindOf(u)]]'
          = [u \in Uid |-> IF u \in S THEN [seq |-> highest + 1, kind |-> kind]
                                     ELSE [seq |-> uids[u], kind |-> KindOf(u)]]
    BY <1>2
  <2>2. log' = Abstract!Record(log, S, kind)
    BY <1>2, <2>1 DEF Abstract!Record, Abstract!Uid, Uid
  <2> QED  BY <1>2, <2>2 DEF Abstract!Next, Abstract!Uid, Uid
<1>3. MappingInv /\ [Next]_vars => [Abstract!Next]_log
  <2> SUFFICES ASSUME MappingInv, [Next]_vars PROVE [Abstract!Next]_log
    OBVIOUS
  <2>1. CASE UNCHANGED vars
    BY <2>1 DEF vars, KindOf
  <2>2. ASSUME NEW S \in SUBSET Uid, Update(S) PROVE Abstract!Next
    BY <1>2, <2>2, UpdateStep
  <2>3. ASSUME NEW S \in SUBSET Uid, Expunge(S) PROVE Abstract!Next
    BY <1>2, <2>3, ExpungeStep
  <2> QED  BY <2>1, <2>2, <2>3 DEF Next
<1> QED  BY <1>1, <1>3, MappingAlways, PTL DEF Spec, ImplementsChangeLog, Abstract!Spec

=============================================================================
