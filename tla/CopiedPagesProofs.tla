-------------------------- MODULE CopiedPagesProofs --------------------------
(***************************************************************************)
(* Proofs about InMemorySortedPage and CopiedPages, for every set of       *)
(* tuples and keys and every page size.  That the slots in use and those   *)
(* on the free list are distinct and dense, and that the multiset is       *)
(* sorted, are inductive together: a tuple is written into a slot that     *)
(* none in use refers to, so those in use keep their order and the         *)
(* multiset finds the right place for the new one.                         *)
(*                                                                         *)
(* The lemmas are about a buffer b, a sequence s of slots in use and a     *)
(* free list f, so that they serve for the original and for the copy.      *)
(***************************************************************************)
EXTENDS CopiedPages, SequenceLemmas, TLAPS

-----------------------------------------------------------------------------
(***************************************************************************)
(* One page: s and f are what its multiset and its free list refer to.     *)
(***************************************************************************)
Buffer(b) == b \in [Slots -> Tuples \cup {Zeros}]

Partition(s, f) ==
  /\ s \in Seq(Slots) /\ f \in Seq(Slots)
  /\ \A i, j \in 1..Len(s) : s[i] = s[j] => i = j
  /\ \A i, j \in 1..Len(f) : f[i] = f[j] => i = j
  /\ \A i \in 1..Len(s), j \in 1..Len(f) : s[i] # f[j]
  /\ \A i \in 1..Len(s) : s[i] < Len(s) + Len(f)
  /\ \A j \in 1..Len(f) : f[j] < Len(s) + Len(f)
  /\ \A x \in 0..(Len(s) + Len(f) - 1) :
       (\E i \in 1..Len(s) : s[i] = x) \/ (\E j \in 1..Len(f) : f[j] = x)

Sorted(b, s) == \A i, j \in 1..Len(s) : i < j => b[s[i]] <= b[s[j]]

PageInv(b, s, f) == Buffer(b) /\ Partition(s, f) /\ Sorted(b, s)

\* what AddTuple chooses: a slot, and a place among the tuples
SlotFor(s, f) == IF f # <<>> THEN Last(f) ELSE Len(s)
FreeListWithout(f) == IF f # <<>> THEN Front(f) ELSE f
Places(b, s, t) ==
  IF \A i, j \in 1..Len(s) : i < j => b[s[i]] <= b[s[j]]
    THEN {1 + Cardinality({i \in 1..Len(s) : b[s[i]] <= t})}
    ELSE 1..(Len(s) + 1)

\* Partition says what SlotsArePartitioned says of the two put together
LEMMA PartitionOfSlots ==
  ASSUME NEW s, NEW f, Partition(s, f)
  PROVE  IsInjective(s \o f) /\ Range(s \o f) = 0..(Len(s \o f) - 1)
<1> DEFINE m == Len(s)
           n == Len(f)
           all == s \o f
<1>1. m \in Nat /\ n \in Nat /\ s \in Seq(Slots) /\ f \in Seq(Slots)
  BY DEF Partition
<1>2. Len(all) = m + n /\ DOMAIN all = 1..(m + n)
  BY <1>1
<1>3. \A a \in 1..(m + n) : all[a] = IF a <= m THEN s[a] ELSE f[a - m]
  BY <1>1, ConcatProperties
<1>4. \A i \in 1..m : s[i] \in Nat /\ s[i] < m + n
  BY <1>1, MaxTuplesAssumption DEF Partition, Slots
<1>5. \A j \in 1..n : f[j] \in Nat /\ f[j] < m + n
  BY <1>1, MaxTuplesAssumption DEF Partition, Slots
<1> HIDE DEF all
<1>6. ASSUME NEW a \in 1..(m + n)
      PROVE  /\ a <= m => a \in 1..m /\ all[a] = s[a]
             /\ ~(a <= m) => a - m \in 1..n /\ all[a] = f[a - m]
             /\ all[a] \in 0..(m + n - 1)
  BY <1>1, <1>3, <1>4, <1>5
<1>7. ASSUME NEW a \in 1..(m + n), NEW c \in 1..(m + n), all[a] = all[c]
      PROVE  a = c
  <2>1. CASE a <= m /\ c <= m
    BY <1>6, <1>7, <2>1 DEF Partition
  <2>2. CASE a <= m /\ ~(c <= m)
    BY <1>6, <1>7, <2>2 DEF Partition
  <2>3. CASE ~(a <= m) /\ c <= m
    BY <1>6, <1>7, <2>3 DEF Partition
  <2>4. CASE ~(a <= m) /\ ~(c <= m)
    <3>1. a - m \in 1..n /\ c - m \in 1..n /\ f[a - m] = f[c - m]
      BY <1>6, <1>7, <2>4
    <3>2. \A i, j \in 1..n : f[i] = f[j] => i = j
      BY DEF Partition
    <3>3. a - m = c - m
      BY <3>1, <3>2
    <3> QED
      BY <1>1, <3>3
  <2> QED
    BY <2>1, <2>2, <2>3, <2>4
<1>8. ASSUME NEW x \in 0..(m + n - 1)
      PROVE  \E a \in 1..(m + n) : all[a] = x
  <2>1. ASSUME NEW i \in 1..m, s[i] = x PROVE \E a \in 1..(m + n) : all[a] = x
    <3>1. i \in 1..(m + n) /\ i <= m
      BY <1>1
    <3> QED
      BY <1>3, <2>1, <3>1
  <2>2. ASSUME NEW j \in 1..n, f[j] = x PROVE \E a \in 1..(m + n) : all[a] = x
    <3>1. j + m \in 1..(m + n) /\ ~(j + m <= m) /\ (j + m) - m = j
      BY <1>1
    <3> QED
      BY <1>3, <2>2, <3>1
  <2> QED
    BY <2>1, <2>2 DEF Partition
<1>9. IsInjective(all)
  BY <1>2, <1>7 DEF IsInjective
<1>10. Range(all) = 0..(m + n - 1)
  BY <1>2, <1>6, <1>8 DEF Range
<1> QED
  BY <1>2, <1>9, <1>10 DEF all

\* a page with nothing on it
LEMMA EmptyPage ==
  ASSUME NEW b, Buffer(b)
  PROVE  PageInv(b, <<>>, <<>>)
<1>1. <<>> \in Seq(Slots) /\ Len(<<>>) = 0
  OBVIOUS
<1> QED
  BY <1>1 DEF PageInv, Partition, Sorted

\* the tuples on a page have an order
LEMMA TuplesOnPage ==
  ASSUME NEW b, NEW s, NEW f, PageInv(b, s, f)
  PROVE  /\ Len(s) \in Nat /\ Len(f) \in Nat
         /\ \A i \in 1..Len(s) : s[i] \in Slots /\ b[s[i]] \in Int
         /\ \A j \in 1..Len(f) : f[j] \in Slots
<1>1. Len(s) \in Nat /\ Len(f) \in Nat
  BY DEF PageInv, Partition
<1>2. \A i \in 1..Len(s) : s[i] \in Slots
  BY DEF PageInv, Partition
<1>3. \A j \in 1..Len(f) : f[j] \in Slots
  BY DEF PageInv, Partition
<1>4. \A x \in Slots : b[x] \in Int
  <2>1. \A x \in Slots : b[x] \in Tuples \cup {Zeros}
    BY DEF PageInv, Buffer
  <2>2. Tuples \cup {Zeros} \subseteq Int
    BY PageTuplesAssumption DEF Zeros
  <2> QED
    BY <2>1, <2>2
<1> QED
  BY <1>1, <1>2, <1>3, <1>4

-----------------------------------------------------------------------------
(***************************************************************************)
(* An addition.  The slot that is taken is one that is not in use.         *)
(***************************************************************************)
LEMMA FreeSlotIsNotInUse ==
  ASSUME NEW b, NEW s, NEW f, PageInv(b, s, f), Len(s) < MaxTuples,
         NEW slot, slot = SlotFor(s, f)
  PROVE  slot \in Slots /\ \A i \in 1..Len(s) : s[i] # slot
<1>1. Len(s) \in Nat /\ f \in Seq(Slots)
  BY DEF PageInv, Partition
<1>2. CASE f # <<>>
  <2>1. Len(f) \in 1..Len(f) /\ slot = f[Len(f)] /\ slot \in Slots
    BY <1>1, <1>2, FrontProperties DEF SlotFor
  <2> QED
    BY <2>1 DEF PageInv, Partition
<1>3. CASE f = <<>>
  <2>1. Len(f) = 0 /\ slot = Len(s)
    BY <1>3 DEF SlotFor
  <2>2. \A i \in 1..Len(s) : s[i] \in Slots /\ s[i] < Len(s) + Len(f)
    BY DEF PageInv, Partition
  <2>3. slot \in Slots
    BY <1>1, <2>1, MaxTuplesAssumption DEF Slots
  <2>4. \A i \in 1..Len(s) : s[i] # slot
    BY <1>1, <2>1, <2>2 DEF Slots
  <2> QED
    BY <2>3, <2>4
<1> QED
  BY <1>2, <1>3

LEMMA AdditionKeepsPartition ==
  ASSUME NEW b, NEW s, NEW f, PageInv(b, s, f), Len(s) < MaxTuples,
         NEW slot, slot = SlotFor(s, f),
         NEW p \in 1..(Len(s) + 1)
  PROVE  Partition(InsertAt(s, p, slot), FreeListWithout(f))
<1> DEFINE r == InsertAt(s, p, slot)
           g == FreeListWithout(f)
           n == Len(s)
<1>1. /\ n \in Nat /\ Len(f) \in Nat /\ s \in Seq(Slots) /\ f \in Seq(Slots)
      /\ \A i \in 1..n : s[i] \in Slots
      /\ \A j \in 1..Len(f) : f[j] \in Slots
  BY TuplesOnPage DEF PageInv, Partition
<1>2. slot \in Slots /\ \A i \in 1..n : s[i] # slot
  BY FreeSlotIsNotInUse
<1>3. r \in Seq(Slots) /\ Len(r) = n + 1
  BY <1>1, <1>2, InsertAtProperties
<1>3a. /\ p \in 1..Len(r) /\ r[p] = slot
       /\ \A i \in 1..Len(r) : i # p => Source(p, i) \in 1..n /\ r[i] = s[Source(p, i)]
       /\ \A i, j \in 1..Len(r) : i # p /\ j # p => (i = j <=> Source(p, i) = Source(p, j))
       /\ \A k \in 1..n : \E i \in 1..Len(r) : i # p /\ Source(p, i) = k
  <2>1. InsertedAt(r, s, p, slot)
    BY <1>1, <1>2, SourcesOfInsertAt
  <2> HIDE DEF r
  <2> QED
    BY <2>1 DEF InsertedAt
<1> HIDE DEF r
<1>4. /\ g \in Seq(Slots)
      /\ Len(g) = IF f # <<>> THEN Len(f) - 1 ELSE 0
      /\ \A j \in 1..Len(g) : j \in 1..Len(f) /\ g[j] = f[j] /\ g[j] # slot
      /\ f # <<>> => Len(f) \in 1..Len(f) /\ slot = f[Len(f)]
  <2>1. CASE f = <<>>
    BY <2>1 DEF FreeListWithout
  <2>2. CASE f # <<>>
    <3>1. /\ g = Front(f) /\ g \in Seq(Slots) /\ Len(g) = Len(f) - 1
          /\ \A j \in 1..(Len(f) - 1) : g[j] = f[j]
          /\ Len(f) \in 1..Len(f) /\ slot = f[Len(f)]
      BY <1>1, <2>2, FrontProperties DEF FreeListWithout, SlotFor
    <3>2. \A j \in 1..(Len(f) - 1) : f[j] # f[Len(f)]
      BY <1>1, <3>1 DEF PageInv, Partition
    <3> QED
      BY <1>1, <2>2, <3>1, <3>2
  <2> QED
    BY <2>1, <2>2
<1> HIDE DEF g
<1>5. Len(r) + Len(g) = IF f # <<>> THEN n + Len(f) ELSE n + 1
  <2>1. CASE f # <<>>
    BY <1>1, <1>3, <1>4, <2>1
  <2>2. CASE f = <<>>
    BY <1>1, <1>3, <1>4, <2>2
  <2> QED
    BY <2>1, <2>2
<1>6. f = <<>> => Len(f) = 0 /\ slot = n
  BY DEF SlotFor
<1>7. \A i, j \in 1..n : s[i] = s[j] => i = j
  BY DEF PageInv, Partition
<1>8. \A i \in 1..n, j \in 1..Len(f) : s[i] # f[j]
  BY DEF PageInv, Partition
<1>9. /\ \A i \in 1..n : s[i] < n + Len(f)
      /\ \A j \in 1..Len(f) : f[j] < n + Len(f)
      /\ \A i, j \in 1..Len(f) : f[i] = f[j] => i = j
  BY DEF PageInv, Partition
<1>10. \A x \in 0..(n + Len(f) - 1) :
         (\E i \in 1..n : s[i] = x) \/ (\E j \in 1..Len(f) : f[j] = x)
  BY DEF PageInv, Partition
<1>11. slot < Len(r) + Len(g)
  <2>1. CASE f # <<>>
    BY <1>4, <1>5, <1>9, <2>1
  <2>2. CASE f = <<>>
    BY <1>1, <1>5, <1>6, <2>2
  <2> QED
    BY <2>1, <2>2
<1>12. ASSUME NEW i \in 1..Len(r), NEW j \in 1..Len(r), r[i] = r[j] PROVE i = j
  <2>1. CASE i # p /\ j # p
    BY <1>3a, <1>7, <1>12, <2>1
  <2>2. CASE i = p \/ j = p
    BY <1>2, <1>3a, <1>12, <2>2
  <2> QED
    BY <2>1, <2>2
<1>13. \A i, j \in 1..Len(g) : g[i] = g[j] => i = j
  BY <1>4, <1>9
<1>14. ASSUME NEW i \in 1..Len(r), NEW j \in 1..Len(g) PROVE r[i] # g[j]
  <2>1. j \in 1..Len(f) /\ g[j] = f[j] /\ g[j] # slot
    BY <1>4
  <2>2. i # p => r[i] # f[j]
    BY <1>3a, <1>8, <2>1
  <2> QED
    BY <1>3a, <2>1, <2>2
<1>15. ASSUME NEW i \in 1..Len(r) PROVE r[i] < Len(r) + Len(g)
  <2>1. \A x \in Slots : x \in Int
    BY DEF Slots
  <2>2. \A k \in 1..n : s[k] < Len(r) + Len(g)
    BY <1>1, <1>5, <1>6, <1>9, <2>1
  <2> QED
    BY <1>3a, <1>11, <2>2
<1>16. ASSUME NEW j \in 1..Len(g) PROVE g[j] < Len(r) + Len(g)
  <2>1. f # <<>>
    BY <1>4
  <2>2. j \in 1..Len(f) /\ g[j] = f[j]
    BY <1>4
  <2> QED
    BY <1>5, <1>9, <2>1, <2>2
<1>17. ASSUME NEW x \in 0..(Len(r) + Len(g) - 1)
       PROVE  (\E i \in 1..Len(r) : r[i] = x) \/ (\E j \in 1..Len(g) : g[j] = x)
  <2>1. CASE x = slot
    BY <1>3a, <2>1
  <2>2. ASSUME NEW i \in 1..n, s[i] = x PROVE \E k \in 1..Len(r) : r[k] = x
    BY <1>3a, <2>2
  <2>3. ASSUME NEW j \in 1..Len(f), f[j] = x, x # slot PROVE \E k \in 1..Len(g) : g[k] = x
    <3>1. f # <<>> /\ j # Len(f)
      BY <1>4, <1>6, <2>3
    <3>2. j \in 1..Len(g)
      BY <1>1, <1>4, <3>1
    <3> QED
      BY <1>4, <2>3, <3>2
  <2>4. x # slot => x \in 0..(n + Len(f) - 1)
    BY <1>1, <1>5, <1>6
  <2> QED
    BY <1>10, <2>1, <2>2, <2>3, <2>4
<1>18. r \in Seq(Slots) /\ g \in Seq(Slots)
  BY <1>3, <1>4
<1>19. Partition(r, g)
  BY <1>12, <1>13, <1>14, <1>15, <1>16, <1>17, <1>18 DEF Partition
<1> QED
  BY <1>19 DEF r, g

LEMMA AdditionKeepsOrder ==
  ASSUME NEW b, NEW s, NEW f, PageInv(b, s, f), Len(s) < MaxTuples,
         NEW slot, slot = SlotFor(s, f),
         NEW t \in Tuples, NEW b2, b2 = [b EXCEPT ![slot] = t],
         NEW p \in Places(b2, s, t)
  PROVE  p \in 1..(Len(s) + 1) /\ Sorted(b2, InsertAt(s, p, slot))
<1> DEFINE n == Len(s)
           S == {i \in 1..n : b2[s[i]] <= t}
           r == InsertAt(s, p, slot)
<1>1. n \in Nat /\ \A i \in 1..n : s[i] \in Slots /\ b[s[i]] \in Int
  BY TuplesOnPage
<1>2. slot \in Slots /\ \A i \in 1..n : s[i] # slot
  BY FreeSlotIsNotInUse
<1>3. \A x \in Slots : b2[x] = IF x = slot THEN t ELSE b[x]
  BY <1>2 DEF PageInv, Buffer
<1>4. b2[slot] = t /\ t \in Int /\ \A i \in 1..n : b2[s[i]] = b[s[i]] /\ b2[s[i]] \in Int
  BY <1>1, <1>2, <1>3, PageTuplesAssumption
<1>5. \A i, j \in 1..n : i < j => b2[s[i]] <= b2[s[j]]
  BY <1>4 DEF PageInv, Sorted
<1>6. p = 1 + Cardinality(S)
  BY <1>5 DEF Places
<1>7. S \in SUBSET (1..n) /\ \A i \in 1..n : i \in S <=> b2[s[i]] <= t
  OBVIOUS
<1> HIDE DEF S
<1>8. ASSUME NEW i \in 1..n, NEW j \in 1..n, i < j, j \in S PROVE i \in S
  <2>1. b2[s[i]] <= b2[s[j]] /\ b2[s[j]] <= t
    BY <1>5, <1>7, <1>8
  <2> QED
    BY <1>4, <1>7, <2>1
<1>9. Cardinality(S) \in 0..n /\ S = 1..Cardinality(S)
  BY <1>1, <1>7, <1>8, InitialSegment
<1>10. p \in 1..(n + 1) /\ S = 1..(p - 1)
  BY <1>1, <1>6, <1>9
<1>11. \A k \in 1..n : (k < p => b2[s[k]] <= t) /\ (~(k < p) => t <= b2[s[k]])
  <2> SUFFICES ASSUME NEW k \in 1..n
               PROVE  (k < p => b2[s[k]] <= t) /\ (~(k < p) => t <= b2[s[k]])
    OBVIOUS
  <2>1. k < p <=> k \in S
    BY <1>10
  <2> QED
    BY <1>4, <1>7, <2>1
<1>12. s \in Seq(Slots)
  BY DEF PageInv, Partition
<1>13. InsertedAt(r, s, p, slot)
  BY <1>2, <1>10, <1>12, SourcesOfInsertAt
<1> HIDE DEF r
<1>14. ASSUME NEW i \in 1..Len(r), NEW j \in 1..Len(r), i < j
       PROVE  b2[r[i]] <= b2[r[j]]
  <2>1. CASE i # p /\ j # p
    <3>1. /\ Source(p, i) \in 1..n /\ Source(p, j) \in 1..n /\ Source(p, i) < Source(p, j)
          /\ r[i] = s[Source(p, i)] /\ r[j] = s[Source(p, j)]
      BY <1>13, <1>14, <2>1 DEF InsertedAt
    <3> QED
      BY <1>5, <3>1
  <2>2. CASE i = p
    <3>1. Source(p, j) \in 1..n /\ r[j] = s[Source(p, j)] /\ r[i] = slot
      BY <1>10, <1>13, <1>14, <2>2 DEF InsertedAt
    <3>2. ~(Source(p, j) < p)
      BY <1>1, <1>10, <1>13, <1>14, <2>2 DEF Source, InsertedAt
    <3> QED
      BY <1>4, <1>11, <3>1, <3>2
  <2>3. CASE j = p
    <3>1. Source(p, i) \in 1..n /\ r[i] = s[Source(p, i)] /\ r[j] = slot
      BY <1>10, <1>13, <1>14, <2>3 DEF InsertedAt
    <3>2. Source(p, i) < p
      BY <1>1, <1>10, <1>13, <1>14, <2>3 DEF Source, InsertedAt
    <3> QED
      BY <1>4, <1>11, <3>1, <3>2
  <2> QED
    BY <2>1, <2>2, <2>3
<1> QED
  BY <1>10, <1>14 DEF Sorted, r

LEMMA AdditionKeepsPage ==
  ASSUME NEW b, NEW s, NEW f, PageInv(b, s, f), Len(s) < MaxTuples,
         NEW slot, slot = SlotFor(s, f),
         NEW t \in Tuples, NEW b2, b2 = [b EXCEPT ![slot] = t],
         NEW p \in Places(b2, s, t)
  PROVE  PageInv(b2, InsertAt(s, p, slot), FreeListWithout(f))
<1>1. p \in 1..(Len(s) + 1) /\ Sorted(b2, InsertAt(s, p, slot))
  BY AdditionKeepsOrder
<1>2. Buffer(b2)
  <2>1. Buffer(b)
    BY DEF PageInv
  <2> QED
    BY <2>1 DEF Buffer
<1>3. Partition(InsertAt(s, p, slot), FreeListWithout(f))
  BY <1>1, AdditionKeepsPartition
<1> QED
  BY <1>1, <1>2, <1>3 DEF PageInv

(***************************************************************************)
(* An erasure.  The slot goes from the tuples to the free list.            *)
(***************************************************************************)
LEMMA ErasureKeepsPage ==
  ASSUME NEW b, NEW s, NEW f, PageInv(b, s, f), NEW p \in 1..Len(s)
  PROVE  PageInv(b, RemoveAt(s, p), Append(f, s[p]))
<1> DEFINE n == Len(s)
           r == RemoveAt(s, p)
           g == Append(f, s[p])
<1>1. /\ n \in Nat /\ Len(f) \in Nat /\ s \in Seq(Slots) /\ f \in Seq(Slots)
      /\ s[p] \in Slots
  BY TuplesOnPage DEF PageInv, Partition
<1>2. r \in Seq(Slots) /\ Len(r) = n - 1
  BY <1>1, RemoveAtProperties
<1>3. RemovedAt(r, s, p)
  BY <1>1, SourcesOfRemoveAt
<1>4. /\ g \in Seq(Slots) /\ Len(g) = Len(f) + 1 /\ g[Len(f) + 1] = s[p]
      /\ \A j \in 1..Len(f) : g[j] = f[j]
  BY <1>1
<1> HIDE DEF r, g
<1>5. Len(r) + Len(g) = n + Len(f)
  BY <1>1, <1>2, <1>4
<1>6. \A j \in 1..Len(g) : j = Len(f) + 1 \/ j \in 1..Len(f)
  BY <1>1, <1>4
<1>7. \A j \in 1..Len(f) : j \in 1..Len(g) /\ j # Len(f) + 1
  BY <1>1, <1>4
<1>8. Len(f) + 1 \in 1..Len(g)
  BY <1>1, <1>4
<1>9. ASSUME NEW i \in 1..Len(r), NEW j \in 1..Len(r), r[i] = r[j] PROVE i = j
  BY <1>3, <1>9 DEF RemovedAt, PageInv, Partition
<1>10. ASSUME NEW i \in 1..Len(g), NEW j \in 1..Len(g), g[i] = g[j] PROVE i = j
  BY <1>4, <1>6, <1>10 DEF PageInv, Partition
<1>11. ASSUME NEW i \in 1..Len(r), NEW j \in 1..Len(g) PROVE r[i] # g[j]
  <2>1. SourceWithout(p, i) \in (1..n) \ {p} /\ r[i] = s[SourceWithout(p, i)]
    BY <1>3 DEF RemovedAt
  <2>2. CASE j \in 1..Len(f)
    BY <1>4, <2>1, <2>2 DEF PageInv, Partition
  <2>3. CASE j = Len(f) + 1
    BY <1>4, <2>1, <2>3 DEF PageInv, Partition
  <2> QED
    BY <1>6, <2>2, <2>3
<1>12. \A i \in 1..Len(r) : r[i] < Len(r) + Len(g)
  BY <1>3, <1>5 DEF RemovedAt, PageInv, Partition
<1>13. \A j \in 1..Len(g) : g[j] < Len(r) + Len(g)
  BY <1>4, <1>5, <1>6 DEF PageInv, Partition
<1>14. ASSUME NEW x \in 0..(Len(r) + Len(g) - 1)
       PROVE  (\E i \in 1..Len(r) : r[i] = x) \/ (\E j \in 1..Len(g) : g[j] = x)
  <2>1. x \in 0..(n + Len(f) - 1)
    BY <1>5
  <2>2. ASSUME NEW k \in (1..n) \ {p}, s[k] = x PROVE \E i \in 1..Len(r) : r[i] = x
    BY <1>3, <2>2 DEF RemovedAt
  <2>3. s[p] = x => \E j \in 1..Len(g) : g[j] = x
    BY <1>4, <1>8
  <2>4. ASSUME NEW k \in 1..Len(f), f[k] = x PROVE \E j \in 1..Len(g) : g[j] = x
    BY <1>4, <1>7, <2>4
  <2> QED
    BY <2>1, <2>2, <2>3, <2>4 DEF PageInv, Partition
<1>15. Partition(r, g)
  BY <1>2, <1>4, <1>9, <1>10, <1>11, <1>12, <1>13, <1>14 DEF Partition
<1>16. Sorted(b, r)
  <2> SUFFICES ASSUME NEW i \in 1..Len(r), NEW j \in 1..Len(r), i < j
               PROVE  b[r[i]] <= b[r[j]]
    BY DEF Sorted
  <2>1. /\ SourceWithout(p, i) \in 1..n /\ SourceWithout(p, j) \in 1..n
        /\ SourceWithout(p, i) < SourceWithout(p, j)
        /\ r[i] = s[SourceWithout(p, i)] /\ r[j] = s[SourceWithout(p, j)]
    BY <1>3 DEF RemovedAt
  <2> QED
    BY <2>1 DEF PageInv, Sorted
<1>17. PageInv(b, r, g)
  BY <1>15, <1>16 DEF PageInv
<1> QED
  BY <1>17 DEF r, g

-----------------------------------------------------------------------------
(***************************************************************************)
(* The steps of the original, and of the copy.                             *)
(***************************************************************************)
LEMMA FoundTuplesAreOnThePage ==
  ASSUME PageInv(m_buffer, m_tuples, m_freeList), NEW k \in SearchKeys, Find(k) # 0
  PROVE  Find(k) \in Positions
<1> DEFINE I == {i \in 1..Len(m_tuples) : Matches(m_buffer[m_tuples[i]], k)}
<1>1. I # {} /\ Find(k) = Min(I)
  BY DEF Find, SelectInSeq
<1>2. I \subseteq Nat
  BY TuplesOnPage
<1>3. Min(I) \in I
  BY <1>1, <1>2, LeastElement DEF Min
<1> QED
  BY <1>1, <1>3 DEF Positions, tuple_count

LEMMA PageStep ==
  ASSUME PageInv(m_buffer, m_tuples, m_freeList), CompatibleNext
  PROVE  PageInv(m_buffer', m_tuples', m_freeList') /\ Buffer(m_buffer')
<1>1. ASSUME NEW t \in Tuples, AddTuple(t) PROVE PageInv(m_buffer', m_tuples', m_freeList')
  <2>1. PICK p \in InsertPositions(m_buffer', t) : m_tuples' = InsertAt(m_tuples, p, SlotForTuple)
    BY <1>1 DEF AddTuple
  <2>2. p \in Places(m_buffer', m_tuples, t)
    BY <2>1 DEF InsertPositions, Positions, tuple_count, Places
  <2>3. Len(m_tuples) < MaxTuples /\ m_buffer' = [m_buffer EXCEPT ![SlotForTuple] = t]
    BY <1>1 DEF AddTuple, tuple_count
  <2>4. SlotForTuple = SlotFor(m_tuples, m_freeList)
    BY DEF SlotForTuple, tuple_count, SlotFor
  <2>5. m_freeList' = FreeListWithout(m_freeList)
    BY <1>1 DEF AddTuple, FreeListAfterAdd, FreeListWithout
  <2>6. PageInv(m_buffer', InsertAt(m_tuples, p, SlotForTuple), FreeListWithout(m_freeList))
    BY <2>2, <2>3, <2>4, AdditionKeepsPage
  <2> QED
    BY <2>1, <2>5, <2>6
<1>2. ASSUME NEW i \in Positions, EraseAt(i) PROVE PageInv(m_buffer', m_tuples', m_freeList')
  BY <1>2, ErasureKeepsPage DEF EraseAt, FreeListAfterErase, Positions, tuple_count
<1>3. CASE Clear
  BY <1>3, EmptyPage DEF Clear, PageInv
<1> QED
  BY <1>1, <1>2, <1>3, FoundTuplesAreOnThePage DEF CompatibleNext, EraseKey, PageInv

\* the copy's instances of the community operators are those operators
LEMMA SameOperators ==
  /\ \A q : TheCopy!Last(q) = Last(q) /\ TheCopy!Front(q) = Front(q)
  /\ \A q, i : TheCopy!RemoveAt(q, i) = RemoveAt(q, i)
  /\ \A q, i, e : TheCopy!InsertAt(q, i, e) = InsertAt(q, i, e)
  /\ \A S : TheCopy!Min(S) = Min(S) /\ TheCopy!Max(S) = Max(S)
  /\ \A S : TheCopy!Cardinality(S) = Cardinality(S)
BY DEF TheCopy!Cardinality, Cardinality, TheCopy!Last, Last, TheCopy!Front, Front, TheCopy!RemoveAt, RemoveAt,
   TheCopy!InsertAt, InsertAt, TheCopy!Min, Min, TheCopy!Max, Max

LEMMA TuplesFoundAreOnTheCopy ==
  ASSUME PageInv(m_buffer, copy_tuples, copy_freeList), NEW k \in SearchKeys, TheCopy!Find(k) # 0
  PROVE  TheCopy!Find(k) \in TheCopy!Positions
<1> DEFINE I == {i \in 1..Len(copy_tuples) : TheCopy!Matches(m_buffer[copy_tuples[i]], k)}
<1>1. I # {} /\ TheCopy!Find(k) = Min(I)
  BY SameOperators DEF TheCopy!Find, TheCopy!SelectInSeq
<1>2. I \subseteq Nat
  BY TuplesOnPage
<1>3. Min(I) \in I
  BY <1>1, <1>2, LeastElement DEF Min
<1> QED
  BY <1>1, <1>3 DEF TheCopy!Positions, TheCopy!tuple_count

LEMMA CopyOfPageStep ==
  ASSUME PageInv(m_buffer, copy_tuples, copy_freeList), TheCopy!CompatibleNext
  PROVE  PageInv(m_buffer', copy_tuples', copy_freeList') /\ Buffer(m_buffer')
<1>1. ASSUME NEW t \in Tuples, TheCopy!AddTuple(t) PROVE PageInv(m_buffer', copy_tuples', copy_freeList')
  <2>1. PICK p \in TheCopy!InsertPositions(m_buffer', t) : copy_tuples' = InsertAt(copy_tuples, p, TheCopy!SlotForTuple)
    BY <1>1, SameOperators DEF TheCopy!AddTuple
  <2>2. p \in Places(m_buffer', copy_tuples, t)
    BY <2>1, SameOperators DEF TheCopy!InsertPositions, TheCopy!Positions, TheCopy!tuple_count, Places
  <2>3. Len(copy_tuples) < MaxTuples /\ m_buffer' = [m_buffer EXCEPT ![TheCopy!SlotForTuple] = t]
    BY <1>1 DEF TheCopy!AddTuple, TheCopy!tuple_count
  <2>4. TheCopy!SlotForTuple = SlotFor(copy_tuples, copy_freeList)
    BY SameOperators DEF TheCopy!SlotForTuple, TheCopy!tuple_count, SlotFor
  <2>5. copy_freeList' = FreeListWithout(copy_freeList)
    BY <1>1, SameOperators DEF TheCopy!AddTuple, TheCopy!FreeListAfterAdd, FreeListWithout
  <2>6. PageInv(m_buffer', InsertAt(copy_tuples, p, TheCopy!SlotForTuple), FreeListWithout(copy_freeList))
    BY <2>2, <2>3, <2>4, AdditionKeepsPage
  <2> QED
    BY <2>1, <2>5, <2>6
<1>2. ASSUME NEW i \in TheCopy!Positions, TheCopy!EraseAt(i) PROVE PageInv(m_buffer', copy_tuples', copy_freeList')
  BY <1>2, SameOperators, ErasureKeepsPage DEF TheCopy!EraseAt, TheCopy!FreeListAfterErase, TheCopy!Positions, TheCopy!tuple_count
<1>3. CASE TheCopy!Clear
  BY <1>3, EmptyPage DEF TheCopy!Clear, PageInv
<1> QED
  BY <1>1, <1>2, <1>3, TuplesFoundAreOnTheCopy DEF TheCopy!CompatibleNext, TheCopy!EraseKey, PageInv

-----------------------------------------------------------------------------
(***************************************************************************)
(* A page on its own, as it is used with tuples of its own type.           *)
(***************************************************************************)
LEMMA InitialPage == Init => PageInv(m_buffer, m_tuples, m_freeList)
BY EmptyPage DEF Init, Buffer

LEMMA PageInvariant == CompatibleSpec => []PageInv(m_buffer, m_tuples, m_freeList)
<1>1. PageInv(m_buffer, m_tuples, m_freeList) /\ [CompatibleNext]_vars
        => PageInv(m_buffer, m_tuples, m_freeList)'
  <2>1. CASE UNCHANGED vars
    BY <2>1 DEF vars
  <2> QED
    BY <2>1, PageStep
<1> QED
  BY <1>1, InitialPage, PTL DEF CompatibleSpec

(***************************************************************************)
(* Whatever is added and erased, no slot of a page is lost or used twice,  *)
(* so that tuple_count() is a new slot when the free list is empty (line   *)
(* 46 of InMemorySortedPage.cpp), and the tuples stay in order.            *)
(***************************************************************************)
THEOREM PageKeepsItsSlots ==
  CompatibleSpec => [](TypeOK /\ SlotsArePartitioned /\ TuplesStayInOrder)
<1>1. PageInv(m_buffer, m_tuples, m_freeList)
        => TypeOK /\ SlotsArePartitioned /\ TuplesStayInOrder
  BY PartitionOfSlots DEF PageInv, Partition, Buffer, Sorted, TypeOK, SlotsArePartitioned,
     TuplesStayInOrder, Positions, tuple_count, TupleAt
<1> QED
  BY <1>1, PageInvariant, PTL

-----------------------------------------------------------------------------
(***************************************************************************)
(* A page that is handed over to a copy.  Until then the copy is empty,    *)
(* while both exist they are equal, and afterwards the original is empty.  *)
(***************************************************************************)
IInv ==
  /\ PageInv(m_buffer, m_tuples, m_freeList)
  /\ PageInv(m_buffer, copy_tuples, copy_freeList)
  /\ \/ live = {"original"} /\ copy_tuples = <<>> /\ copy_freeList = <<>>
     \/ live = {"original", "copy"} /\ copy_tuples = m_tuples /\ copy_freeList = m_freeList
     \/ live = {"copy"} /\ m_tuples = <<>> /\ m_freeList = <<>>

LEMMA InitEstablishesIInv == BothInit => IInv
BY InitialPage, EmptyPage DEF BothInit, IInv, PageInv

LEMMA TwoPagesAreNotOne == Cardinality({"original", "copy"}) # 1
<1>1. {"original", "copy"} = {"original"} \cup {"copy"} /\ "copy" \notin {"original"}
  OBVIOUS
<1>2. IsFiniteSet({"original"}) /\ Cardinality({"original"}) = 1
  BY FS_Singleton
<1>3. Cardinality({"original"} \cup {"copy"}) = 2
  BY <1>1, <1>2, FS_AddElement
<1> QED
  BY <1>1, <1>3

LEMMA HandOverPreservesIInv == IInv /\ [HandOverNext]_allVars => IInv'
<1> SUFFICES ASSUME IInv, [HandOverNext]_allVars PROVE IInv'
  OBVIOUS
<1>1. CASE CopyPage
  BY <1>1 DEF IInv, CopyPage, vars
<1>2. CASE DestroyOriginal
  BY <1>2, EmptyPage DEF IInv, DestroyOriginal, PageInv
<1>3. live = {"original", "copy"} => Cardinality(live) # 1
  BY TwoPagesAreNotOne
<1>4. CASE Cardinality(live) = 1 /\ OriginalStep
  <2>1. live = {"original"} /\ copy_tuples = <<>> /\ copy_freeList = <<>>
    BY <1>3, <1>4 DEF IInv, OriginalStep
  <2>2. PageInv(m_buffer', m_tuples', m_freeList') /\ Buffer(m_buffer')
    BY <1>4, PageStep DEF IInv, OriginalStep
  <2>3. PageInv(m_buffer', <<>>, <<>>)
    BY <2>2, EmptyPage
  <2> QED
    BY <1>4, <2>1, <2>2, <2>3 DEF IInv, OriginalStep
<1>5. CASE Cardinality(live) = 1 /\ CopyStep
  <2>1. live = {"copy"} /\ m_tuples = <<>> /\ m_freeList = <<>>
    BY <1>3, <1>5 DEF IInv, CopyStep
  <2>2. PageInv(m_buffer', copy_tuples', copy_freeList') /\ Buffer(m_buffer')
    BY <1>5, CopyOfPageStep DEF IInv, CopyStep
  <2>3. PageInv(m_buffer', <<>>, <<>>)
    BY <2>2, EmptyPage
  <2> QED
    BY <1>5, <2>1, <2>2, <2>3 DEF IInv, CopyStep
<1>6. CASE UNCHANGED allVars
  BY <1>6 DEF IInv, allVars
<1> QED
  BY <1>1, <1>2, <1>4, <1>5, <1>6 DEF HandOverNext

LEMMA HandOverInvariant == HandOverSpec => []IInv
BY InitEstablishesIInv, HandOverPreservesIInv, PTL DEF HandOverSpec

(***************************************************************************)
(* Handing a page over to a copy, as returning one by value does, keeps    *)
(* its tuples in order, also those the copy adds to the memory that was    *)
(* the original's.                                                         *)
(***************************************************************************)
THEOREM HandingOverKeepsOrder == HandOverSpec => []BothStayInOrder
<1>1. IInv => TuplesStayInOrder
  BY DEF IInv, PageInv, Sorted, TuplesStayInOrder, Positions, tuple_count, TupleAt
<1>2. IInv => TheCopy!TuplesStayInOrder
  BY DEF IInv, PageInv, Sorted, TheCopy!TuplesStayInOrder, TheCopy!Positions,
     TheCopy!tuple_count, TheCopy!TupleAt
<1> QED
  BY <1>1, <1>2, HandOverInvariant, PTL DEF BothStayInOrder

(***************************************************************************)
(* No slot is lost or used twice, by the page before it is handed over or  *)
(* by the copy afterwards.                                                 *)
(***************************************************************************)
THEOREM HandingOverKeepsSlots == HandOverSpec => []BothKeepTheirSlots
<1>1. IInv => SlotsArePartitioned
  BY PartitionOfSlots DEF IInv, PageInv, SlotsArePartitioned
<1>2. IInv => TheCopy!SlotsArePartitioned
  <2>1. \A q : TheCopy!IsInjective(q) = IsInjective(q) /\ TheCopy!Range(q) = Range(q)
    BY DEF TheCopy!IsInjective, IsInjective, TheCopy!Range, Range
  <2> QED
    BY <2>1, PartitionOfSlots DEF IInv, PageInv, TheCopy!SlotsArePartitioned
<1> QED
  BY <1>1, <1>2, HandOverInvariant, PTL DEF BothKeepTheirSlots

\* the slots of a page are the first ones, of which there are no more than slots
LEMMA SlotsFit ==
  ASSUME NEW s, NEW f, Partition(s, f)
  PROVE  Len(s) + Len(f) <= MaxTuples
<1>1. /\ Len(s) \in Nat /\ Len(f) \in Nat /\ MaxTuples \in Nat
      /\ \A i \in 1..Len(s) : s[i] \in Slots
      /\ \A j \in 1..Len(f) : f[j] \in Slots
  BY MaxTuplesAssumption DEF Partition
<1> SUFFICES ASSUME ~(Len(s) + Len(f) <= MaxTuples) PROVE FALSE
  OBVIOUS
<1>2. MaxTuples \in 0..(Len(s) + Len(f) - 1)
  BY <1>1
<1>3. (\E i \in 1..Len(s) : s[i] = MaxTuples) \/ (\E j \in 1..Len(f) : f[j] = MaxTuples)
  BY <1>2 DEF Partition
<1> QED
  BY <1>1, <1>3 DEF Slots

(***************************************************************************)
(* Every reference either page has is into the buffer, and the slots it    *)
(* has in use or free fit into it, so that the count of tuples stays       *)
(* within max_tuple_count() and the room reported does not wrap.           *)
(***************************************************************************)
THEOREM PagesFitTheirBuffer == HandOverSpec => []BothPagesFit
<1>1. IInv => TypeOK /\ TheCopy!TypeOK
  BY DEF IInv, PageInv, Partition, Buffer, TypeOK, TheCopy!TypeOK, Slots, TheCopy!Slots,
     Zeros, TheCopy!Zeros
<1>2. IInv => /\ tuple_count + Len(m_freeList) <= MaxTuples
              /\ TheCopy!tuple_count + Len(copy_freeList) <= MaxTuples
  BY SlotsFit DEF IInv, PageInv, tuple_count, TheCopy!tuple_count
<1>3. IInv => live \in {{"original"}, {"original", "copy"}, {"copy"}}
  BY DEF IInv
<1> QED
  BY <1>1, <1>2, <1>3, HandOverInvariant, PTL DEF BothPagesFit

-----------------------------------------------------------------------------
(***************************************************************************)
(* The searches.  On a page in order the tuples below a bound are the      *)
(* first ones, so that counting them gives the position behind them.       *)
(***************************************************************************)
LowerBoundOn(b, s, k) == 1 + Cardinality({i \in 1..Len(s) : b[s[i]] < k[1]})
UpperBoundOn(b, s, k) == 1 + Cardinality({i \in 1..Len(s) : b[s[i]] <= k[2]})

RangeLowerBoundOn(b, s, r) ==
  LET matching == {i \in 1..Len(s) : Matches(b[s[i]], r.low.value)}
      at == LowerBoundOn(b, s, r.low.value)
  IN  IF r.low.kind = "none" THEN 1
      ELSE IF r.low.kind = "OPEN" THEN Min((at..(Len(s) + 1)) \ matching)
      ELSE at

RangeUpperBoundOn(b, s, r) ==
  LET matching == {i \in 1..Len(s) : Matches(b[s[i]], r.high.value)}
      at == UpperBoundOn(b, s, r.high.value)
  IN  IF r.high.kind = "none" THEN Len(s) + 1
      ELSE IF r.high.kind = "OPEN" THEN Max({i \in 1..at : i - 1 \notin matching})
      ELSE at

EqualRangeOn(b, s, r) ==
  IF IsValid(r) THEN <<RangeLowerBoundOn(b, s, r), RangeUpperBoundOn(b, s, r)>>
  ELSE <<RangeLowerBoundOn(b, s, r), RangeLowerBoundOn(b, s, r)>>

ExactOn(b, s) ==
  \A r \in AllRangeKeys :
    LET found == EqualRangeOn(b, s, r)
    IN  {i \in 1..Len(s) : InRange(b[s[i]], r)} = found[1]..(found[2] - 1)

LEMMA TuplesBelowABound ==
  ASSUME NEW b, NEW s, NEW f, PageInv(b, s, f), NEW x \in Int
  PROVE  /\ \E c \in 0..Len(s) :
              /\ Cardinality({i \in 1..Len(s) : b[s[i]] < x}) = c
              /\ \A i \in 1..Len(s) : b[s[i]] < x <=> i <= c
         /\ \E c \in 0..Len(s) :
              /\ Cardinality({i \in 1..Len(s) : b[s[i]] <= x}) = c
              /\ \A i \in 1..Len(s) : b[s[i]] <= x <=> i <= c
<1> DEFINE n == Len(s)
           L == {i \in 1..Len(s) : b[s[i]] < x}
           M == {i \in 1..Len(s) : b[s[i]] <= x}
<1>1. n \in Nat /\ \A i \in 1..n : b[s[i]] \in Int
  BY TuplesOnPage
<1>2. \A i, j \in 1..n : i < j => b[s[i]] <= b[s[j]]
  BY DEF PageInv, Sorted
<1>3. L \in SUBSET (1..n) /\ \A i, j \in 1..n : i < j /\ j \in L => i \in L
  BY <1>1, <1>2
<1>4. M \in SUBSET (1..n) /\ \A i, j \in 1..n : i < j /\ j \in M => i \in M
  BY <1>1, <1>2
<1>5. Cardinality(L) \in 0..n /\ L = 1..Cardinality(L)
  BY <1>1, <1>3, InitialSegment
<1>6. Cardinality(M) \in 0..n /\ M = 1..Cardinality(M)
  BY <1>1, <1>4, InitialSegment
<1>7. \A i \in 1..Len(s) : b[s[i]] < x <=> i <= Cardinality(L)
  BY <1>1, <1>5
<1>8. \A i \in 1..Len(s) : b[s[i]] <= x <=> i <= Cardinality(M)
  BY <1>1, <1>6
<1> QED
  BY <1>5, <1>6, <1>7, <1>8

\* the position lower_bound() returns is that of the first tuple not below
\* the low endpoint
LEMMA LowerBoundOfRange ==
  ASSUME NEW b, NEW s, NEW f, PageInv(b, s, f), NEW r \in AllRangeKeys
  PROVE  /\ RangeLowerBoundOn(b, s, r) \in 1..(Len(s) + 1)
         /\ \A i \in 1..Len(s) : RangeLowerBoundOn(b, s, r) <= i <=>
              /\ r.low.kind = "OPEN"   => r.low.value[2] < b[s[i]]
              /\ r.low.kind = "CLOSED" => r.low.value[1] <= b[s[i]]
<1> DEFINE n == Len(s)
           k == r.low.value
           matching == {i \in 1..Len(s) : Matches(b[s[i]], k)}
           at == LowerBoundOn(b, s, k)
<1>0. ASSUME NEW x \in Int
      PROVE  /\ \E c \in 0..Len(s) :
                  /\ Cardinality({i \in 1..Len(s) : b[s[i]] < x}) = c
                  /\ \A i \in 1..Len(s) : b[s[i]] < x <=> i <= c
             /\ \E c \in 0..Len(s) :
                  /\ Cardinality({i \in 1..Len(s) : b[s[i]] <= x}) = c
                  /\ \A i \in 1..Len(s) : b[s[i]] <= x <=> i <= c
  BY TuplesBelowABound
<1>1. n \in Nat /\ \A i \in 1..n : b[s[i]] \in Int
  BY TuplesOnPage
<1>2. CASE r.low.kind = "none"
  BY <1>1, <1>2 DEF RangeLowerBoundOn
<1>3. ASSUME r.low.kind # "none"
      PROVE  r.low.kind \in {"OPEN", "CLOSED"} /\ k[1] \in Int /\ k[2] \in Int /\ k[1] <= k[2]
  <2>1. r.low.kind \in {"OPEN", "CLOSED"} /\ k \in SearchKeys
    BY <1>3 DEF AllRangeKeys, Endpoints, NoEndpoint
  <2> QED
    BY <2>1, PageSearchKeysAssumption
<1>4. CASE r.low.kind = "CLOSED"
  <2>1. PICK c \in 0..n : at = 1 + c /\ \A i \in 1..Len(s) : b[s[i]] < k[1] <=> i <= c
    BY <1>3, <1>4, <1>0 DEF LowerBoundOn
  <2>2. RangeLowerBoundOn(b, s, r) = at
    BY <1>4 DEF RangeLowerBoundOn
  <2> HIDE DEF at
  <2> QED
    BY <1>1, <1>3, <1>4, <2>1, <2>2
<1>5. CASE r.low.kind = "OPEN"
  <2>1. PICK c \in 0..n : at = 1 + c /\ \A i \in 1..Len(s) : b[s[i]] < k[1] <=> i <= c
    BY <1>3, <1>5, <1>0 DEF LowerBoundOn
  <2>2. PICK d \in 0..n : \A i \in 1..Len(s) : b[s[i]] <= k[2] <=> i <= d
    BY <1>3, <1>5, <1>0
  <2>3. RangeLowerBoundOn(b, s, r) = Min((at..(n + 1)) \ matching)
    BY <1>5 DEF RangeLowerBoundOn
  <2>4. \A i \in 1..Len(s) : i \in matching <=> c < i /\ i <= d
    BY <1>1, <1>3, <1>5, <2>1, <2>2 DEF Matches
  <2>5. c <= d
    <3> SUFFICES ASSUME d < c PROVE FALSE
      BY <1>1
    <3>1. c \in 1..Len(s) /\ ~(c <= d)
      BY <1>1
    <3> QED
      BY <1>1, <1>3, <1>5, <2>1, <2>2, <3>1
  <2> HIDE DEF at
  <2>6. matching \subseteq 1..n
    BY <1>1
  <2> HIDE DEF matching
  <2>7. d + 1 \in (at..(n + 1)) \ matching
    BY <1>1, <2>1, <2>4, <2>5, <2>6
  <2>8. \A i \in (at..(n + 1)) \ matching : d + 1 <= i
    <3> SUFFICES ASSUME NEW i \in at..(n + 1), i \notin matching PROVE d + 1 <= i
      OBVIOUS
    <3>1. CASE i \in 1..Len(s)
      BY <1>1, <2>1, <2>4, <3>1
    <3>2. CASE i \notin 1..Len(s)
      BY <1>1, <2>1, <3>2
    <3> QED
      BY <3>1, <3>2
  <2> DEFINE C == (at..(n + 1)) \ matching
  <2>9. d + 1 \in C /\ \A i \in C : i \in Int /\ d + 1 <= i
    BY <1>1, <2>1, <2>7, <2>8
  <2>10. Min(C) = d + 1
    <3> HIDE DEF C
    <3>1. Min(C) \in C /\ \A i \in C : Min(C) <= i
      BY <2>9 DEF Min
    <3> QED
      BY <1>1, <2>9, <3>1
  <2>11. \A i \in 1..Len(s) : k[2] < b[s[i]] <=> d + 1 <= i
    BY <1>1, <1>3, <1>5, <2>2
  <2> QED
    <3>1. RangeLowerBoundOn(b, s, r) = d + 1 /\ d + 1 \in 1..(n + 1)
      BY <1>1, <2>3, <2>10
    <3> QED
      BY <1>5, <2>11, <3>1
<1> QED
  BY <1>2, <1>3, <1>4, <1>5

\* the position upper_bound() returns is behind the last tuple not above the
\* high endpoint
LEMMA UpperBoundOfRange ==
  ASSUME NEW b, NEW s, NEW f, PageInv(b, s, f), NEW r \in AllRangeKeys
  PROVE  /\ RangeUpperBoundOn(b, s, r) \in 1..(Len(s) + 1)
         /\ \A i \in 1..Len(s) : i < RangeUpperBoundOn(b, s, r) <=>
              /\ r.high.kind = "OPEN"   => b[s[i]] < r.high.value[1]
              /\ r.high.kind = "CLOSED" => b[s[i]] <= r.high.value[2]
<1> DEFINE n == Len(s)
           k == r.high.value
           matching == {i \in 1..Len(s) : Matches(b[s[i]], k)}
           at == UpperBoundOn(b, s, k)
<1>0. ASSUME NEW x \in Int
      PROVE  /\ \E c \in 0..Len(s) :
                  /\ Cardinality({i \in 1..Len(s) : b[s[i]] < x}) = c
                  /\ \A i \in 1..Len(s) : b[s[i]] < x <=> i <= c
             /\ \E c \in 0..Len(s) :
                  /\ Cardinality({i \in 1..Len(s) : b[s[i]] <= x}) = c
                  /\ \A i \in 1..Len(s) : b[s[i]] <= x <=> i <= c
  BY TuplesBelowABound
<1>1. n \in Nat /\ \A i \in 1..n : b[s[i]] \in Int
  BY TuplesOnPage
<1>2. CASE r.high.kind = "none"
  BY <1>1, <1>2 DEF RangeUpperBoundOn
<1>3. ASSUME r.high.kind # "none"
      PROVE  r.high.kind \in {"OPEN", "CLOSED"} /\ k[1] \in Int /\ k[2] \in Int /\ k[1] <= k[2]
  <2>1. r.high.kind \in {"OPEN", "CLOSED"} /\ k \in SearchKeys
    BY <1>3 DEF AllRangeKeys, Endpoints, NoEndpoint
  <2> QED
    BY <2>1, PageSearchKeysAssumption
<1>4. CASE r.high.kind = "CLOSED"
  <2>1. PICK d \in 0..n : at = 1 + d /\ \A i \in 1..Len(s) : b[s[i]] <= k[2] <=> i <= d
    BY <1>3, <1>4, <1>0 DEF UpperBoundOn
  <2>2. RangeUpperBoundOn(b, s, r) = at
    BY <1>4 DEF RangeUpperBoundOn
  <2> HIDE DEF at
  <2> QED
    BY <1>1, <1>3, <1>4, <2>1, <2>2
<1>5. CASE r.high.kind = "OPEN"
  <2>1. PICK c \in 0..n : \A i \in 1..Len(s) : b[s[i]] < k[1] <=> i <= c
    BY <1>3, <1>5, <1>0
  <2>2. PICK d \in 0..n : at = 1 + d /\ \A i \in 1..Len(s) : b[s[i]] <= k[2] <=> i <= d
    BY <1>3, <1>5, <1>0 DEF UpperBoundOn
  <2>3. RangeUpperBoundOn(b, s, r) = Max({i \in 1..at : i - 1 \notin matching})
    BY <1>5 DEF RangeUpperBoundOn
  <2>4. \A i \in 1..Len(s) : i \in matching <=> c < i /\ i <= d
    BY <1>1, <1>3, <1>5, <2>1, <2>2 DEF Matches
  <2>5. c <= d
    <3> SUFFICES ASSUME d < c PROVE FALSE
      BY <1>1
    <3>1. c \in 1..Len(s) /\ ~(c <= d)
      BY <1>1
    <3> QED
      BY <1>1, <1>3, <1>5, <2>1, <2>2, <3>1
  <2> HIDE DEF at
  <2>6. matching \subseteq 1..n
    BY <1>1
  <2> HIDE DEF matching
  <2> DEFINE C == {i \in 1..at : i - 1 \notin matching}
  <2>7. c + 1 \in C
    BY <1>1, <2>2, <2>4, <2>5, <2>6
  <2>8. \A i \in C : i \in Int /\ i <= c + 1
    <3> SUFFICES ASSUME NEW i \in 1..at, i - 1 \notin matching PROVE i <= c + 1
      OBVIOUS
    <3>1. CASE i - 1 \in 1..Len(s)
      BY <1>1, <2>2, <2>4, <3>1
    <3>2. CASE i - 1 \notin 1..Len(s)
      BY <1>1, <2>2, <3>2
    <3> QED
      BY <3>1, <3>2
  <2>9. Max(C) = c + 1
    <3> HIDE DEF C
    <3>1. Max(C) \in C /\ \A i \in C : Max(C) >= i
      BY <2>7, <2>8 DEF Max
    <3> QED
      BY <2>7, <2>8, <3>1
  <2>10. \A i \in 1..Len(s) : b[s[i]] < k[1] <=> i < c + 1
    BY <1>1, <2>1
  <2> QED
    <3>1. RangeUpperBoundOn(b, s, r) = c + 1 /\ c + 1 \in 1..(n + 1)
      BY <1>1, <2>3, <2>9
    <3> QED
      BY <1>5, <2>10, <3>1
<1> QED
  BY <1>2, <1>3, <1>4, <1>5

\* no tuple is in a range that is not valid
LEMMA InvalidRangesAreEmpty ==
  ASSUME NEW b, NEW s, NEW f, PageInv(b, s, f), NEW r \in AllRangeKeys, ~IsValid(r),
         NEW i \in 1..Len(s)
  PROVE  ~InRange(b[s[i]], r)
<1>1. b[s[i]] \in Int
  BY TuplesOnPage
<1>2. /\ r.low.kind \in {"OPEN", "CLOSED"} /\ r.low.value \in SearchKeys
      /\ r.high.kind \in {"OPEN", "CLOSED"} /\ r.high.value \in SearchKeys
  BY DEF IsValid, AllRangeKeys, Endpoints, NoEndpoint
<1>3. /\ r.low.value[1] \in Int /\ r.low.value[2] \in Int /\ r.low.value[1] <= r.low.value[2]
      /\ r.high.value[1] \in Int /\ r.high.value[2] \in Int /\ r.high.value[1] <= r.high.value[2]
  BY <1>2, PageSearchKeysAssumption
<1> QED
  BY <1>1, <1>2, <1>3 DEF IsValid, InRange, Precedes

LEMMA SearchesAreExact ==
  ASSUME NEW b, NEW s, NEW f, PageInv(b, s, f)
  PROVE  ExactOn(b, s)
<1> SUFFICES ASSUME NEW r \in AllRangeKeys
             PROVE  {i \in 1..Len(s) : InRange(b[s[i]], r)}
                      = EqualRangeOn(b, s, r)[1]..(EqualRangeOn(b, s, r)[2] - 1)
  BY DEF ExactOn
<1>1. Len(s) \in Nat
  BY TuplesOnPage
<1>2. /\ RangeLowerBoundOn(b, s, r) \in 1..(Len(s) + 1)
      /\ \A i \in 1..Len(s) : RangeLowerBoundOn(b, s, r) <= i <=>
           /\ r.low.kind = "OPEN"   => r.low.value[2] < b[s[i]]
           /\ r.low.kind = "CLOSED" => r.low.value[1] <= b[s[i]]
  BY LowerBoundOfRange
<1>3. /\ RangeUpperBoundOn(b, s, r) \in 1..(Len(s) + 1)
      /\ \A i \in 1..Len(s) : i < RangeUpperBoundOn(b, s, r) <=>
           /\ r.high.kind = "OPEN"   => b[s[i]] < r.high.value[1]
           /\ r.high.kind = "CLOSED" => b[s[i]] <= r.high.value[2]
  BY UpperBoundOfRange
<1>4. CASE IsValid(r)
  <2>1. EqualRangeOn(b, s, r)[1] = RangeLowerBoundOn(b, s, r) /\ EqualRangeOn(b, s, r)[2] = RangeUpperBoundOn(b, s, r)
    BY <1>4 DEF EqualRangeOn
  <2>2. \A i \in 1..Len(s) : InRange(b[s[i]], r) <=> RangeLowerBoundOn(b, s, r) <= i /\ i < RangeUpperBoundOn(b, s, r)
    BY <1>2, <1>3 DEF InRange
  <2> QED
    BY <1>1, <1>2, <1>3, <2>1, <2>2
<1>5. CASE ~IsValid(r)
  <2>1. EqualRangeOn(b, s, r)[1] = RangeLowerBoundOn(b, s, r) /\ EqualRangeOn(b, s, r)[2] = RangeLowerBoundOn(b, s, r)
    BY <1>5 DEF EqualRangeOn
  <2>2. {i \in 1..Len(s) : InRange(b[s[i]], r)} = {}
    BY <1>5, InvalidRangesAreEmpty
  <2> QED
    BY <1>1, <1>2, <2>1, <2>2
<1> QED
  BY <1>4, <1>5

\* what is said of a buffer and a sequence of slots is said of either page
LEMMA ExactOnEitherPage ==
  /\ ExactOn(m_buffer, m_tuples) => RangesAreExact
  /\ ExactOn(m_buffer, copy_tuples) => TheCopy!RangesAreExact
<1>1. ASSUME NEW r PROVE EqualRange(r) = EqualRangeOn(m_buffer, m_tuples, r)
  <2>1. RangeLowerBound(r) = RangeLowerBoundOn(m_buffer, m_tuples, r)
    BY DEF RangeLowerBound, RangeLowerBoundOn, LowerBound, LowerBoundOn, Positions, tuple_count, TupleAt
  <2>2. RangeUpperBound(r) = RangeUpperBoundOn(m_buffer, m_tuples, r)
    BY DEF RangeUpperBound, RangeUpperBoundOn, UpperBound, UpperBoundOn, Positions, tuple_count, TupleAt
  <2> QED
    BY <2>1, <2>2 DEF EqualRange, EqualRangeOn
<1>2. /\ TheCopy!AllRangeKeys = AllRangeKeys
      /\ \A r : TheCopy!IsValid(r) = IsValid(r)
      /\ \A t, k : TheCopy!Matches(t, k) = Matches(t, k)
      /\ \A t, r : TheCopy!InRange(t, r) = InRange(t, r)
  BY DEF TheCopy!AllRangeKeys, AllRangeKeys, TheCopy!Endpoints, Endpoints,
     TheCopy!NoEndpoint, NoEndpoint, TheCopy!IsValid, IsValid, TheCopy!Precedes, Precedes,
     TheCopy!Matches, Matches, TheCopy!InRange, InRange
<1>3. ASSUME NEW r PROVE TheCopy!EqualRange(r) = EqualRangeOn(m_buffer, copy_tuples, r)
  <2>1. TheCopy!RangeLowerBound(r) = RangeLowerBoundOn(m_buffer, copy_tuples, r)
    BY <1>2, SameOperators DEF TheCopy!RangeLowerBound, RangeLowerBoundOn, TheCopy!LowerBound,
       LowerBoundOn, TheCopy!Positions, TheCopy!tuple_count, TheCopy!TupleAt
  <2>2. TheCopy!RangeUpperBound(r) = RangeUpperBoundOn(m_buffer, copy_tuples, r)
    BY <1>2, SameOperators DEF TheCopy!RangeUpperBound, RangeUpperBoundOn, TheCopy!UpperBound,
       UpperBoundOn, TheCopy!Positions, TheCopy!tuple_count, TheCopy!TupleAt
  <2> QED
    BY <1>2, <2>1, <2>2 DEF TheCopy!EqualRange, EqualRangeOn
<1>4. ExactOn(m_buffer, m_tuples) => RangesAreExact
  BY <1>1 DEF ExactOn, RangesAreExact, Positions, tuple_count, TupleAt
<1>5. ExactOn(m_buffer, copy_tuples) => TheCopy!RangesAreExact
  BY <1>2, <1>3 DEF ExactOn, TheCopy!RangesAreExact, TheCopy!Positions, TheCopy!tuple_count,
     TheCopy!TupleAt
<1> QED
  BY <1>4, <1>5

(***************************************************************************)
(* Whatever is on a page, and on the copy it was handed over to:           *)
(* equal_range() bounds exactly the tuples in the range, for open, closed  *)
(* and missing endpoints, keys that match several tuples, and duplicates.  *)
(***************************************************************************)
THEOREM PageRangesAreExact == HandOverSpec => []BothRangesAreExact
<1>1. IInv => BothRangesAreExact
  BY SearchesAreExact, ExactOnEitherPage DEF IInv, BothRangesAreExact
<1> QED
  BY <1>1, HandOverInvariant, PTL

-----------------------------------------------------------------------------
(***************************************************************************)
(* The page as a multiset.  What counts is how often each tuple is         *)
(* referred to, whichever slot it is in.                                   *)
(***************************************************************************)
CopiesOn(b, s) == [t \in Tuples |-> Cardinality({i \in 1..Len(s) : b[s[i]] = t})]
HoldsTuples(b, s) == \A i \in 1..Len(s) : b[s[i]] \in Tuples
Numbered(c) == UNION {{t} \X (1..c[t]) : t \in Tuples}

LEMMA PlacesOfATuple ==
  ASSUME NEW b, NEW s, Len(s) \in Nat, NEW t \in Tuples
  PROVE  /\ IsFiniteSet({i \in 1..Len(s) : b[s[i]] = t})
         /\ CopiesOn(b, s)[t] = Cardinality({i \in 1..Len(s) : b[s[i]] = t})
         /\ CopiesOn(b, s)[t] \in Nat
<1> DEFINE P == {i \in 1..Len(s) : b[s[i]] = t}
<1>1. P \in SUBSET (1..Len(s))
  OBVIOUS
<1>2. CopiesOn(b, s)[t] = Cardinality(P)
  BY DEF CopiesOn
<1>3. IsFiniteSet(P) /\ Cardinality(P) \in Nat
  <2>1. IsFiniteSet(1..Len(s))
    BY FS_Interval
  <2> HIDE DEF P
  <2> QED
    BY <1>1, <2>1, FS_Subset, FS_CardinalityType
<1> QED
  BY <1>2, <1>3

\* SortedPage's next-state relation: how often each tuple is there becomes c2
PromisedStep(c, c2) ==
  \/ c2 = [t \in Tuples |-> 0]
  \/ \E t \in Tuples :
       \/ Cardinality(Numbered(c)) < MaxTuples /\ c2 = [c EXCEPT ![t] = @ + 1]
       \/ c[t] > 0 /\ c2 = [c EXCEPT ![t] = @ - 1]

\* there are not more tuples than references
LEMMA NoMoreTuplesThanReferences ==
  ASSUME NEW b, NEW s, Len(s) \in Nat
  PROVE  /\ Cardinality(Numbered(CopiesOn(b, s))) \in Nat
         /\ Cardinality(Numbered(CopiesOn(b, s))) <= Len(s)
<1> DEFINE c == CopiesOn(b, s)
           P(t) == {i \in 1..Len(s) : b[s[i]] = t}
           g == [t \in Tuples |-> CHOOSE h : h \in Bijection(1..c[t], P(t))]
           N == Numbered(c)
           f == [x \in N |-> g[x[1]][x[2]]]
<1>1. ASSUME NEW t \in Tuples
      PROVE  /\ g[t] \in [1..c[t] -> P(t)]
             /\ \A i, j \in 1..c[t] : g[t][i] = g[t][j] => i = j
  <2>1. IsFiniteSet(P(t)) /\ c[t] = Cardinality(P(t))
    BY PlacesOfATuple
  <2>2. ExistsBijection(1..c[t], P(t))
    <3> HIDE DEF P, c
    <3> QED
      BY <2>1, FS_CardinalityType
  <2>3. g[t] \in Bijection(1..c[t], P(t))
    BY <2>2 DEF ExistsBijection
  <2> HIDE DEF g, P, c
  <2>4. g[t] \in Injection(1..c[t], P(t))
    BY <2>3 DEF Bijection
  <2> QED
    BY <2>4 DEF Injection, IsInjective
<1>2. \A x \in N : x[1] \in Tuples /\ x[2] \in 1..c[x[1]] /\ x = <<x[1], x[2]>>
  BY DEF Numbered
<1> HIDE DEF g, N, c
<1>3. \A x \in N : f[x] \in 1..Len(s) /\ b[s[f[x]]] = x[1]
  <2> SUFFICES ASSUME NEW x \in N PROVE f[x] \in 1..Len(s) /\ b[s[f[x]]] = x[1]
    OBVIOUS
  <2>1. g[x[1]][x[2]] \in P(x[1])
    BY <1>1, <1>2
  <2> QED
    BY <2>1
<1>4. \A x, y \in N : f[x] = f[y] => x = y
  <2> SUFFICES ASSUME NEW x \in N, NEW y \in N, f[x] = f[y] PROVE x = y
    OBVIOUS
  <2>1. x[1] = y[1]
    BY <1>3
  <2>2. g[x[1]][x[2]] = g[x[1]][y[2]]
    BY <2>1
  <2>3. x[2] = y[2]
    BY <1>1, <1>2, <2>1, <2>2
  <2> QED
    BY <1>2, <2>1, <2>3
<1>5. f \in Injection(N, 1..Len(s))
  <2>1. f \in [N -> 1..Len(s)]
    BY <1>3
  <2> HIDE DEF f
  <2> QED
    BY <1>4, <2>1 DEF Injection, IsInjective
<1>6. IsFiniteSet(1..Len(s)) /\ Cardinality(1..Len(s)) = Len(s)
  <2> HIDE DEF f, P
  <2>1. \A n \in Nat : IsFiniteSet(1..n) /\ Cardinality(1..n) = n
    BY FS_Interval
  <2> QED
    BY <2>1
<1>7. IsFiniteSet(N) /\ Cardinality(N) <= Len(s)
  <2> HIDE DEF f
  <2> QED
    BY <1>5, <1>6, FS_Injection
<1>8. Cardinality(N) \in Nat
  BY <1>7, FS_CardinalityType
<1> QED
  BY <1>7, <1>8 DEF N, c

\* an addition is noticed at its own tuple only
LEMMA AdditionIsPromised ==
  ASSUME NEW b, NEW s, NEW f, PageInv(b, s, f), Len(s) < MaxTuples, HoldsTuples(b, s),
         NEW slot, slot = SlotFor(s, f),
         NEW t \in Tuples, NEW b2, b2 = [b EXCEPT ![slot] = t],
         NEW p \in Places(b2, s, t)
  PROVE  /\ PromisedStep(CopiesOn(b, s), CopiesOn(b2, InsertAt(s, p, slot)))
         /\ HoldsTuples(b2, InsertAt(s, p, slot))
<1> DEFINE n == Len(s)
           r == InsertAt(s, p, slot)
<1>1. n \in Nat /\ s \in Seq(Slots) /\ \A i \in 1..n : s[i] \in Slots
  BY TuplesOnPage DEF PageInv, Partition
<1>2. slot \in Slots /\ \A i \in 1..n : s[i] # slot
  BY FreeSlotIsNotInUse
<1>3. b2[slot] = t /\ \A i \in 1..n : b2[s[i]] = b[s[i]]
  BY <1>1, <1>2 DEF PageInv, Buffer
<1>4. p \in 1..(n + 1)
  BY AdditionKeepsOrder
<1>5. InsertedAt(r, s, p, slot)
  BY <1>1, <1>2, <1>4, SourcesOfInsertAt
<1> HIDE DEF r
<1>6. /\ Len(r) = n + 1 /\ p \in 1..Len(r) /\ b2[r[p]] = t
      /\ \A i \in 1..Len(r) : i # p => Source(p, i) \in 1..n /\ b2[r[i]] = b[s[Source(p, i)]]
  BY <1>3, <1>5 DEF InsertedAt
<1>7. ASSUME NEW u \in Tuples
      PROVE  CopiesOn(b2, r)[u] = IF u = t THEN CopiesOn(b, s)[u] + 1 ELSE CopiesOn(b, s)[u]
  <2> DEFINE R == {i \in 1..Len(r) : b2[r[i]] = u}
             S == {i \in 1..Len(s) : b[s[i]] = u}
  <2>1. R \in SUBSET (1..Len(r)) /\ S \in SUBSET (1..Len(s)) /\ (p \in R <=> u = t)
    BY <1>6
  <2>2. \A i \in 1..Len(r) : i # p => (i \in R <=> Source(p, i) \in S)
    BY <1>6
  <2>3. CopiesOn(b2, r)[u] = Cardinality(R) /\ CopiesOn(b, s)[u] = Cardinality(S)
    BY DEF CopiesOn
  <2> HIDE DEF R, S
  <2> QED
    BY <1>1, <1>5, <2>1, <2>2, <2>3, PlacesAfterInsertion
<1>8. CopiesOn(b2, r) = [CopiesOn(b, s) EXCEPT ![t] = @ + 1]
  BY <1>7 DEF CopiesOn
<1>9. HoldsTuples(b2, r)
  BY <1>6 DEF HoldsTuples
<1>10. Cardinality(Numbered(CopiesOn(b, s))) < MaxTuples
  BY <1>1, NoMoreTuplesThanReferences, MaxTuplesAssumption
<1> QED
  BY <1>8, <1>9, <1>10 DEF PromisedStep, r

LEMMA ErasureRemovesOne ==
  ASSUME NEW b, NEW s, NEW f, PageInv(b, s, f), HoldsTuples(b, s), NEW p \in 1..Len(s)
  PROVE  /\ b[s[p]] \in Tuples /\ CopiesOn(b, s)[b[s[p]]] > 0
         /\ CopiesOn(b, RemoveAt(s, p)) = [CopiesOn(b, s) EXCEPT ![b[s[p]]] = @ - 1]
         /\ HoldsTuples(b, RemoveAt(s, p))
<1> DEFINE n == Len(s)
           r == RemoveAt(s, p)
           t == b[s[p]]
<1>1. n \in Nat /\ s \in Seq(Slots)
  BY TuplesOnPage DEF PageInv, Partition
<1>2. RemovedAt(r, s, p)
  BY <1>1, SourcesOfRemoveAt
<1>3. Len(r) \in Nat
  BY <1>1, RemoveAtProperties
<1>4. t \in Tuples /\ p \in 1..n /\ b[s[p]] = t
  BY DEF HoldsTuples
<1> HIDE DEF r, t
<1>5. \A i \in 1..Len(r) : SourceWithout(p, i) \in 1..n /\ b[r[i]] = b[s[SourceWithout(p, i)]]
  BY <1>2 DEF RemovedAt
<1>6. ASSUME NEW u \in Tuples
      PROVE  /\ CopiesOn(b, s)[u] \in Nat
             /\ CopiesOn(b, r)[u] = IF u = t THEN CopiesOn(b, s)[u] - 1 ELSE CopiesOn(b, s)[u]
  <2> DEFINE R == {i \in 1..Len(r) : b[r[i]] = u}
             S == {i \in 1..Len(s) : b[s[i]] = u}
  <2>1. R \in SUBSET (1..Len(r)) /\ S \in SUBSET (1..Len(s)) /\ (p \in S <=> u = t)
    BY <1>4
  <2>2. \A i \in 1..Len(r) : i \in R <=> SourceWithout(p, i) \in S
    BY <1>5
  <2>3. CopiesOn(b, r)[u] = Cardinality(R) /\ CopiesOn(b, s)[u] = Cardinality(S)
    BY DEF CopiesOn
  <2> HIDE DEF R, S
  <2>4. /\ Cardinality(S) \in Nat
        /\ Cardinality(R) = IF p \in S THEN Cardinality(S) - 1 ELSE Cardinality(S)
    BY <1>2, <1>3, <2>1, <2>2, PlacesAfterRemoval
  <2> QED
    BY <2>1, <2>3, <2>4
<1>7. CopiesOn(b, s)[t] > 0
  <2> DEFINE S == {i \in 1..Len(s) : b[s[i]] = t}
  <2>1. IsFiniteSet(S) /\ CopiesOn(b, s)[t] = Cardinality(S) /\ CopiesOn(b, s)[t] \in Nat
    BY <1>1, <1>4, PlacesOfATuple
  <2>2. p \in S
    BY <1>4
  <2> HIDE DEF S
  <2>3. Cardinality(S) # 0
    BY <2>1, <2>2, FS_EmptySet
  <2> QED
    BY <2>1, <2>3
<1>8. CopiesOn(b, r) = [CopiesOn(b, s) EXCEPT ![t] = @ - 1]
  BY <1>4, <1>6 DEF CopiesOn
<1>9. HoldsTuples(b, r)
  BY <1>5 DEF HoldsTuples
<1> QED
  BY <1>4, <1>7, <1>8, <1>9 DEF r, t

\* nothing is on an empty page
LEMMA EmptyPageHoldsNothing ==
  ASSUME NEW b
  PROVE  CopiesOn(b, <<>>) = [t \in Tuples |-> 0] /\ HoldsTuples(b, <<>>)
<1>1. \A t \in Tuples : {i \in 1..Len(<<>>) : b[<<>>[i]] = t} = {}
  OBVIOUS
<1>2. Cardinality({}) = 0
  BY FS_EmptySet
<1> QED
  BY <1>1, <1>2 DEF CopiesOn, HoldsTuples

-----------------------------------------------------------------------------
(***************************************************************************)
(* Every step of a page is a step of SortedPage.                           *)
(***************************************************************************)
LEMMA PromiseIsSortedPage ==
  PromisedStep(CopiesInUse, CopiesInUse') => Page!Next
BY DEF PromisedStep, Numbered, Page!Next, Page!Clear, Page!Empty, Page!Add, Page!Erase,
   Page!TupleCount, Page!Cardinality, Cardinality

LEMMA ErasureIsPromised ==
  ASSUME NEW b, NEW s, NEW f, PageInv(b, s, f), HoldsTuples(b, s), NEW p \in 1..Len(s)
  PROVE  /\ PromisedStep(CopiesOn(b, s), CopiesOn(b, RemoveAt(s, p)))
         /\ HoldsTuples(b, RemoveAt(s, p))
BY ErasureRemovesOne DEF PromisedStep

LEMMA EmptyingIsPromised ==
  ASSUME NEW b, NEW c
  PROVE  PromisedStep(c, CopiesOn(b, <<>>)) /\ HoldsTuples(b, <<>>)
BY EmptyPageHoldsNothing DEF PromisedStep

LEMMA PageStepIsPromised ==
  ASSUME PageInv(m_buffer, m_tuples, m_freeList), HoldsTuples(m_buffer, m_tuples),
         CompatibleNext
  PROVE  /\ PromisedStep(CopiesOn(m_buffer, m_tuples), CopiesOn(m_buffer', m_tuples'))
         /\ HoldsTuples(m_buffer', m_tuples')
<1>1. ASSUME NEW t \in Tuples, AddTuple(t)
      PROVE  /\ PromisedStep(CopiesOn(m_buffer, m_tuples), CopiesOn(m_buffer', m_tuples'))
             /\ HoldsTuples(m_buffer', m_tuples')
  <2>1. PICK p \in InsertPositions(m_buffer', t) : m_tuples' = InsertAt(m_tuples, p, SlotForTuple)
    BY <1>1 DEF AddTuple
  <2>2. p \in Places(m_buffer', m_tuples, t)
    BY <2>1 DEF InsertPositions, Positions, tuple_count, Places
  <2>3. Len(m_tuples) < MaxTuples /\ m_buffer' = [m_buffer EXCEPT ![SlotForTuple] = t]
    BY <1>1 DEF AddTuple, tuple_count
  <2>4. SlotForTuple = SlotFor(m_tuples, m_freeList)
    BY DEF SlotForTuple, tuple_count, SlotFor
  <2> QED
    BY <2>1, <2>2, <2>3, <2>4, AdditionIsPromised
<1>2. ASSUME NEW i \in Positions, EraseAt(i)
      PROVE  /\ PromisedStep(CopiesOn(m_buffer, m_tuples), CopiesOn(m_buffer', m_tuples'))
             /\ HoldsTuples(m_buffer', m_tuples')
  BY <1>2, ErasureIsPromised DEF EraseAt, Positions, tuple_count
<1>3. CASE Clear
  BY <1>3, EmptyingIsPromised DEF Clear
<1> QED
  BY <1>1, <1>2, <1>3, FoundTuplesAreOnThePage DEF CompatibleNext, EraseKey

LEMMA CopyOfPageStepIsPromised ==
  ASSUME PageInv(m_buffer, copy_tuples, copy_freeList), HoldsTuples(m_buffer, copy_tuples),
         TheCopy!CompatibleNext
  PROVE  /\ PromisedStep(CopiesOn(m_buffer, copy_tuples), CopiesOn(m_buffer', copy_tuples'))
         /\ HoldsTuples(m_buffer', copy_tuples')
<1>1. ASSUME NEW t \in Tuples, TheCopy!AddTuple(t)
      PROVE  /\ PromisedStep(CopiesOn(m_buffer, copy_tuples), CopiesOn(m_buffer', copy_tuples'))
             /\ HoldsTuples(m_buffer', copy_tuples')
  <2>1. PICK p \in TheCopy!InsertPositions(m_buffer', t) :
          copy_tuples' = InsertAt(copy_tuples, p, TheCopy!SlotForTuple)
    BY <1>1, SameOperators DEF TheCopy!AddTuple
  <2>2. p \in Places(m_buffer', copy_tuples, t)
    BY <2>1, SameOperators DEF TheCopy!InsertPositions, TheCopy!Positions, TheCopy!tuple_count, Places
  <2>3. Len(copy_tuples) < MaxTuples /\ m_buffer' = [m_buffer EXCEPT ![TheCopy!SlotForTuple] = t]
    BY <1>1 DEF TheCopy!AddTuple, TheCopy!tuple_count
  <2>4. TheCopy!SlotForTuple = SlotFor(copy_tuples, copy_freeList)
    BY SameOperators DEF TheCopy!SlotForTuple, TheCopy!tuple_count, SlotFor
  <2> QED
    BY <2>1, <2>2, <2>3, <2>4, AdditionIsPromised
<1>2. ASSUME NEW i \in TheCopy!Positions, TheCopy!EraseAt(i)
      PROVE  /\ PromisedStep(CopiesOn(m_buffer, copy_tuples), CopiesOn(m_buffer', copy_tuples'))
             /\ HoldsTuples(m_buffer', copy_tuples')
  BY <1>2, SameOperators, ErasureIsPromised DEF TheCopy!EraseAt, TheCopy!Positions, TheCopy!tuple_count
<1>3. CASE TheCopy!Clear
  BY <1>3, EmptyingIsPromised DEF TheCopy!Clear
<1> QED
  BY <1>1, <1>2, <1>3, TuplesFoundAreOnTheCopy DEF TheCopy!CompatibleNext, TheCopy!EraseKey

-----------------------------------------------------------------------------
(***************************************************************************)
(* The refinement.  While the page is handed over both pages hold the same *)
(* tuples, so that it is not noticed which of the two is looked at.        *)
(***************************************************************************)
HoldingInv == IInv /\ HoldsTuples(m_buffer, m_tuples) /\ HoldsTuples(m_buffer, copy_tuples)

UseInv ==
  /\ "original" \in live => CopiesInUse = CopiesOn(m_buffer, m_tuples)
  /\ "copy" \in live => CopiesInUse = CopiesOn(m_buffer, copy_tuples)

LEMMA WhatIsInUse == IInv => UseInv
<1>1. Copies = CopiesOn(m_buffer, m_tuples)
  BY DEF Copies, CopiesOn, Positions, tuple_count, TupleAt
<1>2. TheCopy!Copies = CopiesOn(m_buffer, copy_tuples)
  BY SameOperators DEF TheCopy!Copies, CopiesOn, TheCopy!Positions, TheCopy!tuple_count,
     TheCopy!TupleAt
<1> QED
  BY <1>1, <1>2 DEF IInv, UseInv, CopiesInUse

LEMMA HandOverImplementsPage ==
  ASSUME HoldingInv, UseInv, [HandOverNext]_allVars, IInv', UseInv'
  PROVE  HoldingInv' /\ (Page!Next \/ UNCHANGED CopiesInUse)
<1>1. /\ "original" \in live => CopiesInUse = CopiesOn(m_buffer, m_tuples)
      /\ "copy" \in live => CopiesInUse = CopiesOn(m_buffer, copy_tuples)
  BY DEF UseInv
<1>2. /\ "original" \in live' => CopiesInUse' = CopiesOn(m_buffer', m_tuples')
      /\ "copy" \in live' => CopiesInUse' = CopiesOn(m_buffer', copy_tuples')
  BY DEF UseInv
<1>3. live = {"original", "copy"} => Cardinality(live) # 1
  BY TwoPagesAreNotOne
<1>4. CASE CopyPage
  BY <1>1, <1>2, <1>4 DEF HoldingInv, CopyPage, vars
<1>5. CASE DestroyOriginal
  <2>1. HoldsTuples(m_buffer', m_tuples')
    BY <1>5 DEF DestroyOriginal, HoldsTuples
  <2> QED
    BY <1>1, <1>2, <1>5, <2>1 DEF HoldingInv, DestroyOriginal
<1>6. CASE Cardinality(live) = 1 /\ OriginalStep
  <2>1. live = {"original"} /\ live' = live /\ copy_tuples = <<>> /\ copy_tuples' = <<>>
    BY <1>3, <1>6 DEF HoldingInv, IInv, OriginalStep
  <2>2. /\ PromisedStep(CopiesOn(m_buffer, m_tuples), CopiesOn(m_buffer', m_tuples'))
        /\ HoldsTuples(m_buffer', m_tuples')
    BY <1>6, PageStepIsPromised DEF HoldingInv, IInv, OriginalStep
  <2>3. HoldsTuples(m_buffer', copy_tuples')
    BY <2>1 DEF HoldsTuples
  <2>4. Page!Next
    BY <1>1, <1>2, <2>1, <2>2, PromiseIsSortedPage
  <2> QED
    BY <2>2, <2>3, <2>4 DEF HoldingInv
<1>7. CASE Cardinality(live) = 1 /\ CopyStep
  <2>1. live = {"copy"} /\ live' = live /\ m_tuples = <<>> /\ m_tuples' = <<>>
    BY <1>3, <1>7 DEF HoldingInv, IInv, CopyStep
  <2>2. /\ PromisedStep(CopiesOn(m_buffer, copy_tuples), CopiesOn(m_buffer', copy_tuples'))
        /\ HoldsTuples(m_buffer', copy_tuples')
    BY <1>7, CopyOfPageStepIsPromised DEF HoldingInv, IInv, CopyStep
  <2>3. HoldsTuples(m_buffer', m_tuples')
    BY <2>1 DEF HoldsTuples
  <2>4. Page!Next
    BY <1>1, <1>2, <2>1, <2>2, PromiseIsSortedPage
  <2> QED
    BY <2>2, <2>3, <2>4 DEF HoldingInv
<1>8. CASE UNCHANGED allVars
  BY <1>1, <1>2, <1>8 DEF HoldingInv, IInv, allVars
<1> QED
  BY <1>4, <1>5, <1>6, <1>7, <1>8 DEF HandOverNext

LEMMA InitImplementsPage == BothInit => HoldingInv /\ Page!Init
<1> SUFFICES ASSUME BothInit PROVE HoldingInv /\ Page!Init
  OBVIOUS
<1>1. IInv /\ live = {"original"} /\ m_tuples = <<>> /\ copy_tuples = <<>>
  BY InitEstablishesIInv DEF BothInit, Init
<1>2. CopiesInUse = CopiesOn(m_buffer, <<>>)
  BY <1>1, WhatIsInUse DEF UseInv
<1> QED
  BY <1>1, <1>2, EmptyPageHoldsNothing DEF HoldingInv, Page!Init, Page!Empty

(***************************************************************************)
(* A page, and the copy it is handed over to, is the multiset of limited   *)
(* size that SortedPage promises: an addition adds its tuple, an erasure   *)
(* removes one tuple, and no other tuple changes, whichever slots are used *)
(* again.                                                                  *)
(***************************************************************************)
THEOREM HandOverImplementsSortedPage == HandOverSpec => ImplementsSortedPage
<1>1. HoldingInv /\ UseInv /\ [HandOverNext]_allVars /\ UseInv'
        => HoldingInv' /\ [Page!Next]_CopiesInUse
  BY HandOverPreservesIInv, HandOverImplementsPage DEF HoldingInv
<1>2. HoldingInv => IInv
  BY DEF HoldingInv
<1> QED
  BY <1>1, <1>2, InitImplementsPage, WhatIsInUse, HandOverPreservesIInv, PTL DEF HandOverSpec, ImplementsSortedPage, Page!Spec
=============================================================================
