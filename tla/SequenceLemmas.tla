---------------------------- MODULE SequenceLemmas ----------------------------
(***************************************************************************)
(* Lemmas about sequences that are used as ordered lists (m_tuples of a    *)
(* page is one, and what a std::multiset keeps): where their elements come *)
(* from when one is inserted or removed, and what it means that those      *)
(* before some place are the ones with a property.                         *)
(***************************************************************************)
EXTENDS SequencesExt, SequenceTheorems, FiniteSetTheorems, WellFoundedInduction, TLAPS

\* what the community operators on sequences return
LEMMA InsertAtProperties ==
  ASSUME NEW S, NEW s \in Seq(S), NEW e \in S, NEW p \in 1..(Len(s) + 1)
  PROVE  /\ InsertAt(s, p, e) \in Seq(S)
         /\ Len(InsertAt(s, p, e)) = Len(s) + 1
         /\ \A i \in 1..(Len(s) + 1) :
              InsertAt(s, p, e)[i] = IF i < p THEN s[i] ELSE IF i = p THEN e ELSE s[i - 1]
<1> DEFINE a == SubSeq(s, 1, p - 1)
           c == SubSeq(s, p, Len(s))
           d == a \o <<e>>
<1>1. Len(s) \in Nat /\ p \in Nat /\ \A i \in 1..Len(s) : s[i] \in S
  OBVIOUS
<1>2. a \in Seq(S) /\ Len(a) = p - 1 /\ \A i \in 1..(p - 1) : a[i] = s[i]
  BY <1>1, SubSeqProperties
<1>3. c \in Seq(S) /\ Len(c) = Len(s) - p + 1 /\ \A i \in 1..(Len(s) - p + 1) : c[i] = s[p + i - 1]
  BY <1>1, SubSeqProperties
<1>4. InsertAt(s, p, e) = d \o c
  BY DEF InsertAt
<1>5. <<e>> \in Seq(S) /\ Len(<<e>>) = 1 /\ <<e>>[1] = e
  OBVIOUS
<1> HIDE DEF a, c
<1>6. d \in Seq(S) /\ Len(d) = p
  BY <1>1, <1>2, <1>5, ConcatProperties
<1>7. \A i \in 1..p : d[i] = IF i < p THEN s[i] ELSE e
  BY <1>1, <1>2, <1>5, ConcatProperties
<1> HIDE DEF d
<1>8. d \o c \in Seq(S) /\ Len(d \o c) = Len(s) + 1
  <2>1. d \o c \in Seq(S) /\ Len(d \o c) = Len(d) + Len(c)
    BY <1>3, <1>6, ConcatProperties
  <2> QED
    BY <1>1, <1>3, <1>6, <2>1
<1>9. ASSUME NEW i \in 1..(Len(s) + 1)
      PROVE  (d \o c)[i] = IF i < p THEN s[i] ELSE IF i = p THEN e ELSE s[i - 1]
  <2>1. (d \o c)[i] = IF i <= p THEN d[i] ELSE c[i - p]
    BY <1>1, <1>3, <1>6, ConcatProperties
  <2> QED
    BY <1>1, <1>3, <1>7, <2>1
<1> QED
  BY <1>4, <1>8, <1>9

\* where the elements come from when one is inserted at p
Source(p, i) == IF i < p THEN i ELSE i - 1

InsertedAt(r, s, p, e) ==
  /\ Len(r) = Len(s) + 1 /\ p \in 1..Len(r) /\ r[p] = e
  /\ \A i \in 1..Len(r) : i # p => Source(p, i) \in 1..Len(s) /\ r[i] = s[Source(p, i)]
  /\ \A i, j \in 1..Len(r) : i # p /\ j # p =>
       (i < j <=> Source(p, i) < Source(p, j)) /\ (i = j <=> Source(p, i) = Source(p, j))
  /\ \A k \in 1..Len(s) : \E i \in 1..Len(r) : i # p /\ Source(p, i) = k

LEMMA SourcesOfInsertAt ==
  ASSUME NEW S, NEW s \in Seq(S), NEW e \in S, NEW p \in 1..(Len(s) + 1)
  PROVE  InsertedAt(InsertAt(s, p, e), s, p, e)
<1> DEFINE n == Len(s)
           r == InsertAt(s, p, e)
<1>1. n \in Nat /\ p \in Nat
  OBVIOUS
<1>2. /\ Len(r) = n + 1
      /\ \A i \in 1..(n + 1) : r[i] = IF i < p THEN s[i] ELSE IF i = p THEN e ELSE s[i - 1]
  BY InsertAtProperties
<1> HIDE DEF n, r
<1>3. p \in 1..(n + 1)
  BY DEF n
<1>4. r[p] = e
  BY <1>1, <1>2, <1>3
<1>5. \A i \in 1..(n + 1) : i # p => Source(p, i) \in 1..n
  BY <1>1, <1>3 DEF Source
<1>6. \A i \in 1..(n + 1) : i # p => r[i] = s[Source(p, i)]
  BY <1>1, <1>2, <1>3 DEF Source
<1>7. \A i, j \in 1..(n + 1) : i # p /\ j # p =>
        (i < j <=> Source(p, i) < Source(p, j)) /\ (i = j <=> Source(p, i) = Source(p, j))
  BY <1>1, <1>3 DEF Source
<1>8. ASSUME NEW k \in 1..n PROVE \E i \in 1..(n + 1) : i # p /\ Source(p, i) = k
  <2>1. CASE k < p
    <3>1. k \in 1..(n + 1) /\ k # p /\ Source(p, k) = k
      BY <1>1, <1>3, <2>1 DEF Source
    <3> QED
      BY <3>1
  <2>2. CASE ~(k < p)
    <3>1. k + 1 \in 1..(n + 1) /\ k + 1 # p /\ Source(p, k + 1) = k
      BY <1>1, <1>3, <2>2 DEF Source
    <3> QED
      BY <3>1
  <2> QED
    BY <2>1, <2>2
<1>9. InsertedAt(r, s, p, e)
  BY <1>2, <1>3, <1>4, <1>5, <1>6, <1>7, <1>8 DEF n, InsertedAt
<1> QED
  BY <1>9 DEF r

LEMMA RemoveAtProperties ==
  ASSUME NEW S, NEW s \in Seq(S), NEW p \in 1..Len(s)
  PROVE  /\ RemoveAt(s, p) \in Seq(S)
         /\ Len(RemoveAt(s, p)) = Len(s) - 1
         /\ \A i \in 1..(Len(s) - 1) : RemoveAt(s, p)[i] = IF i < p THEN s[i] ELSE s[i + 1]
<1> DEFINE a == SubSeq(s, 1, p - 1)
           c == SubSeq(s, p + 1, Len(s))
<1>1. Len(s) \in Nat /\ p \in Nat /\ \A i \in 1..Len(s) : s[i] \in S
  OBVIOUS
<1>2. a \in Seq(S) /\ Len(a) = p - 1 /\ \A i \in 1..(p - 1) : a[i] = s[i]
  BY <1>1, SubSeqProperties
<1>3. c \in Seq(S) /\ Len(c) = Len(s) - p /\ \A i \in 1..(Len(s) - p) : c[i] = s[p + i]
  BY <1>1, SubSeqProperties
<1>4. RemoveAt(s, p) = a \o c
  BY DEF RemoveAt
<1> HIDE DEF a, c
<1>5. a \o c \in Seq(S) /\ Len(a \o c) = Len(s) - 1
  <2>1. a \o c \in Seq(S) /\ Len(a \o c) = Len(a) + Len(c)
    BY <1>2, <1>3, ConcatProperties
  <2> QED
    BY <1>1, <1>2, <1>3, <2>1
<1>6. ASSUME NEW i \in 1..(Len(s) - 1)
      PROVE  (a \o c)[i] = IF i < p THEN s[i] ELSE s[i + 1]
  <2>1. (a \o c)[i] = IF i <= p - 1 THEN a[i] ELSE c[i - (p - 1)]
    BY <1>1, <1>2, <1>3, ConcatProperties
  <2> QED
    BY <1>1, <1>2, <1>3, <2>1
<1> QED
  BY <1>4, <1>5, <1>6

\* where the elements come from when the one at p is removed
SourceWithout(p, i) == IF i < p THEN i ELSE i + 1

RemovedAt(r, s, p) ==
  /\ Len(s) = Len(r) + 1
  /\ \A i \in 1..Len(r) :
       SourceWithout(p, i) \in (1..Len(s)) \ {p} /\ r[i] = s[SourceWithout(p, i)]
  /\ \A i, j \in 1..Len(r) :
       /\ i < j <=> SourceWithout(p, i) < SourceWithout(p, j)
       /\ i = j <=> SourceWithout(p, i) = SourceWithout(p, j)
  /\ \A k \in (1..Len(s)) \ {p} : \E i \in 1..Len(r) : SourceWithout(p, i) = k

LEMMA SourcesOfRemoveAt ==
  ASSUME NEW S, NEW s \in Seq(S), NEW p \in 1..Len(s)
  PROVE  RemovedAt(RemoveAt(s, p), s, p)
<1> DEFINE n == Len(s)
           r == RemoveAt(s, p)
<1>1. n \in Nat /\ p \in Nat
  OBVIOUS
<1>2. Len(r) = n - 1 /\ \A i \in 1..(n - 1) : r[i] = IF i < p THEN s[i] ELSE s[i + 1]
  BY RemoveAtProperties
<1>3. p \in 1..n
  OBVIOUS
<1> HIDE DEF n, r
<1>4. \A i \in 1..(n - 1) : SourceWithout(p, i) \in (1..n) \ {p} /\ r[i] = s[SourceWithout(p, i)]
  BY <1>1, <1>2, <1>3 DEF SourceWithout
<1>5. \A i, j \in 1..(n - 1) :
        /\ i < j <=> SourceWithout(p, i) < SourceWithout(p, j)
        /\ i = j <=> SourceWithout(p, i) = SourceWithout(p, j)
  BY <1>1, <1>3 DEF SourceWithout
<1>6. ASSUME NEW k \in (1..n) \ {p} PROVE \E i \in 1..(n - 1) : SourceWithout(p, i) = k
  <2>1. CASE k < p
    <3>1. k \in 1..(n - 1) /\ SourceWithout(p, k) = k
      BY <1>1, <1>3, <2>1 DEF SourceWithout
    <3> QED
      BY <3>1
  <2>2. CASE ~(k < p)
    <3>1. k - 1 \in 1..(n - 1) /\ SourceWithout(p, k - 1) = k
      BY <1>1, <1>3, <2>2 DEF SourceWithout
    <3> QED
      BY <3>1
  <2> QED
    BY <2>1, <2>2
<1>7. n = (n - 1) + 1
  BY <1>1
<1>8. RemovedAt(r, s, p)
  BY <1>2, <1>4, <1>5, <1>6, <1>7 DEF n, RemovedAt
<1> QED
  BY <1>8 DEF r

LEMMA FrontProperties ==
  ASSUME NEW S, NEW s \in Seq(S), s # <<>>
  PROVE  /\ Front(s) \in Seq(S) /\ Len(Front(s)) = Len(s) - 1
         /\ \A i \in 1..(Len(s) - 1) : Front(s)[i] = s[i]
         /\ Len(s) \in 1..Len(s) /\ Last(s) = s[Len(s)] /\ Last(s) \in S
<1>1. Len(s) \in Nat /\ Len(s) # 0 /\ \A i \in 1..Len(s) : s[i] \in S
  OBVIOUS
<1>2. /\ SubSeq(s, 1, Len(s) - 1) \in Seq(S) /\ Len(SubSeq(s, 1, Len(s) - 1)) = Len(s) - 1
      /\ \A i \in 1..(Len(s) - 1) : SubSeq(s, 1, Len(s) - 1)[i] = s[i]
  <2> DEFINE m == Len(s) - 1
  <2>1. m \in Nat /\ \A i \in 1..m : s[i] \in S
    BY <1>1
  <2> HIDE DEF m
  <2>2. /\ SubSeq(s, 1, m) \in Seq(S)
        /\ Len(SubSeq(s, 1, m)) = IF 1 <= m THEN m - 1 + 1 ELSE 0
        /\ \A i \in 1..(m - 1 + 1) : SubSeq(s, 1, m)[i] = s[1 + i - 1]
    BY <2>1, SubSeqProperties
  <2>3. Len(SubSeq(s, 1, m)) = m /\ \A i \in 1..m : SubSeq(s, 1, m)[i] = s[i]
    BY <2>1, <2>2
  <2> QED
    BY <2>2, <2>3 DEF m
<1> QED
  BY <1>1, <1>2 DEF Front, Last

\* a set of naturals that is not empty has a least element
LEMMA LeastElement ==
  ASSUME NEW S, S \subseteq Nat, S # {}
  PROVE  \E x \in S : \A y \in S : x <= y
<1> DEFINE R == OpToRel(<, Nat)
<1>1. IsWellFoundedOn(R, Nat)
  BY NatLessThanWellFounded
<1>2. \A x, y \in Nat : <<y, x>> \in R <=> y < x
  BY DEF OpToRel
<1> HIDE DEF R
<1>3. PICK x \in S : \A y \in S : <<y, x>> \notin R
  BY <1>1, WFMin
<1>4. \A y \in S : ~(y < x)
  BY <1>2, <1>3
<1> QED
  BY <1>4

\* a set of positions that has all those before each of its own is as long as
\* its last one
LEMMA InitialSegment ==
  ASSUME NEW n \in Nat, NEW S \in SUBSET (1..n),
         \A i, j \in 1..n : i < j /\ j \in S => i \in S
  PROVE  Cardinality(S) \in 0..n /\ S = 1..Cardinality(S)
<1>1. \A m \in 0..n : Cardinality(1..m) = m
  BY FS_Interval
<1>2. ASSUME NEW m \in 0..n, S = 1..m PROVE Cardinality(S) \in 0..n /\ S = 1..Cardinality(S)
  BY <1>1, <1>2
<1>3. CASE S = 1..n
  BY <1>2, <1>3
<1>4. CASE S # 1..n
  <2> DEFINE T == (1..n) \ S
  <2>1. T \subseteq Nat
    OBVIOUS
  <2>2. T # {}
    BY <1>4
  <2>3. PICK x \in T : \A y \in T : x <= y
    BY <2>1, <2>2, LeastElement
  <2>4. x \in 1..n /\ x \notin S
    BY <2>3
  <2>5. S \subseteq 1..(x - 1)
    <3> SUFFICES ASSUME NEW i \in S PROVE i \in 1..(x - 1)
      OBVIOUS
    <3>1. i \in 1..n /\ i # x /\ ~(x < i)
      BY <2>4
    <3> QED
      BY <2>4, <3>1
  <2>6. 1..(x - 1) \subseteq S
    <3> SUFFICES ASSUME NEW i \in 1..(x - 1) PROVE i \in S
      OBVIOUS
    <3>1. i \in 1..n /\ ~(x <= i)
      BY <2>4
    <3> QED
      BY <2>3, <3>1
  <2>7. S = 1..(x - 1)
    BY <2>5, <2>6
  <2>8. x - 1 \in 0..n
    BY <2>4
  <2> QED
    BY <1>2, <2>7, <2>8
<1> QED
  BY <1>3, <1>4

-----------------------------------------------------------------------------
(***************************************************************************)
(* Counting positions.  Sets between which there is a one-to-one map have  *)
(* as many elements.                                                       *)
(***************************************************************************)
LEMMA SameNumber ==
  ASSUME NEW S, NEW T, IsFiniteSet(S), NEW g \in [S -> T],
         \A i, j \in S : g[i] = g[j] => i = j,
         \A k \in T : \E i \in S : g[i] = k
  PROVE  IsFiniteSet(T) /\ Cardinality(T) = Cardinality(S)
<1>1. g \in Injection(S, T)
  BY DEF Injection, IsInjective
<1>2. g \in Surjection(S, T)
  BY DEF Surjection
<1>3. ExistsBijection(S, T)
  BY <1>1, <1>2 DEF ExistsBijection, Bijection
<1> QED
  BY <1>3, FS_Bijection

\* a property of the elements holds at as many places as before, and at that
\* of the new element if it has it
LEMMA PlacesAfterInsertion ==
  ASSUME NEW r, NEW s, NEW p, NEW e, InsertedAt(r, s, p, e), Len(s) \in Nat,
         NEW R \in SUBSET (1..Len(r)), NEW S \in SUBSET (1..Len(s)),
         \A i \in 1..Len(r) : i # p => (i \in R <=> Source(p, i) \in S)
  PROVE  /\ IsFiniteSet(S) /\ Cardinality(S) \in Nat
         /\ Cardinality(R) = IF p \in R THEN Cardinality(S) + 1 ELSE Cardinality(S)
<1> DEFINE Q == R \ {p}
           g == [i \in Q |-> Source(p, i)]
<1>1. Len(r) = Len(s) + 1 /\ p \in 1..Len(r)
  BY DEF InsertedAt
<1>2. IsFiniteSet(1..Len(r)) /\ IsFiniteSet(1..Len(s))
  BY <1>1, FS_Interval
<1>3. IsFiniteSet(R) /\ IsFiniteSet(S) /\ IsFiniteSet(Q) /\ Cardinality(S) \in Nat
      /\ Cardinality(R) \in Nat
  BY <1>2, FS_Subset, FS_CardinalityType
<1>4. g \in [Q -> S] /\ \A i \in Q : g[i] = Source(p, i)
  OBVIOUS
<1>5. \A i, j \in Q : g[i] = g[j] => i = j
  BY <1>4 DEF InsertedAt
<1>6. \A k \in S : \E i \in Q : g[i] = k
  <2> SUFFICES ASSUME NEW k \in S PROVE \E i \in Q : g[i] = k
    OBVIOUS
  <2>1. PICK i \in 1..Len(r) : i # p /\ Source(p, i) = k
    BY DEF InsertedAt
  <2>2. i \in Q
    BY <2>1
  <2> QED
    BY <1>4, <2>1, <2>2
<1>7. Cardinality(S) = Cardinality(Q)
  <2> HIDE DEF g, Q
  <2> QED
    BY <1>3, <1>4, <1>5, <1>6, SameNumber
<1>8. Cardinality(Q) = IF p \in R THEN Cardinality(R) - 1 ELSE Cardinality(R)
  BY <1>3, FS_RemoveElement
<1> QED
  BY <1>3, <1>7, <1>8

LEMMA PlacesAfterRemoval ==
  ASSUME NEW r, NEW s, NEW p, RemovedAt(r, s, p), Len(r) \in Nat,
         NEW R \in SUBSET (1..Len(r)), NEW S \in SUBSET (1..Len(s)),
         \A i \in 1..Len(r) : i \in R <=> SourceWithout(p, i) \in S
  PROVE  /\ IsFiniteSet(S) /\ Cardinality(S) \in Nat
         /\ Cardinality(R) = IF p \in S THEN Cardinality(S) - 1 ELSE Cardinality(S)
<1> DEFINE Q == S \ {p}
           g == [i \in R |-> SourceWithout(p, i)]
<1>1. Len(s) = Len(r) + 1
  BY DEF RemovedAt
<1>2. IsFiniteSet(1..Len(r)) /\ IsFiniteSet(1..Len(s))
  BY <1>1, FS_Interval
<1>3. IsFiniteSet(R) /\ IsFiniteSet(S) /\ Cardinality(S) \in Nat
  BY <1>2, FS_Subset, FS_CardinalityType
<1>4. g \in [R -> Q] /\ \A i \in R : g[i] = SourceWithout(p, i)
  BY DEF RemovedAt
<1>5. \A i, j \in R : g[i] = g[j] => i = j
  BY <1>4 DEF RemovedAt
<1>6. \A k \in Q : \E i \in R : g[i] = k
  <2> SUFFICES ASSUME NEW k \in Q PROVE \E i \in R : g[i] = k
    OBVIOUS
  <2>1. PICK i \in 1..Len(r) : SourceWithout(p, i) = k
    BY DEF RemovedAt
  <2> QED
    BY <1>4, <2>1
<1>7. Cardinality(Q) = Cardinality(R)
  <2> HIDE DEF g, Q
  <2> QED
    BY <1>3, <1>4, <1>5, <1>6, SameNumber
<1>8. Cardinality(Q) = IF p \in S THEN Cardinality(S) - 1 ELSE Cardinality(S)
  BY <1>3, FS_RemoveElement
<1> QED
  BY <1>3, <1>7, <1>8
===============================================================================
