-------------------------- MODULE IDAllocatorProofs --------------------------
(***************************************************************************)
(* Proofs about IDAllocator, for every bound MaxIDs.  TypeOK and           *)
(* FreeIsTheGaps are inductive together: to know that the size of m_used   *)
(* is a fresh ID when m_free is empty one needs that an empty free list    *)
(* means there are no gaps.                                                *)
(***************************************************************************)
EXTENDS IDAllocator, FiniteSetTheorems, WellFoundedInduction, TLAPS

(***************************************************************************)
(* A set of naturals that is not empty has a least element, so the head of    *)
(* m_free is defined.                                                      *)
(***************************************************************************)
LEMMA LeastElement ==
  ASSUME NEW S, S \subseteq Nat, S # {}
  PROVE  \E x \in S : \A y \in S : x <= y
<1> DEFINE R == OpToRel(<, Nat)
<1>1. IsWellFoundedOn(R, Nat)
  BY NatLessThanWellFounded
<1>2. \A x, y \in Nat : <<y, x>> \in R <=> y < x
  BY DEF OpToRel
<1> HIDE DEF R
<1>3. PICK x \in S : \A y \in S : <<y, x>> \notin R
  BY <1>1, WFMin
<1>4. \A y \in S : ~(y < x)
  BY <1>2, <1>3
<1> QED
  BY <1>4

(***************************************************************************)
(* A bounded set of naturals that is not empty has a greatest element,     *)
(* so the last ID of m_used is defined.                                    *)
(***************************************************************************)
LEMMA GreatestElement ==
  ASSUME NEW m \in Nat, NEW S, S \subseteq 0..m, S # {}
  PROVE  \E x \in S : \A y \in S : y <= x
<1> DEFINE T == {t \in 0..m : m - t \in S}
<1>1. PICK s \in S : TRUE
  OBVIOUS
<1>2. s \in 0..m
  BY <1>1
<1>3. m - s \in 0..m /\ m - (m - s) = s
  BY <1>2
<1>4. m - s \in T
  BY <1>1, <1>3
<1>5. T \subseteq Nat /\ T # {}
  BY <1>4
<1> HIDE DEF T
<1>6. PICK t \in T : \A u \in T : t <= u
  BY <1>5, LeastElement
<1>7. t \in 0..m /\ m - t \in S
  BY <1>6 DEF T
<1>8. ASSUME NEW y \in S
      PROVE  y <= m - t
  <2>1. y \in 0..m /\ m - (m - y) = y
    OBVIOUS
  <2>2. m - y \in T
    BY <2>1 DEF T
  <2>3. t <= m - y
    BY <1>6, <2>2
  <2> QED
    BY <1>7, <2>1, <2>3
<1> QED
  BY <1>7, <1>8

\* what the two ends of an ordered set are
LEMMA SmallestIsLeast ==
  ASSUME NEW S, S \subseteq Nat, S # {}
  PROVE  Smallest(S) \in S /\ \A k \in S : Smallest(S) <= k
BY LeastElement DEF Smallest

LEMMA LargestIsGreatest ==
  ASSUME NEW m \in Nat, NEW S, S \subseteq 0..m, S # {}
  PROVE  Largest(S) \in S /\ \A k \in S : k <= Largest(S)
BY GreatestElement DEF Largest

-----------------------------------------------------------------------------
(***************************************************************************)
(* The inductive invariant, as a predicate on the two sets: a method that  *)
(* calls the allocator twice goes through a pair that is never the state.  *)
(***************************************************************************)
Consistent(free, used) ==
  /\ free \subseteq 0..(MaxIDs - 1) /\ used \subseteq 0..(MaxIDs - 1)
  /\ \A n \in 0..(MaxIDs - 1) :
       n \in free <=> n \notin used /\ \E k \in used : n < k

(***************************************************************************)
(* When no ID is free the IDs in use are 0, 1, ..., n-1, and n is how many *)
(* there are.                                                              *)
(***************************************************************************)
LEMMA NoGapsWhenNoneFree ==
  ASSUME NEW free, NEW used, Consistent(free, used), free = {}
  PROVE  used = 0..(Cardinality(used) - 1) /\ Cardinality(used) \in Nat
<1> USE MaxIDsAssumption DEF Consistent
<1>1. CASE used = {}
  BY <1>1, FS_EmptySet
<1>2. CASE used # {}
  <2> DEFINE m == Largest(used)
  <2>1. m \in used /\ \A k \in used : k <= m
    <3>1. used \subseteq 0..(MaxIDs - 1) /\ MaxIDs - 1 \in Nat
      OBVIOUS
    <3> QED
      BY <1>2, <3>1, LargestIsGreatest, Zenon
  <2>2. m \in 0..(MaxIDs - 1)
    BY <2>1
  <2> HIDE DEF m
  <2>3. used = 0..m
    <3>1. \A k \in used : k \in 0..m
      BY <2>1, <2>2
    <3>2. \A k \in 0..m : k \in used
      BY <2>1, <2>2
    <3> QED
      BY <3>1, <3>2
  <2>4. Cardinality(0..m) = m + 1
    BY <2>2, FS_Interval
  <2> QED
    BY <2>2, <2>3, <2>4
<1> QED
  BY <1>1, <1>2

(***************************************************************************)
(* The ID allocate() returns is fresh and the least such.                  *)
(***************************************************************************)
LEMMA AllocatedIsFresh ==
  ASSUME NEW free, NEW used, Consistent(free, used)
  PROVE  /\ Allocated(free, used) \in Nat
         /\ Allocated(free, used) \notin used
         /\ \A k \in 0..(Allocated(free, used) - 1) : k \in used
         /\ free # {} => Allocated(free, used) \in free
         /\ free = {} => Allocated(free, used) = Cardinality(used)
<1>0. free = {} => used = 0..(Cardinality(used) - 1) /\ Cardinality(used) \in Nat
  BY NoGapsWhenNoneFree
<1> USE MaxIDsAssumption DEF Consistent
<1>1. CASE free = {}
  BY <1>0, <1>1 DEF Allocated
<1>2. CASE free # {}
  <2> DEFINE n == Smallest(free)
  <2>1. n \in free /\ \A k \in free : n <= k
    <3>1. free \subseteq Nat
      OBVIOUS
    <3> QED
      BY <1>2, <3>1, SmallestIsLeast, Zenon
  <2>2. Allocated(free, used) = n
    BY <1>2 DEF Allocated
  <2> HIDE DEF n
  <2>3. n \in 0..(MaxIDs - 1) /\ n \notin used
    BY <2>1
  <2>4. PICK j \in used : n < j
    BY <2>1, <2>3
  <2>5. ASSUME NEW k \in 0..(n - 1)
        PROVE  k \in used
    <3>1. k \in 0..(MaxIDs - 1) /\ k < j
      BY <2>3, <2>4
    <3>2. k \notin free
      BY <2>1, <2>3
    <3> QED
      BY <2>4, <3>1, <3>2
  <2> QED
    BY <1>2, <2>1, <2>2, <2>3, <2>5
<1> QED
  BY <1>1, <1>2

(***************************************************************************)
(* An ID that is within the bound can be handed out.                       *)
(***************************************************************************)
LEMMA AllocateKeepsConsistent ==
  ASSUME NEW free, NEW used, Consistent(free, used), Allocated(free, used) < MaxIDs
  PROVE  Consistent(FreeAfterAllocate(free, used), UsedAfterAllocate(free, used))
<1> USE MaxIDsAssumption
<1> DEFINE n == Allocated(free, used)
           free2 == FreeAfterAllocate(free, used)
           used2 == UsedAfterAllocate(free, used)
<1>1. /\ n \in Nat /\ n \notin used /\ \A k \in 0..(n - 1) : k \in used
      /\ free # {} => n \in free
      /\ free = {} => n = Cardinality(used)
  BY AllocatedIsFresh
<1>2. free2 = free \ {n} /\ used2 = used \cup {n}
  BY DEF FreeAfterAllocate, UsedAfterAllocate
<1> HIDE DEF n, free2, used2
<1>3. n \in 0..(MaxIDs - 1)
  BY <1>1 DEF n
<1>4. free2 \subseteq 0..(MaxIDs - 1) /\ used2 \subseteq 0..(MaxIDs - 1)
  BY <1>2, <1>3 DEF Consistent
<1>5. ASSUME NEW k \in 0..(MaxIDs - 1)
      PROVE  k \in free2 <=> k \notin used2 /\ \E j \in used2 : k < j
  <2>1. CASE k \in used2
    BY <1>2, <2>1 DEF Consistent
  <2>2. CASE k \notin used2
    <3>1. k \in free <=> \E j \in used : k < j
      BY <1>2, <2>2 DEF Consistent
    <3>2. ~(k < n)
      BY <1>1, <1>2, <2>2
    <3> QED
      BY <1>1, <1>2, <2>2, <3>1, <3>2
  <2> QED
    BY <2>1, <2>2
<1>6. Consistent(free2, used2)
  BY <1>4, <1>5 DEF Consistent
<1> QED
  BY <1>6 DEF free2, used2

(***************************************************************************)
(* Any ID in use can be given back, the largest one too.                   *)
(***************************************************************************)
LEMMA DeallocateKeepsConsistent ==
  ASSUME NEW free, NEW used, Consistent(free, used), NEW n \in used
  PROVE  Consistent(FreeAfterDeallocate(free, used, n), UsedAfterDeallocate(used, n))
<1> USE MaxIDsAssumption
<1> DEFINE rest == used \ {n}
           last == Largest(used)
           free2 == FreeAfterDeallocate(free, used, n)
<1>1. UsedAfterDeallocate(used, n) = rest
  BY DEF UsedAfterDeallocate
<1>2. used \subseteq 0..(MaxIDs - 1) /\ free \subseteq 0..(MaxIDs - 1)
  BY DEF Consistent
<1>3. last \in used /\ \A k \in used : k <= last
  <2>1. used \subseteq 0..(MaxIDs - 1) /\ MaxIDs - 1 \in Nat /\ used # {}
    BY <1>2
  <2> QED
    BY <2>1, LargestIsGreatest, Zenon
<1>4. MaxUsed(used) = last
  BY DEF MaxUsed
<1> HIDE DEF last
<1>5. /\ MaxUsed(rest) \in Int
      /\ \A k \in rest : k <= MaxUsed(rest)
      /\ rest # {} => MaxUsed(rest) \in rest
      /\ rest = {} => MaxUsed(rest) = -1
  <2>1. CASE rest = {}
    BY <2>1 DEF MaxUsed
  <2>2. CASE rest # {}
    <3> DEFINE r == Largest(rest)
    <3>1. rest \subseteq 0..(MaxIDs - 1) /\ MaxIDs - 1 \in Nat
      BY <1>2
    <3>2. r \in rest /\ \A k \in rest : k <= r
      BY <2>2, <3>1, LargestIsGreatest
    <3>3. MaxUsed(rest) = r
      BY <2>2 DEF MaxUsed
    <3> HIDE DEF r, rest
    <3> QED
      BY <2>2, <3>1, <3>2, <3>3
  <2> QED
    BY <2>1, <2>2
<1>6. \A k \in 0..(MaxIDs - 1) : k \in free <=> k \notin used /\ \E j \in used : k < j
  BY DEF Consistent
<1>7. n \in 0..(MaxIDs - 1)
  BY <1>2
<1>8. CASE n = MaxUsed(used)
  <2>1. free2 = {k \in free : k <= MaxUsed(rest)}
    BY <1>8 DEF FreeAfterDeallocate
  <2>2. \A k \in rest : k < n
    BY <1>2, <1>3, <1>4, <1>7, <1>8
  <2> HIDE DEF rest
  <2>3. ASSUME NEW k \in 0..(MaxIDs - 1)
        PROVE  k \in free2 <=> k \notin rest /\ \E j \in rest : k < j
    <3>1. CASE rest = {}
      BY <1>2, <1>5, <2>1, <3>1
    <3>2. CASE rest # {}
      <4>1. MaxUsed(rest) \in rest /\ MaxUsed(rest) < n
        BY <1>5, <2>2, <3>2
      <4>2. (\E j \in rest : k < j) <=> k < MaxUsed(rest)
        BY <1>2, <1>5, <4>1, SMT DEF rest
      <4>3. k \in rest => k \notin free
        BY <1>6 DEF rest
      <4>4. k < MaxUsed(rest) /\ k \notin rest => k \in free
        BY <1>5, <1>6, <1>7, <4>1, SMT DEF rest
      <4>5. k \in free /\ k <= MaxUsed(rest) => k < MaxUsed(rest)
        BY <1>5, <4>1, <4>3
      <4> QED
        BY <1>5, <2>1, <4>1, <4>2, <4>3, <4>4, <4>5
    <3> QED
      BY <3>1, <3>2
  <2>4. free2 \subseteq 0..(MaxIDs - 1) /\ rest \subseteq 0..(MaxIDs - 1)
    BY <1>2, <2>1 DEF rest
  <2> QED
    BY <1>1, <2>3, <2>4 DEF Consistent
<1>9. CASE n # MaxUsed(used)
  <2>1. free2 = free \cup {n}
    BY <1>9 DEF FreeAfterDeallocate
  <2>2. last \in rest /\ n < last
    BY <1>2, <1>3, <1>4, <1>7, <1>9
  <2>3. ASSUME NEW k \in 0..(MaxIDs - 1)
        PROVE  k \in free2 <=> k \notin rest /\ \E j \in rest : k < j
    <3>1. CASE k = n
      BY <2>1, <2>2, <3>1
    <3>2. CASE k # n
      <4>1. (\E j \in used : k < j) <=> (\E j \in rest : k < j)
        <5>1. k < n => k < last
          BY <1>2, <1>3, <1>7, <2>2
        <5> QED
          BY <2>2, <5>1
      <4> QED
        BY <1>6, <2>1, <3>2, <4>1
    <3> QED
      BY <3>1, <3>2
  <2>4. free2 \subseteq 0..(MaxIDs - 1) /\ rest \subseteq 0..(MaxIDs - 1)
    BY <1>2, <1>7, <2>1
  <2> QED
    BY <1>1, <2>3, <2>4 DEF Consistent
<1> QED
  BY <1>8, <1>9

-----------------------------------------------------------------------------
IInv == TypeOK /\ FreeIsTheGaps

LEMMA IInvIsConsistency == IInv <=> Consistent(m_free, m_used)
BY DEF IInv, TypeOK, FreeIsTheGaps, Consistent

LEMMA InitEstablishesIInv == Init => IInv
BY DEF Init, IInv, TypeOK, FreeIsTheGaps

LEMMA AllocatePreservesIInv ==
  ASSUME IInv, Allocate
  PROVE  IInv'
<1> USE MaxIDsAssumption
<1> DEFINE n == Allocated(m_free, m_used)
<1>1. Consistent(m_free, m_used)
  BY IInvIsConsistency
<1>2. /\ n \in Nat
      /\ m_free # {} => n \in m_free
      /\ m_free = {} => n = Cardinality(m_used)
  BY <1>1, AllocatedIsFresh
<1>3. m_free = {} => n < MaxIDs
  BY <1>2 DEF Allocate
<1> HIDE DEF n
<1>4. n < MaxIDs
  BY <1>1, <1>2, <1>3 DEF Consistent
<1>5. Consistent(FreeAfterAllocate(m_free, m_used), UsedAfterAllocate(m_free, m_used))
  BY <1>1, <1>4, AllocateKeepsConsistent DEF n
<1> QED
  BY <1>5 DEF Allocate, Consistent, IInv, TypeOK, FreeIsTheGaps

LEMMA DeallocatePreservesIInv ==
  ASSUME IInv, NEW n \in m_used, Deallocate(n)
  PROVE  IInv'
<1>1. Consistent(FreeAfterDeallocate(m_free, m_used, n), UsedAfterDeallocate(m_used, n))
  BY IInvIsConsistency, DeallocateKeepsConsistent
<1> QED
  BY <1>1 DEF Deallocate, Consistent, IInv, TypeOK, FreeIsTheGaps

LEMMA NextPreservesIInv == IInv /\ [Next]_vars => IInv'
<1> SUFFICES ASSUME IInv, [Next]_vars
             PROVE  IInv'
  OBVIOUS
<1>1. CASE Allocate
  BY <1>1, AllocatePreservesIInv
<1>2. CASE \E n \in m_used : Deallocate(n)
  BY <1>2, DeallocatePreservesIInv
<1>3. CASE Reset
  BY <1>3 DEF Reset, IInv, TypeOK, FreeIsTheGaps
<1>4. CASE UNCHANGED vars
  BY <1>4 DEF vars, IInv, TypeOK, FreeIsTheGaps
<1> QED
  BY <1>1, <1>2, <1>3, <1>4 DEF Next

(***************************************************************************)
(* Every reachable state of the allocator is of the right type and its     *)
(* free list is the set of gaps, for every bound on the number of IDs.     *)
(***************************************************************************)
THEOREM AllocatorIsConsistent == Spec => [](TypeOK /\ FreeIsTheGaps)
<1>1. Spec => []IInv
  BY InitEstablishesIInv, NextPreservesIInv, PTL DEF Spec
<1> QED
  BY <1>1, PTL DEF IInv

(***************************************************************************)
(* IDs in use and free ones stay within what can be allocated at all.      *)
(***************************************************************************)
THEOREM AllocatorTypesAreRight == Spec => []TypeOK
  BY AllocatorIsConsistent, PTL

(***************************************************************************)
(* allocate() never returns an ID that is in use, and returns the smallest *)
(* one that is not (lines 18-26 of IDAllocator.cpp).                       *)
(***************************************************************************)
THEOREM AllocatesSmallestUnused == Spec => []NextIDIsSmallestUnused
<1>1. Spec => []IInv
  BY InitEstablishesIInv, NextPreservesIInv, PTL DEF Spec
<1>2. IInv => NextIDIsSmallestUnused
  BY AllocatedIsFresh, IInvIsConsistency DEF NextIDIsSmallestUnused
<1> QED
  BY <1>1, <1>2, PTL
=============================================================================
