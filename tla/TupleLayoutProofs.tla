-------------------------- MODULE TupleLayoutProofs --------------------------
(***************************************************************************)
(* Proofs about TupleLayout, for every set of field types, sizes and       *)
(* alignments and tuples of every arity: that of the layout is tightest    *)
(* and without overlap needs nothing more, that every field of every tuple *)
(* of a page is aligned needs max_alignment() to be what its comment says. *)
(*                                                                         *)
(* The invariant of the loop says of the fields laid out so far what the   *)
(* properties say of all, and where the tracker is: at the end of the last *)
(* field, which is no further than any other layout gets.                  *)
(***************************************************************************)
EXTENDS TupleLayout, TLAPS

(***************************************************************************)
(* What div and mod in advance_to_boundary() are.                          *)
(***************************************************************************)
LEMMA DivisionFacts ==
  ASSUME NEW x \in Nat, NEW a \in Nat \ {0}
  PROVE  /\ x \div a \in Nat
         /\ x % a \in Nat
         /\ x % a < a
         /\ x = (x \div a) * a + (x % a)
  OBVIOUS

(***************************************************************************)
(* The offset advance_to_boundary() goes to is on a boundary.              *)
(***************************************************************************)
LEMMA MultipleHasNoRemainder ==
  ASSUME NEW q \in Nat, NEW a \in Nat \ {0}
  PROVE  (q * a) % a = 0
  OBVIOUS

(***************************************************************************)
(* A field on a boundary of a tuple on a boundary is on a boundary.        *)
(***************************************************************************)
LEMMA MultiplesAdd ==
  ASSUME NEW x \in Nat, NEW y \in Nat, NEW a \in Nat \ {0}, x % a = 0, y % a = 0
  PROVE  (x + y) % a = 0
<1> DEFINE p == x \div a
           q == y \div a
<1>1. p \in Nat /\ q \in Nat /\ x = p * a /\ y = q * a
  BY DivisionFacts
<1> HIDE DEF p, q
<1>2. x + y = (p + q) * a /\ p + q \in Nat
  BY <1>1
<1> QED
  BY <1>2, MultipleHasNoRemainder

(***************************************************************************)
(* Every slot of a page starts on a boundary for every type, if a tuple's  *)
(* size is a multiple of an alignment that is one of the type's.           *)
(***************************************************************************)
LEMMA MultipleOfMultiple ==
  ASSUME NEW k \in Nat, NEW x \in Nat, NEW b \in Nat \ {0}, NEW a \in Nat \ {0},
         x % b = 0, b % a = 0
  PROVE  (k * x) % a = 0
<1> DEFINE p == x \div b
           q == b \div a
<1>1. p \in Nat /\ q \in Nat /\ x = p * b /\ b = q * a
  BY DivisionFacts
<1> HIDE DEF p, q
<1>2. k * x = (k * (p * q)) * a /\ k * (p * q) \in Nat
  BY <1>1
<1> QED
  BY <1>2, MultipleHasNoRemainder

(***************************************************************************)
(* advance_to_boundary() goes to the next boundary: never back, and no     *)
(* boundary it could have stopped at is nearer.                            *)
(***************************************************************************)
LEMMA BoundaryFacts ==
  ASSUME NEW n \in Nat, NEW a \in Nat \ {0}
  PROVE  LET b == AdvancedToBoundary(n, a)
         IN  /\ b \in Nat
             /\ n <= b
             /\ b % a = 0
             /\ \A m \in Nat : m % a = 0 /\ n <= m => b <= m
<1> DEFINE q == n \div a
           b == AdvancedToBoundary(n, a)
<1>1. q \in Nat /\ n % a \in Nat /\ n % a < a /\ n = q * a + (n % a)
  BY DivisionFacts
<1>2. CASE n % a = 0
  <2>1. b = n
    BY <1>2 DEF AdvancedToBoundary
  <2> QED
    BY <1>2, <2>1
<1>3. CASE n % a # 0
  <2>1. b = (q + 1) * a
    BY <1>3 DEF AdvancedToBoundary
  <2> HIDE DEF q
  <2>2. (q + 1) * a = q * a + a /\ q + 1 \in Nat /\ q * a \in Nat
    BY <1>1
  <2>3. b \in Nat /\ n <= b
    BY <1>1, <2>1, <2>2
  <2>4. b % a = 0
    BY <2>1, <2>2, MultipleHasNoRemainder
  <2>5. ASSUME NEW m \in Nat, m % a = 0, n <= m
        PROVE  b <= m
    <3> DEFINE p == m \div a
    <3>1. p \in Nat /\ m = p * a
      BY <2>5, DivisionFacts
    <3> HIDE DEF p
    <3>2. q * a < p * a
      BY <1>1, <1>3, <2>2, <2>5, <3>1
    <3>3. q < p
      BY <1>1, <3>1, <3>2
    <3>4. (q + 1) * a <= p * a
      BY <1>1, <3>1, <3>3
    <3> QED
      BY <2>1, <3>1, <3>4
  <2> QED
    BY <2>3, <2>4, <2>5
<1> QED
  BY <1>2, <1>3

-----------------------------------------------------------------------------
LaidOut == 1..Len(m_fieldOffsets)
Alignment(i) == alignment_requirement[m_fieldManipulators[i]]
Bytes(i) == Size[m_fieldManipulators[i]]

OffsetsFit ==
  /\ Len(m_fieldOffsets) <= Arity
  /\ \A i \in LaidOut : m_fieldOffsets[i] % Alignment(i) = 0
  /\ \A i \in LaidOut : m_fieldOffsets[i] + Bytes(i) <= m_offset
  /\ \A i, j \in LaidOut : i < j => m_fieldOffsets[i] + Bytes(i) <= m_fieldOffsets[j]

OffsetsAreTightest ==
  \A offsets \in [1..Arity -> Offsets] :
    IsLayout(offsets) => \A i \in LaidOut : m_fieldOffsets[i] <= offsets[i]

TrackerIsAtTheEnd ==
  /\ pc = "fields" /\ LaidOut = {} => m_offset = 0
  /\ pc = "fields" /\ LaidOut # {} =>
       m_offset = m_fieldOffsets[Len(m_fieldOffsets)] + Bytes(Len(m_fieldOffsets))
  /\ pc = "ready" =>
       /\ Len(m_fieldOffsets) = Arity
       /\ m_size = m_offset
       /\ m_size % max_alignment = 0

LoopInv == TypeOK /\ OffsetsFit /\ OffsetsAreTightest /\ TrackerIsAtTheEnd

(***************************************************************************)
(* A tuple of given fields begins its layout with nothing laid out.        *)
(***************************************************************************)
LEMMA BeginKeepsInv ==
  ASSUME NEW manipulators \in Seq(Types), Begin(manipulators)
  PROVE  LoopInv'
<1> USE DEF Begin
<1>1. Len(m_fieldOffsets') = 0 /\ LaidOut' = {}
  BY DEF LaidOut
<1>2. TypeOK'
  BY DEF TypeOK
<1>3. OffsetsFit'
  BY <1>1 DEF OffsetsFit, Arity
<1>4. OffsetsAreTightest'
  BY <1>1 DEF OffsetsAreTightest
<1>5. TrackerIsAtTheEnd'
  BY <1>1 DEF TrackerIsAtTheEnd
<1> QED
  BY <1>2, <1>3, <1>4, <1>5 DEF LoopInv

(***************************************************************************)
(* One field more: it is aligned, behind those before it, and no other     *)
(* layout could have put it earlier.                                       *)
(***************************************************************************)
LEMMA LayOutFieldKeepsInv ==
  ASSUME LoopInv, LayOutField
  PROVE  LoopInv'
<1> DEFINE n == Len(m_fieldOffsets)
           type == m_fieldManipulators[n + 1]
           a == alignment_requirement[type]
           offset == AdvancedToBoundary(m_offset, a)
<1>1. /\ n \in Nat /\ n < Arity /\ Arity \in Nat
      /\ type \in Types /\ a \in Nat \ {0} /\ Size[type] \in Nat \ {0}
      /\ m_offset \in Nat
  BY FieldTypesAssumption DEF LoopInv, TypeOK, LayOutField, Arity
<1>2. /\ offset \in Nat /\ m_offset <= offset /\ offset % a = 0
      /\ \A m \in Nat : m % a = 0 /\ m_offset <= m => offset <= m
  BY <1>1, BoundaryFacts
<1> HIDE DEF offset
<1>3. /\ pc = "fields" /\ pc' = pc
      /\ m_fieldManipulators' = m_fieldManipulators
      /\ m_size' = m_size
      /\ m_offset' = offset + Size[type]
      /\ m_fieldOffsets' = Append(m_fieldOffsets, offset)
  BY DEF LayOutField, offset
<1>4. TypeOK'
  BY <1>1, <1>2, <1>3 DEF TypeOK, LoopInv
<1>5. /\ Len(m_fieldOffsets') = n + 1
      /\ LaidOut' = LaidOut \cup {n + 1}
      /\ m_fieldOffsets'[n + 1] = offset
      /\ \A i \in LaidOut : m_fieldOffsets'[i] = m_fieldOffsets[i] /\ m_fieldOffsets[i] \in Nat
      /\ \A i \in LaidOut : i \in 1..Arity /\ i < n + 1
  BY <1>1, <1>2, <1>3 DEF LaidOut, LoopInv, TypeOK
<1>6. Arity' = Arity /\ \A i : Alignment(i)' = Alignment(i) /\ Bytes(i)' = Bytes(i)
  BY <1>3 DEF Arity, Alignment, Bytes
<1>7. \A i \in 1..Arity : Bytes(i) \in Nat /\ m_fieldManipulators[i] \in Types
  BY FieldTypesAssumption DEF Bytes, Arity, LoopInv, TypeOK
<1>8. Alignment(n + 1) = a /\ Bytes(n + 1) = Size[type]
  BY DEF Alignment, Bytes
<1>9. OffsetsFit'
  <2>1. Len(m_fieldOffsets') <= Arity'
    BY <1>1, <1>5, <1>6
  <2>2. \A i \in LaidOut' : m_fieldOffsets'[i] % Alignment(i)' = 0
    BY <1>2, <1>5, <1>6, <1>8 DEF LoopInv, OffsetsFit
  <2>3. \A i \in LaidOut' : m_fieldOffsets'[i] + Bytes(i)' <= m_offset'
    <3>1. \A i \in LaidOut : m_fieldOffsets[i] + Bytes(i) <= m_offset
      BY DEF LoopInv, OffsetsFit
    <3>2. m_offset <= m_offset' /\ m_offset' \in Nat
      BY <1>1, <1>2, <1>3
    <3>3. \A i \in LaidOut : m_fieldOffsets[i] + Bytes(i) <= m_offset'
      BY <1>1, <1>5, <1>7, <3>1, <3>2
    <3> QED
      BY <1>3, <1>5, <1>6, <1>8, <3>3
  <2>4. \A i, j \in LaidOut' : i < j => m_fieldOffsets'[i] + Bytes(i)' <= m_fieldOffsets'[j]
    <3>1. \A i \in LaidOut : m_fieldOffsets[i] + Bytes(i) <= offset
      BY <1>1, <1>2, <1>5, <1>7 DEF LoopInv, OffsetsFit
    <3>2. \A i, j \in LaidOut : i < j => m_fieldOffsets[i] + Bytes(i) <= m_fieldOffsets[j]
      BY DEF LoopInv, OffsetsFit
    <3>3. \A i, j \in LaidOut' : i < j => i \in LaidOut
      BY <1>1, <1>5 DEF LaidOut
    <3> QED
      BY <1>5, <1>6, <3>1, <3>2, <3>3
  <2> QED
    BY <2>1, <2>2, <2>3, <2>4 DEF OffsetsFit
<1>10. OffsetsAreTightest'
  <2>1. SUFFICES ASSUME NEW offsets \in [1..Arity -> Offsets], IsLayout(offsets),
                        NEW i \in LaidOut'
                 PROVE  m_fieldOffsets'[i] <= offsets[i]
    BY <1>3, <1>6 DEF OffsetsAreTightest, IsLayout
  <2>2. CASE i \in LaidOut
    BY <1>5, <2>1, <2>2 DEF LoopInv, OffsetsAreTightest
  <2>3. CASE i = n + 1
    <3>0. n + 1 \in 1..Arity
      BY <1>1
    <3>1. n + 1 \in 1..Arity /\ offsets[n + 1] \in Nat
      BY <2>1, <3>0, SlotsAssumption
    <3>2. offsets[n + 1] % a = 0
      BY <2>1, <3>1 DEF IsLayout
    <3>3. m_offset <= offsets[n + 1]
      <4>1. CASE n = 0
        BY <1>3, <3>1, <4>1 DEF LoopInv, TrackerIsAtTheEnd, LaidOut
      <4>2. CASE n # 0
        <5>1. n \in LaidOut /\ n \in 1..(Arity - 1) /\ n \in 1..Arity
          BY <1>1, <4>2 DEF LaidOut
        <5>2. m_offset = m_fieldOffsets[n] + Bytes(n)
          BY <1>3, <5>1 DEF LoopInv, TrackerIsAtTheEnd
        <5>3. m_fieldOffsets[n] <= offsets[n] /\ offsets[n] \in Nat
          BY <2>1, <5>1, SlotsAssumption DEF LoopInv, OffsetsAreTightest
        <5>4. offsets[n] + Bytes(n) <= offsets[n + 1]
          BY <2>1, <5>1 DEF IsLayout, Bytes
        <5> QED
          BY <1>5, <1>7, <3>1, <5>1, <5>2, <5>3, <5>4
      <4> QED
        BY <4>1, <4>2
    <3> QED
      BY <1>2, <1>5, <2>3, <3>1, <3>2, <3>3
  <2> QED
    BY <1>5, <2>2, <2>3
<1>11. TrackerIsAtTheEnd'
  BY <1>1, <1>3, <1>5, <1>6, <1>8 DEF TrackerIsAtTheEnd
<1> QED
  BY <1>4, <1>9, <1>10, <1>11 DEF LoopInv

(***************************************************************************)
(* The padding behind the last field moves no field.                       *)
(***************************************************************************)
LEMMA FinishKeepsInv ==
  ASSUME LoopInv, Finish
  PROVE  LoopInv'
<1> DEFINE b == AdvancedToBoundary(m_offset, max_alignment)
<1>1. m_offset \in Nat /\ max_alignment \in Nat \ {0}
  BY MaxAlignmentAssumption DEF LoopInv, TypeOK
<1>2. b \in Nat /\ m_offset <= b /\ b % max_alignment = 0
  BY <1>1, BoundaryFacts
<1> HIDE DEF b
<1>3. /\ m_fieldManipulators' = m_fieldManipulators /\ m_fieldOffsets' = m_fieldOffsets
      /\ m_offset' = b /\ m_size' = b /\ pc' = "ready" /\ Len(m_fieldOffsets) = Arity
  BY DEF Finish, b
<1>4. TypeOK'
  BY <1>2, <1>3 DEF LoopInv, TypeOK, Arity
<1>5. /\ LaidOut' = LaidOut /\ Arity' = Arity
      /\ \A i : Alignment(i)' = Alignment(i) /\ Bytes(i)' = Bytes(i)
  BY <1>3 DEF LaidOut, Arity, Alignment, Bytes
<1>6. \A i \in LaidOut : m_fieldOffsets[i] \in Nat /\ Bytes(i) \in Nat
  BY <1>3, FieldTypesAssumption DEF LaidOut, LoopInv, TypeOK, Bytes, Arity
<1>7. OffsetsFit'
  BY <1>1, <1>2, <1>3, <1>5, <1>6 DEF LoopInv, OffsetsFit
<1>8. OffsetsAreTightest'
  BY <1>3, <1>5 DEF LoopInv, OffsetsAreTightest, IsLayout
<1>9. TrackerIsAtTheEnd'
  BY <1>2, <1>3, <1>5 DEF TrackerIsAtTheEnd
<1> QED
  BY <1>4, <1>7, <1>8, <1>9 DEF LoopInv

(***************************************************************************)
(* The loop invariant holds throughout initialise(), for tuples and keys.  *)
(***************************************************************************)
THEOREM LoopInvariant == Spec => []LoopInv
<1>1. Init => LoopInv
  BY DEF Init, LoopInv, TypeOK, OffsetsFit, OffsetsAreTightest, TrackerIsAtTheEnd, LaidOut, Arity
<1>2. LoopInv /\ [Next]_vars => LoopInv'
  <2>1. SUFFICES ASSUME LoopInv, [Next]_vars
                 PROVE  LoopInv'
    OBVIOUS
  <2>2. CASE Construct
    <3>1. PICK manipulators \in Signatures : Begin(manipulators)
      BY <2>2 DEF Construct
    <3>2. manipulators \in Seq(Types)
      BY MaxFieldsAssumption DEF Signatures
    <3> QED
      BY <3>1, <3>2, BeginKeepsInv
  <2>3. CASE ConstructProjected
    <3>0. PICK n \in 1..MaxFields : \E indices \in [1..n -> 1..Arity] :
            Begin([i \in 1..n |-> m_fieldManipulators[indices[i]]])
      BY <2>3 DEF ConstructProjected
    <3>1. PICK indices \in [1..n -> 1..Arity] :
            Begin([i \in 1..n |-> m_fieldManipulators[indices[i]]])
      BY <3>0
    <3>2. \A i \in 1..n : m_fieldManipulators[indices[i]] \in Types
      BY <2>1 DEF LoopInv, TypeOK, Arity
    <3>3. [i \in 1..n |-> m_fieldManipulators[indices[i]]] \in Seq(Types)
      BY <3>2, MaxFieldsAssumption
    <3> QED
      BY <3>1, <3>3, BeginKeepsInv
  <2>4. CASE LayOutField
    BY <2>1, <2>4, LayOutFieldKeepsInv
  <2>5. CASE Finish
    BY <2>1, <2>5, FinishKeepsInv
  <2>6. CASE UNCHANGED vars
    BY <2>1, <2>6 DEF vars, LoopInv, TypeOK, OffsetsFit, OffsetsAreTightest, TrackerIsAtTheEnd,
       LaidOut, Arity, IsLayout, Alignment, Bytes
  <2> QED
    BY <2>1, <2>2, <2>3, <2>4, <2>5, <2>6 DEF Next
<1> QED
  BY <1>1, <1>2, PTL DEF Spec

(***************************************************************************)
(* A layout that is finished has an offset for every field, and no offset  *)
(* is negative.                                                            *)
(***************************************************************************)
THEOREM LayoutTypeCorrect == Spec => []TypeOK
<1>1. LoopInv => TypeOK
  BY DEF LoopInv
<1> QED
  BY <1>1, LoopInvariant, PTL

(***************************************************************************)
(* The layout is the tightest there is, for every tuple.                   *)
(***************************************************************************)
THEOREM NoLayoutWastesLess == Spec => []LayoutIsTightest
<1>1. LoopInv => LayoutIsTightest
  BY DEF LoopInv, LayoutIsTightest, OffsetsAreTightest, TrackerIsAtTheEnd, LaidOut, Arity
<1> QED
  BY <1>1, LoopInvariant, PTL

(***************************************************************************)
(* No two fields of a page share a byte, for every tuple and page.         *)
(***************************************************************************)
THEOREM FieldsAreDisjoint == Spec => []FieldsDoNotOverlap
<1>1. LoopInv => FieldsDoNotOverlap
  <2>1. SUFFICES ASSUME LoopInv, pc = "ready",
                        NEW k \in Slots, NEW l \in Slots, NEW i \in 1..Arity, NEW j \in 1..Arity,
                        <<k, i>> # <<l, j>>
                 PROVE  End(k, i) <= Start(l, j) \/ End(l, j) <= Start(k, i)
    BY DEF FieldsDoNotOverlap
  <2>2. /\ k \in Nat /\ l \in Nat /\ m_size \in Nat
        /\ i \in LaidOut /\ j \in LaidOut
    BY <2>1, SlotsAssumption DEF LoopInv, TypeOK, TrackerIsAtTheEnd, LaidOut
  <2>3. /\ m_fieldOffsets[i] \in Nat /\ m_fieldOffsets[j] \in Nat
        /\ Bytes(i) \in Nat /\ Bytes(j) \in Nat
    <3>1. m_fieldOffsets[i] \in Nat /\ m_fieldOffsets[j] \in Nat
      BY <2>1, <2>2 DEF LoopInv, TypeOK, LaidOut
    <3>2. m_fieldManipulators[i] \in Types /\ m_fieldManipulators[j] \in Types
      BY <2>1 DEF LoopInv, TypeOK, Arity
    <3> QED
      BY <3>1, <3>2, FieldTypesAssumption DEF Bytes
  <2>4. /\ m_fieldOffsets[i] + Bytes(i) <= m_size
        /\ m_fieldOffsets[j] + Bytes(j) <= m_size
    BY <2>1, <2>2 DEF LoopInv, OffsetsFit, TrackerIsAtTheEnd
  <2>5. /\ i < j => m_fieldOffsets[i] + Bytes(i) <= m_fieldOffsets[j]
        /\ j < i => m_fieldOffsets[j] + Bytes(j) <= m_fieldOffsets[i]
    BY <2>1, <2>2 DEF LoopInv, OffsetsFit
  <2>6. \A x, y \in Nat : x < y => x * m_size + m_size <= y * m_size
    <3>1. SUFFICES ASSUME NEW x \in Nat, NEW y \in Nat, x < y
                   PROVE  x * m_size + m_size <= y * m_size
      OBVIOUS
    <3>2. x + 1 <= y /\ (x + 1) * m_size = x * m_size + m_size
      BY <2>2, <3>1
    <3>3. (x + 1) * m_size <= y * m_size
      BY <2>2, <3>2
    <3> QED
      BY <3>2, <3>3
  <2>7. k * m_size \in Nat /\ l * m_size \in Nat
    BY <2>2
  <2>8. CASE k = l
    BY <2>1, <2>2, <2>3, <2>5, <2>7, <2>8 DEF Start, End, Bytes
  <2>9. CASE k < l
    <3>1. k * m_size + m_size <= l * m_size
      BY <2>2, <2>6, <2>9
    <3> QED
      BY <2>2, <2>3, <2>4, <2>7, <3>1 DEF Start, End, Bytes
  <2>10. CASE l < k
    <3>1. l * m_size + m_size <= k * m_size
      BY <2>2, <2>6, <2>10
    <3> QED
      BY <2>2, <2>3, <2>4, <2>7, <3>1 DEF Start, End, Bytes
  <2> QED
    BY <2>2, <2>8, <2>9, <2>10
<1> QED
  BY <1>1, LoopInvariant, PTL

(***************************************************************************)
(* If max_alignment() is a multiple of what every type asks for, every     *)
(* field of every tuple of a page is aligned.                              *)
(***************************************************************************)
THEOREM PagesAreAligned ==
  ASSUME \A t \in Types : max_alignment % alignment_requirement[t] = 0
  PROVE  Spec => []FieldsAreAligned
<1>1. LoopInv => FieldsAreAligned
  <2>1. SUFFICES ASSUME LoopInv, pc = "ready", NEW k \in Slots, NEW i \in 1..Arity
                 PROVE  Start(k, i) % Alignment(i) = 0
    BY DEF FieldsAreAligned, Alignment
  <2>2. k \in Nat /\ m_size \in Nat /\ i \in LaidOut /\ m_size % max_alignment = 0
    BY <2>1, SlotsAssumption DEF LoopInv, TypeOK, TrackerIsAtTheEnd, LaidOut
  <2>3. m_fieldOffsets[i] \in Nat /\ m_fieldManipulators[i] \in Types
    BY <2>1, <2>2 DEF LoopInv, TypeOK, LaidOut, Arity
  <2>4. Alignment(i) \in Nat \ {0} /\ max_alignment % Alignment(i) = 0
    BY <2>3, FieldTypesAssumption DEF Alignment
  <2>5. (k * m_size) % Alignment(i) = 0 /\ k * m_size \in Nat
    <3> DEFINE a == Alignment(i)
    <3>1. a \in Nat \ {0} /\ max_alignment % a = 0
      BY <2>4
    <3> HIDE DEF a
    <3>2. (k * m_size) % a = 0
      BY <2>2, <3>1, MaxAlignmentAssumption, MultipleOfMultiple
    <3>3. k * m_size \in Nat
      BY <2>2
    <3> QED
      BY <3>2, <3>3 DEF a
  <2>6. m_fieldOffsets[i] % Alignment(i) = 0
    BY <2>1, <2>2 DEF LoopInv, OffsetsFit
  <2> QED
    BY <2>3, <2>4, <2>5, <2>6, MultiplesAdd DEF Start
<1> QED
  BY <1>1, LoopInvariant, PTL
==============================================================================
