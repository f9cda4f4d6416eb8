----------------------------- MODULE TupleLayout -----------------------------
(***************************************************************************)
(* How whery lays a tuple out in memory: TupleManipulator::initialise      *)
(* (src/db/base/TupleManipulator.cpp) walks over the fields with an        *)
(* AlignmentTracker (src/util/AlignmentTracker.cpp), which rounds its      *)
(* offset up to the alignment of each field and, behind the last one, to   *)
(* the largest alignment there is, so that tuples can be stored back to    *)
(* back.  A page stores tuple number k at k * size().                      *)
(*                                                                         *)
(* One step per field; every tuple of up to MaxFields fields is laid out,  *)
(* and every key made of (some of) the fields of a tuple, in any order.    *)
(***************************************************************************)
EXTENDS Integers, Sequences

CONSTANTS
  Types,                  \* the types of field
  Size,                   \* size() of each type
  alignment_requirement,  \* of each type
  max_alignment,          \* sizeof(union of long double, long long and void* )
  MaxFields,              \* bound: the arity of a tuple
  Slots,                  \* the tuples of a page the properties look at
  Offsets                 \* where another layout might put a field

ASSUME FieldTypesAssumption ==
  /\ Size \in [Types -> Nat \ {0}]
  /\ alignment_requirement \in [Types -> Nat \ {0}]
ASSUME MaxAlignmentAssumption == max_alignment \in Nat \ {0}
ASSUME MaxFieldsAssumption == MaxFields \in Nat
ASSUME SlotsAssumption == Slots \subseteq Nat /\ Offsets \subseteq Nat

VARIABLES
  pc,                     \* "none", "fields" during the loop, "ready" after it
  m_fieldManipulators,    \* the types of the fields
  m_fieldOffsets,         \* the offsets of the fields laid out so far
  m_offset,               \* the offset of the alignment tracker
  m_size                  \* the size of a tuple

vars == <<pc, m_fieldManipulators, m_fieldOffsets, m_offset, m_size>>

Signatures == UNION {[1..n -> Types] : n \in 1..MaxFields}
Arity == Len(m_fieldManipulators)

\* mutants: rounding down; stepping on from a boundary too
RoundedDown(offset, alignment) == (offset \div alignment) * alignment
RoundedPast(offset, alignment) == (offset \div alignment + 1) * alignment

\* the tracker's offset after advance_to_boundary()
AdvancedToBoundary(offset, alignment) ==
  IF offset % alignment # 0 THEN (offset \div alignment + 1) * alignment ELSE offset

\* initialise(), up to the loop.  Without fields it throws and nothing is made.
Begin(manipulators) ==
  /\ pc' = "fields"
  /\ m_fieldManipulators' = manipulators
  /\ m_fieldOffsets' = <<>>
  /\ m_offset' = 0
  /\ m_size' = 0

Init ==
  /\ pc = "none"
  /\ m_fieldManipulators = <<>> /\ m_fieldOffsets = <<>>
  /\ m_offset = 0 /\ m_size = 0

\* TupleManipulator of an array of field manipulators
Construct == pc = "none" /\ \E manipulators \in Signatures : Begin(manipulators)

\* TupleManipulator of the fields of another one, rearranged for a key
ConstructProjected ==
  /\ pc = "ready"
  /\ \E n \in 1..MaxFields : \E indices \in [1..n -> 1..Arity] :
       Begin([i \in 1..n |-> m_fieldManipulators[indices[i]]])

LayOutField ==
  LET type   == m_fieldManipulators[Len(m_fieldOffsets) + 1]
      offset == AdvancedToBoundary(m_offset, alignment_requirement[type])
  IN  /\ pc = "fields"
      /\ Len(m_fieldOffsets) < Arity
      /\ m_fieldOffsets' = Append(m_fieldOffsets, offset)
      /\ m_offset' = offset + Size[type]
      /\ UNCHANGED <<pc, m_fieldManipulators, m_size>>

\* mutant: the loop ends before the last field
FinishEarly ==
  /\ pc = "fields"
  /\ Len(m_fieldOffsets) >= Arity - 1
  /\ pc' = "ready"
  /\ m_offset' = AdvancedToBoundary(m_offset, max_alignment)
  /\ m_size' = m_offset'
  /\ UNCHANGED <<m_fieldManipulators, m_fieldOffsets>>

\* mutant: the size is where the last field ends
FinishUnpadded ==
  /\ pc = "fields"
  /\ Len(m_fieldOffsets) = Arity
  /\ pc' = "ready"
  /\ m_size' = m_offset
  /\ UNCHANGED <<m_fieldManipulators, m_fieldOffsets, m_offset>>

Finish ==
  /\ pc = "fields"
  /\ Len(m_fieldOffsets) = Arity
  /\ pc' = "ready"
  /\ m_offset' = AdvancedToBoundary(m_offset, max_alignment)
  /\ m_size' = m_offset'
  /\ UNCHANGED <<m_fieldManipulators, m_fieldOffsets>>

Next == Construct \/ ConstructProjected \/ LayOutField \/ Finish

Spec == Init /\ [][Next]_vars

-----------------------------------------------------------------------------
\* where a field starts and ends in the page, by its index and its slot
Start(k, i) == k * m_size + m_fieldOffsets[i]
End(k, i) == Start(k, i) + Size[m_fieldManipulators[i]]

TypeOK ==
  /\ pc \in {"none", "fields", "ready"}
  /\ m_fieldManipulators \in Seq(Types)
  /\ m_fieldOffsets \in Seq(Nat)
  /\ m_offset \in Nat
  /\ m_size \in Nat
  /\ pc = "ready" => Len(m_fieldOffsets) = Arity

(***************************************************************************)
(* In every slot of a page every field is where its type needs it to be.   *)
(* The page's stride is a multiple of max_alignment(), so this also says   *)
(* that max_alignment() is "the maximum alignment (in bytes) required for  *)
(* any data type" (AlignmentTracker.h:50).                                 *)
(***************************************************************************)
FieldsAreAligned ==
  pc = "ready" => \A k \in Slots, i \in 1..Arity :
    Start(k, i) % alignment_requirement[m_fieldManipulators[i]] = 0

(***************************************************************************)
(* No two fields share a byte, in one tuple or in two tuples of a page, so *)
(* writing one never changes another.                                      *)
(***************************************************************************)
FieldsDoNotOverlap ==
  pc = "ready" => \A k, l \in Slots, i, j \in 1..Arity :
    <<k, i>> # <<l, j>> => End(k, i) <= Start(l, j) \/ End(l, j) <= Start(k, i)

(***************************************************************************)
(* No layout with the fields in this order wastes less memory: wherever    *)
(* one puts the fields, aligned and one behind the other, none of them can *)
(* start earlier than the code lets it.                                    *)
(***************************************************************************)
IsLayout(offsets) ==
  /\ \A i \in 1..Arity : offsets[i] % alignment_requirement[m_fieldManipulators[i]] = 0
  /\ \A i \in 1..(Arity - 1) : offsets[i] + Size[m_fieldManipulators[i]] <= offsets[i + 1]

LayoutIsTightest ==
  pc = "ready" => \A offsets \in [1..Arity -> Offsets] :
    IsLayout(offsets) => \A i \in 1..Arity : m_fieldOffsets[i] <= offsets[i]
==============================================================================
