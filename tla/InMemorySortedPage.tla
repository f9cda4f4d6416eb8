-------------------------- MODULE InMemorySortedPage --------------------------
(***************************************************************************)
(* whery's InMemorySortedPage (src/db/pages/InMemorySortedPage.cpp): the   *)
(* buffer is an array of slots of the size of a tuple, and m_tuples a      *)
(* multiset of references into it, sorted by what they refer to.  A slot   *)
(* given back by an erasure is used again before a new one, and the first  *)
(* new one is taken to be the one numbered tuple_count().                  *)
(*                                                                         *)
(* A tuple is the natural number that gives its place in the order of its  *)
(* fields; tuples may be on the page several times.  Search keys are       *)
(* intervals of tuples, as in RangeKeys.                                   *)
(***************************************************************************)
EXTENDS SequencesExt, Integers

CONSTANTS
  Tuples,           \* the tuples that may be added
  SearchKeys,       \* the keys searched for or erased, as <<low, high>>
  MaxTuples         \* max_tuple_count()

ASSUME PageTuplesAssumption == Tuples \subseteq Nat
ASSUME PageSearchKeysAssumption ==
  SearchKeys \subseteq Nat \X Nat /\ \A k \in SearchKeys : k[1] <= k[2]
ASSUME MaxTuplesAssumption == MaxTuples \in Nat

VARIABLES
  m_buffer,         \* what is in each slot
  m_freeList,       \* a stack of slots whose tuples were erased
  m_tuples          \* the slots in use, in the order of their tuples

vars == <<m_buffer, m_freeList, m_tuples>>

INSTANCE RangeKeys

Slots == 0..(MaxTuples - 1)
Zeros == -1         \* a new buffer is filled with zeros

tuple_count == Len(m_tuples)
TupleAt(i) == m_buffer[m_tuples[i]]
Positions == 1..tuple_count

-----------------------------------------------------------------------------
\* mutants: a slot taken stays on the list; a slot given back is not put there
FreeListAfterAddKept == m_freeList
FreeListAfterEraseKept(i) == m_freeList

SlotForTuple == IF m_freeList # <<>> THEN Last(m_freeList) ELSE tuple_count

FreeListAfterAdd == IF m_freeList # <<>> THEN Front(m_freeList) ELSE m_freeList

FreeListAfterErase(i) == Append(m_freeList, m_tuples[i])

\* where the multiset puts a tuple, which is in the buffer by then: behind those
\* that are not larger.  If it is out of order, because a slot in use was
\* overwritten, that may be anywhere.
InsertPositions(buffer, t) ==
  IF \A i, j \in Positions : i < j => buffer[m_tuples[i]] <= buffer[m_tuples[j]]
    THEN {1 + Cardinality({i \in Positions : buffer[m_tuples[i]] <= t})}
    ELSE 1..(tuple_count + 1)

\* a full page throws before it changes anything
AddTuple(t) ==
  /\ tuple_count < MaxTuples
  /\ m_buffer' = [m_buffer EXCEPT ![SlotForTuple] = t]
  /\ m_freeList' = FreeListAfterAdd
  /\ \E p \in InsertPositions(m_buffer', t) : m_tuples' = InsertAt(m_tuples, p, SlotForTuple)

\* copy_from throws because the tuple's arity or the type of one of its fields
\* is not that of the page's tuples: the fields before that one are copied
FailToAddTuple ==
  /\ tuple_count < MaxTuples
  /\ \E junk \in Tuples \cup {m_buffer[SlotForTuple]} :
       m_buffer' = [m_buffer EXCEPT ![SlotForTuple] = junk]
  /\ m_freeList' = FreeListAfterAdd
  /\ UNCHANGED m_tuples

\* erase_tuple of an iterator or a reverse iterator
EraseAt(i) ==
  /\ m_freeList' = FreeListAfterErase(i)
  /\ m_tuples' = RemoveAt(m_tuples, i)
  /\ UNCHANGED m_buffer

\* erase_tuple of a key: the first tuple it matches, or none
Find(k) == SelectInSeq(m_tuples, LAMBDA s : Matches(m_buffer[s], k))
EraseKey(k) == Find(k) # 0 /\ EraseAt(Find(k))

Clear == m_tuples' = <<>> /\ m_freeList' = <<>> /\ UNCHANGED m_buffer

Init ==
  /\ m_buffer = [s \in Slots |-> Zeros]
  /\ m_freeList = <<>>
  /\ m_tuples = <<>>

CompatibleNext ==
  \/ \E t \in Tuples : AddTuple(t)
  \/ \E i \in Positions : EraseAt(i)
  \/ \E k \in SearchKeys : EraseKey(k)
  \/ Clear

\* the page as it is used with tuples of its own type, and with any
CompatibleSpec == Init /\ [][CompatibleNext]_vars
Spec == Init /\ [][CompatibleNext \/ FailToAddTuple]_vars

-----------------------------------------------------------------------------
(***************************************************************************)
(* The searches.  An iterator is a position, and the one behind the last   *)
(* is end().                                                               *)
(***************************************************************************)
LowerBound(k) == 1 + Cardinality({i \in Positions : TupleAt(i) < k[1]})
UpperBound(k) == 1 + Cardinality({i \in Positions : TupleAt(i) <= k[2]})

\* an open endpoint: step over the tuples that match it, to the first that
\* does not, or back to the last that does not
RangeLowerBound(r) ==
  LET matching == {i \in Positions : Matches(TupleAt(i), r.low.value)}
      at == LowerBound(r.low.value)
  IN  IF r.low.kind = "none" THEN 1
      ELSE IF r.low.kind = "OPEN" THEN Min((at..(tuple_count + 1)) \ matching)
      ELSE at

\* mutant: only one tuple is stepped back over
RangeUpperBoundOneStep(r) ==
  LET at == UpperBound(r.high.value)
  IN  IF r.high.kind = "none" THEN tuple_count + 1
      ELSE IF r.high.kind = "OPEN" /\ at > 1 /\ Matches(TupleAt(at - 1), r.high.value)
        THEN at - 1
      ELSE at

RangeUpperBound(r) ==
  LET matching == {i \in Positions : Matches(TupleAt(i), r.high.value)}
      at == UpperBound(r.high.value)
  IN  IF r.high.kind = "none" THEN tuple_count + 1
      ELSE IF r.high.kind = "OPEN" THEN Max({i \in 1..at : i - 1 \notin matching})
      ELSE at

EqualRange(r) ==
  IF IsValid(r) THEN <<RangeLowerBound(r), RangeUpperBound(r)>>
  ELSE <<RangeLowerBound(r), RangeLowerBound(r)>>

-----------------------------------------------------------------------------
(***************************************************************************)
(* Type correctness: every reference is into the buffer.                   *)
(***************************************************************************)
TypeOK ==
  /\ m_buffer \in [Slots -> Tuples \cup {Zeros}]
  /\ m_freeList \in Seq(Slots)
  /\ m_tuples \in Seq(Slots)

(***************************************************************************)
(* No slot is lost and none is used twice: the slots in use and those on   *)
(* the free list are distinct, and together they are the first ones of the *)
(* buffer.  add_tuple relies on it when the free list is empty and it      *)
(* takes the slot numbered tuple_count() to be a new one (line 46).        *)
(***************************************************************************)
SlotsArePartitioned ==
  LET all == m_tuples \o m_freeList
  IN  IsInjective(all) /\ Range(all) = 0..(Len(all) - 1)

(***************************************************************************)
(* The multiset stays sorted though it refers to memory that is written    *)
(* through other references: no tuple changes while it is on the page.     *)
(***************************************************************************)
TuplesStayInOrder == \A i, j \in Positions : i < j => TupleAt(i) <= TupleAt(j)

(***************************************************************************)
(* equal_range() bounds exactly the tuples in the range, for every         *)
(* combination of open, closed and missing endpoints, duplicates included, *)
(* and none for an invalid range (SortedPage.h:89-98).                     *)
(***************************************************************************)
RangesAreExact ==
  \A r \in AllRangeKeys :
    LET result == EqualRange(r)
    IN  {i \in Positions : InRange(TupleAt(i), r)} = result[1]..(result[2] - 1)

\* the multiset of tuples on the page
Copies == [t \in Tuples |-> Cardinality({i \in Positions : TupleAt(i) = t})]
===============================================================================
