----------------------------- MODULE CopiedPages -----------------------------
(***************************************************************************)
(* Two pages, the second a copy of the first.  InMemorySortedPage has the  *)
(* generated copy constructor: m_buffer is a shared_ptr, so the copy gets  *)
(* free list and tuples of its own but refers to the same memory           *)
(* (InMemorySortedPage.h:21-30).  A page returned by value, as in          *)
(* InMemorySortedPageTest, is such a copy, whose original is gone.         *)
(***************************************************************************)
EXTENDS InMemorySortedPage

VARIABLES
  copy_freeList,    \* m_freeList and
  copy_tuples,      \* m_tuples of the copy
  live              \* the pages that still exist

allVars == <<m_buffer, m_freeList, m_tuples, copy_freeList, copy_tuples, live>>

TheCopy == INSTANCE InMemorySortedPage WITH m_freeList <- copy_freeList, m_tuples <- copy_tuples

BothInit ==
  /\ Init
  /\ copy_freeList = <<>> /\ copy_tuples = <<>>
  /\ live = {"original"}

\* mutant: the copy does not get the free slots
CopyPageWithoutFreeList ==
  /\ live = {"original"}
  /\ copy_freeList' = <<>>
  /\ copy_tuples' = m_tuples
  /\ live' = {"original", "copy"}
  /\ UNCHANGED vars

CopyPage ==
  /\ live = {"original"}
  /\ copy_freeList' = m_freeList
  /\ copy_tuples' = m_tuples
  /\ live' = {"original", "copy"}
  /\ UNCHANGED vars

DestroyOriginal ==
  /\ live = {"original", "copy"}
  /\ live' = {"copy"}
  /\ m_freeList' = <<>> /\ m_tuples' = <<>>
  /\ UNCHANGED <<m_buffer, copy_freeList, copy_tuples>>

OriginalStep ==
  "original" \in live /\ CompatibleNext /\ UNCHANGED <<copy_freeList, copy_tuples, live>>
CopyStep ==
  "copy" \in live /\ TheCopy!CompatibleNext /\ UNCHANGED <<m_freeList, m_tuples, live>>

\* pages that are only ever used one at a time, and pages that are not
HandOverNext ==
  \/ CopyPage \/ DestroyOriginal
  \/ Cardinality(live) = 1 /\ (OriginalStep \/ CopyStep)

HandOverSpec == BothInit /\ [][HandOverNext]_allVars
BothSpec == BothInit /\ [][CopyPage \/ DestroyOriginal \/ OriginalStep \/ CopyStep]_allVars

-----------------------------------------------------------------------------
(***************************************************************************)
(* Both pages refer to slots of the buffer only, and the slots that either *)
(* has, in use or free, fit into it: tuple_count() never exceeds           *)
(* max_tuple_count(), so that empty_tuple_count(), their unsigned          *)
(* difference, does not wrap (InMemorySortedPage.cpp:70-73).               *)
(***************************************************************************)
BothPagesFit ==
  /\ TypeOK /\ TheCopy!TypeOK
  /\ live \in {{"original"}, {"original", "copy"}, {"copy"}}
  /\ tuple_count + Len(m_freeList) <= MaxTuples
  /\ TheCopy!tuple_count + Len(copy_freeList) <= MaxTuples

(***************************************************************************)
(* Neither page loses a slot or uses one twice, whatever was done to it    *)
(* before it was handed over, or is done to the copy afterwards.           *)
(***************************************************************************)
BothKeepTheirSlots == SlotsArePartitioned /\ TheCopy!SlotsArePartitioned

(***************************************************************************)
(* The copy finds what the original would: equal_range() of either bounds  *)
(* exactly the tuples in the range.                                        *)
(***************************************************************************)
BothRangesAreExact == RangesAreExact /\ TheCopy!RangesAreExact

(***************************************************************************)
(* "The set of tuples on the page (sorted lexicographically in ascending   *)
(* order)" (InMemorySortedPage.h:29), for the copy as for the original: no *)
(* tuple changes while it is on either, though both refer to memory that   *)
(* is written through other references.                                    *)
(***************************************************************************)
BothStayInOrder == TuplesStayInOrder /\ TheCopy!TuplesStayInOrder

(***************************************************************************)
(* A page is the multiset of tuples its interface promises: an addition    *)
(* adds its tuple and leaves the others as they are, an erasure removes    *)
(* one tuple, whichever slots are used again; and handing the page over to *)
(* a copy is not noticed.                                                  *)
(***************************************************************************)
CopiesInUse == IF "original" \in live THEN Copies ELSE TheCopy!Copies
Page == INSTANCE SortedPage WITH copies <- CopiesInUse
ImplementsSortedPage == Page!Spec
==============================================================================
