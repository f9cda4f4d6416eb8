----------------------------- MODULE IDAllocator -----------------------------
(***************************************************************************)
(* whery's IDAllocator (src/util/IDAllocator.cpp): hands out small integer *)
(* IDs, lowest first.  m_used holds the IDs in use and m_free the gaps     *)
(* below the largest of them.  The B+-tree names its nodes with it.        *)
(*                                                                         *)
(* The operators on a pair (free, used) are the method bodies; they take   *)
(* the two sets as arguments because BTree calls allocate() twice in one   *)
(* handler when a root splits.  The specification below is the allocator   *)
(* used on its own, as IDAllocatorTest does.                               *)
(***************************************************************************)
EXTENDS Integers, FiniteSets

CONSTANT MaxIDs     \* bound: at most this many IDs are in use at a time

ASSUME MaxIDsAssumption == MaxIDs \in Nat \ {0}

VARIABLES
  m_free,           \* the IDs below the largest used one that are not in use
  m_used            \* the IDs in use

vars == <<m_free, m_used>>

(***************************************************************************)
(* The C++ std::set keeps its elements in order: its first and its last.   *)
(***************************************************************************)
Smallest(S) == CHOOSE n \in S : \A k \in S : n <= k
Largest(S)  == CHOOSE n \in S : \A k \in S : k <= n

\* max_used(): the largest ID in use, or -1 if there is none
MaxUsed(used) == IF used = {} THEN -1 ELSE Largest(used)

\* mutants: IDs that were given back are never reused; the largest gap first
AllocatedPastTheLargest(free, used) == MaxUsed(used) + 1
AllocatedFromTheLargestGap(free, used) ==
  IF free # {} THEN Largest(free) ELSE Cardinality(used)

\* the ID allocate() returns
Allocated(free, used) ==
  IF free # {} THEN Smallest(free) ELSE Cardinality(used)

FreeAfterAllocate(free, used) == free \ {Allocated(free, used)}
UsedAfterAllocate(free, used) == used \cup {Allocated(free, used)}

\* mutant: the gaps exposed below the largest ID stay on the free list
FreeAfterDeallocateKeepingGaps(free, used, n) ==
  IF n = MaxUsed(used) THEN free ELSE free \cup {n}

\* deallocate(n): dropping the largest used ID also drops the gaps above the
\* ID that becomes the largest
FreeAfterDeallocate(free, used, n) ==
  IF n = MaxUsed(used)
    THEN {k \in free : k <= MaxUsed(used \ {n})}
    ELSE free \cup {n}
UsedAfterDeallocate(used, n) == used \ {n}

-----------------------------------------------------------------------------
Init == m_free = {} /\ m_used = {}

Allocate ==
  /\ Cardinality(m_used) < MaxIDs
  /\ m_free' = FreeAfterAllocate(m_free, m_used)
  /\ m_used' = UsedAfterAllocate(m_free, m_used)

\* an ID that is not in use makes deallocate() throw before it changes anything
Deallocate(n) ==
  /\ n \in m_used
  /\ m_free' = FreeAfterDeallocate(m_free, m_used, n)
  /\ m_used' = UsedAfterDeallocate(m_used, n)

Reset == m_free' = {} /\ m_used' = {}

Next ==
  \/ Allocate
  \/ \E n \in m_used : Deallocate(n)
  \/ Reset

Spec == Init /\ [][Next]_vars

-----------------------------------------------------------------------------
(***************************************************************************)
(* Type correctness: IDs are natural numbers, and as IDs in use are dense  *)
(* up to the gaps, none is ever as large as the peak number of IDs in use. *)
(***************************************************************************)
TypeOK ==
  /\ m_free \subseteq 0..(MaxIDs - 1)
  /\ m_used \subseteq 0..(MaxIDs - 1)

(***************************************************************************)
(* The free list is exactly the set of gaps: an ID is on it if and only if *)
(* it is not in use and some larger ID is.  deallocate() has to keep this  *)
(* when it removes the largest ID (lines 41-46), however many trailing     *)
(* gaps that exposes; a gap left behind would later be handed out twice.   *)
(***************************************************************************)
FreeIsTheGaps ==
  \A n \in 0..(MaxIDs - 1) :
    n \in m_free <=> n \notin m_used /\ \E k \in m_used : n < k

(***************************************************************************)
(* The ID the next allocate() returns is not in use, and every smaller one *)
(* is: the size of m_used is a fresh ID only when there are no gaps        *)
(* (line 25), so this relates the count to the contents of the two sets.   *)
(***************************************************************************)
NextIDIsSmallestUnused ==
  LET n == Allocated(m_free, m_used)
  IN  n \notin m_used /\ 0..(n - 1) \subseteq m_used
=============================================================================
