----------------------------- MODULE BTreeLookup -----------------------------
(***************************************************************************)
(* The queries on whery's B+-tree (BTree.cpp:36-186, RangeKey.cpp) and its *)
(* ConstIterator (BTree.h:129-228).  They change nothing, so they are      *)
(* operators on the state of BTree.                                        *)
(*                                                                         *)
(* An iterator is a leaf with a position in its page: the set holding the  *)
(* entry pointed to, or the empty set for the end of the page.             *)
(***************************************************************************)
EXTENDS BTree

INSTANCE RangeKeys

\* no tuple is both before and after a key, and two keys of the same fields are
\* equal or match different tuples
ASSUME KeysAssumption ==
  /\ \A k \in SearchKeys : k[1] <= k[2] + 1
  /\ \A k, l \in SearchKeys :
       k[2] - k[1] = l[2] - l[1] => k = l \/ Precedes(k, l) \/ Precedes(l, k)

PageBegin(id) == FirstOf(m_nodes[id].page)
PageEnd == {}
Iterator(id, at) == [leaf |-> id, at |-> at]

begin == Iterator(m_firstLeafID, PageBegin(m_firstLeafID))
end   == Iterator(m_lastLeafID, PageEnd)

\* mutant: an iterator stays at the end of its page
NormaliseNever(it) == it

\* at the end of a page with a right sibling, move on to the sibling's start
Normalise(it) ==
  IF it.at = PageEnd /\ RightOf(it.leaf) # NoNode
    THEN Iterator(RightOf(it.leaf), PageBegin(RightOf(it.leaf)))
    ELSE it

\* operator++
Increment(it) ==
  Normalise(Iterator(it.leaf,
    FirstOf({e \in m_nodes[it.leaf].page : \E f \in it.at : f.key < e.key})))

\* operator--
Decrement(it) ==
  LET left  == LeftOf(it.leaf)
      moved == IF it.at = PageBegin(it.leaf) /\ left # NoNode
                 THEN Iterator(left, PageEnd) ELSE it
  IN  IF moved.at = PageBegin(moved.leaf) THEN moved
      ELSE Iterator(moved.leaf,
             LastOf({e \in m_nodes[moved.leaf].page : \A f \in moved.at : e.key < f.key}))

\* the leaf a walk from the root ends in, if at every branch it takes the
\* child to the right of the entries passed
LeafAfter(passed) ==
  LET walk[d \in 0..MaxNodes] ==
        IF d = 0 THEN m_rootID
        ELSE LET id == walk[d - 1]
             IN  IF HasChildren(m_nodes, id)
                   THEN LeftChildOf(m_nodes, id, passed[id]) ELSE id
  IN  walk[MaxNodes]

\* mutant: tuples that match the key are passed over
LowerBoundPastMatches(k) ==
  LET passed == [id \in NodeIDs |-> {e \in m_nodes[id].page : e.key <= k[1]}]
      leaf == LeafAfter(passed)
  IN  Normalise(Iterator(leaf, FirstOf(m_nodes[leaf].page \ passed[leaf])))

LowerBound(k) ==
  LET passed == [id \in NodeIDs |-> {e \in m_nodes[id].page : e.key < k[1]}]
      leaf == LeafAfter(passed)
  IN  Normalise(Iterator(leaf, FirstOf(m_nodes[leaf].page \ passed[leaf])))

UpperBound(k) ==
  LET passed == [id \in NodeIDs |-> {e \in m_nodes[id].page : e.key <= k[2]}]
      leaf == LeafAfter(passed)
  IN  Normalise(Iterator(leaf, FirstOf(m_nodes[leaf].page \ passed[leaf])))

find(k) ==
  LET it == LowerBound(k)
  IN  IF it # end /\ ~Matches(The(it.at).key, k) THEN end ELSE it

-----------------------------------------------------------------------------
\* searching with a RangeKey
MaxSteps == Cardinality(Stored) + 1

\* an open low endpoint: step over the tuples that match it
RangeLowerBound(r) ==
  LET skip[n \in 0..MaxSteps] ==
        IF n = 0 THEN LowerBound(r.low.value)
        ELSE LET it == skip[n - 1]
             IN  IF it # end /\ Matches(The(it.at).key, r.low.value) THEN Increment(it) ELSE it
  IN  IF r.low.kind = "none" THEN begin
      ELSE IF r.low.kind = "OPEN" THEN skip[MaxSteps]
      ELSE LowerBound(r.low.value)

\* mutant: one matching tuple is stepped back over, not all of them
RangeUpperBoundOneStep(r) ==
  LET it == UpperBound(r.high.value)
      test == Decrement(it)
  IN  IF r.high.kind = "none" THEN end
      ELSE IF r.high.kind = "OPEN" /\ test # it /\ Matches(The(test.at).key, r.high.value) THEN test
      ELSE it

\* an open high endpoint: step back over the tuples that match it
RangeUpperBound(r) ==
  LET back[n \in 0..MaxSteps] ==
        IF n = 0 THEN UpperBound(r.high.value)
        ELSE LET it == back[n - 1]
                 test == Decrement(it)
             IN  IF test # it /\ Matches(The(test.at).key, r.high.value) THEN test ELSE it
  IN  IF r.high.kind = "none" THEN end
      ELSE IF r.high.kind = "OPEN" THEN back[MaxSteps]
      ELSE UpperBound(r.high.value)

EqualRange(r) ==
  IF IsValid(r) THEN <<RangeLowerBound(r), RangeUpperBound(r)>>
  ELSE <<RangeLowerBound(r), RangeLowerBound(r)>>

-----------------------------------------------------------------------------
\* the tuples from one iterator to another, or the empty sequence if the
\* second is not reached
Scan(from, to) ==
  LET at[n \in 0..MaxSteps] == IF n = 0 THEN from ELSE Increment(at[n - 1])
      reached == {n \in 0..MaxSteps : at[n] = to}
      length  == CHOOSE n \in reached : \A m \in reached : n <= m
  IN  IF reached = {} THEN <<"unreachable">> ELSE [n \in 1..length |-> at[n - 1].at]

InOrder(S) == [n \in 1..Cardinality(S) |->
                {LeafTuple(t) : t \in {u \in S : Cardinality({v \in S : v < u}) = n - 1}}]

(***************************************************************************)
(* Between calls begin() to end() visits every stored tuple once, in       *)
(* order, and stepping back from end() visits them in reverse.             *)
(***************************************************************************)
IterationIsComplete ==
  pc = "idle" =>
    /\ Scan(begin, end) = InOrder(Stored)
    /\ LET back[n \in 0..Cardinality(Stored)] ==
             IF n = 0 THEN end ELSE Decrement(back[n - 1])
       IN  back[Cardinality(Stored)] = begin

(***************************************************************************)
(* Between calls find() returns the first tuple that compares equal to the *)
(* key, or end() if there is none (BTree.h:342-350): however stale the     *)
(* separators are, they still lead to the right leaf.                      *)
(***************************************************************************)
FindsFirstMatch ==
  pc = "idle" => \A k \in SearchKeys :
    LET S == {t \in Stored : Matches(t, k)}
    IN  IF S = {} THEN find(k) = end
        ELSE find(k).at = FirstOf({LeafTuple(t) : t \in S})

(***************************************************************************)
(* Between calls iterating over equal_range() visits exactly the tuples in *)
(* the range, for every combination of open, closed and missing endpoints, *)
(* and for an invalid range none (BTree.h:301-318).                        *)
(***************************************************************************)
RangesAreExact ==
  pc = "idle" => \A r \in AllRangeKeys :
    Scan(EqualRange(r)[1], EqualRange(r)[2]) = InOrder({t \in Stored : InRange(t, r)})
=============================================================================
