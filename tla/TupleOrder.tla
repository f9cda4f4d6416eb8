----------------------------- MODULE TupleOrder -----------------------------
(***************************************************************************)
(* How whery orders tuples: PrefixTupleComparator and TupleComparator      *)
(* (src/db/base), and what a std::multiset makes of them.  The B+-tree and *)
(* its pages are sorted by the former; the latter sorts by given columns,  *)
(* each in its own direction.                                              *)
(*                                                                         *)
(* BTree and InMemorySortedPage take a tuple for its place in the order    *)
(* and a search key for an interval of places.  Here tuples are sequences  *)
(* of fields, and the properties are what justifies that.                  *)
(***************************************************************************)
EXTENDS Fields, SequencesExt

CONSTANTS
  Tuples,           \* the tuples that may be added, all of one signature
  Keys,             \* the keys searched for: tuples, shorter ones perhaps
  Orders,           \* the comparators; see Compare
  MaxTuples         \* bound: how many tuples there are at a time

VARIABLES
  order,            \* the comparator of the multiset
  tuples            \* its tuples, in the order it keeps them

vars == <<order, tuples>>

(***************************************************************************)
(* Comparing tuples: the results of comparing the fields decide one by     *)
(* one, and the first that is not 0 settles it.                            *)
(***************************************************************************)
FirstDifference(results) ==
  {c \in {-1, 0, 1} : \E k \in 1..(Len(results) + 1) :
     /\ \A i \in 1..(k - 1) : 0 \in results[i]
     /\ IF k > Len(results) THEN c = 0 ELSE c # 0 /\ c \in results[k]}

\* PrefixTupleComparator: as many fields as the shorter tuple has
PrefixCompare(lhs, rhs) ==
  FirstDifference([i \in 1..(IF Len(lhs) < Len(rhs) THEN Len(lhs) ELSE Len(rhs)) |->
                     compare_to(lhs[i], rhs[i])])

Reversed(results) == {-c : c \in results}

\* mutant: the columns are taken as they come
DirectedCompareInTupleOrder(columns, lhs, rhs) ==
  FirstDifference([n \in 1..Len(columns) |->
    LET results == compare_to(lhs[n], rhs[n])
    IN  IF columns[n].direction = "ASC" THEN results ELSE Reversed(results)])

\* TupleComparator: the fields of the given columns.  It throws for tuples of
\* different arities, which those of one signature are not.
DirectedCompare(columns, lhs, rhs) ==
  FirstDifference([n \in 1..Len(columns) |->
    LET results == compare_to(lhs[columns[n].index], rhs[columns[n].index])
    IN  IF columns[n].direction = "ASC" THEN results ELSE Reversed(results)])

\* TupleComparator::make_default
Default(n) == [i \in 1..n |-> [index |-> i, direction |-> "ASC"]]

\* a TupleComparator has columns, a PrefixTupleComparator has none
Compare(lhs, rhs) ==
  IF order = <<>> THEN PrefixCompare(lhs, rhs) ELSE DirectedCompare(order, lhs, rhs)

\* operator()
Before(lhs, rhs) == Compare(lhs, rhs) = {-1}

-----------------------------------------------------------------------------
Positions == 1..Len(tuples)

\* mutant: in front of what compares equal, and of one tuple more
InsertPositionsTooFar(t) ==
  {p \in 1..(Len(tuples) + 1) : p = 1 \/ ~Before(t, tuples[p - 1])}

\* A search tree descends to the right of what the new tuple is not before and
\* to the left of what it is, whatever the tree's shape.
InsertPositions(t) ==
  {p \in 1..(Len(tuples) + 1) :
     /\ p = 1 \/ ~Before(t, tuples[p - 1])
     /\ p = Len(tuples) + 1 \/ Before(t, tuples[p])}

Init == order \in Orders /\ tuples = <<>>

Insert(t) ==
  /\ Len(tuples) < MaxTuples
  /\ \E p \in InsertPositions(t) : tuples' = InsertAt(tuples, p, t)
  /\ UNCHANGED order

Erase(i) == tuples' = RemoveAt(tuples, i) /\ UNCHANGED order

Next ==
  \/ \E t \in Tuples : Insert(t)
  \/ \E i \in Positions : Erase(i)

Spec == Init /\ [][Next]_vars

-----------------------------------------------------------------------------
\* the positions between lower_bound() and upper_bound() of a key: the former
\* asks the tuples about the key, the latter the key about the tuples
Found(k) ==
  {i \in Positions :
     /\ \E j \in 1..i : ~Before(tuples[j], k)
     /\ \A j \in 1..i : ~Before(k, tuples[j])}

(***************************************************************************)
(* "The set of tuples on the page (sorted lexicographically in ascending   *)
(* order)" (InMemorySortedPage.h:29): no tuple is behind one it is before. *)
(***************************************************************************)
PageIsSorted == \A i, j \in Positions : i < j => ~Before(tuples[j], tuples[i])

(***************************************************************************)
(* Columns are sorted "first by column A and then by column B"             *)
(* (TupleComparator.h:23), each in its direction: among neighbours equal   *)
(* in the columns before it, a column goes one way.                        *)
(***************************************************************************)
ColumnsAreSorted ==
  \A n \in 1..Len(order), i, j \in Positions :
    (i < j /\ \A m \in 1..(n - 1) : tuples[i][order[m].index] = tuples[j][order[m].index]) =>
      LET x == tuples[i][order[n].index].value
          y == tuples[j][order[n].index].value
      IN  IF order[n].direction = "ASC" THEN x <= y ELSE y <= x

(***************************************************************************)
(* To a search, the tuples equal to a key are an interval: those before it *)
(* come first, those behind it last, whichever of the two is asked; and    *)
(* the search finds the interval.  RangeKeys and BTree build on it.        *)
(***************************************************************************)
KeysMatchIntervals ==
  order = <<>> => \A k \in Keys :
    /\ \A i \in Positions : Compare(tuples[i], k) = Reversed(Compare(k, tuples[i]))
    /\ Found(k) = {i \in Positions : Compare(tuples[i], k) = {0}}
    /\ \A i, j \in Positions : i < j /\ j \in Found(k) => ~Before(k, tuples[i])
=============================================================================
