------------------------------ MODULE SortedPage ------------------------------
(***************************************************************************)
(* What whery's SortedPage interface promises its users (SortedPage.h:     *)
(* 21-29, 48-53, 70-72, 109-130): a multiset of tuples of limited size, to *)
(* which one is added if there is enough space, and from which one is      *)
(* erased, or all are.                                                     *)
(***************************************************************************)
EXTENDS Naturals, FiniteSets

CONSTANTS
  Tuples,       \* the tuples a page may hold
  MaxTuples     \* how many it has room for

VARIABLE copies     \* how often each tuple is on the page

Empty == [t \in Tuples |-> 0]
TupleCount == Cardinality(UNION {{t} \X (1..copies[t]) : t \in Tuples})

Init == copies = Empty

Add(t)   == TupleCount < MaxTuples /\ copies' = [copies EXCEPT ![t] = @ + 1]
Erase(t) == copies[t] > 0 /\ copies' = [copies EXCEPT ![t] = @ - 1]
Clear    == copies' = Empty

Next == Clear \/ \E t \in Tuples : Add(t) \/ Erase(t)

Spec == Init /\ [][Next]_copies
===============================================================================
