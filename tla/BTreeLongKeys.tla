---------------------------- MODULE BTreeLongKeys ----------------------------
(***************************************************************************)
(* Searching whery's B+-tree with a key that is longer than a branch key.  *)
(* A leaf tuple has the fields of the branch key and then others; an index *)
(* entry has those of the branch key and then a child's node ID            *)
(* (BTree.cpp:618-638).  Pages are searched with PrefixTupleComparator,    *)
(* which compares as many fields as both have: a key of one field more     *)
(* than the branch key is compared with that other field in a leaf, and    *)
(* with the child's ID in a branch.                                        *)
(*                                                                         *)
(* A tuple is, as in BTree, the place of its branch key in the order, and  *)
(* Payload says what its next field holds.                                 *)
(***************************************************************************)
EXTENDS BTreeWorkloads

CONSTANTS
  Payload,        \* the field after the branch key, for each tuple
  PayloadValues   \* the values a search key may have for it

ASSUME PayloadAssumption ==
  Payload \in [Tuples -> PayloadValues] /\ PayloadValues \subseteq Nat

\* the tuple <<t, Payload[t]>> as a search key would write it
LongKeys == Tuples \X PayloadValues
LongKeyOf(t) == <<t, Payload[t]>>

\* what stands after the branch key in an entry of a page
FieldAfterKey(id, e) == IF HasChildren(m_nodes, id) THEN e.child ELSE Payload[e.key]

LongBefore(k, l) == k[1] < l[1] \/ (k[1] = l[1] /\ k[2] < l[2])
EntryBefore(id, e, k) == LongBefore(<<e.key, FieldAfterKey(id, e)>>, k)
KeyBefore(id, k, e) == LongBefore(k, <<e.key, FieldAfterKey(id, e)>>)

\* where the walk down ends that takes the child left of the entries passed
Bound(passed) ==
  LET leaf == LeafAfter(passed)
  IN  Normalise(Iterator(leaf, FirstOf(m_nodes[leaf].page \ passed[leaf])))

LongLowerBound(k) ==
  Bound([id \in NodeIDs |-> {e \in m_nodes[id].page : EntryBefore(id, e, k)}])
LongUpperBound(k) ==
  Bound([id \in NodeIDs |-> {e \in m_nodes[id].page : ~KeyBefore(id, k, e)}])

\* mutant: the tuple found is compared with the branch key only
LongFindOfBranchKey(k) ==
  LET it == LongLowerBound(k)
  IN  IF it # end /\ The(it.at).key # k[1] THEN end ELSE it

LongFind(k) ==
  LET it == LongLowerBound(k)
  IN  IF it # end /\ LongKeyOf(The(it.at).key) # k THEN end ELSE it

(***************************************************************************)
(* Between calls find() with a long key returns the tuple that compares    *)
(* equal to it, or end() if there is none (BTree.h:342-350): a branch that *)
(* mistakes a child's ID for the last field of the key leads at most one   *)
(* leaf too far to the left, from where the search goes on in the next.    *)
(***************************************************************************)
FindsTheLongKey ==
  pc = "idle" => \A k \in LongKeys :
    IF \E t \in Stored : LongKeyOf(t) = k
      THEN LongFind(k).at = {LeafTuple(k[1])} ELSE LongFind(k) = end

(***************************************************************************)
(* Between calls equal_range() of a long key encloses the tuples that      *)
(* compare equal to it (BTree.h:301-318).                                  *)
(***************************************************************************)
LongRangesAreExact ==
  pc = "idle" => \A k \in LongKeys :
    Scan(LongLowerBound(k), LongUpperBound(k)) =
      InOrder({t \in Stored : LongKeyOf(t) = k})
=============================================================================
