---------------------------- MODULE BTreeProofs -----------------------------
(***************************************************************************)
(* Proofs about BTree, for every set of tuples, every page size and every  *)
(* bound on the number of nodes: that its state stays well typed, that no  *)
(* node ID is given out twice, what the pages it divides are, and that     *)
(* what insert_tuple does to the nodes keeps the shape of a loaded tree.   *)
(*                                                                         *)
(* TypeOK is inductive by itself: it says that a call on its way down is   *)
(* about to enter a node and that the nodes a Split or a Merge names       *)
(* exist, and every action that follows a link tests it first or aborts.   *)
(*                                                                         *)
(* The shape of a loaded tree (BTreeLoading) is kept in three layers.      *)
(* Relations between two tables of nodes (BoundaryMoves, Divides, ...)     *)
(* keep it, whatever function brings them about.  The functions of the     *)
(* code bring them about.  And the actions of BTree call these functions   *)
(* when their conditions hold: that is in BTreeLoadProofs.                 *)
(***************************************************************************)
EXTENDS BTreeLoading, SequenceLemmas, FunctionTheorems, TLAPS

\* the entries picked from a page are entries of the page
LEMMA EndsOfAPage ==
  ASSUME NEW S
  PROVE  /\ FirstOf(S) \subseteq S /\ LastOf(S) \subseteq S
         /\ \A n : Lowest(S, n) \subseteq S /\ Highest(S, n) \subseteq S
         /\ S # {} => The(S) \in S
         /\ FirstOf(S) # {} => The(FirstOf(S)) \in S
         /\ LastOf(S) # {} => The(LastOf(S)) \in S
<1>1. /\ FirstOf(S) \subseteq S /\ LastOf(S) \subseteq S
      /\ \A n : Lowest(S, n) \subseteq S /\ Highest(S, n) \subseteq S
  BY DEF FirstOf, LastOf, Lowest, Highest
<1>2. \A T : T # {} => The(T) \in T
  BY DEF The
<1> QED
  BY <1>1, <1>2

\* NodeRefs adds one reference that is not a node to the node IDs
LEMMA NodeRefsAreIDsOrNone ==
  /\ NoNode \in NodeRefs /\ NodeIDs \subseteq NodeRefs
  /\ \A r \in NodeRefs : r # NoNode => r \in NodeIDs
BY DEF NodeRefs

LEMMA NodeFields ==
  ASSUME NEW n \in Node
  PROVE  /\ n.firstChildID \in NodeRefs /\ n.page \in SUBSET Entry
         /\ n.parentID \in NodeRefs /\ n.siblingLeftID \in NodeRefs
         /\ n.siblingRightID \in NodeRefs
BY DEF Node

-----------------------------------------------------------------------------
(***************************************************************************)
(* Every operation on the node table leaves a node table behind.  Updating *)
(* an index that is no node changes nothing.                               *)
(***************************************************************************)
LEMMA PageUpdate ==
  ASSUME NEW ns \in Table, NEW i, NEW P, i \in NodeIDs => P \in SUBSET Entry
  PROVE  [ns EXCEPT ![i].page = P] \in Table
BY DEF Table, Node

LEMMA ParentUpdate ==
  ASSUME NEW ns \in Table, NEW i, NEW p \in NodeRefs
  PROVE  [ns EXCEPT ![i].parentID = p] \in Table
BY DEF Table, Node

LEMMA FirstChildUpdate ==
  ASSUME NEW ns \in Table, NEW i, NEW c \in NodeRefs
  PROVE  [ns EXCEPT ![i].firstChildID = c] \in Table
BY DEF Table, Node

LEMMA FindIndexEntryIsEntry ==
  ASSUME NEW ns \in Table, NEW i \in NodeIDs
  PROVE  /\ FindIndexEntry(ns, i) \subseteq Entry
         /\ CanFindIndexEntry(ns, i) =>
              /\ The(FindIndexEntry(ns, i)) \in Entry
              /\ ns[i].parentID \in NodeIDs
<1>1. FindIndexEntry(ns, i) # {} => ns[i].parentID # NoNode
  BY DEF FindIndexEntry
<1>2. ns[i].parentID # NoNode => ns[i].parentID \in NodeIDs
  BY NodeRefsAreIDsOrNone DEF Table, Node
<1>3. ns[i].parentID \in NodeIDs => ns[ns[i].parentID].page \subseteq Entry
  BY DEF Table, Node
<1>4. ns[i].parentID \in NodeIDs => FindIndexEntry(ns, i) \subseteq ns[ns[i].parentID].page
  BY EndsOfAPage DEF FindIndexEntry
<1>5. FindIndexEntry(ns, i) \subseteq Entry
  BY <1>1, <1>2, <1>3, <1>4
<1>6. CanFindIndexEntry(ns, i) => The(FindIndexEntry(ns, i)) \in FindIndexEntry(ns, i)
  BY EndsOfAPage DEF CanFindIndexEntry
<1> QED
  BY <1>1, <1>2, <1>5, <1>6 DEF CanFindIndexEntry

LEMMA EraseIndexEntryType ==
  ASSUME NEW ns \in Table, NEW i \in NodeIDs
  PROVE  EraseIndexEntry(ns, i) \in Table
BY DEF EraseIndexEntry, Table, Node

LEMMA AddIndexEntryType ==
  ASSUME NEW ns \in Table, NEW i \in NodeIDs, CanAddIndexEntry(ns, i)
  PROVE  AddIndexEntry(ns, i) \in Table
<1>1. ns[i].page \subseteq Entry
  BY DEF Table, Node
<1>2. The(FirstOf(ns[i].page)) \in Entry
  BY <1>1, EndsOfAPage DEF CanAddIndexEntry
<1>3. BranchTuple(The(FirstOf(ns[i].page)).key, i) \in Entry
  BY <1>2, NodeRefsAreIDsOrNone DEF BranchTuple, Entry
<1> QED
  BY <1>3 DEF AddIndexEntry, Table, Node

LEMMA AddTupleType ==
  ASSUME NEW ns \in Table, NEW i, NEW e \in Entry
  PROVE  AddTuple(ns, i, e) \in Table
BY DEF AddTuple, Table, Node

LEMMA EraseTupleType ==
  ASSUME NEW ns \in Table, NEW i, NEW e
  PROVE  EraseTuple(ns, i, e) \in Table
BY DEF EraseTuple, Table, Node

LEMMA TransferType ==
  ASSUME NEW ns \in Table, NEW i, NEW j, NEW S, S \subseteq Entry
  PROVE  Transfer(ns, i, j, S) \in Table
BY DEF Transfer, Table, Node

LEMMA SiblingUpdate ==
  ASSUME NEW ns \in Table, NEW i, NEW r \in NodeRefs
  PROVE  /\ [ns EXCEPT ![i].siblingLeftID = r] \in Table
         /\ [ns EXCEPT ![i].siblingRightID = r] \in Table
BY DEF Table, Node

LEMMA ConnectFreshType ==
  ASSUME NEW ns \in Table, NEW i \in NodeIDs, NEW j \in NodeIDs
  PROVE  ConnectFresh(ns, i, j) \in Table
<1> DEFINE right == ns[j].siblingRightID
           n     == [ns[i] EXCEPT !.page = {}, !.parentID = ns[j].parentID,
                                  !.siblingLeftID = j, !.siblingRightID = right]
           ns1   == [ns EXCEPT ![i] = n]
           added == [ns1 EXCEPT ![j].siblingRightID = i]
<1>1. i \in NodeRefs /\ j \in NodeRefs
  BY NodeRefsAreIDsOrNone
<1>2. n \in Node
  BY <1>1 DEF Table, Node
<1>3. ns1 \in Table
  BY <1>2 DEF Table
<1>4. added \in Table
  BY <1>1, <1>3, SiblingUpdate
<1>5. [added EXCEPT ![right].siblingLeftID = i] \in Table
  BY <1>1, <1>4, SiblingUpdate
<1>6. ConnectFresh(ns, i, j) = IF right = NoNode THEN added
                               ELSE [added EXCEPT ![right].siblingLeftID = i]
  BY DEF ConnectFresh
<1> QED
  BY <1>4, <1>5, <1>6

LEMMA AddRootNodeType ==
  ASSUME NEW ns \in Table, NEW r \in NodeIDs, NEW s \in Result,
         s.left \in NodeIDs, s.right \in NodeIDs
  PROVE  AddRootNode(ns, r, s) \in Table
<1> DEFINE P   == {BranchTuple(s.splitter, s.right)}
           n   == [ns[r] EXCEPT !.page = P, !.firstChildID = s.left,
                                !.parentID = NoNode, !.siblingLeftID = NoNode,
                                !.siblingRightID = NoNode]
           ns1 == [ns EXCEPT ![r] = n]
           ns2 == [ns1 EXCEPT ![s.left].parentID = r]
<1>1. r \in NodeRefs /\ s.left \in NodeRefs /\ s.right \in NodeRefs /\ NoNode \in NodeRefs
  BY NodeRefsAreIDsOrNone
<1>2. P \subseteq Entry
  BY <1>1 DEF BranchTuple, Entry, Result
<1>3. n \in Node
  <2> HIDE DEF P
  <2> QED
    BY <1>1, <1>2 DEF Table, Node
<1>4. ns1 \in Table
  BY <1>3 DEF Table
<1>5. [ns2 EXCEPT ![s.right].parentID = r] \in Table
  BY <1>1, <1>4, ParentUpdate
<1> QED
  BY <1>5 DEF AddRootNode

LEMMA DisconnectFromSiblingsType ==
  ASSUME NEW ns \in Table, NEW i \in NodeIDs
  PROVE  DisconnectFromSiblings(ns, i) \in Table
BY DEF DisconnectFromSiblings, Table, Node

LEMMA DeleteNodeType ==
  ASSUME NEW ns \in Table, NEW i
  PROVE  DeleteNode(ns, i) \in Table
<1>1. BlankNode \in Node
  BY NodeRefsAreIDsOrNone DEF BlankNode, Node
<1> QED
  BY <1>1 DEF DeleteNode, Table

LEMMA UpdateParentPointersType ==
  ASSUME NEW ns \in Table, NEW i, NEW j \in NodeIDs
  PROVE  UpdateParentPointers(ns, i, j) \in Table
<1>1. NodeIDs \subseteq NodeRefs
  BY NodeRefsAreIDsOrNone
<1> QED
  BY <1>1 DEF UpdateParentPointers, Table, Node

LEMMA PullDownIndexEntryType ==
  ASSUME NEW ns \in Table, NEW i \in NodeIDs, NEW j, NEW c \in NodeRefs,
         CanPullDown(ns, i, j)
  PROVE  PullDownIndexEntry(ns, i, j, c) \in Table
<1> DEFINE e == The(FindIndexEntry(ns, i))
<1>1. e \in Entry
  BY FindIndexEntryIsEntry DEF CanPullDown
<1>2. BranchTuple(e.key, c) \in Entry
  BY <1>1 DEF BranchTuple, Entry
<1> HIDE DEF e
<1> QED
  BY <1>2 DEF PullDownIndexEntry, Table, Node, e

-----------------------------------------------------------------------------
(***************************************************************************)
(* The allocator's sets stay within the node IDs, and a Split or a Merge   *)
(* is a result that names nodes.                                           *)
(***************************************************************************)
IDSets == [free : SUBSET NodeIDs, used : SUBSET NodeIDs]

LEMMA AfterAllocateType ==
  ASSUME NEW ids \in IDSets, IDs!Allocated(ids.free, ids.used) \in NodeIDs
  PROVE  AfterAllocate(ids) \in IDSets
BY DEF AfterAllocate, IDSets, IDs!FreeAfterAllocate, IDs!UsedAfterAllocate

LEMMA AfterDeallocateType ==
  ASSUME m_nodeIDAllocator \in IDSets, NEW id \in NodeIDs
  PROVE  AfterDeallocate(id) \in IDSets
BY DEF AfterDeallocate, IDSets, Live, IDs!FreeAfterDeallocate, IDs!UsedAfterDeallocate

TypedResult(res) ==
  /\ res \in Result
  /\ res.kind # "none" => res.left \in NodeIDs
  /\ res.kind = "split" => res.right \in NodeIDs

LEMMA ResultsAreTyped ==
  /\ TypedResult(NoResult)
  /\ \A id \in NodeIDs : TypedResult(Merge(id))
  /\ \A l, r \in NodeIDs, k \in Nat : TypedResult(Split(l, r, k))
BY NodeRefsAreIDsOrNone DEF TypedResult, Result, NoResult, Merge, Split

-----------------------------------------------------------------------------
(***************************************************************************)
(* What the actions have in common: how a call begins, descends, returns   *)
(* from a leaf or a branch, ends or aborts.                                *)
(***************************************************************************)
LEMMA AbortType ==
  ASSUME TypeOK, Abort
  PROVE  TypeOK'
BY DEF TypeOK, Abort, tree

LEMMA IdleType ==
  ASSUME TypeOK, NEW count \in 0..(CountModulus - 1), Idle(count)
  PROVE  TypeOK'
<1>1. TypedResult(NoResult) /\ NoResult.kind = "none" /\ NoNode \in NodeRefs
  BY ResultsAreTyped, NodeRefsAreIDsOrNone DEF NoResult
<1>2. <<>> \in Seq(NodeIDs) /\ <<0, 0>> \in Nat \X Nat
  OBVIOUS
<1> QED
  BY <1>1, <1>2 DEF TypeOK, Idle, tree, TypedResult

LEMMA BeginType ==
  ASSUME TypeOK, NEW down \in {"insertDown", "eraseDown"},
         NEW k \in Nat \X Nat, Begin(down, k)
  PROVE  TypeOK'
BY NodeRefsAreIDsOrNone DEF TypeOK, Begin, tree

LEMMA DescendType ==
  ASSUME TypeOK, pc \in {"insertDown", "eraseDown"}, NEW before, Descend(before)
  PROVE  TypeOK'
<1> DEFINE child == LeftChildOf(m_nodes, node, before)
<1>1. CASE child \in Live
  <2>1. child \in NodeIDs /\ child \in NodeRefs /\ node \in NodeIDs
    BY <1>1, NodeRefsAreIDsOrNone DEF TypeOK, Live
  <2>2. Append(path, node) \in Seq(NodeIDs)
    BY <2>1 DEF TypeOK
  <2>3. /\ node' = child /\ path' = Append(path, node)
        /\ UNCHANGED <<tree, m_tupleCount, pc, key, result>>
    BY <1>1 DEF Descend
  <2> HIDE DEF child
  <2> QED
    BY <2>1, <2>2, <2>3 DEF TypeOK, tree
<1>2. CASE child \notin Live
  BY <1>2, AbortType DEF Descend
<1> QED
  BY <1>1, <1>2

LEMMA LeafReturnsType ==
  ASSUME TypeOK, NEW up \in {"insertUp", "eraseUp"},
         NEW ns \in Table, NEW res, TypedResult(res), LeafReturns(up, ns, res),
         m_rootID' \in NodeIDs, m_lastLeafID' \in NodeIDs, m_nodeIDAllocator' \in IDSets
  PROVE  TypeOK'
BY DEF TypeOK, LeafReturns, TypedResult, IDSets, Table

LEMMA BranchReturnsType ==
  ASSUME TypeOK, pc \in {"insertUp", "eraseUp"}, path # <<>>,
         NEW ns \in Table, NEW res, TypedResult(res), BranchReturns(ns, res),
         m_rootID' \in NodeIDs, m_nodeIDAllocator' \in IDSets
  PROVE  TypeOK'
<1>1. path \in Seq(NodeIDs) /\ Len(path) > 0
  BY DEF TypeOK
<1>2. SubSeq(path, 1, Len(path) - 1) \in Seq(NodeIDs)
  BY <1>1
<1> QED
  BY <1>2 DEF TypeOK, BranchReturns, TypedResult, IDSets, Table

LEMMA FrameIsNode ==
  ASSUME TypeOK, path # <<>>
  PROVE  Frame \in NodeIDs
BY DEF TypeOK, Frame

\* a handler that leaves the root, the last leaf and the node IDs alone
LEMMA LeafReturnsSameRoot ==
  ASSUME TypeOK, NEW up \in {"insertUp", "eraseUp"}, NEW ns \in Table,
         LeafReturns(up, ns, NoResult), SameRootAndIDs, UNCHANGED m_lastLeafID
  PROVE  TypeOK'
<1>1. /\ m_rootID' \in NodeIDs /\ m_lastLeafID' \in NodeIDs
      /\ m_nodeIDAllocator' \in IDSets
  BY DEF TypeOK, SameRootAndIDs, IDSets
<1> QED
  BY <1>1, LeafReturnsType, ResultsAreTyped

LEMMA BranchReturnsSameRoot ==
  ASSUME TypeOK, pc \in {"insertUp", "eraseUp"}, path # <<>>, NEW ns \in Table,
         BranchReturns(ns, NoResult), SameRootAndIDs
  PROVE  TypeOK'
<1>1. m_rootID' \in NodeIDs /\ m_nodeIDAllocator' \in IDSets
  BY DEF TypeOK, SameRootAndIDs, IDSets
<1> QED
  BY <1>1, BranchReturnsType, ResultsAreTyped

-----------------------------------------------------------------------------
(***************************************************************************)
(* What TypeOK says about the pieces the actions are built from.           *)
(***************************************************************************)
LEMMA StateTypes ==
  ASSUME TypeOK
  PROVE  /\ m_nodes \in Table /\ m_nodeIDAllocator \in IDSets
         /\ m_rootID \in NodeIDs /\ m_lastLeafID \in NodeIDs
         /\ Live \subseteq NodeIDs
BY DEF TypeOK, Table, IDSets, Live

LEMMA FieldTypes ==
  ASSUME NEW ns \in Table, NEW i \in NodeIDs
  PROVE  /\ ns[i].firstChildID \in NodeRefs /\ ns[i].page \subseteq Entry
         /\ ns[i].parentID \in NodeRefs /\ ns[i].siblingLeftID \in NodeRefs
         /\ ns[i].siblingRightID \in NodeRefs
BY DEF Table, Node

LEMMA UsefulSiblingIsNode ==
  ASSUME NEW ns, NEW i, NEW j \in NodeRefs, IsUsefulSibling(ns, i, j)
  PROVE  j \in NodeIDs
BY NodeRefsAreIDsOrNone DEF IsUsefulSibling

LEMMA NewTupleIsEntry ==
  ASSUME TypeOK
  PROVE  NewTuple \in Entry
<1>1. key[1] \in Nat
  BY DEF TypeOK
<1> QED
  BY <1>1, NodeRefsAreIDsOrNone DEF NewTuple, LeafTuple, Entry

\* the leaf that insert_tuple_into_leaf works on
LEMMA LeafToInsert ==
  ASSUME TypeOK, AtLeafToInsert
  PROVE  /\ node \in NodeIDs
         /\ LeftLeaf \in NodeRefs /\ RightLeaf \in NodeRefs
         /\ HasRoomIn(LeftLeaf) => LeftLeaf \in NodeIDs
         /\ HasRoomIn(RightLeaf) => RightLeaf \in NodeIDs
<1>1. node \in NodeIDs
  BY DEF TypeOK, AtLeafToInsert
<1>2. LeftLeaf \in NodeRefs /\ RightLeaf \in NodeRefs
  BY <1>1, StateTypes, FieldTypes DEF LeftLeaf, RightLeaf
<1> QED
  BY <1>1, <1>2, UsefulSiblingIsNode DEF HasRoomIn

-----------------------------------------------------------------------------
(***************************************************************************)
(* The actions of insert_tuple.                                            *)
(***************************************************************************)
LEMMA InsertCallType ==
  ASSUME TypeOK, NEW t \in Tuples, InsertCall(t)
  PROVE  TypeOK'
<1>1. <<t, t>> \in Nat \X Nat
  BY TuplesAssumption
<1> QED
  BY <1>1, BeginType DEF InsertCall

LEMMA InsertDescendType ==
  ASSUME TypeOK, InsertDescend
  PROVE  TypeOK'
BY DescendType DEF InsertDescend

LEMMA InsertIntoLeafType ==
  ASSUME TypeOK, InsertIntoLeaf
  PROVE  TypeOK'
<1>1. AddTuple(m_nodes, node, NewTuple) \in Table
  BY StateTypes, NewTupleIsEntry, AddTupleType
<1> QED
  BY <1>1, LeafReturnsSameRoot DEF InsertIntoLeaf

LEMMA RedistributeLeafLeftAndInsertType ==
  ASSUME TypeOK, RedistributeLeafLeftAndInsert
  PROVE  TypeOK'
<1> DEFINE ns1   == EraseIndexEntry(m_nodes, node)
           first == Lowest(ns1[node].page, 1)
           ns2   == Transfer(ns1, node, LeftLeaf, first)
           ns3   == AddTuple(ns2, node, NewTuple)
           ok    == /\ CanFindIndexEntry(m_nodes, node)
                    /\ CanTransfer(ns1, node, LeftLeaf, first)
                    /\ CanAddIndexEntry(ns3, node)
<1>1. node \in NodeIDs
  BY LeafToInsert DEF RedistributeLeafLeftAndInsert
<1>2. ns1 \in Table
  BY <1>1, StateTypes, EraseIndexEntryType
<1>3. first \subseteq Entry
  BY <1>1, <1>2, FieldTypes, EndsOfAPage
<1>4. ns2 \in Table
  BY <1>2, <1>3, TransferType
<1>5. ns3 \in Table
  BY <1>4, NewTupleIsEntry, AddTupleType
<1>6. CASE ok
  <2>1. AddIndexEntry(ns3, node) \in Table
    BY <1>1, <1>5, <1>6, AddIndexEntryType
  <2>2. /\ LeafReturns("insertUp", AddIndexEntry(ns3, node), NoResult)
        /\ SameRootAndIDs /\ UNCHANGED m_lastLeafID
    BY <1>6 DEF RedistributeLeafLeftAndInsert
  <2> QED
    BY <2>1, <2>2, LeafReturnsSameRoot
<1>7. CASE ~ok
  BY <1>7, AbortType DEF RedistributeLeafLeftAndInsert
<1> QED
  BY <1>6, <1>7

LEMMA RedistributeLeafRightAndInsertType ==
  ASSUME TypeOK, RedistributeLeafRightAndInsert
  PROVE  TypeOK'
<1> DEFINE ns1  == EraseIndexEntry(m_nodes, RightLeaf)
           last == Highest(ns1[node].page, 1)
           ns2  == IF \A e \in ns1[node].page : e.key < key[1]
                     THEN AddTuple(ns1, RightLeaf, NewTuple)
                     ELSE AddTuple(Transfer(ns1, node, RightLeaf, last), node, NewTuple)
           ok   == /\ CanFindIndexEntry(m_nodes, RightLeaf)
                   /\ CanTransfer(ns1, node, RightLeaf, last)
                   /\ CanAddIndexEntry(ns2, RightLeaf)
<1>1. node \in NodeIDs /\ RightLeaf \in NodeIDs
  BY LeafToInsert DEF RedistributeLeafRightAndInsert
<1>2. ns1 \in Table
  BY <1>1, StateTypes, EraseIndexEntryType
<1>3. last \subseteq Entry
  BY <1>1, <1>2, FieldTypes, EndsOfAPage
<1>4. Transfer(ns1, node, RightLeaf, last) \in Table
  BY <1>2, <1>3, TransferType
<1>5. ns2 \in Table
  BY <1>2, <1>4, NewTupleIsEntry, AddTupleType
<1>6. CASE ok
  <2>1. AddIndexEntry(ns2, RightLeaf) \in Table
    BY <1>1, <1>5, <1>6, AddIndexEntryType
  <2>2. /\ LeafReturns("insertUp", AddIndexEntry(ns2, RightLeaf), NoResult)
        /\ SameRootAndIDs /\ UNCHANGED m_lastLeafID
    BY <1>6 DEF RedistributeLeafRightAndInsert
  <2> QED
    BY <2>1, <2>2, LeafReturnsSameRoot
<1>7. CASE ~ok
  BY <1>7, AbortType DEF RedistributeLeafRightAndInsert
<1> QED
  BY <1>6, <1>7

\* two IDs are taken when the root splits
LEMMA TwoIDsType ==
  ASSUME TypeOK, FreshID \in NodeIDs
  PROVE  /\ AfterAllocate(m_nodeIDAllocator) \in IDSets
         /\ FreshRootID \in NodeIDs =>
              AfterAllocate(AfterAllocate(m_nodeIDAllocator)) \in IDSets
<1>1. AfterAllocate(m_nodeIDAllocator) \in IDSets
  BY StateTypes, AfterAllocateType DEF FreshID
<1> QED
  BY <1>1, AfterAllocateType DEF FreshRootID

LEMMA SplitLeafAndInsertType ==
  ASSUME TypeOK, SplitLeafAndInsert
  PROVE  TypeOK'
<1> DEFINE fresh == FreshID
           ns1   == ConnectFresh(m_nodes, fresh, node)
           upper == Highest(ns1[node].page, TupleCount(ns1, node) \div 2)
           ns2   == Transfer(ns1, node, fresh, upper)
           side  == IF \E f \in FirstOf(upper) : key[1] < f.key THEN node ELSE fresh
           ns3   == AddTuple(ns2, side, NewTuple)
           split == Split(node, fresh, The(FirstOf(ns3[fresh].page)).key)
           lastID == IF m_lastLeafID = node THEN fresh ELSE m_lastLeafID
<1>1. node \in NodeIDs /\ fresh \in NodeIDs /\ lastID \in NodeIDs
  BY LeafToInsert, StateTypes DEF SplitLeafAndInsert
<1>2. ns1 \in Table
  BY <1>1, StateTypes, ConnectFreshType
<1>3. upper \subseteq Entry
  BY <1>1, <1>2, FieldTypes, EndsOfAPage
<1>4. ns2 \in Table
  BY <1>2, <1>3, TransferType
<1>5. ns3 \in Table
  BY <1>4, NewTupleIsEntry, AddTupleType
<1>6. CASE FirstOf(ns3[fresh].page) = {}
  BY <1>6, AbortType DEF SplitLeafAndInsert
<1>7. CASE FirstOf(ns3[fresh].page) # {}
  <2>1. The(FirstOf(ns3[fresh].page)) \in Entry
    BY <1>1, <1>5, <1>7, FieldTypes, EndsOfAPage
  <2>2. The(FirstOf(ns3[fresh].page)).key \in Nat
    BY <2>1 DEF Entry
  <2>3. TypedResult(split)
    BY <1>1, <2>2, ResultsAreTyped
  <2>4. split.left = node /\ split.right = fresh
    BY DEF Split
  <2>5. CASE node = m_rootID
    <3>1. FreshRootID \in NodeIDs
      BY <2>5 DEF SplitLeafAndInsert
    <3>2. AddRootNode(ns3, FreshRootID, split) \in Table
      BY <1>1, <1>5, <2>3, <2>4, <3>1, AddRootNodeType DEF TypedResult
    <3>3. /\ LeafReturns("insertUp", AddRootNode(ns3, FreshRootID, split), NoResult)
          /\ m_rootID' = FreshRootID
          /\ m_nodeIDAllocator' = AfterAllocate(AfterAllocate(m_nodeIDAllocator))
          /\ m_lastLeafID' = lastID
      BY <1>7, <2>5 DEF SplitLeafAndInsert
    <3>4. m_nodeIDAllocator' \in IDSets /\ m_rootID' \in NodeIDs /\ m_lastLeafID' \in NodeIDs
      BY <1>1, <3>1, <3>3, TwoIDsType
    <3> QED
      BY <3>2, <3>3, <3>4, ResultsAreTyped, LeafReturnsType
  <2>6. CASE node # m_rootID
    <3>1. /\ LeafReturns("insertUp", ns3, split)
          /\ m_nodeIDAllocator' = AfterAllocate(m_nodeIDAllocator)
          /\ m_lastLeafID' = lastID /\ UNCHANGED m_rootID
      BY <1>7, <2>6 DEF SplitLeafAndInsert
    <3>2. m_nodeIDAllocator' \in IDSets /\ m_rootID' \in NodeIDs /\ m_lastLeafID' \in NodeIDs
      BY <1>1, <3>1, TwoIDsType, StateTypes
    <3> QED
      BY <1>5, <2>3, <3>1, <3>2, LeafReturnsType
  <2> QED
    BY <2>5, <2>6
<1> QED
  BY <1>6, <1>7

LEMMA InsertReturnsWithoutSplitType ==
  ASSUME TypeOK, InsertReturnsWithoutSplit
  PROVE  TypeOK'
BY StateTypes, BranchReturnsSameRoot DEF InsertReturnsWithoutSplit, ReturningToBranch

LEMMA SplitTupleIsEntry ==
  ASSUME TypeOK, ReturningToBranch("insertUp", "split")
  PROVE  SplitTuple \in Entry
BY DEF TypeOK, ReturningToBranch, Result, SplitTuple, BranchTuple, Entry

LEMMA InsertIndexEntryType ==
  ASSUME TypeOK, InsertIndexEntry
  PROVE  TypeOK'
<1>1. ReturningToBranch("insertUp", "split")
  BY DEF InsertIndexEntry
<1>2. AddTuple(m_nodes, Frame, SplitTuple) \in Table
  BY <1>1, StateTypes, SplitTupleIsEntry, AddTupleType
<1> QED
  BY <1>1, <1>2, BranchReturnsSameRoot DEF InsertIndexEntry, ReturningToBranch

LEMMA SplitBranchAndInsertType ==
  ASSUME TypeOK, SplitBranchAndInsert
  PROVE  TypeOK'
<1> DEFINE fresh  == FreshID
           all    == m_nodes[Frame].page \cup {SplitTuple}
           lower  == Lowest(all, Cardinality(all) \div 2)
           median == The(FirstOf(all \ lower))
           ns1    == ConnectFresh(m_nodes, fresh, Frame)
           ns1a   == [ns1 EXCEPT ![Frame].page = lower]
           ns1b   == [ns1a EXCEPT ![fresh].page = (all \ lower) \ {median}]
           ns2    == [ns1b EXCEPT ![fresh].firstChildID = median.child]
           ns3    == UpdateParentPointers(ns2, fresh, fresh)
           split  == Split(Frame, fresh, median.key)
           fails  == ~(FirstOf(all \ lower) # {} /\ Children(ns2, fresh) \subseteq Live)
<1>1. /\ pc \in {"insertUp", "eraseUp"} /\ path # <<>>
      /\ Frame \in NodeIDs /\ fresh \in NodeIDs
  BY FrameIsNode DEF SplitBranchAndInsert, ReturningToBranch
<1>2. all \subseteq Entry
  BY <1>1, StateTypes, FieldTypes, SplitTupleIsEntry DEF SplitBranchAndInsert
<1>3. lower \subseteq all
  BY EndsOfAPage
<1>4. ns1 \in Table
  BY <1>1, StateTypes, ConnectFreshType
<1>5. CASE fails
  BY <1>5, AbortType DEF SplitBranchAndInsert
<1>6. CASE ~fails
  <2>1. median \in all
    BY <1>6, EndsOfAPage
  <2>2. median \in Entry
    BY <1>2, <2>1
  <2>3. median.key \in Nat /\ median.child \in NodeRefs
    BY <2>2 DEF Entry
  <2>4. lower \subseteq Entry /\ (all \ lower) \ {median} \subseteq Entry
    BY <1>2, <1>3
  <2>5. ns1a \in Table
    BY <1>4, <2>4, PageUpdate
  <2>6. ns1b \in Table
    BY <2>4, <2>5, PageUpdate
  <2>7. ns2 \in Table
    BY <2>3, <2>6, FirstChildUpdate
  <2>8. ns3 \in Table
    BY <1>1, <2>7, UpdateParentPointersType
  <2>9. TypedResult(split) /\ split.left = Frame /\ split.right = fresh
    BY <1>1, <2>3, ResultsAreTyped DEF Split
  <2>10. CASE Frame = m_rootID
    <3>1. FreshRootID \in NodeIDs
      BY <2>10 DEF SplitBranchAndInsert
    <3>2. AddRootNode(ns3, FreshRootID, split) \in Table
      BY <1>1, <2>8, <2>9, <3>1, AddRootNodeType DEF TypedResult
    <3>3. /\ BranchReturns(AddRootNode(ns3, FreshRootID, split), NoResult)
          /\ m_rootID' = FreshRootID
          /\ m_nodeIDAllocator' = AfterAllocate(AfterAllocate(m_nodeIDAllocator))
      BY <1>6, <2>10 DEF SplitBranchAndInsert
    <3>4. m_nodeIDAllocator' \in IDSets /\ m_rootID' \in NodeIDs
      BY <1>1, <3>1, <3>3, TwoIDsType
    <3> QED
      BY <1>1, <3>2, <3>3, <3>4, ResultsAreTyped, BranchReturnsType
  <2>11. CASE Frame # m_rootID
    <3>1. /\ BranchReturns(ns3, split)
          /\ m_nodeIDAllocator' = AfterAllocate(m_nodeIDAllocator)
          /\ UNCHANGED m_rootID
      BY <1>6, <2>11 DEF SplitBranchAndInsert
    <3>2. m_nodeIDAllocator' \in IDSets /\ m_rootID' \in NodeIDs
      BY <1>1, <3>1, TwoIDsType, StateTypes
    <3> QED
      BY <1>1, <2>8, <2>9, <3>1, <3>2, BranchReturnsType
  <2> QED
    BY <2>10, <2>11
<1> QED
  BY <1>5, <1>6

LEMMA InsertReturnsType ==
  ASSUME TypeOK, InsertReturns
  PROVE  TypeOK'
<1>1. (m_tupleCount + 1) % CountModulus \in 0..(CountModulus - 1)
  BY BoundsAssumption DEF TypeOK
<1> QED
  BY <1>1, IdleType, AbortType DEF InsertReturns

-----------------------------------------------------------------------------
(***************************************************************************)
(* The actions of erase_tuple.                                             *)
(***************************************************************************)
LEMMA EraseCallType ==
  ASSUME TypeOK, NEW k \in SearchKeys, EraseCall(k)
  PROVE  TypeOK'
BY SearchKeysAssumption, BeginType DEF EraseCall

LEMMA EraseDescendType ==
  ASSUME TypeOK, EraseDescend
  PROVE  TypeOK'
BY DescendType DEF EraseDescend

\* the leaf to erase from exists whenever it holds a match
LEMMA LeafToErase ==
  ASSUME TypeOK, AtLeafToErase
  PROVE  /\ HasMatch => EraseID \in NodeIDs
         /\ HasMatch => LeftOf(EraseID) \in NodeRefs /\ RightOf(EraseID) \in NodeRefs
<1>1. node \in NodeIDs
  BY DEF TypeOK, AtLeafToErase
<1>2. m_nodes[node].siblingRightID \in NodeRefs
  BY <1>1, StateTypes, FieldTypes
<1>3. EraseID \in NodeRefs
  BY <1>1, <1>2, NodeRefsAreIDsOrNone DEF EraseID
<1>4. HasMatch => EraseID \in NodeIDs
  BY <1>3, NodeRefsAreIDsOrNone DEF HasMatch
<1> QED
  BY <1>4, StateTypes, FieldTypes DEF LeftOf, RightOf

LEMMA EraseNothingType ==
  ASSUME TypeOK, EraseNothing
  PROVE  TypeOK'
BY StateTypes, LeafReturnsSameRoot, AbortType DEF EraseNothing

LEMMA EraseFromLeafType ==
  ASSUME TypeOK, EraseFromLeaf
  PROVE  TypeOK'
<1>1. EraseTuple(m_nodes, EraseID, Doomed) \in Table
  BY StateTypes, EraseTupleType
<1> QED
  BY <1>1, LeafReturnsSameRoot DEF EraseFromLeaf

LEMMA RedistributeFromLeftLeafAndEraseType ==
  ASSUME TypeOK, RedistributeFromLeftLeafAndErase
  PROVE  TypeOK'
<1> DEFINE left == LeftOf(EraseID)
           ns1  == EraseIndexEntry(m_nodes, EraseID)
           ns2  == EraseTuple(ns1, EraseID, Doomed)
           last == Highest(ns2[left].page, 1)
           ns3  == Transfer(ns2, left, RightOf(left), last)
           ok   == /\ CanFindIndexEntry(m_nodes, EraseID)
                   /\ CanTransfer(ns2, left, RightOf(left), last)
                   /\ CanAddIndexEntry(ns3, EraseID)
<1>1. EraseID \in NodeIDs /\ left \in NodeIDs
  <2>1. EraseID \in NodeIDs /\ left \in NodeRefs
    BY LeafToErase DEF RedistributeFromLeftLeafAndErase, LeafUnderflows
  <2>2. IsUsefulSibling(m_nodes, EraseID, left)
    BY DEF RedistributeFromLeftLeafAndErase, CanLend
  <2> QED
    BY <2>1, <2>2, UsefulSiblingIsNode
<1>2. ns1 \in Table
  BY <1>1, StateTypes, EraseIndexEntryType
<1>3. ns2 \in Table
  BY <1>2, EraseTupleType
<1>4. last \subseteq Entry
  BY <1>1, <1>3, FieldTypes, EndsOfAPage
<1>5. ns3 \in Table
  BY <1>3, <1>4, TransferType
<1>6. CASE ok
  <2>1. AddIndexEntry(ns3, EraseID) \in Table
    BY <1>1, <1>5, <1>6, AddIndexEntryType
  <2>2. /\ LeafReturns("eraseUp", AddIndexEntry(ns3, EraseID), NoResult)
        /\ SameRootAndIDs /\ UNCHANGED m_lastLeafID
    BY <1>6 DEF RedistributeFromLeftLeafAndErase
  <2> QED
    BY <2>1, <2>2, LeafReturnsSameRoot
<1>7. CASE ~ok
  BY <1>7, AbortType DEF RedistributeFromLeftLeafAndErase
<1> QED
  BY <1>6, <1>7

LEMMA RedistributeFromRightLeafAndEraseType ==
  ASSUME TypeOK, RedistributeFromRightLeafAndErase
  PROVE  TypeOK'
<1> DEFINE right == RightOf(EraseID)
           inner == m_nodes[m_nodes[EraseID].parentID].firstChildID # EraseID
           ns1   == EraseIndexEntry(m_nodes, right)
           ns2   == IF inner THEN EraseIndexEntry(ns1, EraseID) ELSE ns1
           ns3   == EraseTuple(ns2, EraseID, Doomed)
           first == Lowest(ns3[right].page, 1)
           ns4   == Transfer(ns3, right, LeftOf(right), first)
           ns5   == AddIndexEntry(ns4, right)
           ok    == /\ CanFindIndexEntry(m_nodes, right)
                    /\ inner => CanFindIndexEntry(ns1, EraseID)
                    /\ CanTransfer(ns3, right, LeftOf(right), first)
                    /\ CanAddIndexEntry(ns4, right)
                    /\ inner => CanAddIndexEntry(ns5, EraseID)
<1>1. EraseID \in NodeIDs /\ right \in NodeIDs
  <2>1. EraseID \in NodeIDs /\ right \in NodeRefs
    BY LeafToErase DEF RedistributeFromRightLeafAndErase, LeafUnderflows
  <2>2. IsUsefulSibling(m_nodes, EraseID, right)
    BY DEF RedistributeFromRightLeafAndErase, CanLend
  <2> QED
    BY <2>1, <2>2, UsefulSiblingIsNode
<1>2. ns1 \in Table
  BY <1>1, StateTypes, EraseIndexEntryType
<1>3. ns2 \in Table
  BY <1>1, <1>2, EraseIndexEntryType
<1>4. ns3 \in Table
  BY <1>3, EraseTupleType
<1>5. first \subseteq Entry
  BY <1>1, <1>4, FieldTypes, EndsOfAPage
<1>6. ns4 \in Table
  BY <1>4, <1>5, TransferType
<1>7. CASE ok
  <2>1. ns5 \in Table
    BY <1>1, <1>6, <1>7, AddIndexEntryType
  <2>2. inner => AddIndexEntry(ns5, EraseID) \in Table
    <3>1. inner => CanAddIndexEntry(ns5, EraseID)
      BY <1>7
    <3> HIDE DEF ns5, inner
    <3> QED
      BY <1>1, <2>1, <3>1, AddIndexEntryType
  <2>3. (IF inner THEN AddIndexEntry(ns5, EraseID) ELSE ns5) \in Table
    BY <2>1, <2>2
  <2>4. /\ LeafReturns("eraseUp", IF inner THEN AddIndexEntry(ns5, EraseID) ELSE ns5, NoResult)
        /\ SameRootAndIDs /\ UNCHANGED m_lastLeafID
    BY <1>7 DEF RedistributeFromRightLeafAndErase
  <2> QED
    BY <2>3, <2>4, LeafReturnsSameRoot
<1>8. CASE ~ok
  BY <1>8, AbortType DEF RedistributeFromRightLeafAndErase
<1> QED
  BY <1>7, <1>8

LEMMA MergeLeavesAndEraseType ==
  ASSUME TypeOK, AtLeafToErase, NEW left \in NodeIDs, NEW right \in NodeIDs,
         MergeLeavesAndErase(left, right)
  PROVE  TypeOK'
<1> DEFINE ns1   == EraseIndexEntry(m_nodes, right)
           ns2   == EraseTuple(ns1, EraseID, Doomed)
           moved == ns2[right].page
           ns3   == Transfer(ns2, right, LeftOf(right), moved)
           ns4   == DeleteNode(DisconnectFromSiblings(ns3, right), right)
           ok    == /\ CanFindIndexEntry(m_nodes, right)
                    /\ TupleCount(ns2, left) + TupleCount(ns2, right) <= MaxTupleCount(ns2, left)
                    /\ CanTransfer(ns2, right, LeftOf(right), moved)
                    /\ right \in Live
<1>1. ns1 \in Table
  BY StateTypes, EraseIndexEntryType
<1>2. ns2 \in Table
  BY <1>1, EraseTupleType
<1>3. moved \subseteq Entry
  BY <1>2, FieldTypes
<1>4. ns3 \in Table
  BY <1>2, <1>3, TransferType
<1>5. ns4 \in Table
  BY <1>4, DisconnectFromSiblingsType, DeleteNodeType
<1>6. CASE ok
  <2>1. /\ LeafReturns("eraseUp", ns4, Merge(left))
        /\ m_lastLeafID' = IF m_lastLeafID = right THEN left ELSE m_lastLeafID
        /\ m_nodeIDAllocator' = AfterDeallocate(right)
        /\ UNCHANGED m_rootID
    BY <1>6 DEF MergeLeavesAndErase
  <2>2. m_nodeIDAllocator' \in IDSets /\ m_rootID' \in NodeIDs /\ m_lastLeafID' \in NodeIDs
    BY <2>1, StateTypes, AfterDeallocateType
  <2>3. TypedResult(Merge(left))
    BY ResultsAreTyped
  <2> QED
    BY <1>5, <2>1, <2>2, <2>3, LeafReturnsType
<1>7. CASE ~ok
  BY <1>7, AbortType DEF MergeLeavesAndErase
<1> QED
  BY <1>6, <1>7

LEMMA MergeWithLeftLeafType ==
  ASSUME TypeOK, MergeWithLeftLeaf
  PROVE  TypeOK'
<1>1. AtLeafToErase /\ HasMatch
  BY DEF MergeWithLeftLeaf, LeafMustMerge, LeafUnderflows
<1>2. EraseID \in NodeIDs /\ LeftOf(EraseID) \in NodeIDs
  BY <1>1, LeafToErase, UsefulSiblingIsNode DEF MergeWithLeftLeaf
<1> QED
  BY <1>1, <1>2, MergeLeavesAndEraseType DEF MergeWithLeftLeaf

LEMMA MergeWithRightLeafType ==
  ASSUME TypeOK, MergeWithRightLeaf
  PROVE  TypeOK'
<1>1. AtLeafToErase /\ HasMatch
  BY DEF MergeWithRightLeaf, LeafMustMerge, LeafUnderflows
<1>2. CASE IsUsefulSibling(m_nodes, EraseID, RightOf(EraseID))
  <2>1. EraseID \in NodeIDs /\ RightOf(EraseID) \in NodeIDs
    BY <1>1, <1>2, LeafToErase, UsefulSiblingIsNode
  <2> QED
    BY <1>1, <1>2, <2>1, MergeLeavesAndEraseType DEF MergeWithRightLeaf
<1>3. CASE ~IsUsefulSibling(m_nodes, EraseID, RightOf(EraseID))
  BY <1>3, AbortType DEF MergeWithRightLeaf
<1> QED
  BY <1>2, <1>3

LEMMA EraseReturnsWithoutMergeType ==
  ASSUME TypeOK, EraseReturnsWithoutMerge
  PROVE  TypeOK'
BY StateTypes, BranchReturnsSameRoot DEF EraseReturnsWithoutMerge, ReturningToBranch

\* the branch the code deals with when a merge is reported to it
LEMMA RelevantBranch ==
  ASSUME TypeOK, ReturningToBranch("eraseUp", "merge")
  PROVE  /\ pc \in {"insertUp", "eraseUp"} /\ path # <<>> /\ Frame \in NodeIDs
         /\ RelevantID \in NodeRefs
         /\ RelevantID # NoNode =>
              /\ RelevantID \in NodeIDs
              /\ LeftOf(RelevantID) \in NodeRefs /\ RightOf(RelevantID) \in NodeRefs
<1>1. pc \in {"insertUp", "eraseUp"} /\ path # <<>> /\ result.left \in NodeIDs
  BY DEF TypeOK, ReturningToBranch
<1>2. RelevantID \in NodeRefs
  BY <1>1, StateTypes, FieldTypes DEF RelevantID
<1>3. RelevantID # NoNode => RelevantID \in NodeIDs
  BY <1>2, NodeRefsAreIDsOrNone
<1> QED
  BY <1>1, <1>2, <1>3, FrameIsNode, StateTypes, FieldTypes DEF LeftOf, RightOf

LEMMA DecreaseHeightType ==
  ASSUME TypeOK, DecreaseHeight
  PROVE  TypeOK'
<1> DEFINE child == m_nodes[m_rootID].firstChildID
           ns1   == [m_nodes EXCEPT ![child].parentID = NoNode]
<1>1. ReturningToBranch("eraseUp", "merge")
  BY DEF DecreaseHeight
<1>2. DeleteNode(ns1, m_rootID) \in Table
  BY StateTypes, NodeRefsAreIDsOrNone, ParentUpdate, DeleteNodeType
<1>3. CASE child \in NodeIDs /\ m_rootID \in Live
  <2>1. /\ m_rootID' = child
        /\ BranchReturns(DeleteNode(ns1, m_rootID), NoResult)
        /\ m_nodeIDAllocator' = AfterDeallocate(m_rootID)
    BY <1>3 DEF DecreaseHeight
  <2>2. m_nodeIDAllocator' \in IDSets /\ m_rootID' \in NodeIDs
    BY <1>3, <2>1, StateTypes, AfterDeallocateType
  <2> QED
    BY <1>1, <1>2, <2>1, <2>2, RelevantBranch, ResultsAreTyped, BranchReturnsType
<1>4. CASE ~(child \in NodeIDs /\ m_rootID \in Live)
  BY <1>4, AbortType DEF DecreaseHeight
<1> QED
  BY <1>3, <1>4

LEMMA MergeNeedsNothingMoreType ==
  ASSUME TypeOK, MergeNeedsNothingMore
  PROVE  TypeOK'
BY StateTypes, RelevantBranch, BranchReturnsSameRoot, AbortType DEF MergeNeedsNothingMore

\* the branch that underflows, when it is not the root
LEMMA UnderflowingBranch ==
  ASSUME TypeOK, BranchUnderflows
  PROVE  /\ pc \in {"insertUp", "eraseUp"} /\ path # <<>> /\ Frame \in NodeIDs
         /\ RelevantID \in NodeIDs
         /\ LeftOf(RelevantID) \in NodeRefs /\ RightOf(RelevantID) \in NodeRefs
BY RelevantBranch DEF BranchUnderflows

LEMMA RedistributeFromLeftBranchType ==
  ASSUME TypeOK, RedistributeFromLeftBranch
  PROVE  TypeOK'
<1> DEFINE id   == RelevantID
           left == LeftOf(id)
           ns1  == PullDownIndexEntry(m_nodes, id, id, m_nodes[id].firstChildID)
           last == The(LastOf(ns1[left].page))
           ns2  == AddTuple(ns1, ns1[id].parentID, BranchTuple(last.key, id))
           ns3  == EraseTuple(ns2, left, last)
           ns4  == [ns3 EXCEPT ![id].firstChildID = last.child]
           ns5  == [ns4 EXCEPT ![last.child].parentID = id]
           ok   == /\ CanPullDown(m_nodes, id, id) /\ HasChildren(m_nodes, id)
                   /\ LastOf(ns1[left].page) # {} /\ last.child \in Live
                   /\ HasLessThanMaxTuples(ns1, ns1[id].parentID)
<1>1. BranchUnderflows /\ IsUsefulSibling(m_nodes, id, left)
  BY DEF RedistributeFromLeftBranch, CanLend
<1>2. /\ pc \in {"insertUp", "eraseUp"} /\ path # <<>>
      /\ id \in NodeIDs /\ left \in NodeIDs
  BY <1>1, UnderflowingBranch, UsefulSiblingIsNode
<1>3. CASE ok
  <2>1. m_nodes[id].firstChildID \in NodeRefs
    BY <1>2, StateTypes, FieldTypes
  <2>2. ns1 \in Table
    BY <1>2, <1>3, <2>1, StateTypes, PullDownIndexEntryType
  <2>3. last \in Entry
    <3>1. ns1[left].page \subseteq Entry
      BY <1>2, <2>2, FieldTypes
    <3>2. LastOf(ns1[left].page) # {}
      BY <1>3
    <3> QED
      BY <3>1, <3>2, EndsOfAPage
  <2>4. last.child \in NodeRefs /\ BranchTuple(last.key, id) \in Entry
    BY <1>2, <2>3, NodeRefsAreIDsOrNone DEF Entry, BranchTuple
  <2>5. ns2 \in Table
    BY <2>2, <2>4, AddTupleType
  <2>6. ns3 \in Table
    BY <2>5, EraseTupleType
  <2>7. ns4 \in Table
    BY <2>4, <2>6, FirstChildUpdate
  <2>8. ns5 \in Table
    BY <1>2, <2>7, NodeRefsAreIDsOrNone, ParentUpdate
  <2>9. BranchReturns(ns5, NoResult) /\ SameRootAndIDs
    BY <1>3 DEF RedistributeFromLeftBranch
  <2> QED
    BY <1>2, <2>8, <2>9, BranchReturnsSameRoot
<1>4. CASE ~ok
  BY <1>4, AbortType DEF RedistributeFromLeftBranch
<1> QED
  BY <1>3, <1>4

LEMMA RedistributeFromRightBranchType ==
  ASSUME TypeOK, RedistributeFromRightBranch
  PROVE  TypeOK'
<1> DEFINE id    == RelevantID
           right == RightOf(id)
           ns1   == PullDownIndexEntry(m_nodes, right, id, m_nodes[right].firstChildID)
           moved == The(LastOf(ns1[id].page)).child
           ns2   == [ns1 EXCEPT ![moved].parentID = id]
           first == The(FirstOf(ns2[right].page))
           ns3   == AddTuple(ns2, ns2[id].parentID, BranchTuple(first.key, right))
           ns4   == EraseTuple(ns3, right, first)
           ns5   == [ns4 EXCEPT ![right].firstChildID = first.child]
           ok    == /\ CanPullDown(m_nodes, right, id) /\ HasChildren(m_nodes, id)
                    /\ LastOf(ns1[id].page) # {} /\ moved \in Live
                    /\ FirstOf(ns2[right].page) # {} /\ first.child \in Live
                    /\ HasLessThanMaxTuples(ns2, ns2[id].parentID)
<1>1. BranchUnderflows /\ IsUsefulSibling(m_nodes, id, right)
  BY DEF RedistributeFromRightBranch, CanLend
<1>2. /\ pc \in {"insertUp", "eraseUp"} /\ path # <<>>
      /\ id \in NodeIDs /\ right \in NodeIDs
  BY <1>1, UnderflowingBranch, UsefulSiblingIsNode
<1>3. CASE ok
  <2>1. m_nodes[right].firstChildID \in NodeRefs
    BY <1>2, StateTypes, FieldTypes
  <2>2. ns1 \in Table
    BY <1>2, <1>3, <2>1, StateTypes, PullDownIndexEntryType
  <2>3. ns2 \in Table
    BY <1>2, <2>2, NodeRefsAreIDsOrNone, ParentUpdate
  <2>4. first \in Entry
    <3>1. ns2[right].page \subseteq Entry
      BY <1>2, <2>3, FieldTypes
    <3>2. FirstOf(ns2[right].page) # {}
      BY <1>3
    <3> QED
      BY <3>1, <3>2, EndsOfAPage
  <2>5. first.child \in NodeRefs /\ BranchTuple(first.key, right) \in Entry
    BY <1>2, <2>4, NodeRefsAreIDsOrNone DEF Entry, BranchTuple
  <2>6. ns3 \in Table
    BY <2>3, <2>5, AddTupleType
  <2>7. ns4 \in Table
    BY <2>6, EraseTupleType
  <2>8. ns5 \in Table
    BY <2>5, <2>7, FirstChildUpdate
  <2>9. BranchReturns(ns5, NoResult) /\ SameRootAndIDs
    BY <1>3 DEF RedistributeFromRightBranch
  <2> QED
    BY <1>2, <2>8, <2>9, BranchReturnsSameRoot
<1>4. CASE ~ok
  BY <1>4, AbortType DEF RedistributeFromRightBranch
<1> QED
  BY <1>3, <1>4

LEMMA MergeBranchesType ==
  ASSUME TypeOK, pc \in {"insertUp", "eraseUp"}, path # <<>>,
         NEW left \in NodeIDs, NEW right \in NodeIDs, MergeBranches(left, right)
  PROVE  TypeOK'
<1> DEFINE ns1    == PullDownIndexEntry(m_nodes, right, left, m_nodes[right].firstChildID)
           ns2    == UpdateParentPointers(ns1, right, left)
           moved  == ns2[right].page
           target == ns2[right].siblingLeftID
           ns3    == Transfer(ns2, right, target, moved)
           ns4    == DeleteNode(DisconnectFromSiblings(ns3, right), right)
           ok     == /\ right # NoNode /\ right \in Live
                     /\ CanPullDown(m_nodes, right, left)
                     /\ Children(ns1, right) \subseteq Live
                     /\ TupleCount(ns2, left) + TupleCount(ns2, right) <= MaxTupleCount(ns2, left)
                     /\ CanTransfer(ns2, right, target, moved)
<1>1. CASE ok
  <2>1. ns1 \in Table
    BY <1>1, StateTypes, FieldTypes, PullDownIndexEntryType
  <2>2. ns2 \in Table
    BY <2>1, UpdateParentPointersType
  <2>3. moved \subseteq Entry
    BY <2>2, FieldTypes
  <2>4. ns3 \in Table
    BY <2>2, <2>3, TransferType
  <2>5. ns4 \in Table
    BY <2>4, DisconnectFromSiblingsType, DeleteNodeType
  <2>6. /\ BranchReturns(ns4, Merge(left))
        /\ m_nodeIDAllocator' = AfterDeallocate(right)
        /\ UNCHANGED m_rootID
    BY <1>1 DEF MergeBranches
  <2>7. m_nodeIDAllocator' \in IDSets /\ m_rootID' \in NodeIDs
    BY <2>6, StateTypes, AfterDeallocateType
  <2>8. TypedResult(Merge(left))
    BY ResultsAreTyped
  <2> QED
    BY <2>5, <2>6, <2>7, <2>8, BranchReturnsType
<1>2. CASE ~ok
  BY <1>2, AbortType DEF MergeBranches
<1> QED
  BY <1>1, <1>2

LEMMA MergeWithLeftBranchType ==
  ASSUME TypeOK, MergeWithLeftBranch
  PROVE  TypeOK'
<1>1. BranchUnderflows
  BY DEF MergeWithLeftBranch, BranchMustMerge
<1>2. LeftOf(RelevantID) \in NodeIDs
  BY <1>1, UnderflowingBranch, UsefulSiblingIsNode DEF MergeWithLeftBranch
<1> QED
  BY <1>1, <1>2, UnderflowingBranch, MergeBranchesType DEF MergeWithLeftBranch

LEMMA MergeWithRightBranchType ==
  ASSUME TypeOK, MergeWithRightBranch
  PROVE  TypeOK'
<1>1. BranchUnderflows
  BY DEF MergeWithRightBranch, BranchMustMerge
<1>2. CASE IsUsefulSibling(m_nodes, RelevantID, RightOf(RelevantID))
  <2>1. RightOf(RelevantID) \in NodeIDs
    BY <1>1, <1>2, UnderflowingBranch, UsefulSiblingIsNode
  <2> QED
    BY <1>1, <1>2, <2>1, UnderflowingBranch, MergeBranchesType DEF MergeWithRightBranch
<1>3. CASE ~IsUsefulSibling(m_nodes, RelevantID, RightOf(RelevantID))
  BY <1>3, AbortType DEF MergeWithRightBranch
<1> QED
  BY <1>2, <1>3

LEMMA EraseReturnsType ==
  ASSUME TypeOK, EraseReturns
  PROVE  TypeOK'
<1>1. (m_tupleCount - 1) % CountModulus \in 0..(CountModulus - 1)
  BY BoundsAssumption DEF TypeOK
<1> QED
  BY <1>1, IdleType, AbortType DEF EraseReturns

-----------------------------------------------------------------------------
LEMMA InitType == Init => TypeOK
<1> SUFFICES ASSUME Init PROVE TypeOK
  OBVIOUS
<1>1. BlankNode \in Node
  BY NodeRefsAreIDsOrNone DEF BlankNode, Node
<1>2. 0 \in NodeIDs /\ 0 \in 0..(CountModulus - 1)
  BY BoundsAssumption DEF NodeIDs
<1>3. m_nodes \in [NodeIDs -> Node]
  BY <1>1 DEF Init
<1>4. m_nodeIDAllocator \in [free : SUBSET NodeIDs, used : SUBSET NodeIDs]
  BY <1>2 DEF Init
<1>5. key \in Nat \X Nat /\ path \in Seq(NodeIDs)
  BY DEF Init
<1>6. node \in NodeRefs /\ result \in Result /\ result.kind = "none"
  BY NodeRefsAreIDsOrNone DEF Init, NoResult, Result
<1> QED
  BY <1>2, <1>3, <1>4, <1>5, <1>6 DEF Init, TypeOK

LEMMA NextType == TypeOK /\ [Next]_vars => TypeOK'
<1> SUFFICES ASSUME TypeOK, [Next]_vars PROVE TypeOK'
  OBVIOUS
<1>1. CASE UNCHANGED vars
  BY <1>1 DEF TypeOK, vars, tree, call
<1>2. ASSUME NEW t \in Tuples, InsertCall(t) PROVE TypeOK'
  BY <1>2, InsertCallType
<1>3. ASSUME NEW k \in SearchKeys, EraseCall(k) PROVE TypeOK'
  BY <1>3, EraseCallType
<1>4. CASE InsertStep
  BY <1>4, InsertDescendType, InsertIntoLeafType, RedistributeLeafLeftAndInsertType,
     RedistributeLeafRightAndInsertType, SplitLeafAndInsertType,
     InsertReturnsWithoutSplitType, InsertIndexEntryType, SplitBranchAndInsertType,
     InsertReturnsType DEF InsertStep
<1>5. CASE EraseStep
  BY <1>5, EraseDescendType, EraseNothingType, EraseFromLeafType,
     RedistributeFromLeftLeafAndEraseType, RedistributeFromRightLeafAndEraseType,
     MergeWithLeftLeafType, MergeWithRightLeafType, EraseReturnsWithoutMergeType,
     DecreaseHeightType, MergeNeedsNothingMoreType, RedistributeFromLeftBranchType,
     RedistributeFromRightBranchType, MergeWithLeftBranchType, MergeWithRightBranchType,
     EraseReturnsType DEF EraseStep
<1> QED
  BY <1>1, <1>2, <1>3, <1>4, <1>5 DEF Next

(***************************************************************************)
(* Whatever calls are made, in whatever order, the tree stays well typed:  *)
(* no handler of insert_tuple or erase_tuple leaves a link, a root, a last *)
(* leaf, a stack frame, a Split or a Merge that is not about a node.       *)
(***************************************************************************)
THEOREM TypeCorrect == Spec => []TypeOK
BY InitType, NextType, PTL DEF Spec

-----------------------------------------------------------------------------
(***************************************************************************)
(* Node IDs.  A step of a call takes no ID, takes one, takes two (a root   *)
(* that splits) or gives one back that is in use; each of these keeps the  *)
(* allocator consistent, by the lemmas of IDAllocatorProofs about its two  *)
(* sets.                                                                   *)
(***************************************************************************)
IDProofs == INSTANCE IDAllocatorProofs WITH
              MaxIDs <- MaxNodes,
              m_free <- m_nodeIDAllocator.free,
              m_used <- m_nodeIDAllocator.used

IDsConsistent(ids) == IDProofs!Consistent(ids.free, ids.used)

TakesNone == UNCHANGED m_nodeIDAllocator
TakesOne ==
  /\ FreshID \in NodeIDs
  /\ m_nodeIDAllocator' = AfterAllocate(m_nodeIDAllocator)
TakesTwo ==
  /\ FreshID \in NodeIDs /\ FreshRootID \in NodeIDs
  /\ m_nodeIDAllocator' = AfterAllocate(AfterAllocate(m_nodeIDAllocator))
GivesBack == \E id \in Live : m_nodeIDAllocator' = AfterDeallocate(id)

-----------------------------------------------------------------------------
\* the allocator's operators, as BTree and as IDAllocatorProofs name them
LEMMA SameOperators ==
  ASSUME NEW free, NEW used, NEW n
  PROVE  /\ IDs!Allocated(free, used) = IDProofs!Allocated(free, used)
         /\ IDs!FreeAfterAllocate(free, used) = IDProofs!FreeAfterAllocate(free, used)
         /\ IDs!UsedAfterAllocate(free, used) = IDProofs!UsedAfterAllocate(free, used)
         /\ IDs!FreeAfterDeallocate(free, used, n) = IDProofs!FreeAfterDeallocate(free, used, n)
         /\ IDs!UsedAfterDeallocate(used, n) = IDProofs!UsedAfterDeallocate(used, n)
<1>1. IDs!Allocated(free, used) = IDProofs!Allocated(free, used)
  BY DEF IDs!Allocated, IDProofs!Allocated, IDs!Smallest, IDProofs!Smallest,
         IDs!Cardinality, IDProofs!Cardinality
<1>2. \A S : IDs!MaxUsed(S) = IDProofs!MaxUsed(S)
  BY DEF IDs!MaxUsed, IDProofs!MaxUsed, IDs!Largest, IDProofs!Largest
<1> QED
  BY <1>1, <1>2 DEF IDs!FreeAfterAllocate, IDProofs!FreeAfterAllocate,
       IDs!UsedAfterAllocate, IDProofs!UsedAfterAllocate,
       IDs!FreeAfterDeallocate, IDProofs!FreeAfterDeallocate,
       IDs!UsedAfterDeallocate, IDProofs!UsedAfterDeallocate

LEMMA AllocateKeepsIDsConsistent ==
  ASSUME NEW ids, IDsConsistent(ids), IDs!Allocated(ids.free, ids.used) \in NodeIDs
  PROVE  IDsConsistent(AfterAllocate(ids))
<1>1. IDProofs!Consistent(ids.free, ids.used)
  BY DEF IDsConsistent
<1>2. IDProofs!Allocated(ids.free, ids.used) < MaxNodes
  BY SameOperators, BoundsAssumption DEF NodeIDs
<1>3. IDProofs!Consistent(IDProofs!FreeAfterAllocate(ids.free, ids.used),
                          IDProofs!UsedAfterAllocate(ids.free, ids.used))
  BY <1>1, <1>2, BoundsAssumption, IDProofs!AllocateKeepsConsistent
<1> QED
  BY <1>3, SameOperators DEF IDsConsistent, AfterAllocate

LEMMA DeallocateKeepsIDsConsistent ==
  ASSUME IDsConsistent(m_nodeIDAllocator), NEW id \in Live
  PROVE  IDsConsistent(AfterDeallocate(id))
<1>1. IDProofs!Consistent(m_nodeIDAllocator.free, Live)
  BY DEF IDsConsistent, Live
<1>2. IDProofs!Consistent(IDProofs!FreeAfterDeallocate(m_nodeIDAllocator.free, Live, id),
                          IDProofs!UsedAfterDeallocate(Live, id))
  BY <1>1, BoundsAssumption, IDProofs!DeallocateKeepsConsistent
<1> QED
  BY <1>2, SameOperators DEF IDsConsistent, AfterDeallocate

\* a root that splits takes its second ID from what the first one left
LEMMA AllocatorStep ==
  ASSUME IDsConsistent(m_nodeIDAllocator),
         TakesNone \/ TakesOne \/ TakesTwo \/ GivesBack
  PROVE  IDsConsistent(m_nodeIDAllocator')
<1>1. CASE TakesNone
  BY <1>1 DEF TakesNone
<1>2. CASE TakesOne
  BY <1>2, AllocateKeepsIDsConsistent DEF TakesOne, FreshID
<1>3. CASE TakesTwo
  <2>1. IDsConsistent(AfterAllocate(m_nodeIDAllocator))
    BY <1>3, AllocateKeepsIDsConsistent DEF TakesTwo, FreshID
  <2> QED
    BY <1>3, <2>1, AllocateKeepsIDsConsistent DEF TakesTwo, FreshRootID
<1>4. CASE GivesBack
  BY <1>4, DeallocateKeepsIDsConsistent DEF GivesBack
<1> QED
  BY <1>1, <1>2, <1>3, <1>4

-----------------------------------------------------------------------------
\* what each action does to the allocator
LEMMA InsertStepIDs ==
  ASSUME InsertStep
  PROVE  TakesNone \/ TakesOne \/ TakesTwo
<1> USE DEF TakesNone, Abort, tree
<1>1. CASE InsertDescend
  BY <1>1 DEF InsertDescend, Descend
<1>2. CASE InsertIntoLeaf
  BY <1>2 DEF InsertIntoLeaf, SameRootAndIDs
<1>3. CASE RedistributeLeafLeftAndInsert
  BY <1>3 DEF RedistributeLeafLeftAndInsert, SameRootAndIDs
<1>4. CASE RedistributeLeafRightAndInsert
  BY <1>4 DEF RedistributeLeafRightAndInsert, SameRootAndIDs
<1>5. CASE SplitLeafAndInsert
  BY <1>5 DEF SplitLeafAndInsert, TakesOne, TakesTwo
<1>6. CASE InsertReturnsWithoutSplit
  BY <1>6 DEF InsertReturnsWithoutSplit, SameRootAndIDs
<1>7. CASE InsertIndexEntry
  BY <1>7 DEF InsertIndexEntry, SameRootAndIDs
<1>8. CASE SplitBranchAndInsert
  BY <1>8 DEF SplitBranchAndInsert, TakesOne, TakesTwo
<1>9. CASE InsertReturns
  BY <1>9 DEF InsertReturns, Idle
<1> QED
  BY <1>1, <1>2, <1>3, <1>4, <1>5, <1>6, <1>7, <1>8, <1>9 DEF InsertStep

LEMMA MergeLeavesIDs ==
  ASSUME NEW left, NEW right, MergeLeavesAndErase(left, right)
  PROVE  TakesNone \/ GivesBack
BY DEF MergeLeavesAndErase, TakesNone, GivesBack, Abort, tree

LEMMA MergeBranchesIDs ==
  ASSUME NEW left, NEW right, MergeBranches(left, right)
  PROVE  TakesNone \/ GivesBack
BY DEF MergeBranches, TakesNone, GivesBack, Abort, tree

LEMMA EraseStepIDs ==
  ASSUME EraseStep
  PROVE  TakesNone \/ GivesBack
<1> USE DEF TakesNone, Abort, tree
<1>1. CASE EraseDescend
  BY <1>1 DEF EraseDescend, Descend
<1>2. CASE EraseNothing
  BY <1>2 DEF EraseNothing, SameRootAndIDs
<1>3. CASE EraseFromLeaf
  BY <1>3 DEF EraseFromLeaf, SameRootAndIDs
<1>4. CASE RedistributeFromLeftLeafAndErase
  BY <1>4 DEF RedistributeFromLeftLeafAndErase, SameRootAndIDs
<1>5. CASE RedistributeFromRightLeafAndErase
  BY <1>5 DEF RedistributeFromRightLeafAndErase, SameRootAndIDs
<1>6. CASE MergeWithLeftLeaf
  BY <1>6, MergeLeavesIDs DEF MergeWithLeftLeaf
<1>7. CASE MergeWithRightLeaf
  BY <1>7, MergeLeavesIDs DEF MergeWithRightLeaf
<1>8. CASE EraseReturnsWithoutMerge
  BY <1>8 DEF EraseReturnsWithoutMerge, SameRootAndIDs
<1>9. CASE DecreaseHeight
  BY <1>9 DEF DecreaseHeight, GivesBack
<1>10. CASE MergeNeedsNothingMore
  BY <1>10 DEF MergeNeedsNothingMore, SameRootAndIDs
<1>11. CASE RedistributeFromLeftBranch
  BY <1>11 DEF RedistributeFromLeftBranch, SameRootAndIDs
<1>12. CASE RedistributeFromRightBranch
  BY <1>12 DEF RedistributeFromRightBranch, SameRootAndIDs
<1>13. CASE MergeWithLeftBranch
  BY <1>13, MergeBranchesIDs DEF MergeWithLeftBranch
<1>14. CASE MergeWithRightBranch
  BY <1>14, MergeBranchesIDs DEF MergeWithRightBranch
<1>15. CASE EraseReturns
  BY <1>15 DEF EraseReturns, Idle
<1> QED
  BY <1>1, <1>2, <1>3, <1>4, <1>5, <1>6, <1>7, <1>8, <1>9, <1>10, <1>11, <1>12,
     <1>13, <1>14, <1>15 DEF EraseStep

LEMMA NextIDs ==
  ASSUME [Next]_vars
  PROVE  TakesNone \/ TakesOne \/ TakesTwo \/ GivesBack
<1>1. CASE UNCHANGED vars
  BY <1>1 DEF vars, tree, TakesNone
<1>2. CASE \E t \in Tuples : InsertCall(t)
  BY <1>2 DEF InsertCall, Begin, TakesNone, tree
<1>3. CASE \E k \in SearchKeys : EraseCall(k)
  BY <1>3 DEF EraseCall, Begin, TakesNone, tree
<1>4. CASE InsertStep
  BY <1>4, InsertStepIDs
<1>5. CASE EraseStep
  BY <1>5, EraseStepIDs
<1> QED
  BY <1>1, <1>2, <1>3, <1>4, <1>5 DEF Next

LEMMA InitIDs == Init => IDsConsistent(m_nodeIDAllocator)
BY BoundsAssumption DEF Init, IDsConsistent, IDProofs!Consistent

\* a consistent allocator is what SplitsTakeUnusedNodes asks for
LEMMA ConsistentIDsAreUnused ==
  ASSUME IDsConsistent(m_nodeIDAllocator)
  PROVE  SplitsTakeUnusedNodes
<1>1. IDProofs!Consistent(m_nodeIDAllocator.free, m_nodeIDAllocator.used)
  BY DEF IDsConsistent
<1>2. LET n == IDProofs!Allocated(m_nodeIDAllocator.free, m_nodeIDAllocator.used)
      IN  n \notin m_nodeIDAllocator.used /\ \A k \in 0..(n - 1) : k \in m_nodeIDAllocator.used
  BY <1>1, BoundsAssumption, IDProofs!AllocatedIsFresh
<1>3. IDs!NextIDIsSmallestUnused
  BY <1>2, SameOperators DEF IDs!NextIDIsSmallestUnused
<1>4. IDs!FreeIsTheGaps
  BY <1>1 DEF IDs!FreeIsTheGaps, IDProofs!Consistent
<1> QED
  BY <1>3, <1>4 DEF SplitsTakeUnusedNodes

(***************************************************************************)
(* Whatever is inserted and erased, the node a split takes is never one of *)
(* the tree's, and it is the smallest that is not: also when a root split  *)
(* takes two IDs in one handler, and after merges have given IDs back in   *)
(* any order.                                                              *)
(***************************************************************************)
THEOREM SplitsNeverTakeNodesInUse == Spec => []SplitsTakeUnusedNodes
<1>1. Init => IDsConsistent(m_nodeIDAllocator)
  BY InitIDs
<1>2. IDsConsistent(m_nodeIDAllocator) /\ [Next]_vars => IDsConsistent(m_nodeIDAllocator)'
  BY NextIDs, AllocatorStep
<1>3. IDsConsistent(m_nodeIDAllocator) => SplitsTakeUnusedNodes
  BY ConsistentIDsAreUnused
<1> QED
  BY <1>1, <1>2, <1>3, PTL DEF Spec

-----------------------------------------------------------------------------
(***************************************************************************)
(* Pages.  A page that has no key twice is ordered by its keys: Lowest and *)
(* Highest, which count the entries before and after one, cut it in two.   *)
(***************************************************************************)
\* the n first elements of S in the order R
FirstRanked(S, R, n) == {x \in S : Cardinality({y \in S : <<y, x>> \in R}) < n}

\* in any strict total order of a finite set the n first elements are n, and each is
\* before the others
LEMMA RankedElements ==
  ASSUME NEW S, IsFiniteSet(S), NEW R,
         \A x \in S : <<x, x>> \notin R,
         \A x, y \in S : x # y => <<x, y>> \in R \/ <<y, x>> \in R,
         \A x, y, z \in S : <<x, y>> \in R /\ <<y, z>> \in R => <<x, z>> \in R,
         NEW n \in Nat, n <= Cardinality(S)
  PROVE  /\ Cardinality(FirstRanked(S, R, n)) = n
         /\ \A x \in FirstRanked(S, R, n), y \in S \ FirstRanked(S, R, n) : <<x, y>> \in R
<1> DEFINE L == FirstRanked(S, R, n)
           B(x) == {y \in S : <<y, x>> \in R}
           N == Cardinality(S)
           r == [x \in S |-> Cardinality(B(x))]
<1>1. N \in Nat
  BY FS_CardinalityType
<1>2. ASSUME NEW x \in S PROVE IsFiniteSet(B(x)) /\ r[x] \in Nat /\ r[x] < N
  <2>1. B(x) \in SUBSET S /\ x \in S \ B(x) /\ r[x] = Cardinality(B(x))
    OBVIOUS
  <2> HIDE DEF B, r
  <2>2. /\ IsFiniteSet(B(x)) /\ Cardinality(B(x)) <= Cardinality(S)
        /\ Cardinality(S) = Cardinality(B(x)) => S = B(x)
    BY <2>1, FS_Subset
  <2>3. Cardinality(B(x)) \in Nat
    BY <2>2, FS_CardinalityType
  <2> QED
    BY <1>1, <2>1, <2>2, <2>3
<1>3. ASSUME NEW x \in S, NEW y \in S, <<x, y>> \in R PROVE r[x] < r[y]
  <2>1. /\ B(x) \in SUBSET B(y) /\ x \in B(y) /\ x \notin B(x)
    BY <1>3
  <2>3. r[x] = Cardinality(B(x)) /\ r[y] = Cardinality(B(y))
    OBVIOUS
  <2> HIDE DEF B, r
  <2>2. /\ Cardinality(B(x)) <= Cardinality(B(y))
        /\ Cardinality(B(y)) = Cardinality(B(x)) => B(y) = B(x)
    BY <1>2, <2>1, FS_Subset
  <2> QED
    BY <1>2, <2>1, <2>2, <2>3
<1>4. \A x, y \in S : r[x] = r[y] => x = y
  <2> SUFFICES ASSUME NEW x \in S, NEW y \in S, x # y PROVE r[x] # r[y]
    OBVIOUS
  <2> HIDE DEF r
  <2>1. r[x] \in Nat /\ r[y] \in Nat
    BY <1>2
  <2>2. r[x] < r[y] \/ r[y] < r[x]
    BY <1>3
  <2> QED
    BY <2>1, <2>2
<1>5. \A x \in S : r[x] \in 0..(N - 1)
  <2> HIDE DEF r, B, N
  <2> QED
    BY <1>1, <1>2
<1>6. r \in Injection(S, 0..(N - 1))
  <2>1. r \in [S -> 0..(N - 1)]
    BY <1>5
  <2> HIDE DEF r
  <2> QED
    BY <1>4, <2>1 DEF Injection, IsInjective
<1>7. \A m \in Nat : IsFiniteSet(0..(m - 1)) /\ Cardinality(0..(m - 1)) = m
  BY FS_Interval
<1>8. \A k \in 0..(N - 1) : \E x \in S : r[x] = k
  <2> HIDE DEF r, N
  <2>1. IsFiniteSet(0..(N - 1)) /\ Cardinality(0..(N - 1)) = N
    BY <1>1, <1>7
  <2>2. r \in Surjection(S, 0..(N - 1))
    BY <1>6, <2>1, FS_Injection DEF N
  <2> QED
    BY <2>2 DEF Surjection
<1>9. L = {x \in S : r[x] < n}
  BY DEF FirstRanked
<1> HIDE DEF r, B, L
<1>10. Cardinality(L) = n
  <2> DEFINE g == [x \in L |-> r[x]]
  <2>1. IsFiniteSet(L)
    BY <1>9, FS_Subset
  <2>2. g \in [L -> 0..(n - 1)]
    BY <1>2, <1>9
  <2>3. \A x, y \in L : g[x] = g[y] => x = y
    BY <1>4, <1>9
  <2>4. \A k \in 0..(n - 1) : \E x \in L : g[x] = k
    <3> SUFFICES ASSUME NEW k \in 0..(n - 1) PROVE \E x \in L : g[x] = k
      OBVIOUS
    <3>1. PICK x \in S : r[x] = k
      BY <1>1, <1>8
    <3>2. x \in L
      BY <1>9, <3>1
    <3> QED
      BY <3>1, <3>2
  <2>5. Cardinality(0..(n - 1)) = n
    BY <1>7
  <2> HIDE DEF g
  <2>6. Cardinality(0..(n - 1)) = Cardinality(L)
    <3> DEFINE T == 0..(n - 1)
    <3>1. g \in [L -> T] /\ \A k \in T : \E x \in L : g[x] = k
      BY <2>2, <2>4
    <3> HIDE DEF T
    <3>2. Cardinality(T) = Cardinality(L)
      BY <2>1, <2>3, <3>1, SameNumber
    <3> QED
      BY <3>2 DEF T
  <2> QED
    BY <2>5, <2>6
<1>11. ASSUME NEW x \in L, NEW y \in S \ L PROVE <<x, y>> \in R
  <2> x \in S /\ y \in S /\ x # y /\ r[x] < n /\ ~(r[y] < n)
    BY <1>9
  <2>1. ~(r[y] < r[x])
    BY <1>2
  <2> QED
    BY <1>3, <2>1
<1> QED
  BY <1>10, <1>11 DEF L

\* no two entries of a page have the same key
Distinct(S) == \A e, f \in S : e.key = f.key => e = f

\* the pages of a tree: finitely many entries, no key twice
PageOf(S) == S \in SUBSET Entry /\ IsFiniteSet(S) /\ Distinct(S)

\* on such a page the comparator orders the entries by their keys alone
LEMMA EntriesAreOrdered ==
  ASSUME NEW S, PageOf(S)
  PROVE  /\ \A e, f \in S : Before(e, f) <=> e.key < f.key
         /\ \A e \in S : e.key \in Nat
BY DEF PageOf, Distinct, Entry, Before, NodeRefs, NodeIDs, NoNode

\* the n first entries of a page are n, and smaller than the others
LEMMA LowestOfPage ==
  ASSUME NEW S, PageOf(S), NEW n \in Nat, n <= Cardinality(S)
  PROVE  /\ Cardinality(Lowest(S, n)) = n
         /\ \A e \in Lowest(S, n), f \in S \ Lowest(S, n) : e.key < f.key
<1> DEFINE R == {x \in S \X S : x[1].key < x[2].key}
<1>1. \A e, f \in S : <<e, f>> \in R <=> e.key < f.key
  OBVIOUS
<1>2. \A e \in S : e.key \in Nat
  BY EntriesAreOrdered
<1>3. Lowest(S, n) = FirstRanked(S, R, n)
  <2>1. ASSUME NEW x \in S PROVE {y \in S : <<y, x>> \in R} = {y \in S : Before(y, x)}
    <3> HIDE DEF R
    <3> QED
      BY <1>1, EntriesAreOrdered
  <2> HIDE DEF R
  <2> QED
    BY <2>1 DEF Lowest, FirstRanked
<1> HIDE DEF R
<1>4. /\ \A x \in S : <<x, x>> \notin R
      /\ \A x, y \in S : x # y => <<x, y>> \in R \/ <<y, x>> \in R
      /\ \A x, y, z \in S : <<x, y>> \in R /\ <<y, z>> \in R => <<x, z>> \in R
  BY <1>1, <1>2 DEF PageOf, Distinct
<1>5. /\ Cardinality(Lowest(S, n)) = n
      /\ \A x \in Lowest(S, n), y \in S \ Lowest(S, n) : <<x, y>> \in R
  <2>1. IsFiniteSet(S)
    BY DEF PageOf
  <2> QED
    BY <1>3, <1>4, <2>1, RankedElements
<1> QED
  BY <1>1, <1>5 DEF Lowest

\* the n last entries of a page are n, and larger than the others
LEMMA HighestOfPage ==
  ASSUME NEW S, PageOf(S), NEW n \in Nat, n <= Cardinality(S)
  PROVE  /\ Cardinality(Highest(S, n)) = n
         /\ \A e \in Highest(S, n), f \in S \ Highest(S, n) : f.key < e.key
<1> DEFINE R == {x \in S \X S : x[2].key < x[1].key}
<1>1. \A e, f \in S : <<e, f>> \in R <=> f.key < e.key
  OBVIOUS
<1>2. \A e \in S : e.key \in Nat
  BY EntriesAreOrdered
<1>3. Highest(S, n) = FirstRanked(S, R, n)
  <2>1. ASSUME NEW x \in S PROVE {y \in S : <<y, x>> \in R} = {y \in S : Before(x, y)}
    <3> HIDE DEF R
    <3> QED
      BY <1>1, EntriesAreOrdered
  <2> HIDE DEF R
  <2> QED
    BY <2>1 DEF Highest, FirstRanked
<1> HIDE DEF R
<1>4. /\ \A x \in S : <<x, x>> \notin R
      /\ \A x, y \in S : x # y => <<x, y>> \in R \/ <<y, x>> \in R
      /\ \A x, y, z \in S : <<x, y>> \in R /\ <<y, z>> \in R => <<x, z>> \in R
  BY <1>1, <1>2 DEF PageOf, Distinct
<1>5. /\ Cardinality(Highest(S, n)) = n
      /\ \A x \in Highest(S, n), y \in S \ Highest(S, n) : <<x, y>> \in R
  <2>1. IsFiniteSet(S)
    BY DEF PageOf
  <2> QED
    BY <1>3, <1>4, <2>1, RankedElements
<1> QED
  BY <1>1, <1>5 DEF Highest

\* the first entry of a page, if it has one, is the only one FirstOf returns
LEMMA SmallestOfPage ==
  ASSUME NEW S, PageOf(S), S # {}
  PROVE  \E e \in S : FirstOf(S) = {e} /\ \A f \in S : f # e => e.key < f.key
<1>1. Cardinality(S) \in Nat /\ 1 <= Cardinality(S)
  BY FS_CardinalityType, FS_EmptySet DEF PageOf
<1>2. /\ Cardinality(Lowest(S, 1)) = 1
      /\ \A e \in Lowest(S, 1), f \in S \ Lowest(S, 1) : e.key < f.key
  BY <1>1, LowestOfPage
<1>3. IsFiniteSet(Lowest(S, 1)) /\ Lowest(S, 1) \subseteq S
  BY FS_Subset DEF PageOf, Lowest
<1>4. PICK e : Lowest(S, 1) = {e}
  BY <1>2, <1>3, FS_Singleton
<1>5. e \in S /\ \A f \in S : f # e => e.key < f.key
  BY <1>2, <1>3, <1>4
<1>6. FirstOf(S) = {e}
  BY <1>5, EntriesAreOrdered DEF FirstOf
<1> QED
  BY <1>5, <1>6

\* as the last entry is the only one LastOf returns
LEMMA LargestOfPage ==
  ASSUME NEW S, PageOf(S), S # {}
  PROVE  \E e \in S : LastOf(S) = {e} /\ \A f \in S : f # e => f.key < e.key
<1>1. Cardinality(S) \in Nat /\ 1 <= Cardinality(S)
  BY FS_CardinalityType, FS_EmptySet DEF PageOf
<1>2. /\ Cardinality(Highest(S, 1)) = 1
      /\ \A e \in Highest(S, 1), f \in S \ Highest(S, 1) : f.key < e.key
  BY <1>1, HighestOfPage
<1>3. IsFiniteSet(Highest(S, 1)) /\ Highest(S, 1) \subseteq S
  BY FS_Subset DEF PageOf, Highest
<1>4. PICK e : Highest(S, 1) = {e}
  BY <1>2, <1>3, FS_Singleton
<1>5. e \in S /\ \A f \in S : f # e => f.key < e.key
  BY <1>2, <1>3, <1>4
<1>6. LastOf(S) = {e}
  BY <1>5, EntriesAreOrdered DEF LastOf
<1> QED
  BY <1>5, <1>6

-----------------------------------------------------------------------------
\* a reference to a node is not the one to none
LEMMA NodesAreNotNone == \A x \in NodeIDs : x # NoNode
BY DEF NodeIDs, NoNode

-----------------------------------------------------------------------------
(***************************************************************************)
(* What the invariant says of a node, its page and its neighbours.         *)
(***************************************************************************)
\* entries have a key and a child, which is none in a leaf
LEMMA PageTypes ==
  ASSUME NEW ns \in Table, NEW x \in NodeIDs
  PROVE  /\ ns[x].page \in SUBSET Entry
         /\ \A e \in ns[x].page : e.key \in Nat /\ e = BranchTuple(e.key, e.child)
                                  /\ (e.child = NoNode => e = LeafTuple(e.key))
BY DEF Table, Node, Entry, BranchTuple, LeafTuple

\* every page in use has each key once
LEMMA PagesAreOrdered ==
  ASSUME NEW ns, NEW live, NEW root, NEW low, NEW level, NEW orphan,
         Shape(ns, live, root, low, level, orphan), NEW x \in live
  PROVE  PageOf(ns[x].page)
<1>1. ns[x].page \in SUBSET Entry /\ IsFiniteSet(ns[x].page) /\ x \in NodeIDs
  BY PageTypes DEF Shape, Sized
<1>2. ASSUME NEW e \in ns[x].page, NEW f \in ns[x].page, e.key = f.key PROVE e = f
  <2>1. e = BranchTuple(e.key, e.child) /\ f = BranchTuple(f.key, f.child)
    BY <1>1, PageTypes DEF Shape
  <2>2. CASE level[x] = 0
    BY <1>2, <2>1, <2>2 DEF Shape, KeysInRange
  <2>3. CASE level[x] # 0
    <3>1. level[x] \in Nat /\ level[x] > 0
      BY <1>1, <2>3 DEF Shape, Ghosts
    <3>2. /\ e.child \in live /\ f.child \in live /\ low[e.child] = low[f.child]
          /\ level[x] = level[e.child] + 1 /\ level[x] = level[f.child] + 1
      BY <1>2, <3>1 DEF Shape, ChildrenKnow
    <3>3. level[e.child] \in Nat /\ level[f.child] \in Nat
      BY <3>2 DEF Shape, Ghosts
    <3>4. level[e.child] = level[f.child]
      BY <3>2, <3>3
    <3>5. e.child = f.child
      BY <3>2, <3>4 DEF Shape, LowsDiffer
    <3> QED
      BY <1>2, <2>1, <3>5
  <2> QED
    BY <2>2, <2>3
<1> QED
  BY <1>1, <1>2 DEF PageOf, Distinct

\* every node but the root has an entry
LEMMA PagesAreNotEmpty ==
  ASSUME NEW ns, NEW live, NEW root, NEW low, NEW level, NEW orphan,
         Shape(ns, live, root, low, level, orphan), NEW x \in live,
         x # root \/ HasChildren(ns, x)
  PROVE  TupleCount(ns, x) \in Nat /\ TupleCount(ns, x) >= 1 /\ ns[x].page # {}
<1>1. IsFiniteSet(ns[x].page) /\ TupleCount(ns, x) \in Nat
  BY FS_CardinalityType DEF Shape, Sized, TupleCount
<1>2. MaxTupleCount(ns, x) \in Nat /\ MaxTupleCount(ns, x) \div 2 >= 1
  BY PageSizeAssumption DEF MaxTupleCount
<1>3. TupleCount(ns, x) >= 1
  BY <1>1, <1>2 DEF Shape, Sized
<1> QED
  BY <1>1, <1>3, FS_EmptySet DEF TupleCount

\* a left sibling is the node just before
LEMMA LeftSibling ==
  ASSUME NEW ns, NEW live, NEW root, NEW low, NEW level, NEW orphan,
         Shape(ns, live, root, low, level, orphan), NEW x \in live,
         NEW l, l = ns[x].siblingLeftID, l # NoNode
  PROVE  /\ l \in live /\ ns[l].siblingRightID = x /\ l # x
         /\ level[l] = level[x] /\ low[l] < low[x] /\ low[x] # -1
         /\ \A z \in live : level[z] = level[x] => low[z] <= low[l] \/ low[x] <= low[z]
<1>1. l \in live /\ ns[l].siblingRightID = x /\ low[x] # -1
  BY DEF Shape, LeftLinks
<1>2. x # NoNode /\ low[x] \in Int
  BY DEF Shape, NodeIDs, NoNode, Ghosts
<1>3. /\ level[l] = level[x] /\ low[l] < low[x]
      /\ \A z \in live : level[z] = level[x] => low[z] <= low[l] \/ low[x] <= low[z]
  BY <1>1, <1>2 DEF Shape, RightLinks
<1> QED
  BY <1>1, <1>2, <1>3

\* x is a child of the branch its parent pointer names, at its place there
LEMMA PlaceInParent ==
  ASSUME NEW ns, NEW live, NEW root, NEW low, NEW level, NEW orphan,
         Shape(ns, live, root, low, level, orphan), NEW x \in live, x \notin {root, orphan},
         NEW p, p = ns[x].parentID
  PROVE  /\ p \in live /\ p # NoNode /\ level[p] = level[x] + 1 /\ level[p] > 0 /\ p # x
         /\ low[p] <= low[x]
         /\ ns[p].firstChildID # NoNode
         /\ ns[p].firstChildID = x <=> low[p] = low[x]
         /\ ns[p].firstChildID # x => BranchTuple(low[x], x) \in ns[p].page
<1>1. p \in live /\ level[p] = level[x] + 1 /\ (ns[p].firstChildID = x \/ BranchTuple(low[x], x) \in ns[p].page)
  BY DEF Shape, ParentsKnow
<1>2. p \in NodeIDs /\ level[x] \in Nat /\ level[p] \in Nat /\ low[x] \in Int /\ low[p] \in Int
  BY <1>1 DEF Shape, Ghosts
<1>3. p # NoNode /\ level[p] > 0 /\ p # x
  BY <1>1, <1>2 DEF NodeIDs, NoNode
<1>4. ns[p].firstChildID # NoNode
  BY <1>1, <1>2, <1>3 DEF Shape, RootOnTop
<1>5. low[ns[p].firstChildID] = low[p]
  BY <1>1, <1>4 DEF Shape, ChildrenKnow
<1>6. BranchTuple(low[x], x) \in ns[p].page => low[p] < low[x]
  BY <1>1, <1>3 DEF Shape, KeysInRange, BranchTuple
<1> QED
  BY <1>1, <1>2, <1>3, <1>4, <1>5, <1>6

\* find_index_entry finds the entry of a node that is not a first child, and only that
LEMMA IndexEntryIsFound ==
  ASSUME NEW ns, NEW live, NEW root, NEW low, NEW level, NEW orphan,
         Shape(ns, live, root, low, level, orphan), NEW x \in live, x \notin {root, orphan},
         ns[ns[x].parentID].firstChildID # x
  PROVE  FindIndexEntry(ns, x) = {BranchTuple(low[x], x)}
<1> DEFINE p == ns[x].parentID
           own == BranchTuple(low[x], x)
<1>1. p \in live /\ p # NoNode /\ own \in ns[p].page /\ level[p] = level[x] + 1 /\ level[p] > 0
  BY PlaceInParent
<1>2. PageOf(ns[x].page) /\ ns[x].page # {}
  BY PagesAreOrdered, PagesAreNotEmpty
<1>3. PICK f \in ns[x].page : FirstOf(ns[x].page) = {f}
  BY <1>2, SmallestOfPage
<1>4. level[x] \in Nat /\ low[x] \in Int /\ f.key \in Nat
  BY PageTypes DEF Shape, Ghosts
<1>5. low[x] <= f.key
  BY <1>3, <1>4 DEF Shape, KeysInRange
<1> DEFINE below == {e \in ns[p].page : e.key <= f.key}
<1>6. own \in below
  BY <1>1, <1>5 DEF BranchTuple
<1>7. ASSUME NEW e \in below, e # own PROVE e.key < low[x]
  <2>1. /\ e.child \in live /\ e.key = low[e.child] /\ level[p] = level[e.child] + 1
        /\ e.key \in Nat /\ e = BranchTuple(e.key, e.child)
    BY <1>1, PageTypes DEF Shape, ChildrenKnow
  <2>2. level[e.child] = level[x] /\ e.child # x
    BY <1>1, <1>4, <1>7, <2>1 DEF Shape, Ghosts
  <2>3. ~(low[x] < e.key)
    BY <1>3, <1>4, <2>1, <2>2 DEF Shape, KeysInRange, InRangeOf
  <2>4. low[x] # low[e.child]
    BY <2>1, <2>2 DEF Shape, LowsDiffer
  <2> QED
    BY <1>4, <2>1, <2>3, <2>4
<1>8. LastOf(below) = {own}
  <2>1. \A e \in below : e.key \in Nat
    BY <1>1, PageTypes DEF Shape
  <2>2. own.key = low[x] /\ ~Before(own, own)
    BY <1>4 DEF BranchTuple, Before, NodeIDs, Shape
  <2> HIDE DEF below, own
  <2> QED
    BY <1>4, <1>6, <1>7, <2>1, <2>2 DEF LastOf, Before
<1>9. FindIndexEntry(ns, x) = LastOf({e \in ns[p].page : \E g \in FirstOf(ns[x].page) : e.key <= g.key})
  BY <1>1, <1>2 DEF FindIndexEntry
<1>10. {e \in ns[p].page : \E g \in FirstOf(ns[x].page) : e.key <= g.key} = below
  BY <1>3
<1> QED
  BY <1>8, <1>9, <1>10

-----------------------------------------------------------------------------
(***************************************************************************)
(* The operations on the tree, each as a relation between two tables of    *)
(* nodes, keep its shape: a boundary between two leaves moves, a tuple or  *)
(* an index entry is added, the tree gets a new root, a node is divided.   *)
(***************************************************************************)
\* the links between the nodes are the same in both tables
SameLinks(ns, ns2) ==
  \A x \in NodeIDs :
    /\ ns2[x].firstChildID = ns[x].firstChildID /\ ns2[x].parentID = ns[x].parentID
    /\ ns2[x].siblingLeftID = ns[x].siblingLeftID
    /\ ns2[x].siblingRightID = ns[x].siblingRightID

\* and so is what kind of node each is, and how much its page can hold
LEMMA SameLinksKeepSizes ==
  ASSUME NEW ns, NEW ns2, SameLinks(ns, ns2), NEW x \in NodeIDs
  PROVE  HasChildren(ns2, x) = HasChildren(ns, x) /\ MaxTupleCount(ns2, x) = MaxTupleCount(ns, x)
BY DEF SameLinks, HasChildren, MaxTupleCount

\* a page that is as full as that of any node but the root has to be
HalfFull(ns, x, S) ==
  /\ IsFiniteSet(S) /\ Cardinality(S) <= MaxTupleCount(ns, x)
  /\ Cardinality(S) >= MaxTupleCount(ns, x) \div 2

\* the tuples of two neighbours are dealt anew: those below m to the left one
BoundaryMoves(ns, ns2, live, low, level, l, r, m, L, R) ==
  /\ l \in live /\ r = ns[l].siblingRightID /\ r # NoNode /\ level[l] = 0
  /\ ns[r].parentID = ns[l].parentID
  /\ m \in Nat /\ low[l] < m
  /\ ns2 \in Table /\ SameLinks(ns, ns2)
  /\ \A x \in NodeIDs : ns2[x].page =
       IF x = l THEN L ELSE IF x = r THEN R
       ELSE IF x = ns[r].parentID
         THEN (ns[x].page \ {BranchTuple(low[r], r)}) \cup {BranchTuple(m, r)}
       ELSE ns[x].page
  /\ \A e \in L : e.key \in Nat /\ e.child = NoNode /\ low[l] <= e.key /\ e.key < m
  /\ \A e \in R : e.key \in Nat /\ e.child = NoNode /\ m <= e.key /\ InRangeOf(live, low, level, r, e.key)
  /\ LeafTuple(m) \in R /\ (low[l] # -1 => LeafTuple(low[l]) \in L)
  /\ HalfFull(ns, l, L) /\ HalfFull(ns, r, R)

\* dealing the tuples of two neighbouring leaves anew moves the boundary between their
\* ranges, and with it the index entry of the right one: the tree stays a tree, whose right
\* leaf has a new low key
LEMMA MovedBoundary ==
  ASSUME NEW ns, NEW ns2, NEW live, NEW root, NEW low, NEW level,
         Shape(ns, live, root, low, level, NoNode),
         NEW l, NEW r, NEW m, NEW L, NEW R, BoundaryMoves(ns, ns2, live, low, level, l, r, m, L, R),
         root # l
  PROVE  Shape(ns2, live, root, [low EXCEPT ![r] = m], level, NoNode)
<1> DEFINE p == ns[r].parentID
           low2 == [low EXCEPT ![r] = m]
<1>1. /\ l \in live /\ l \in NodeIDs /\ r \in live /\ r \in NodeIDs /\ l # r /\ level[l] = 0 /\ level[r] = 0
      /\ low[l] < low[r] /\ ns[r].siblingLeftID = l
      /\ \A z \in live : level[z] = 0 => low[z] <= low[l] \/ low[r] <= low[z]
  <2>1. l \in live /\ l \in NodeIDs /\ level[l] = 0 /\ low[l] \in Int
    BY DEF BoundaryMoves, Shape, Ghosts
  <2> QED
    BY <2>1 DEF BoundaryMoves, Shape, RightLinks
<1>2. low \in [NodeIDs -> Int] /\ level \in [NodeIDs -> Nat] /\ live \subseteq NodeIDs
  BY DEF Shape, Ghosts
<1>3. /\ m \in Nat /\ low[l] < m /\ low2 \in [NodeIDs -> Int]
      /\ low2[r] = m /\ \A x \in NodeIDs : x # r => low2[x] = low[x]
  BY <1>1, <1>2 DEF BoundaryMoves
<1>4. InRangeOf(live, low, level, r, m)
  BY DEF BoundaryMoves, LeafTuple
<1> HIDE DEF low2
<1>5. l # root /\ r # root /\ l # NoNode /\ r # NoNode
  <2>1. level[r] < level[root] \/ r = root
    BY <1>1 DEF Shape, RootOnTop, NodeIDs, NoNode
  <2>2. level[l] < level[root]
    BY <1>1 DEF Shape, RootOnTop, NodeIDs, NoNode
  <2> QED
    BY <1>1, <2>1, <2>2 DEF NodeIDs, NoNode
<1>6. /\ p \in live /\ p \in NodeIDs /\ level[p] = 1 /\ p # l /\ p # r /\ p # NoNode
      /\ ns[p].firstChildID # NoNode /\ low[p] <= low[l] /\ low[p] < low[r]
      /\ ns[p].firstChildID # r /\ BranchTuple(low[r], r) \in ns[p].page
  <2>1. p = ns[l].parentID
    BY DEF BoundaryMoves
  <2>2. p \in live /\ level[p] = level[l] + 1 /\ low[p] <= low[l] /\ p # l
        /\ ns[p].firstChildID # NoNode /\ p # NoNode
    BY <1>1, <1>5, <2>1, PlaceInParent
  <2>3. low[p] \in Int /\ low[l] \in Int /\ low[r] \in Int
    BY <1>1, <1>2, <2>2
  <2>4. /\ p # r /\ (ns[p].firstChildID = r <=> low[p] = low[r])
        /\ (ns[p].firstChildID # r => BranchTuple(low[r], r) \in ns[p].page)
    BY <1>1, <1>5, PlaceInParent
  <2> QED
    BY <1>1, <1>2, <2>2, <2>3, <2>4
\* the order of the nodes is as it was
<1>7. \A z \in live : level[z] = 0 /\ z # r => low[z] # m /\ (low[z] < low[r] <=> low[z] < m)
                                          /\ (low[r] < low[z] <=> m < low[z])
  <2> SUFFICES ASSUME NEW z \in live, level[z] = 0, z # r
               PROVE  low[z] # m /\ (low[z] < low[r] <=> low[z] < m) /\ (low[r] < low[z] <=> m < low[z])
    OBVIOUS
  <2>1. low[z] \in Int /\ low[r] \in Int /\ low[l] \in Int
    BY <1>1, <1>2
  <2>2. low[z] <= low[l] \/ low[r] <= low[z]
    BY <1>1
  <2>3. low[z] # low[r]
    BY <1>1 DEF Shape, LowsDiffer
  <2>4. low[r] < low[z] => m < low[z]
    BY <1>1, <1>4 DEF InRangeOf
  <2> QED
    BY <1>1, <1>3, <2>1, <2>2, <2>3, <2>4
<1>8. /\ LowsDiffer(live, low2, level)
  BY <1>1, <1>2, <1>3, <1>7 DEF Shape, LowsDiffer
\* as is the range of a node that is not one of the two
<1>9. \A x \in live, k \in Int : x \notin {l, r} /\ InRangeOf(live, low, level, x, k)
        => InRangeOf(live, low2, level, x, k)
  <2> SUFFICES ASSUME NEW x \in live, NEW k \in Int, x \notin {l, r}, InRangeOf(live, low, level, x, k),
                      NEW z \in live, level[z] = level[x], low2[x] < low2[z]
               PROVE  k < low2[z]
    BY DEF InRangeOf
  <2>1. low2[x] = low[x] /\ low[x] \in Int /\ low[z] \in Int
    BY <1>2, <1>3
  <2>2. CASE z # r
    BY <1>2, <1>3, <2>1, <2>2 DEF InRangeOf
  <2>3. CASE z = r
    <3>1. low[x] < low[r] /\ level[x] = 0
      BY <1>1, <1>3, <1>7, <2>1, <2>3
    <3>2. low[x] <= low[l] /\ low[x] # low[l]
      BY <1>1, <1>2, <3>1 DEF Shape, LowsDiffer
    <3>3. low[x] < low[l]
      BY <1>1, <1>2, <3>2
    <3>4. k < low[l]
      BY <1>1, <3>1, <3>3 DEF InRangeOf
    <3> QED
      BY <1>1, <1>2, <1>3, <2>3, <3>4
  <2> QED
    BY <2>2, <2>3
<1>10. /\ ns2[l].page = L /\ ns2[r].page = R
       /\ ns2[p].page = (ns[p].page \ {BranchTuple(low[r], r)}) \cup {BranchTuple(m, r)}
       /\ \A x \in NodeIDs : x \notin {l, r, p} => ns2[x].page = ns[x].page
  BY <1>1, <1>6 DEF BoundaryMoves
<1>11. /\ \A e \in L : e.key \in Nat /\ e.child = NoNode /\ low[l] <= e.key /\ e.key < m
       /\ \A e \in R : e.key \in Nat /\ e.child = NoNode /\ m <= e.key /\ InRangeOf(live, low, level, r, e.key)
       /\ LeafTuple(m) \in R /\ (low[l] # -1 => LeafTuple(low[l]) \in L)
  BY DEF BoundaryMoves
<1>12. KeysInRange(ns2, live, low2, level)
  <2> SUFFICES ASSUME NEW x \in live, NEW e \in ns2[x].page
               PROVE  /\ level[x] = 0 => low2[x] <= e.key /\ e.child = NoNode
                      /\ level[x] > 0 => low2[x] < e.key
                      /\ InRangeOf(live, low2, level, x, e.key)
    BY DEF KeysInRange
  <2>1. CASE x = l
    <3>1. \A z \in live : level[z] = 0 /\ low2[l] < low2[z] => m <= low2[z]
      BY <1>1, <1>2, <1>3, <1>7
    <3>2. InRangeOf(live, low2, level, l, e.key)
      BY <1>1, <1>2, <1>3, <1>10, <1>11, <2>1, <3>1 DEF InRangeOf
    <3> QED
      BY <1>1, <1>3, <1>10, <1>11, <2>1, <3>2
  <2>2. CASE x = r
    <3>1. \A z \in live : level[z] = 0 /\ low2[r] < low2[z] => low[r] < low[z] /\ low2[z] = low[z]
      BY <1>1, <1>2, <1>3, <1>7
    <3>2. InRangeOf(live, low2, level, r, e.key)
      BY <1>1, <1>10, <1>11, <2>2, <3>1 DEF InRangeOf
    <3> QED
      BY <1>1, <1>3, <1>10, <1>11, <2>2, <3>2
  <2>3. CASE x \notin {l, r} /\ e \in ns[x].page
    <3>1. e.key \in Int
      BY <1>2, <2>3, PageTypes DEF Shape
    <3>2. low2[x] = low[x]
      BY <1>2, <1>3, <2>3
    <3> QED
      BY <1>9, <2>3, <3>1, <3>2 DEF Shape, KeysInRange
  <2>4. CASE x = p /\ e = BranchTuple(m, r)
    <3>1. InRangeOf(live, low, level, p, low[r])
      BY <1>6 DEF Shape, KeysInRange, BranchTuple
    <3>2. InRangeOf(live, low, level, p, m)
      <4> SUFFICES ASSUME NEW y \in live, level[y] = level[p], low[p] < low[y] PROVE m < low[y]
        BY DEF InRangeOf
      <4>1. low[r] < low[y]
        BY <3>1 DEF InRangeOf
      <4> DEFINE c == ns[y].firstChildID
      <4>2. c # NoNode
        BY <1>6 DEF Shape, RootOnTop
      <4>3. c \in live /\ low[c] = low[y] /\ level[y] = level[c] + 1
        BY <4>2 DEF Shape, ChildrenKnow
      <4>4. level[c] = 0
        BY <1>2, <1>6, <4>3
      <4> QED
        BY <1>1, <1>4, <4>1, <4>3, <4>4 DEF InRangeOf
    <3>3. InRangeOf(live, low2, level, p, m)
      BY <1>3, <1>6, <1>9, <3>2
    <3>4. low2[p] < m
      BY <1>1, <1>2, <1>3, <1>6
    <3> QED
      BY <1>6, <2>4, <3>3, <3>4 DEF BranchTuple
  <2> QED
    BY <1>2, <1>10, <2>1, <2>2, <2>3, <2>4
<1>13. LowsAreTuples(ns2, live, low2, level)
  <2> SUFFICES ASSUME NEW x \in live, level[x] = 0, low2[x] # -1
               PROVE  LeafTuple(low2[x]) \in ns2[x].page
    BY DEF LowsAreTuples
  <2>1. CASE x \in {l, r}
    BY <1>1, <1>3, <1>10, <1>11, <2>1
  <2>2. CASE x \notin {l, r}
    <3>1. x # p /\ ns2[x].page = ns[x].page /\ low2[x] = low[x]
      BY <1>2, <1>3, <1>6, <1>10, <2>2
    <3> QED
      BY <3>1 DEF Shape, LowsAreTuples
  <2> QED
    BY <2>1, <2>2
<1>14. \A x \in live : low2[x] = -1 <=> low[x] = -1
  <2>1. low[r] # -1 /\ m # -1
    BY <1>1, <1>2, <1>3 DEF Shape, LowsDiffer
  <2> QED
    BY <1>2, <1>3, <2>1
<1>15. LeftLinks(ns2, live, low2, level)
  BY <1>2, <1>14 DEF Shape, LeftLinks, BoundaryMoves, SameLinks
<1>16. RightLinks(ns2, live, low2, level)
  <2> SUFFICES ASSUME NEW x \in live, NEW y, y = ns[x].siblingRightID
               PROVE  /\ y = NoNode => \A z \in live : level[z] = level[x] => low2[z] <= low2[x]
                      /\ y # NoNode =>
                           /\ y \in live /\ ns[y].siblingLeftID = x
                           /\ level[y] = level[x] /\ low2[x] < low2[y]
                           /\ \A z \in live : level[z] = level[x] => low2[z] <= low2[x] \/ low2[y] <= low2[z]
    BY <1>2 DEF RightLinks, BoundaryMoves, SameLinks
  <2>1. /\ y = NoNode => \A z \in live : level[z] = level[x] => low[z] <= low[x]
        /\ y # NoNode =>
             /\ y \in live /\ ns[y].siblingLeftID = x
             /\ level[y] = level[x] /\ low[x] < low[y]
             /\ \A z \in live : level[z] = level[x] => low[z] <= low[x] \/ low[y] <= low[z]
    BY DEF Shape, RightLinks
  <2>2. \A a, b \in live : level[a] = level[b] => (low2[a] < low2[b] <=> low[a] < low[b])
    <3> SUFFICES ASSUME NEW a \in live, NEW b \in live, level[a] = level[b]
                 PROVE  low2[a] < low2[b] <=> low[a] < low[b]
      OBVIOUS
    <3>1. low[a] \in Int /\ low[b] \in Int
      BY <1>2
    <3> QED
      BY <1>1, <1>2, <1>3, <1>7, <3>1
  <2>3. \A a \in live : low2[a] \in Int /\ low[a] \in Int
    BY <1>2, <1>3
  <2>4. \A a, b \in live : level[a] = level[b] => (low2[a] <= low2[b] <=> low[a] <= low[b])
    BY <2>2, <2>3
  <2> QED
    BY <2>1, <2>2, <2>4
<1>17. RootOnTop(ns2, live, root, low2, level, NoNode)
  BY <1>2, <1>3, <1>5 DEF Shape, RootOnTop, BoundaryMoves, SameLinks
<1>18. ChildrenKnow(ns2, live, low2, level, NoNode)
  <2>1. ASSUME NEW b \in live, ns2[b].firstChildID # NoNode
        PROVE  /\ ns2[b].firstChildID \in live /\ ns2[b].firstChildID # NoNode
               /\ ns2[ns2[b].firstChildID].parentID = b
               /\ low2[ns2[b].firstChildID] = low2[b] /\ level[b] = level[ns2[b].firstChildID] + 1
    <3> DEFINE c == ns[b].firstChildID
    <3>1. c # NoNode /\ ns2[b].firstChildID = c
      BY <1>2, <2>1 DEF BoundaryMoves, SameLinks
    <3>2. c \in live /\ ns[c].parentID = b /\ low[c] = low[b] /\ level[b] = level[c] + 1
      BY <3>1 DEF Shape, ChildrenKnow
    <3>3. b # r /\ c # r
      BY <1>1, <1>2, <1>6, <3>2
    <3> QED
      BY <1>2, <1>3, <3>1, <3>2, <3>3 DEF BoundaryMoves, SameLinks
  <2>2. ASSUME NEW b \in live, level[b] > 0, NEW e \in ns2[b].page
        PROVE  /\ e.child \in live /\ e.child # NoNode /\ ns2[e.child].parentID = b
               /\ e.key = low2[e.child] /\ level[b] = level[e.child] + 1
    <3>1. b \notin {l, r}
      BY <1>1, <2>2
    <3>2. CASE b = p /\ e = BranchTuple(m, r)
      BY <1>1, <1>2, <1>3, <1>5, <1>6, <3>2 DEF BranchTuple, BoundaryMoves, SameLinks
    <3>3. CASE e \in ns[b].page /\ (b = p => e # BranchTuple(low[r], r))
      <4>1. /\ e.child \in live /\ e.child # NoNode /\ ns[e.child].parentID = b
            /\ e.key = low[e.child] /\ level[b] = level[e.child] + 1
        BY <2>2, <3>3 DEF Shape, ChildrenKnow
      <4>2. e = BranchTuple(e.key, e.child)
        BY <1>2, <3>3, PageTypes DEF Shape
      <4>3. e.child # r
        BY <3>3, <4>1, <4>2
      <4> QED
        BY <1>2, <1>3, <4>1, <4>3 DEF BoundaryMoves, SameLinks
    <3> QED
      BY <1>2, <1>10, <2>2, <3>1, <3>2, <3>3
  <2> QED
    BY <2>1, <2>2 DEF ChildrenKnow
<1>19. ParentsKnow(ns2, live, root, low2, level, NoNode)
  <2> SUFFICES ASSUME NEW x \in live \ {root, NoNode}
               PROVE  /\ ns[x].parentID \in live /\ level[ns[x].parentID] = level[x] + 1
                      /\ \/ ns2[ns[x].parentID].firstChildID = x
                         \/ BranchTuple(low2[x], x) \in ns2[ns[x].parentID].page
    BY <1>2 DEF ParentsKnow, BoundaryMoves, SameLinks
  <2>1. /\ ns[x].parentID \in live /\ level[ns[x].parentID] = level[x] + 1
        /\ \/ ns[ns[x].parentID].firstChildID = x
           \/ BranchTuple(low[x], x) \in ns[ns[x].parentID].page
    BY DEF Shape, ParentsKnow
  <2>2. CASE x = r
    BY <1>3, <1>10, <2>1, <2>2
  <2>3. CASE x # r
    <3>1. ns[x].parentID \notin {l, r}
      BY <1>1, <1>2, <2>1
    <3>2. low2[x] = low[x] /\ BranchTuple(low[x], x) # BranchTuple(low[r], r)
      BY <1>2, <1>3, <2>3 DEF BranchTuple
    <3>3. BranchTuple(low[x], x) \in ns[ns[x].parentID].page
            => BranchTuple(low[x], x) \in ns2[ns[x].parentID].page
      BY <1>2, <1>10, <2>1, <3>1, <3>2
    <3>4. ns2[ns[x].parentID].firstChildID = ns[ns[x].parentID].firstChildID
      BY <1>2, <2>1 DEF BoundaryMoves, SameLinks
    <3> QED
      BY <2>1, <3>2, <3>3, <3>4
  <2> QED
    BY <2>2, <2>3
<1>20. IsFiniteSet(ns2[p].page) /\ Cardinality(ns2[p].page) = Cardinality(ns[p].page)
  <2> DEFINE old == BranchTuple(low[r], r)
             new == BranchTuple(m, r)
             rest == ns[p].page \ {old}
  <2>1. IsFiniteSet(ns[p].page) /\ old \in ns[p].page
    BY <1>6 DEF Shape, Sized
  <2>2. new \notin rest
    <3> SUFFICES ASSUME new \in ns[p].page PROVE new = old
      OBVIOUS
    <3>1. m = low[r]
      BY <1>6 DEF Shape, ChildrenKnow, BranchTuple
    <3> QED
      BY <3>1
  <2>3. ns2[p].page = rest \cup {new}
    BY <1>10
  <2> HIDE DEF old, new
  <2>4. IsFiniteSet(rest) /\ Cardinality(rest) = Cardinality(ns[p].page) - 1
    BY <2>1, FS_RemoveElement
  <2> HIDE DEF rest
  <2>5. IsFiniteSet(rest \cup {new}) /\ Cardinality(rest \cup {new}) = Cardinality(rest) + 1
    BY <2>2, <2>4, FS_AddElement
  <2>6. Cardinality(ns[p].page) \in Nat
    BY <2>1, FS_CardinalityType
  <2> QED
    BY <2>3, <2>4, <2>5, <2>6
<1>21. Sized(ns2, live, root)
  <2>1. \A x \in live : HasChildren(ns2, x) = HasChildren(ns, x) /\ MaxTupleCount(ns2, x) = MaxTupleCount(ns, x)
    BY <1>2, SameLinksKeepSizes DEF BoundaryMoves
  <2>2. \A x \in live : x \notin {l, r} => IsFiniteSet(ns2[x].page) /\ TupleCount(ns2, x) = TupleCount(ns, x)
    BY <1>2, <1>10, <1>20 DEF Shape, Sized, TupleCount
  <2>3. \A x \in {l, r} : /\ IsFiniteSet(ns2[x].page) /\ TupleCount(ns2, x) <= MaxTupleCount(ns, x)
                          /\ TupleCount(ns2, x) >= MaxTupleCount(ns, x) \div 2
    BY <1>10 DEF BoundaryMoves, HalfFull, TupleCount
  <2>4. Sized(ns, live, root) /\ root \in live
    BY DEF Shape, RootOnTop
  <2> QED
    BY <1>5, <2>1, <2>2, <2>3, <2>4 DEF Sized
<1>22. Blank(ns2, live)
  <2> SUFFICES ASSUME NEW x \in NodeIDs \ live PROVE ns2[x] = BlankNode
    BY DEF Blank
  <2>1. ns[x] = BlankNode /\ x \notin {l, r, p}
    BY <1>1, <1>6 DEF Shape, Blank
  <2>2. /\ ns2[x].firstChildID = NoNode /\ ns2[x].parentID = NoNode /\ ns2[x].siblingLeftID = NoNode
        /\ ns2[x].siblingRightID = NoNode /\ ns2[x].page = {}
    BY <1>10, <2>1 DEF BlankNode, BoundaryMoves, SameLinks
  <2>3. ns2[x] \in Node
    BY DEF BoundaryMoves, Table
  <2> QED
    BY <2>2, <2>3 DEF Node, BlankNode
<1> QED
  BY <1>2, <1>3, <1>8, <1>12, <1>13, <1>15, <1>16, <1>17, <1>18, <1>19, <1>21, <1>22
     DEF Shape, Ghosts, BoundaryMoves, low2

\* a tuple is added to a leaf in whose range it is and that has room for it
LEMMA AddedTuple ==
  ASSUME NEW ns, NEW live, NEW root, NEW low, NEW level, NEW orphan,
         Shape(ns, live, root, low, level, orphan),
         NEW n \in live, level[n] = 0, NEW k \in Nat, low[n] <= k,
         InRangeOf(live, low, level, n, k), LeafTuple(k) \notin ns[n].page,
         HasLessThanMaxTuples(ns, n)
  PROVE  Shape(AddTuple(ns, n, LeafTuple(k)), live, root, low, level, orphan)
<1> DEFINE ns2 == AddTuple(ns, n, LeafTuple(k))
           S == ns[n].page
<1>1. n \in NodeIDs /\ live \subseteq NodeIDs /\ ns \in Table
  BY DEF Shape
<1>2. ns2 \in Table
  <2>1. LeafTuple(k) \in Entry
    BY DEF LeafTuple, Entry, NodeRefs
  <2> QED
    BY <1>1, <2>1, AddTupleType
<1>3. /\ SameLinks(ns, ns2) /\ ns2[n].page = S \cup {LeafTuple(k)}
      /\ \A x \in NodeIDs : x # n => ns2[x] = ns[x]
  BY <1>1 DEF AddTuple, SameLinks, Table
<1> HIDE DEF ns2
<1>4. KeysInRange(ns2, live, low, level)
  <2> SUFFICES ASSUME NEW x \in live, NEW e \in ns2[x].page
               PROVE  /\ level[x] = 0 => low[x] <= e.key /\ e.child = NoNode
                      /\ level[x] > 0 => low[x] < e.key
                      /\ InRangeOf(live, low, level, x, e.key)
    BY DEF KeysInRange
  <2>1. CASE x = n /\ e = LeafTuple(k)
    BY <2>1 DEF LeafTuple
  <2>2. CASE e \in ns[x].page
    BY <2>2 DEF Shape, KeysInRange
  <2> QED
    BY <1>1, <1>3, <2>1, <2>2
<1>5. LowsAreTuples(ns2, live, low, level)
  BY <1>1, <1>3 DEF Shape, LowsAreTuples
<1>6. LeftLinks(ns2, live, low, level) /\ RightLinks(ns2, live, low, level)
  <2>1. LeftLinks(ns2, live, low, level)
    BY <1>1, <1>3 DEF Shape, LeftLinks, SameLinks
  <2>2. RightLinks(ns2, live, low, level)
    BY <1>1, <1>3 DEF Shape, RightLinks, SameLinks
  <2> QED
    BY <2>1, <2>2
<1>7. RootOnTop(ns2, live, root, low, level, orphan)
  BY <1>1, <1>3 DEF Shape, RootOnTop, SameLinks
<1>8. ParentsKnow(ns2, live, root, low, level, orphan)
  BY <1>1, <1>3 DEF Shape, ParentsKnow, SameLinks
<1>9. ChildrenKnow(ns2, live, low, level, orphan)
  <2>1. \A b \in live : ns2[b].firstChildID # NoNode =>
       /\ ns2[b].firstChildID \in live /\ ns2[b].firstChildID # orphan
       /\ ns2[ns2[b].firstChildID].parentID = b
       /\ low[ns2[b].firstChildID] = low[b] /\ level[b] = level[ns2[b].firstChildID] + 1
    BY <1>1, <1>3 DEF Shape, ChildrenKnow, SameLinks
  <2>2. \A b \in live : level[b] > 0 => \A e \in ns2[b].page :
       /\ e.child \in live /\ e.child # orphan /\ ns2[e.child].parentID = b
       /\ e.key = low[e.child] /\ level[b] = level[e.child] + 1
    BY <1>1, <1>3 DEF Shape, ChildrenKnow, SameLinks
  <2> QED
    BY <2>1, <2>2 DEF ChildrenKnow
<1>10. Sized(ns2, live, root)
  <2>1. IsFiniteSet(S) /\ Cardinality(S) \in Nat /\ Sized(ns, live, root) /\ root \in live
    BY FS_CardinalityType DEF Shape, Sized, RootOnTop
  <2>2. IsFiniteSet(ns2[n].page) /\ TupleCount(ns2, n) = TupleCount(ns, n) + 1
    <3>1. LeafTuple(k) \notin S
      OBVIOUS
    <3> HIDE DEF S
    <3>2. IsFiniteSet(S \cup {LeafTuple(k)}) /\ Cardinality(S \cup {LeafTuple(k)}) = Cardinality(S) + 1
      BY <2>1, <3>1, FS_AddElement
    <3> QED
      BY <1>3, <3>2 DEF TupleCount, S
  <2>3. \A x \in live : x # n => ns2[x].page = ns[x].page /\ TupleCount(ns2, x) = TupleCount(ns, x)
    BY <1>1, <1>3 DEF TupleCount
  <2>4. \A x \in live : HasChildren(ns2, x) = HasChildren(ns, x) /\ MaxTupleCount(ns2, x) = MaxTupleCount(ns, x)
    BY <1>1, <1>3, SameLinksKeepSizes
  <2>5. TupleCount(ns, n) \in Nat /\ TupleCount(ns, n) < MaxTupleCount(ns, n)
    BY <2>1 DEF HasLessThanMaxTuples, TupleCount
  <2>6. MaxTupleCount(ns, n) \in Nat /\ MaxTupleCount(ns, n) \div 2 \in Nat
    BY PageSizeAssumption DEF MaxTupleCount
  <2> QED
    BY <2>1, <2>2, <2>3, <2>4, <2>5, <2>6 DEF Sized
<1>11. Blank(ns2, live)
  BY <1>3 DEF Shape, Blank
<1> QED
  BY <1>2, <1>4, <1>5, <1>6, <1>7, <1>8, <1>9, <1>10, <1>11 DEF Shape, ns2

\* the parent of an orphan gets its index entry
LEMMA AdoptedOrphan ==
  ASSUME NEW ns, NEW live, NEW root, NEW low, NEW level, NEW o,
         Shape(ns, live, root, low, level, o), o \in live,
         NEW p \in live, p = ns[o].parentID, level[p] = level[o] + 1, low[p] < low[o],
         InRangeOf(live, low, level, p, low[o]),
         HasLessThanMaxTuples(ns, p)
  PROVE  Shape(AddTuple(ns, p, BranchTuple(low[o], o)), live, root, low, level, NoNode)
<1> DEFINE own == BranchTuple(low[o], o)
           ns2 == AddTuple(ns, p, own)
           S == ns[p].page
<1>1. /\ p \in NodeIDs /\ o \in NodeIDs /\ live \subseteq NodeIDs /\ ns \in Table
      /\ low \in [NodeIDs -> Int] /\ level \in [NodeIDs -> Nat]
  BY DEF Shape, Ghosts
<1>2. level[p] > 0 /\ low[o] \in Nat
  <2>1. low[p] >= -1
    BY DEF Shape, LowsDiffer
  <2> QED
    BY <1>1, <2>1
<1>3. ns2 \in Table
  <2>1. own \in Entry
    BY <1>1, <1>2 DEF BranchTuple, Entry, NodeRefs
  <2> QED
    BY <1>1, <2>1, AddTupleType
<1>4. /\ SameLinks(ns, ns2) /\ ns2[p].page = S \cup {own}
      /\ \A x \in NodeIDs : x # p => ns2[x] = ns[x]
  BY <1>1 DEF AddTuple, SameLinks, Table
<1>5. own.key = low[o] /\ own.child = o
  BY DEF BranchTuple
<1> HIDE DEF ns2, own
<1>6. own \notin S
  BY <1>2, <1>5 DEF Shape, ChildrenKnow
<1>7. KeysInRange(ns2, live, low, level)
  <2> SUFFICES ASSUME NEW x \in live, NEW e \in ns2[x].page
               PROVE  /\ level[x] = 0 => low[x] <= e.key /\ e.child = NoNode
                      /\ level[x] > 0 => low[x] < e.key
                      /\ InRangeOf(live, low, level, x, e.key)
    BY DEF KeysInRange
  <2>1. CASE x = p /\ e = own
    BY <1>2, <1>5, <2>1
  <2>2. CASE e \in ns[x].page
    BY <2>2 DEF Shape, KeysInRange
  <2> QED
    BY <1>1, <1>4, <2>1, <2>2
<1>8. LowsAreTuples(ns2, live, low, level)
  BY <1>1, <1>4 DEF Shape, LowsAreTuples
<1>9. LeftLinks(ns2, live, low, level)
  BY <1>1, <1>4 DEF Shape, LeftLinks, SameLinks
<1>10. RightLinks(ns2, live, low, level)
  BY <1>1, <1>4 DEF Shape, RightLinks, SameLinks
<1>11. o # root /\ level[o] < level[root] /\ RootOnTop(ns, live, root, low, level, o)
  BY <1>1 DEF Shape, RootOnTop
<1>12. RootOnTop(ns2, live, root, low, level, NoNode)
  BY <1>1, <1>4, <1>11 DEF RootOnTop, SameLinks
<1>13. ParentsKnow(ns2, live, root, low, level, NoNode)
  <2> SUFFICES ASSUME NEW x \in live \ {root, NoNode}
               PROVE  /\ ns[x].parentID \in live /\ level[ns[x].parentID] = level[x] + 1
                      /\ \/ ns2[ns[x].parentID].firstChildID = x
                         \/ BranchTuple(low[x], x) \in ns2[ns[x].parentID].page
    BY <1>1, <1>4 DEF ParentsKnow, SameLinks
  <2>1. CASE x = o
    BY <1>4, <2>1 DEF own
  <2>2. CASE x # o
    <3>1. /\ ns[x].parentID \in live /\ level[ns[x].parentID] = level[x] + 1
          /\ \/ ns[ns[x].parentID].firstChildID = x
             \/ BranchTuple(low[x], x) \in ns[ns[x].parentID].page
      BY <2>2 DEF Shape, ParentsKnow
    <3> QED
      BY <1>1, <1>4, <3>1 DEF SameLinks
  <2> QED
    BY <2>1, <2>2
<1>14. ChildrenKnow(ns2, live, low, level, NoNode)
  <2>1. \A b \in live : ns2[b].firstChildID # NoNode =>
       /\ ns2[b].firstChildID \in live /\ ns2[b].firstChildID # NoNode
       /\ ns2[ns2[b].firstChildID].parentID = b
       /\ low[ns2[b].firstChildID] = low[b] /\ level[b] = level[ns2[b].firstChildID] + 1
    BY <1>1, <1>4 DEF Shape, ChildrenKnow, SameLinks
  <2>2. ASSUME NEW b \in live, level[b] > 0, NEW e \in ns2[b].page
        PROVE  /\ e.child \in live /\ e.child # NoNode /\ ns2[e.child].parentID = b
               /\ e.key = low[e.child] /\ level[b] = level[e.child] + 1
    <3>1. CASE b = p /\ e = own
      BY <1>1, <1>4, <1>5, <3>1, NodesAreNotNone DEF SameLinks
    <3>2. CASE e \in ns[b].page
      <4>1. /\ e.child \in live /\ ns[e.child].parentID = b
            /\ e.key = low[e.child] /\ level[b] = level[e.child] + 1
        BY <2>2, <3>2 DEF Shape, ChildrenKnow
      <4> QED
        BY <1>1, <1>4, <4>1, NodesAreNotNone DEF SameLinks
    <3> QED
      BY <1>1, <1>4, <2>2, <3>1, <3>2
  <2> QED
    BY <2>1, <2>2 DEF ChildrenKnow
<1>15. Sized(ns2, live, root)
  <2>1. IsFiniteSet(S) /\ Cardinality(S) \in Nat /\ Sized(ns, live, root) /\ root \in live
    BY FS_CardinalityType DEF Shape, Sized, RootOnTop
  <2>2. IsFiniteSet(ns2[p].page) /\ TupleCount(ns2, p) = TupleCount(ns, p) + 1
    <3> HIDE DEF S
    <3>1. IsFiniteSet(S \cup {own}) /\ Cardinality(S \cup {own}) = Cardinality(S) + 1
      BY <1>6, <2>1, FS_AddElement
    <3> QED
      BY <1>4, <3>1 DEF TupleCount, S
  <2>3. \A x \in live : x # p => ns2[x].page = ns[x].page /\ TupleCount(ns2, x) = TupleCount(ns, x)
    BY <1>1, <1>4 DEF TupleCount
  <2>4. \A x \in live : HasChildren(ns2, x) = HasChildren(ns, x) /\ MaxTupleCount(ns2, x) = MaxTupleCount(ns, x)
    BY <1>1, <1>4, SameLinksKeepSizes
  <2>5. TupleCount(ns, p) \in Nat /\ TupleCount(ns, p) < MaxTupleCount(ns, p)
    BY <2>1 DEF HasLessThanMaxTuples, TupleCount
  <2>6. MaxTupleCount(ns, p) \in Nat /\ MaxTupleCount(ns, p) \div 2 \in Nat
    BY PageSizeAssumption DEF MaxTupleCount
  <2> QED
    BY <2>1, <2>2, <2>3, <2>4, <2>5, <2>6 DEF Sized
<1>16. Blank(ns2, live)
  BY <1>4 DEF Shape, Blank
<1> QED
  BY <1>3, <1>7, <1>8, <1>9, <1>10, <1>12, <1>13, <1>14, <1>15, <1>16 DEF Shape, ns2, own

\* a root that was split gets a parent
LEMMA AddedRoot ==
  ASSUME NEW ns, NEW live, NEW root, NEW low, NEW level, NEW o,
         Shape(ns, live, root, low, level, o), o \in live, o # root, level[o] = level[root],
         NEW r \in NodeIDs \ live,
         NEW split, split = Split(root, o, low[o]),
         TupleCount(ns, root) >= MaxTupleCount(ns, root) \div 2
  PROVE  Shape(AddRootNode(ns, r, split), live \cup {r}, r, [low EXCEPT ![r] = -1],
               [level EXCEPT ![r] = level[root] + 1], NoNode)
<1> DEFINE ns2 == AddRootNode(ns, r, split)
           own == BranchTuple(low[o], o)
           low2 == [low EXCEPT ![r] = -1]
           level2 == [level EXCEPT ![r] = level[root] + 1]
           live2 == live \cup {r}
<1>1. /\ o \in NodeIDs /\ root \in live /\ root \in NodeIDs /\ live \subseteq NodeIDs /\ ns \in Table
      /\ low \in [NodeIDs -> Int] /\ level \in [NodeIDs -> Nat] /\ r # root /\ r # o /\ r \notin live
      /\ r \in NodeIDs /\ low[root] = -1
  BY DEF Shape, Ghosts, RootOnTop
<1>2. low[o] \in Nat /\ low[o] # -1
  <2>1. low[o] >= -1 /\ low[o] # low[root]
    BY <1>1 DEF Shape, LowsDiffer
  <2> QED
    BY <1>1, <2>1
<1>3. /\ low2 \in [NodeIDs -> Int] /\ level2 \in [NodeIDs -> Nat]
      /\ low2[r] = -1 /\ level2[r] = level[root] + 1
      /\ \A x \in live : low2[x] = low[x] /\ level2[x] = level[x]
      /\ live2 \subseteq NodeIDs
  BY <1>1
<1>4. split.left = root /\ split.right = o /\ split.splitter = low[o]
  BY DEF Split
<1>5. own.key = low[o] /\ own.child = o /\ own \in Entry
  BY <1>1, <1>2 DEF BranchTuple, Entry, NodeRefs
<1>6. ns2 \in Table
  <2>1. split \in Result
    BY <1>1, <1>2, <1>4 DEF Split, Result, NodeRefs
  <2> QED
    BY <1>1, <1>4, <2>1, AddRootNodeType
<1>7. /\ ns2[r].page = {own} /\ ns2[r].firstChildID = root /\ ns2[r].parentID = NoNode
      /\ ns2[r].siblingLeftID = NoNode /\ ns2[r].siblingRightID = NoNode
      /\ \A x \in NodeIDs \ {r} :
           /\ ns2[x].page = ns[x].page /\ ns2[x].firstChildID = ns[x].firstChildID
           /\ ns2[x].siblingLeftID = ns[x].siblingLeftID /\ ns2[x].siblingRightID = ns[x].siblingRightID
           /\ ns2[x].parentID = IF x \in {root, o} THEN r ELSE ns[x].parentID
  <2> DEFINE n == [ns[r] EXCEPT !.page = {own}, !.firstChildID = root, !.parentID = NoNode,
                                !.siblingLeftID = NoNode, !.siblingRightID = NoNode]
  <2>1. ns[r] \in Node
    BY <1>1 DEF Table
  <2>2. /\ n.page = {own} /\ n.firstChildID = root /\ n.parentID = NoNode
        /\ n.siblingLeftID = NoNode /\ n.siblingRightID = NoNode
    <3> HIDE DEF own
    <3> QED
      BY <2>1 DEF Node
  <2>3. ns2 = [ns EXCEPT ![r] = n, ![root].parentID = r, ![o].parentID = r]
    BY <1>4 DEF AddRootNode
  <2> HIDE DEF n, ns2
  <2>4. ns2[r] = n
    BY <1>1, <2>3 DEF Table
  <2>5. /\ ns2[r].page = {own} /\ ns2[r].firstChildID = root /\ ns2[r].parentID = NoNode
        /\ ns2[r].siblingLeftID = NoNode /\ ns2[r].siblingRightID = NoNode
    BY <2>2, <2>4
  <2>6. ns2[root] = [ns[root] EXCEPT !.parentID = r] /\ ns2[o] = [ns[o] EXCEPT !.parentID = r]
    BY <1>1, <2>3 DEF Table
  <2>7. \A x \in NodeIDs : x \notin {r, root, o} => ns2[x] = ns[x]
    BY <1>1, <2>3 DEF Table
  <2>8. ns[root] \in Node /\ ns[o] \in Node
    BY <1>1 DEF Table
  <2> HIDE DEF ns2, own
  <2> QED
    BY <1>1, <2>5, <2>6, <2>7, <2>8 DEF Node
<1> HIDE DEF ns2, own, low2, level2
<1>8. \A x \in live : level[x] <= level[root] /\ level[x] \in Nat /\ level[root] \in Nat /\ low[x] \in Int
  BY <1>1 DEF Shape, RootOnTop
<1>9. \A x \in live : level2[x] # level2[r] /\ x # r
  BY <1>1, <1>3, <1>8
<1>10. LowsDiffer(live2, low2, level2)
  BY <1>3, <1>9 DEF Shape, LowsDiffer
<1>11. \A x \in live : \A k : InRangeOf(live, low, level, x, k) => InRangeOf(live2, low2, level2, x, k)
  BY <1>3, <1>9 DEF InRangeOf
<1>12. KeysInRange(ns2, live2, low2, level2)
  <2> SUFFICES ASSUME NEW x \in live2, NEW e \in ns2[x].page
               PROVE  /\ level2[x] = 0 => low2[x] <= e.key /\ e.child = NoNode
                      /\ level2[x] > 0 => low2[x] < e.key
                      /\ InRangeOf(live2, low2, level2, x, e.key)
    BY DEF KeysInRange
  <2>1. CASE x = r
    <3>1. InRangeOf(live2, low2, level2, r, e.key)
      BY <1>9, <1>3 DEF InRangeOf
    <3> QED
      BY <1>2, <1>3, <1>5, <1>7, <1>8, <1>1, <2>1, <3>1
  <2>2. CASE x \in live
    <3>1. ns2[x].page = ns[x].page
      BY <1>1, <1>7, <2>2
    <3> QED
      BY <1>3, <1>11, <2>2, <3>1 DEF Shape, KeysInRange
  <2> QED
    BY <2>1, <2>2
<1>13. LowsAreTuples(ns2, live2, low2, level2)
  BY <1>1, <1>3, <1>7 DEF Shape, LowsAreTuples
<1>14. LeftLinks(ns2, live2, low2, level2)
  <2> SUFFICES ASSUME NEW x \in live2
               PROVE  /\ ns2[x].siblingLeftID = NoNode <=> low2[x] = -1
                      /\ ns2[x].siblingLeftID # NoNode =>
                           ns2[x].siblingLeftID \in live2 /\ ns2[ns2[x].siblingLeftID].siblingRightID = x
    BY DEF LeftLinks
  <2>1. CASE x = r
    BY <1>3, <1>7, <2>1
  <2>2. CASE x \in live
    BY <1>1, <1>3, <1>7, <2>2 DEF Shape, LeftLinks
  <2> QED
    BY <2>1, <2>2
<1>15. RightLinks(ns2, live2, low2, level2)
  <2> SUFFICES ASSUME NEW x \in live2, NEW y, y = ns2[x].siblingRightID
               PROVE  /\ y = NoNode => \A z \in live2 : level2[z] = level2[x] => low2[z] <= low2[x]
                      /\ y # NoNode =>
                           /\ y \in live2 /\ ns2[y].siblingLeftID = x
                           /\ level2[y] = level2[x] /\ low2[x] < low2[y]
                           /\ \A z \in live2 : level2[z] = level2[x] => low2[z] <= low2[x] \/ low2[y] <= low2[z]
    BY DEF RightLinks
  <2>1. CASE x = r
    BY <1>3, <1>7, <1>9, <2>1
  <2>2. CASE x \in live
    <3>1. y = ns[x].siblingRightID
      BY <1>1, <1>7, <2>2
    <3>2. /\ y = NoNode => \A z \in live : level[z] = level[x] => low[z] <= low[x]
          /\ y # NoNode =>
               /\ y \in live /\ ns[y].siblingLeftID = x
               /\ level[y] = level[x] /\ low[x] < low[y]
               /\ \A z \in live : level[z] = level[x] => low[z] <= low[x] \/ low[y] <= low[z]
      BY <2>2, <3>1 DEF Shape, RightLinks
    <3> QED
      BY <1>1, <1>3, <1>7, <1>9, <2>2, <3>2
  <2> QED
    BY <2>1, <2>2
<1>16. RootOnTop(ns2, live2, r, low2, level2, NoNode)
  <2>1. \A x \in live2 : level2[x] <= level2[r] /\ (x \notin {r, NoNode} => level2[x] < level2[r])
    BY <1>1, <1>3, <1>8
  <2>2. \A x \in live2 : ns2[x].firstChildID = NoNode <=> level2[x] = 0
    <3>1. root # NoNode /\ level2[r] # 0
      BY <1>1, <1>3 DEF NodeIDs, NoNode
    <3>2. \A x \in live : ns2[x].firstChildID = NoNode <=> level2[x] = 0
      BY <1>1, <1>3, <1>7 DEF Shape, RootOnTop
    <3> QED
      BY <1>7, <3>1, <3>2
  <2> QED
    BY <1>3, <1>7, <2>1, <2>2 DEF RootOnTop
<1>17. ParentsKnow(ns2, live2, r, low2, level2, NoNode)
  <2> SUFFICES ASSUME NEW x \in live2 \ {r, NoNode}, NEW p, p = ns2[x].parentID
               PROVE  /\ p \in live2 /\ level2[p] = level2[x] + 1
                      /\ \/ ns2[p].firstChildID = x
                         \/ BranchTuple(low2[x], x) \in ns2[p].page
    BY DEF ParentsKnow
  <2>1. CASE x = root
    BY <1>1, <1>3, <1>7, <2>1
  <2>2. CASE x = o
    BY <1>1, <1>3, <1>7, <2>2 DEF own
  <2>3. CASE x \notin {root, o}
    <3>1. x \in live /\ p = ns[x].parentID
      BY <1>1, <1>7, <2>3
    <3>2. /\ p \in live /\ level[p] = level[x] + 1
          /\ ns[p].firstChildID = x \/ BranchTuple(low[x], x) \in ns[p].page
      BY <2>3, <3>1 DEF Shape, ParentsKnow
    <3> QED
      BY <1>1, <1>3, <1>7, <3>1, <3>2
  <2> QED
    BY <2>1, <2>2, <2>3
<1>18. ChildrenKnow(ns2, live2, low2, level2, NoNode)
  <2>1. ASSUME NEW b \in live2, NEW c, c = ns2[b].firstChildID, c # NoNode
        PROVE  /\ c \in live2 /\ ns2[c].parentID = b
               /\ low2[c] = low2[b] /\ level2[b] = level2[c] + 1
    <3>1. CASE b = r
      BY <1>1, <1>3, <1>7, <2>1, <3>1
    <3>2. CASE b \in live
      <4>1. c = ns[b].firstChildID
        BY <1>1, <1>7, <2>1, <3>2
      <4>2. c \in live /\ c # o /\ ns[c].parentID = b /\ low[c] = low[b] /\ level[b] = level[c] + 1
        BY <2>1, <3>2, <4>1 DEF Shape, ChildrenKnow
      <4>3. c # root
        BY <1>8, <3>2, <4>2
      <4> QED
        BY <1>1, <1>3, <1>7, <3>2, <4>2, <4>3
    <3> QED
      BY <2>1, <3>1, <3>2
  <2>2. ASSUME NEW b \in live2, level2[b] > 0, NEW e \in ns2[b].page
        PROVE  /\ e.child \in live2 /\ e.child # NoNode /\ ns2[e.child].parentID = b
               /\ e.key = low2[e.child] /\ level2[b] = level2[e.child] + 1
    <3>1. CASE b = r
      <4>1. e = own
        BY <1>7, <2>2, <3>1
      <4>2. e.child = o /\ e.key = low[o]
        BY <1>5, <4>1
      <4>3. o # NoNode
        BY <1>1, NodesAreNotNone
      <4>4. ns2[o].parentID = r
        BY <1>1, <1>7
      <4>5. o \in live2 /\ low2[o] = low[o] /\ level2[r] = level2[o] + 1
        BY <1>1, <1>3
      <4> QED
        BY <3>1, <4>2, <4>3, <4>4, <4>5
    <3>2. CASE b \in live
      <4>1. e \in ns[b].page /\ level[b] > 0
        BY <1>1, <1>3, <1>7, <2>2, <3>2
      <4>2. /\ e.child \in live /\ e.child # o /\ ns[e.child].parentID = b
            /\ e.key = low[e.child] /\ level[b] = level[e.child] + 1
        BY <3>2, <4>1 DEF Shape, ChildrenKnow
      <4>3. e.child # root
        BY <1>8, <3>2, <4>2
      <4> QED
        <5>1. e.child # NoNode /\ e.child \in NodeIDs \ {r, root, o}
          BY <1>1, <4>2, <4>3, NodesAreNotNone
        <5> QED
          BY <1>3, <1>7, <3>2, <4>2, <5>1
    <3> QED
      BY <2>2, <3>1, <3>2
  <2> QED
    BY <2>1, <2>2 DEF ChildrenKnow
<1>19. Sized(ns2, live2, r)
  <2>1. Sized(ns, live, root)
    BY DEF Shape
  <2>2. /\ \A x \in live : ns2[x].page = ns[x].page /\ TupleCount(ns2, x) = TupleCount(ns, x)
                           /\ HasChildren(ns2, x) = HasChildren(ns, x) /\ MaxTupleCount(ns2, x) = MaxTupleCount(ns, x)
    BY <1>1, <1>7 DEF TupleCount, HasChildren, MaxTupleCount
  <2>3. IsFiniteSet(ns2[r].page) /\ TupleCount(ns2, r) = 1
    <3>1. IsFiniteSet({own}) /\ Cardinality({own}) = 1
      BY FS_Singleton
    <3> QED
      BY <1>7, <3>1 DEF TupleCount
  <2>4. MaxTupleCount(ns2, r) \in Nat /\ MaxTupleCount(ns2, r) >= 2
    BY PageSizeAssumption DEF MaxTupleCount
  <2>5. /\ \A x \in live2 : IsFiniteSet(ns2[x].page) /\ TupleCount(ns2, x) <= MaxTupleCount(ns2, x)
    BY <2>1, <2>2, <2>3, <2>4 DEF Sized
  <2>6. \A x \in live2 \ {r} : TupleCount(ns2, x) >= MaxTupleCount(ns2, x) \div 2
    BY <2>1, <2>2 DEF Sized
  <2> QED
    BY <2>3, <2>5, <2>6 DEF Sized
<1>20. Blank(ns2, live2)
  <2> SUFFICES ASSUME NEW x \in NodeIDs \ live2 PROVE ns2[x] = BlankNode
    BY DEF Blank
  <2>1. ns[x] = BlankNode /\ x \notin {r, root, o}
    BY <1>1 DEF Shape, Blank
  <2>2. /\ ns2[x].firstChildID = NoNode /\ ns2[x].parentID = NoNode /\ ns2[x].siblingLeftID = NoNode
        /\ ns2[x].siblingRightID = NoNode /\ ns2[x].page = {}
    BY <1>7, <2>1 DEF BlankNode
  <2>3. ns2[x] \in Node
    BY <1>6 DEF Table
  <2> QED
    BY <2>2, <2>3 DEF Node, BlankNode
<1> QED
  BY <1>3, <1>6, <1>10, <1>12, <1>13, <1>14, <1>15, <1>16, <1>17, <1>18, <1>19, <1>20
     DEF Shape, Ghosts, ns2, low2, level2

\* x keeps X and its new right sibling gets F, whose keys are m and larger;
\* between the two an index entry with key m may get lost
Divides(ns, ns2, live, low, level, x, fresh, m, X, F) ==
  /\ x \in live /\ fresh \in NodeIDs \ live /\ m \in Nat /\ low[x] < m
  /\ InRangeOf(live, low, level, x, m)
  /\ ns2 \in Table
  /\ \A y \in NodeIDs :
       /\ ns2[y].page = IF y = x THEN X ELSE IF y = fresh THEN F ELSE ns[y].page
       /\ ns2[y].siblingLeftID = IF y = fresh THEN x ELSE IF y = ns[x].siblingRightID THEN fresh
                                 ELSE ns[y].siblingLeftID
       /\ ns2[y].siblingRightID = IF y = fresh THEN ns[x].siblingRightID ELSE IF y = x THEN fresh
                                  ELSE ns[y].siblingRightID
       /\ y # fresh => ns2[y].firstChildID = ns[y].firstChildID
       /\ y \notin live \cup {fresh} => ns2[y].parentID = ns[y].parentID
  /\ \A e \in X : /\ e.key \in Nat /\ e.key < m
                  /\ level[x] = 0 => low[x] <= e.key /\ e.child = NoNode
                  /\ level[x] > 0 => low[x] < e.key
  /\ \A e \in F : /\ e.key \in Nat /\ InRangeOf(live, low, level, x, e.key)
                  /\ level[x] = 0 => m <= e.key /\ e.child = NoNode
                  /\ level[x] > 0 => m < e.key
  /\ level[x] = 0 => LeafTuple(m) \in F /\ (low[x] # -1 => LeafTuple(low[x]) \in X)
  /\ HalfFull(ns2, x, X) /\ HalfFull(ns2, fresh, F)

\* the parts of Shape that are not about parents and children
OrderedShape(ns, live, root, low, level) ==
  /\ ns \in Table /\ live \subseteq NodeIDs /\ Ghosts(low, level)
  /\ Blank(ns, live)
  /\ LowsDiffer(live, low, level)
  /\ KeysInRange(ns, live, low, level)
  /\ LowsAreTuples(ns, live, low, level)
  /\ LeftLinks(ns, live, low, level)
  /\ RightLinks(ns, live, low, level)
  /\ Sized(ns, live, root)

\* a node that is divided in two at a key of its range leaves the nodes of its level in order
LEMMA DividedNode ==
  ASSUME NEW ns, NEW ns2, NEW live, NEW root, NEW low, NEW level, NEW o,
         Shape(ns, live, root, low, level, o),
         NEW x, NEW fresh, NEW m, NEW X, NEW F,
         Divides(ns, ns2, live, low, level, x, fresh, m, X, F),
         HasChildren(ns2, root) => TupleCount(ns2, root) >= 1
  PROVE  OrderedShape(ns2, live \cup {fresh}, root, [low EXCEPT ![fresh] = m],
                      [level EXCEPT ![fresh] = level[x]])
<1> DEFINE low2 == [low EXCEPT ![fresh] = m]
           level2 == [level EXCEPT ![fresh] = level[x]]
           live2 == live \cup {fresh}
           r == ns[x].siblingRightID
<1>1. /\ x \in live /\ x \in NodeIDs /\ fresh \in NodeIDs /\ fresh \notin live /\ x # fresh
      /\ live \subseteq NodeIDs /\ live2 \subseteq NodeIDs
      /\ low \in [NodeIDs -> Int] /\ level \in [NodeIDs -> Nat] /\ m \in Nat /\ low[x] < m
      /\ InRangeOf(live, low, level, x, m)
  BY DEF Divides, Shape, Ghosts
<1>2. /\ low2 \in [NodeIDs -> Int] /\ level2 \in [NodeIDs -> Nat]
      /\ low2[fresh] = m /\ level2[fresh] = level[x]
      /\ \A y \in live : low2[y] = low[y] /\ level2[y] = level[y]
  BY <1>1
<1>3. \A y \in NodeIDs :
       /\ ns2[y].page = IF y = x THEN X ELSE IF y = fresh THEN F ELSE ns[y].page
       /\ ns2[y].siblingLeftID = IF y = fresh THEN x ELSE IF y = r THEN fresh ELSE ns[y].siblingLeftID
       /\ ns2[y].siblingRightID = IF y = fresh THEN r ELSE IF y = x THEN fresh ELSE ns[y].siblingRightID
       /\ y # fresh => ns2[y].firstChildID = ns[y].firstChildID
  BY DEF Divides
<1> HIDE DEF low2, level2
<1>4. \A z \in live : level[z] = level[x] =>
        /\ low[z] # m /\ (low[x] < low[z] <=> m < low[z]) /\ (low[z] <= low[x] <=> low[z] < m)
  BY <1>1 DEF InRangeOf
<1>5. LowsDiffer(live2, low2, level2)
  <2>1. \A y \in live2 : low2[y] >= -1
    BY <1>1, <1>2 DEF Shape, LowsDiffer
  <2>2. ASSUME NEW y \in live2, NEW z \in live2, level2[y] = level2[z], low2[y] = low2[z] PROVE y = z
    <3>1. CASE y \in live /\ z \in live
      BY <1>2, <2>2, <3>1 DEF Shape, LowsDiffer
    <3>2. CASE y = fresh /\ z \in live
      BY <1>2, <1>4, <2>2, <3>2
    <3>3. CASE z = fresh /\ y \in live
      BY <1>2, <1>4, <2>2, <3>3
    <3> QED
      BY <2>2, <3>1, <3>2, <3>3
  <2> QED
    BY <2>1, <2>2 DEF LowsDiffer
\* the range of a node ends where it did, or at m
<1>6. \A y \in live, k \in Int : y # x /\ InRangeOf(live, low, level, y, k)
        => InRangeOf(live2, low2, level2, y, k)
  <2> SUFFICES ASSUME NEW y \in live, NEW k \in Int, y # x, InRangeOf(live, low, level, y, k),
                      NEW z \in live2, level2[z] = level2[y], low2[y] < low2[z]
               PROVE  k < low2[z]
    BY DEF InRangeOf
  <2>1. CASE z \in live
    BY <1>2, <2>1 DEF InRangeOf
  <2>2. CASE z = fresh
    <3>1. level[y] = level[x] /\ low[y] < m
      BY <1>2, <2>2
    <3>2. low[y] < low[x]
      BY <1>1, <1>4, <3>1 DEF Shape, LowsDiffer
    <3>3. k < low[x]
      BY <1>1, <3>1, <3>2 DEF InRangeOf
    <3> QED
      BY <1>1, <1>2, <2>2, <3>3
  <2> QED
    BY <2>1, <2>2
<1>7. \A k \in Int : k < m => InRangeOf(live2, low2, level2, x, k)
  <2> SUFFICES ASSUME NEW k \in Int, k < m, NEW z \in live2, level2[z] = level2[x], low2[x] < low2[z]
               PROVE  k < low2[z]
    BY DEF InRangeOf
  <2>1. CASE z \in live
    BY <1>1, <1>2, <1>4, <2>1
  <2>2. CASE z = fresh
    BY <1>2, <2>2
  <2> QED
    BY <2>1, <2>2
<1>8. \A k \in Int : InRangeOf(live, low, level, x, k) => InRangeOf(live2, low2, level2, fresh, k)
  <2> SUFFICES ASSUME NEW k \in Int, InRangeOf(live, low, level, x, k),
                      NEW z \in live2, level2[z] = level2[fresh], low2[fresh] < low2[z]
               PROVE  k < low2[z]
    BY DEF InRangeOf
  <2>1. z \in live /\ level[z] = level[x] /\ m < low[z] /\ low2[z] = low[z]
    BY <1>1, <1>2
  <2> QED
    BY <1>4, <2>1 DEF InRangeOf
<1>9. KeysInRange(ns2, live2, low2, level2)
  <2> SUFFICES ASSUME NEW y \in live2, NEW e \in ns2[y].page
               PROVE  /\ level2[y] = 0 => low2[y] <= e.key /\ e.child = NoNode
                      /\ level2[y] > 0 => low2[y] < e.key
                      /\ InRangeOf(live2, low2, level2, y, e.key)
    BY DEF KeysInRange
  <2>1. CASE y = x
    <3>1. e \in X
      BY <1>1, <1>3, <2>1
    <3>2. /\ e.key \in Nat /\ e.key < m
          /\ level[x] = 0 => low[x] <= e.key /\ e.child = NoNode
          /\ level[x] > 0 => low[x] < e.key
      BY <3>1 DEF Divides
    <3> QED
      BY <1>1, <1>2, <1>7, <2>1, <3>2
  <2>2. CASE y = fresh
    <3>1. e \in F
      BY <1>1, <1>3, <2>2
    <3>2. /\ e.key \in Nat /\ InRangeOf(live, low, level, x, e.key)
          /\ level[x] = 0 => m <= e.key /\ e.child = NoNode
          /\ level[x] > 0 => m < e.key
      BY <3>1 DEF Divides
    <3> QED
      BY <1>1, <1>2, <1>8, <2>2, <3>2
  <2>3. CASE y \in live /\ y # x
    <3>1. e \in ns[y].page /\ ns \in Table
      BY <1>1, <1>3, <2>3 DEF Shape
    <3>2. e.key \in Int
      BY <1>1, <2>3, <3>1, PageTypes
    <3>3. /\ level[y] = 0 => low[y] <= e.key /\ e.child = NoNode
          /\ level[y] > 0 => low[y] < e.key
          /\ InRangeOf(live, low, level, y, e.key)
      BY <2>3, <3>1 DEF Shape, KeysInRange
    <3> QED
      BY <1>2, <1>6, <2>3, <3>2, <3>3
  <2> QED
    BY <2>1, <2>2, <2>3
<1>10. LowsAreTuples(ns2, live2, low2, level2)
  <2> SUFFICES ASSUME NEW y \in live2, level2[y] = 0, low2[y] # -1
               PROVE  LeafTuple(low2[y]) \in ns2[y].page
    BY DEF LowsAreTuples
  <2>1. CASE y \in {x, fresh}
    BY <1>1, <1>2, <1>3, <2>1 DEF Divides
  <2>2. CASE y \in live /\ y # x
    BY <1>1, <1>2, <1>3, <2>2 DEF Shape, LowsAreTuples
  <2> QED
    BY <2>1, <2>2
<1>11. x # NoNode /\ fresh # NoNode
  BY <1>1 DEF NodeIDs, NoNode
<1>12. r # NoNode => r \in live /\ r # x /\ r # fresh /\ low[r] # -1 /\ ns[r].siblingLeftID = x
                     /\ level[r] = level[x] /\ low[x] < low[r] /\ m < low[r]
  <2> SUFFICES ASSUME r # NoNode
               PROVE  r \in live /\ r # x /\ r # fresh /\ low[r] # -1 /\ ns[r].siblingLeftID = x
                      /\ level[r] = level[x] /\ low[x] < low[r] /\ m < low[r]
    OBVIOUS
  <2>1. r \in live /\ ns[r].siblingLeftID = x /\ level[r] = level[x] /\ low[x] < low[r]
    BY <1>1 DEF Shape, RightLinks
  <2>2. low[r] # -1
    BY <1>11, <2>1 DEF Shape, LeftLinks
  <2> QED
    BY <1>1, <1>4, <2>1, <2>2
<1>13. LeftLinks(ns2, live2, low2, level2)
  <2> SUFFICES ASSUME NEW y \in live2, NEW l, l = ns2[y].siblingLeftID
               PROVE  /\ l = NoNode <=> low2[y] = -1
                      /\ l # NoNode => l \in live2 /\ ns2[l].siblingRightID = y
    BY DEF LeftLinks
  <2>1. CASE y = fresh
    BY <1>1, <1>2, <1>3, <1>11, <2>1
  <2>2. CASE y = r
    <3>1. r # NoNode /\ r \in live /\ r # fresh /\ low[r] # -1
      BY <1>1, <1>12, <2>2 DEF NodeIDs, NoNode
    <3>2. l = fresh /\ ns2[fresh].siblingRightID = r
      BY <1>1, <1>3, <2>2, <3>1
    <3> QED
      BY <1>2, <1>11, <2>2, <3>1, <3>2
  <2>3. CASE y \in live /\ y # r
    <3>1. l = ns[y].siblingLeftID
      BY <1>1, <1>3, <2>3
    <3>2. /\ l = NoNode <=> low[y] = -1
          /\ l # NoNode => l \in live /\ ns[l].siblingRightID = y
      BY <2>3, <3>1 DEF Shape, LeftLinks
    <3>3. l # x \/ l = NoNode
      BY <2>3, <3>2
    <3> QED
      BY <1>1, <1>2, <1>3, <2>3, <3>2, <3>3
  <2> QED
    BY <2>1, <2>2, <2>3
<1>14. RightLinks(ns2, live2, low2, level2)
  <2> SUFFICES ASSUME NEW y \in live2, NEW s, s = ns2[y].siblingRightID
               PROVE  /\ s = NoNode => \A z \in live2 : level2[z] = level2[y] => low2[z] <= low2[y]
                      /\ s # NoNode =>
                           /\ s \in live2 /\ ns2[s].siblingLeftID = y
                           /\ level2[s] = level2[y] /\ low2[y] < low2[s]
                           /\ \A z \in live2 : level2[z] = level2[y] => low2[z] <= low2[y] \/ low2[s] <= low2[z]
    BY DEF RightLinks
  <2>1. CASE y = fresh
    <3>1. s = r
      BY <1>1, <1>3, <2>1
    <3>2. /\ r = NoNode => \A z \in live : level[z] = level[x] => low[z] <= low[x]
          /\ r # NoNode => \A z \in live : level[z] = level[x] => low[z] <= low[x] \/ low[r] <= low[z]
      BY <1>1 DEF Shape, RightLinks
    <3>3. CASE r = NoNode
      BY <1>1, <1>2, <1>4, <2>1, <3>1, <3>2, <3>3
    <3>4. CASE r # NoNode
      <4>1. s \in live2 /\ ns2[s].siblingLeftID = y /\ level2[s] = level2[y] /\ low2[y] < low2[s]
        BY <1>1, <1>2, <1>3, <1>12, <2>1, <3>1, <3>4
      <4>2. ASSUME NEW z \in live2, level2[z] = level2[y] PROVE low2[z] <= low2[y] \/ low2[s] <= low2[z]
        BY <1>1, <1>2, <1>4, <1>12, <2>1, <3>1, <3>2, <3>4, <4>2
      <4> QED
        BY <3>1, <3>4, <4>1, <4>2
    <3> QED
      BY <3>3, <3>4
  <2>2. CASE y = x
    <3>1. s = fresh
      BY <1>1, <1>3, <2>2
    <3> QED
      BY <1>1, <1>2, <1>3, <1>4, <1>11, <2>2, <3>1
  <2>3. CASE y \in live /\ y # x
    <3>1. s = ns[y].siblingRightID
      BY <1>1, <1>3, <2>3
    <3>2. /\ s = NoNode => \A z \in live : level[z] = level[y] => low[z] <= low[y]
          /\ s # NoNode =>
               /\ s \in live /\ ns[s].siblingLeftID = y
               /\ level[s] = level[y] /\ low[y] < low[s]
               /\ \A z \in live : level[z] = level[y] => low[z] <= low[y] \/ low[s] <= low[z]
      BY <2>3, <3>1 DEF Shape, RightLinks
    <3>3. CASE s = NoNode
      <4>1. ASSUME level[x] = level[y] PROVE m <= low[y]
        <5>1. low[x] <= low[y] /\ low[x] # low[y]
          BY <1>1, <2>3, <3>2, <3>3, <4>1 DEF Shape, LowsDiffer
        <5> QED
          BY <1>1, <1>4, <2>3, <4>1, <5>1
      <4> QED
        BY <1>1, <1>2, <2>3, <3>2, <3>3, <4>1
    <3>4. CASE s # NoNode
      <4>1. s # r /\ s # fresh
        BY <1>1, <1>12, <2>3, <3>2, <3>4
      <4>2. s \in live2 /\ ns2[s].siblingLeftID = y /\ level2[s] = level2[y] /\ low2[y] < low2[s]
        BY <1>1, <1>2, <1>3, <2>3, <3>2, <3>4, <4>1
      <4>3. ASSUME level[x] = level[y] PROVE m <= low[y] \/ low[s] <= m
        <5>1. low[x] <= low[y] \/ low[s] <= low[x]
          BY <1>1, <3>2, <3>4, <4>3
        <5>2. low[x] # low[y]
          BY <1>1, <2>3, <4>3 DEF Shape, LowsDiffer
        <5> QED
          BY <1>1, <1>4, <2>3, <3>2, <3>4, <4>3, <5>1, <5>2
      <4>4. ASSUME NEW z \in live2, level2[z] = level2[y] PROVE low2[z] <= low2[y] \/ low2[s] <= low2[z]
        BY <1>1, <1>2, <2>3, <3>2, <3>4, <4>3, <4>4
      <4> QED
        BY <3>4, <4>2, <4>4
    <3> QED
      BY <3>3, <3>4
  <2> QED
    BY <2>1, <2>2, <2>3
<1>15. Sized(ns2, live2, root)
  <2>1. Sized(ns, live, root)
    BY DEF Shape
  <2>2. \A y \in live : HasChildren(ns2, y) = HasChildren(ns, y) /\ MaxTupleCount(ns2, y) = MaxTupleCount(ns, y)
    BY <1>1, <1>3 DEF HasChildren, MaxTupleCount
  <2>3. \A y \in live : y # x => ns2[y].page = ns[y].page /\ TupleCount(ns2, y) = TupleCount(ns, y)
    BY <1>1, <1>3 DEF TupleCount
  <2>4. \A y \in {x, fresh} : /\ IsFiniteSet(ns2[y].page) /\ TupleCount(ns2, y) <= MaxTupleCount(ns2, y)
                              /\ TupleCount(ns2, y) >= MaxTupleCount(ns2, y) \div 2
    BY <1>1, <1>3 DEF Divides, HalfFull, TupleCount
  <2>5. \A y \in live2 : IsFiniteSet(ns2[y].page) /\ TupleCount(ns2, y) <= MaxTupleCount(ns2, y)
    BY <2>1, <2>2, <2>3, <2>4 DEF Sized
  <2>6. \A y \in live2 \ {root} : TupleCount(ns2, y) >= MaxTupleCount(ns2, y) \div 2
    BY <2>1, <2>2, <2>3, <2>4 DEF Sized
  <2> QED
    BY <2>5, <2>6 DEF Sized
<1>16. Blank(ns2, live2)
  <2> SUFFICES ASSUME NEW y \in NodeIDs \ live2 PROVE ns2[y] = BlankNode
    BY DEF Blank
  <2>1. ns[y] = BlankNode /\ y \notin {x, fresh, r}
    BY <1>1, <1>11, <1>12 DEF Shape, Blank, NodeIDs, NoNode
  <2>2. /\ ns2[y].firstChildID = NoNode /\ ns2[y].siblingLeftID = NoNode
        /\ ns2[y].siblingRightID = NoNode /\ ns2[y].page = {}
    BY <1>3, <2>1 DEF BlankNode
  <2>3. ns2[y] \in Node /\ ns2[y].parentID = NoNode
    BY <2>1 DEF Divides, Table, BlankNode
  <2> QED
    BY <2>2, <2>3 DEF Node, BlankNode
<1> QED
  BY <1>1, <1>2, <1>5, <1>9, <1>10, <1>13, <1>14, <1>15, <1>16 DEF OrderedShape, Ghosts, Divides, low2, level2

\* a leaf that was split has an orphan at its right
LEMMA DividedLeaf ==
  ASSUME NEW ns, NEW ns2, NEW live, NEW root, NEW low, NEW level,
         Shape(ns, live, root, low, level, NoNode),
         NEW x, NEW fresh, NEW m, NEW X, NEW F,
         Divides(ns, ns2, live, low, level, x, fresh, m, X, F), level[x] = 0,
         ns2[fresh].firstChildID = NoNode,
         \A y \in NodeIDs : ns2[y].parentID = IF y = fresh THEN ns[x].parentID ELSE ns[y].parentID
  PROVE  Shape(ns2, live \cup {fresh}, root, [low EXCEPT ![fresh] = m],
               [level EXCEPT ![fresh] = level[x]], fresh)
<1> DEFINE low2 == [low EXCEPT ![fresh] = m]
           level2 == [level EXCEPT ![fresh] = level[x]]
           live2 == live \cup {fresh}
<1>1. /\ x \in live /\ x \in NodeIDs /\ fresh \in NodeIDs /\ fresh \notin live /\ x # fresh
      /\ live \subseteq NodeIDs /\ live2 \subseteq NodeIDs
      /\ low \in [NodeIDs -> Int] /\ level \in [NodeIDs -> Nat] /\ m \in Nat
      /\ root \in live /\ root \in NodeIDs
  BY DEF Divides, Shape, Ghosts, RootOnTop
<1>2. /\ low2 \in [NodeIDs -> Int] /\ level2 \in [NodeIDs -> Nat]
      /\ low2[fresh] = m /\ level2[fresh] = 0
      /\ \A y \in live : low2[y] = low[y] /\ level2[y] = level[y]
  BY <1>1
<1>3. /\ \A y \in live : ns2[y].firstChildID = ns[y].firstChildID /\ ns2[y].parentID = ns[y].parentID
      /\ \A y \in live : y # x => ns2[y].page = ns[y].page
  BY <1>1 DEF Divides
<1>4. HasChildren(ns2, root) => TupleCount(ns2, root) >= 1
  <2>1. HasChildren(ns, x) <=> level[x] # 0
    BY <1>1 DEF Shape, RootOnTop, HasChildren
  <2> QED
    BY <1>1, <1>3, <2>1 DEF Shape, Sized, HasChildren, TupleCount
<1>5. OrderedShape(ns2, live2, root, low2, level2)
  BY <1>4, DividedNode
<1> HIDE DEF low2, level2
<1>6. fresh # NoNode /\ x # NoNode
  BY <1>1 DEF NodeIDs, NoNode
<1>7. RootOnTop(ns2, live2, root, low2, level2, fresh)
  <2>1. \A y \in live2 : level2[y] <= level2[root] /\ (y \notin {root, fresh} => level2[y] < level2[root])
    BY <1>1, <1>2, <1>6 DEF Shape, RootOnTop, NodeIDs, NoNode
  <2>2. \A y \in live2 : ns2[y].firstChildID = NoNode <=> level2[y] = 0
    BY <1>2, <1>3 DEF Shape, RootOnTop
  <2>3. ns2[root].parentID = NoNode /\ low2[root] = -1
    BY <1>1, <1>2, <1>3 DEF Shape, RootOnTop
  <2> QED
    BY <1>1, <2>1, <2>2, <2>3 DEF RootOnTop
<1>8. ParentsKnow(ns2, live2, root, low2, level2, fresh)
  <2> SUFFICES ASSUME NEW y \in live2 \ {root, fresh}, NEW p, p = ns2[y].parentID
               PROVE  /\ p \in live2 /\ level2[p] = level2[y] + 1
                      /\ ns2[p].firstChildID = y \/ BranchTuple(low2[y], y) \in ns2[p].page
    BY DEF ParentsKnow
  <2>1. y \in live /\ y # NoNode /\ p = ns[y].parentID
    BY <1>1, <1>3 DEF NodeIDs, NoNode
  <2>2. /\ p \in live /\ level[p] = level[y] + 1
        /\ ns[p].firstChildID = y \/ BranchTuple(low[y], y) \in ns[p].page
    BY <2>1 DEF Shape, ParentsKnow
  <2>3. p # x
    BY <1>1, <2>1, <2>2
  <2> QED
    BY <1>2, <1>3, <2>1, <2>2, <2>3
<1>9. ChildrenKnow(ns2, live2, low2, level2, fresh)
  <2>1. ASSUME NEW b \in live2, NEW c, c = ns2[b].firstChildID, c # NoNode
        PROVE  /\ c \in live2 /\ c # fresh /\ ns2[c].parentID = b
               /\ low2[c] = low2[b] /\ level2[b] = level2[c] + 1
    <3>1. b \in live /\ c = ns[b].firstChildID
      BY <1>3, <2>1
    <3>2. c \in live /\ ns[c].parentID = b /\ low[c] = low[b] /\ level[b] = level[c] + 1
      BY <2>1, <3>1 DEF Shape, ChildrenKnow
    <3> QED
      BY <1>1, <1>2, <1>3, <3>1, <3>2
  <2>2. ASSUME NEW b \in live2, level2[b] > 0, NEW e \in ns2[b].page
        PROVE  /\ e.child \in live2 /\ e.child # fresh /\ ns2[e.child].parentID = b
               /\ e.key = low2[e.child] /\ level2[b] = level2[e.child] + 1
    <3>1. b \in live /\ level[b] > 0 /\ b # x /\ e \in ns[b].page
      BY <1>1, <1>2, <1>3, <2>2
    <3>2. /\ e.child \in live /\ ns[e.child].parentID = b
          /\ e.key = low[e.child] /\ level[b] = level[e.child] + 1
      BY <3>1 DEF Shape, ChildrenKnow
    <3> QED
      BY <1>1, <1>2, <1>3, <3>1, <3>2
  <2> QED
    BY <2>1, <2>2 DEF ChildrenKnow
<1> QED
  BY <1>5, <1>7, <1>8, <1>9 DEF Shape, OrderedShape, low2, level2

\* the page of a branch and the entry of an orphan are divided about the entry
\* of c, which becomes the first child of the new branch
BranchDivides(ns, ns2, low, x, fresh, o, m, c, X, F) ==
  /\ ns[x].page \cup {BranchTuple(low[o], o)} = X \cup F \cup {BranchTuple(m, c)}
  /\ ns2[fresh].firstChildID = c
  /\ \A y \in NodeIDs : ns2[y].parentID =
       IF y = fresh THEN ns[x].parentID
       ELSE IF y = c \/ \E e \in F : e.child = y THEN fresh
       ELSE ns[y].parentID

\* and so has a branch: the children that go to the new branch have it as their parent
LEMMA DividedBranch ==
  ASSUME NEW ns, NEW ns2, NEW live, NEW root, NEW low, NEW level, NEW o,
         Shape(ns, live, root, low, level, o), o \in live,
         NEW x, NEW fresh, NEW m, NEW c, NEW X, NEW F,
         Divides(ns, ns2, live, low, level, x, fresh, m, X, F),
         BranchDivides(ns, ns2, low, x, fresh, o, m, c, X, F),
         ns[o].parentID = x, level[x] = level[o] + 1
  PROVE  Shape(ns2, live \cup {fresh}, root, [low EXCEPT ![fresh] = m],
               [level EXCEPT ![fresh] = level[x]], fresh)
<1> DEFINE low2 == [low EXCEPT ![fresh] = m]
           level2 == [level EXCEPT ![fresh] = level[x]]
           live2 == live \cup {fresh}
           own == BranchTuple(low[o], o)
           med == BranchTuple(m, c)
           all == ns[x].page \cup {own}
<1>1. /\ x \in live /\ x \in NodeIDs /\ fresh \in NodeIDs /\ fresh \notin live /\ x # fresh
      /\ live \subseteq NodeIDs /\ live2 \subseteq NodeIDs /\ o \in NodeIDs /\ ns \in Table
      /\ low \in [NodeIDs -> Int] /\ level \in [NodeIDs -> Nat] /\ m \in Nat
      /\ root \in live /\ root \in NodeIDs /\ level[x] > 0 /\ o # fresh /\ low[x] < m
  <2>1. level[o] \in Nat
    BY DEF Shape, Ghosts
  <2> QED
    BY <2>1 DEF Divides, Shape, Ghosts, RootOnTop
<1>2. /\ low2 \in [NodeIDs -> Int] /\ level2 \in [NodeIDs -> Nat]
      /\ low2[fresh] = m /\ level2[fresh] = level[x]
      /\ \A y \in live : low2[y] = low[y] /\ level2[y] = level[y]
  BY <1>1
<1>3. /\ \A y \in live : ns2[y].firstChildID = ns[y].firstChildID
      /\ ns2[x].page = X /\ ns2[fresh].page = F
      /\ \A y \in live : y # x => ns2[y].page = ns[y].page
      /\ \A e \in X : e.key \in Nat /\ low[x] < e.key /\ e.key < m
      /\ \A e \in F : e.key \in Nat /\ m < e.key
  BY <1>1 DEF Divides
<1>4. /\ all = X \cup F \cup {med}
      /\ ns2[fresh].firstChildID = c
      /\ \A y \in NodeIDs : ns2[y].parentID =
           IF y = fresh THEN ns[x].parentID
           ELSE IF y = c \/ \E e \in F : e.child = y THEN fresh
           ELSE ns[y].parentID
  BY DEF BranchDivides
<1>5. \A e \in all : /\ e.child \in live /\ ns[e.child].parentID = x
                     /\ e.key = low[e.child] /\ level[x] = level[e.child] + 1
                     /\ e = BranchTuple(low[e.child], e.child)
  <2>1. own.child = o /\ own.key = low[o]
    BY DEF BranchTuple
  <2>2. \A e \in ns[x].page : e = BranchTuple(e.key, e.child)
    BY <1>1, PageTypes
  <2>3. \A e \in ns[x].page : e.child \in live /\ ns[e.child].parentID = x /\ e.key = low[e.child]
                              /\ level[x] = level[e.child] + 1
    BY <1>1 DEF Shape, ChildrenKnow
  <2> QED
    BY <2>1, <2>2, <2>3
<1>6. med.key = m /\ med.child = c
  BY DEF BranchTuple
<1>7. c \in live /\ low[c] = m /\ level[x] = level[c] + 1 /\ ns[c].parentID = x /\ c \in NodeIDs
  BY <1>1, <1>4, <1>5, <1>6
<1>8. \A e \in all : low[x] < e.key
  <2>1. \A e \in X \cup F \cup {med} : low[x] < e.key
    BY <1>1, <1>3, <1>6
  <2> QED
    BY <1>4, <2>1
<1>9. HasChildren(ns2, root) => TupleCount(ns2, root) >= 1
  <2>1. CASE root = x
    <3>1. MaxTupleCount(ns2, x) \in Nat /\ MaxTupleCount(ns2, x) >= 2
      BY PageSizeAssumption DEF MaxTupleCount
    <3>2. TupleCount(ns2, x) >= MaxTupleCount(ns2, x) \div 2 /\ TupleCount(ns2, x) \in Nat
      BY <1>3, FS_CardinalityType DEF Divides, HalfFull, TupleCount
    <3> QED
      BY <2>1, <3>1, <3>2
  <2>2. CASE root # x
    BY <1>1, <1>3, <2>2 DEF Shape, Sized, HasChildren, TupleCount
  <2> QED
    BY <2>1, <2>2
<1>10. OrderedShape(ns2, live2, root, low2, level2)
  BY <1>9, DividedNode
<1> HIDE DEF low2, level2, own, med, all
<1>11. fresh # NoNode /\ x # NoNode /\ c # NoNode
  BY <1>1, <1>7, NodesAreNotNone
\* the children of the new branch, and those that stay
<1>12. \A y \in live : y = c \/ (\E e \in F : e.child = y) => \E e \in all : e.child = y /\ m <= e.key
  <2> SUFFICES ASSUME NEW y \in live, y = c \/ (\E e \in F : e.child = y)
               PROVE  \E e \in all : e.child = y /\ m <= e.key
    OBVIOUS
  <2>1. CASE y = c
    BY <1>1, <1>4, <1>6, <2>1
  <2>2. CASE \E e \in F : e.child = y
    BY <1>1, <1>3, <1>4, <2>2
  <2> QED
    BY <2>1, <2>2
<1>13. \A y \in live : ns[y].parentID # x => ns2[y].parentID = ns[y].parentID
  BY <1>1, <1>4, <1>5, <1>12
<1>14. \A e \in X : ns2[e.child].parentID = x
  <2> SUFFICES ASSUME NEW e \in X PROVE ns2[e.child].parentID = x
    OBVIOUS
  <2>1. e \in all /\ e.child \in live /\ ns[e.child].parentID = x /\ e.key < m /\ e.key = low[e.child]
    BY <1>3, <1>4, <1>5
  <2>2. ~\E f \in all : f.child = e.child /\ m <= f.key
    BY <1>1, <1>5, <2>1
  <2> QED
    BY <1>1, <1>4, <1>12, <2>1, <2>2
<1>15. RootOnTop(ns2, live2, root, low2, level2, fresh)
  <2>1. \A y \in live : level[y] <= level[root] /\ (y \notin {root, o} => level[y] < level[root])
    BY DEF Shape, RootOnTop
  <2>2. level[o] \in Nat /\ level[x] \in Nat /\ level[root] \in Nat /\ level[o] < level[root]
    BY <1>1, <2>1
  <2>3. \A y \in live2 : level2[y] <= level2[root] /\ (y \notin {root, fresh} => level2[y] < level2[root])
    BY <1>1, <1>2, <2>1, <2>2
  <2>4. \A y \in live2 : ns2[y].firstChildID = NoNode <=> level2[y] = 0
    BY <1>1, <1>2, <1>3, <1>4, <1>11 DEF Shape, RootOnTop
  <2>5. ns[root].parentID = NoNode /\ low[root] = -1
    BY DEF Shape, RootOnTop
  <2>6. ns2[root].parentID = NoNode
    BY <1>1, <1>11, <1>13, <2>5
  <2> QED
    BY <1>1, <1>2, <2>3, <2>4, <2>5, <2>6 DEF RootOnTop
<1>16. ParentsKnow(ns2, live2, root, low2, level2, fresh)
  <2> SUFFICES ASSUME NEW y \in live2 \ {root, fresh}, NEW p, p = ns2[y].parentID
               PROVE  /\ p \in live2 /\ level2[p] = level2[y] + 1
                      /\ ns2[p].firstChildID = y \/ BranchTuple(low2[y], y) \in ns2[p].page
    BY DEF ParentsKnow
  <2>1. y \in live /\ y \in NodeIDs /\ y # fresh
    BY <1>1
  <2>2. CASE y = c
    <3>1. p = fresh
      BY <1>4, <2>1, <2>2
    <3> QED
      BY <1>2, <1>4, <1>7, <2>2, <3>1
  <2>3. CASE y # c /\ \E e \in F : e.child = y
    <3>1. PICK e \in F : e.child = y
      BY <2>3
    <3>2. p = fresh
      BY <1>4, <2>1, <2>3
    <3>3. e = BranchTuple(low[y], y) /\ level[x] = level[y] + 1
      BY <1>4, <1>5, <3>1
    <3> QED
      BY <1>2, <1>3, <2>1, <3>1, <3>2, <3>3
  <2>4. CASE ~(y = c \/ \E e \in F : e.child = y)
    <3>1. p = ns[y].parentID
      BY <1>4, <2>1, <2>4
    <3>2. \A e \in all : e.child = y => e \in X
      BY <1>4, <1>6, <2>4
    <3>3. CASE y = o
      <4>1. own \in X /\ own = BranchTuple(low[o], o)
        BY <3>2, <3>3 DEF all, own, BranchTuple
      <4> QED
        BY <1>1, <1>2, <1>3, <2>1, <3>1, <3>3, <4>1
    <3>4. CASE y # o
      <4>1. /\ p \in live /\ level[p] = level[y] + 1
            /\ ns[p].firstChildID = y \/ BranchTuple(low[y], y) \in ns[p].page
        BY <2>1, <3>1, <3>4 DEF Shape, ParentsKnow
      <4>2. CASE p = x
        <5>1. BranchTuple(low[y], y) \in ns[p].page => BranchTuple(low[y], y) \in X
          BY <3>2, <4>2 DEF all, BranchTuple
        <5> QED
          BY <1>2, <1>3, <2>1, <4>1, <4>2, <5>1
      <4>3. CASE p # x
        BY <1>2, <1>3, <2>1, <4>1, <4>3
      <4> QED
        BY <4>2, <4>3
    <3> QED
      BY <3>3, <3>4
  <2> QED
    BY <2>2, <2>3, <2>4
<1>17. ChildrenKnow(ns2, live2, low2, level2, fresh)
  <2>1. ASSUME NEW b \in live2, NEW f, f = ns2[b].firstChildID, f # NoNode
        PROVE  /\ f \in live2 /\ f # fresh /\ ns2[f].parentID = b
               /\ low2[f] = low2[b] /\ level2[b] = level2[f] + 1
    <3>1. CASE b = fresh
      <4>1. f = c /\ ns2[c].parentID = fresh /\ c # fresh
        BY <1>1, <1>4, <1>7, <2>1, <3>1
      <4> QED
        BY <1>2, <1>7, <3>1, <4>1
    <3>2. CASE b \in live
      <4>1. f = ns[b].firstChildID
        BY <1>3, <2>1, <3>2
      <4>2. f \in live /\ ns[f].parentID = b /\ low[f] = low[b] /\ level[b] = level[f] + 1
        BY <2>1, <3>2, <4>1 DEF Shape, ChildrenKnow
      <4>3. ns2[f].parentID = b
        <5>1. CASE b # x
          BY <1>13, <4>2, <5>1
        <5>2. CASE b = x
          <6>1. ~\E e \in all : e.child = f
            BY <1>1, <1>5, <1>8, <4>2, <5>2
          <6> QED
            BY <1>1, <1>4, <1>12, <4>2, <6>1
        <5> QED
          BY <5>1, <5>2
      <4> QED
        BY <1>1, <1>2, <3>2, <4>2, <4>3
    <3> QED
      BY <2>1, <3>1, <3>2
  <2>2. ASSUME NEW b \in live2, level2[b] > 0, NEW e \in ns2[b].page
        PROVE  /\ e.child \in live2 /\ e.child # fresh /\ ns2[e.child].parentID = b
               /\ e.key = low2[e.child] /\ level2[b] = level2[e.child] + 1
    <3>1. CASE b = fresh
      <4>1. e \in F /\ e \in all
        BY <1>3, <1>4, <2>2, <3>1
      <4>2. e.child \in live /\ e.key = low[e.child] /\ level[x] = level[e.child] + 1
        BY <1>5, <4>1
      <4>3. ns2[e.child].parentID = fresh
        BY <1>1, <1>4, <4>1, <4>2
      <4> QED
        BY <1>1, <1>2, <3>1, <4>2, <4>3
    <3>2. CASE b = x
      <4>1. e \in X /\ e \in all
        BY <1>3, <1>4, <2>2, <3>2
      <4>2. e.child \in live /\ e.key = low[e.child] /\ level[x] = level[e.child] + 1
        BY <1>5, <4>1
      <4> QED
        BY <1>1, <1>2, <1>14, <3>2, <4>1, <4>2
    <3>3. CASE b \in live /\ b # x
      <4>1. e \in ns[b].page /\ level[b] > 0
        BY <1>2, <1>3, <2>2, <3>3
      <4>2. /\ e.child \in live /\ ns[e.child].parentID = b
            /\ e.key = low[e.child] /\ level[b] = level[e.child] + 1
        BY <3>3, <4>1 DEF Shape, ChildrenKnow
      <4> QED
        BY <1>1, <1>2, <1>13, <3>3, <4>2
    <3> QED
      BY <2>2, <3>1, <3>2, <3>3
  <2> QED
    BY <2>1, <2>2 DEF ChildrenKnow
<1> QED
  BY <1>10, <1>15, <1>16, <1>17 DEF Shape, OrderedShape, low2, level2

-----------------------------------------------------------------------------
(***************************************************************************)
(* What the functions of the code do to the table, field by field.         *)
(***************************************************************************)
\* what the operations on the node table do, field by field
PageChanges(ns, ns2, i, P) ==
  /\ ns2 \in Table /\ SameLinks(ns, ns2)
  /\ \A y \in NodeIDs : ns2[y].page = IF y = i THEN P ELSE ns[y].page

\* the same for two pages at once
PagesChange(ns, ns2, i, P, j, Q) ==
  /\ ns2 \in Table /\ SameLinks(ns, ns2)
  /\ \A y \in NodeIDs : ns2[y].page = IF y = i THEN P ELSE IF y = j THEN Q ELSE ns[y].page

\* assigning one page leaves the rest of the table alone
LEMMA PageChange ==
  ASSUME NEW ns \in Table, NEW i \in NodeIDs, NEW P \in SUBSET Entry,
         NEW ns2, ns2 = [ns EXCEPT ![i].page = P]
  PROVE  PageChanges(ns, ns2, i, P)
<1>1. ns2 \in Table
  BY PageUpdate
<1>2. ns2[i] = [ns[i] EXCEPT !.page = P] /\ \A y \in NodeIDs : y # i => ns2[y] = ns[y]
  BY DEF Table
<1>3. ns[i] \in Node
  BY DEF Table
<1>4. /\ ns2[i].page = P /\ ns2[i].firstChildID = ns[i].firstChildID
      /\ ns2[i].parentID = ns[i].parentID /\ ns2[i].siblingLeftID = ns[i].siblingLeftID
      /\ ns2[i].siblingRightID = ns[i].siblingRightID
  BY <1>2, <1>3 DEF Node
<1> QED
  BY <1>1, <1>2, <1>4 DEF SameLinks, PageChanges

\* erase_index_entry takes one entry from the parent's page
LEMMA EraseIndexEntryFields ==
  ASSUME NEW ns \in Table, NEW x \in NodeIDs, NEW e, FindIndexEntry(ns, x) = {e},
         ns[x].parentID \in NodeIDs
  PROVE  PageChanges(ns, EraseIndexEntry(ns, x), ns[x].parentID, ns[ns[x].parentID].page \ {e})
<1>1. The({e}) = e
  BY DEF The
<1> DEFINE p == ns[x].parentID
           P == ns[p].page \ {e}
<1>2. EraseIndexEntry(ns, x) = [ns EXCEPT ![p].page = P]
  BY <1>1 DEF EraseIndexEntry
<1>3. P \in SUBSET Entry
  BY FieldTypes
<1> HIDE DEF P
<1>4. PageChanges(ns, EraseIndexEntry(ns, x), p, P)
  BY <1>2, <1>3, PageChange
<1> QED
  BY <1>4 DEF P

\* add_tuple adds one entry to a page
LEMMA AddTupleFields ==
  ASSUME NEW ns \in Table, NEW x \in NodeIDs, NEW e \in Entry
  PROVE  PageChanges(ns, AddTuple(ns, x, e), x, ns[x].page \cup {e})
<1> DEFINE P == ns[x].page \cup {e}
<1>1. P \in SUBSET Entry
  BY FieldTypes
<1>2. AddTuple(ns, x, e) = [ns EXCEPT ![x].page = P]
  BY DEF AddTuple
<1> HIDE DEF P
<1>3. PageChanges(ns, AddTuple(ns, x, e), x, P)
  BY <1>1, <1>2, PageChange
<1> QED
  BY <1>3 DEF P

\* a transfer of tuples takes them from one page and adds them to the other
LEMMA TransferFields ==
  ASSUME NEW ns \in Table, NEW source \in NodeIDs, NEW target \in NodeIDs, source # target,
         NEW S, S \subseteq Entry
  PROVE  PagesChange(ns, Transfer(ns, source, target, S), source, ns[source].page \ S,
                     target, ns[target].page \cup S)
<1> DEFINE P == ns[target].page \cup S
           Q == ns[source].page \ S
           ns1 == [ns EXCEPT ![target].page = P]
<1>1. P \in SUBSET Entry /\ Q \in SUBSET Entry
  BY FieldTypes
<1>2. Transfer(ns, source, target, S) = [ns1 EXCEPT ![source].page = Q]
  BY DEF Transfer, Table
<1> HIDE DEF P, Q
<1>3. PageChanges(ns, ns1, target, P)
  BY <1>1, PageChange
<1> HIDE DEF ns1
<1>4. PageChanges(ns1, Transfer(ns, source, target, S), source, Q)
  <2>1. ns1 \in Table
    BY <1>3 DEF PageChanges
  <2> QED
    BY <1>1, <1>2, <2>1, PageChange
<1>5. PagesChange(ns, Transfer(ns, source, target, S), source, Q, target, P)
  BY <1>3, <1>4 DEF SameLinks, PageChanges, PagesChange
<1> QED
  BY <1>5 DEF P, Q

\* add_index_entry adds the first key of the child's page, with the child, to its parent's
LEMMA AddIndexEntryFields ==
  ASSUME NEW ns \in Table, NEW x \in NodeIDs, NEW e \in Entry, FirstOf(ns[x].page) = {e},
         ns[x].parentID \in NodeIDs, HasLessThanMaxTuples(ns, ns[x].parentID)
  PROVE  /\ CanAddIndexEntry(ns, x)
         /\ PageChanges(ns, AddIndexEntry(ns, x), ns[x].parentID,
                        ns[ns[x].parentID].page \cup {BranchTuple(e.key, x)})
<1>1. The({e}) = e
  BY DEF The
<1> DEFINE p == ns[x].parentID
           P == ns[p].page \cup {BranchTuple(e.key, x)}
<1>2. AddIndexEntry(ns, x) = [ns EXCEPT ![p].page = P]
  BY <1>1 DEF AddIndexEntry
<1>3. CanAddIndexEntry(ns, x)
  BY DEF CanAddIndexEntry, NodeIDs, NoNode
<1>4. P \in SUBSET Entry
  BY FieldTypes, NodeRefsAreIDsOrNone DEF BranchTuple, Entry
<1> HIDE DEF P
<1>5. PageChanges(ns, AddIndexEntry(ns, x), p, P)
  BY <1>2, <1>4, PageChange
<1> QED
  BY <1>3, <1>5 DEF P

\* connecting a fresh node makes it the right sibling of x, between x and the sibling it had
LEMMA ConnectFreshFields ==
  ASSUME NEW ns \in Table, NEW fresh \in NodeIDs, NEW x \in NodeIDs, x # fresh,
         NEW r, r = ns[x].siblingRightID, r # x, r # fresh
  PROVE  /\ ConnectFresh(ns, fresh, x) \in Table
         /\ \A y \in NodeIDs :
              /\ ConnectFresh(ns, fresh, x)[y].page = IF y = fresh THEN {} ELSE ns[y].page
              /\ ConnectFresh(ns, fresh, x)[y].firstChildID = ns[y].firstChildID
              /\ ConnectFresh(ns, fresh, x)[y].parentID =
                   IF y = fresh THEN ns[x].parentID ELSE ns[y].parentID
              /\ ConnectFresh(ns, fresh, x)[y].siblingLeftID =
                   IF y = fresh THEN x ELSE IF y = r THEN fresh ELSE ns[y].siblingLeftID
              /\ ConnectFresh(ns, fresh, x)[y].siblingRightID =
                   IF y = fresh THEN r ELSE IF y = x THEN fresh ELSE ns[y].siblingRightID
<1> DEFINE ns2 == ConnectFresh(ns, fresh, x)
           n == [ns[fresh] EXCEPT !.page = {}, !.parentID = ns[x].parentID,
                                  !.siblingLeftID = x, !.siblingRightID = r]
<1>1. ns2 \in Table
  BY ConnectFreshType
<1>2. r \in NodeRefs /\ (r # NoNode => r \in NodeIDs) /\ NoNode \notin NodeIDs
  BY FieldTypes, NodeRefsAreIDsOrNone DEF NodeIDs, NoNode
<1>3. ns2[fresh] = n
  BY <1>2 DEF ConnectFresh, Table
<1>4. ns2[x] = [ns[x] EXCEPT !.siblingRightID = fresh]
  BY <1>2 DEF ConnectFresh, Table
<1>5. r # NoNode => ns2[r] = [ns[r] EXCEPT !.siblingLeftID = fresh]
  BY <1>2 DEF ConnectFresh, Table
<1>6. \A y \in NodeIDs : y \notin {fresh, x, r} => ns2[y] = ns[y]
  BY <1>2 DEF ConnectFresh, Table
<1>7. /\ n.page = {} /\ n.firstChildID = ns[fresh].firstChildID /\ n.parentID = ns[x].parentID
      /\ n.siblingLeftID = x /\ n.siblingRightID = r
  BY DEF Table, Node
<1>8. /\ ns2[x].page = ns[x].page /\ ns2[x].firstChildID = ns[x].firstChildID
      /\ ns2[x].parentID = ns[x].parentID /\ ns2[x].siblingLeftID = ns[x].siblingLeftID
      /\ ns2[x].siblingRightID = fresh
  BY <1>4 DEF Table, Node
<1>9. r # NoNode => /\ ns2[r].page = ns[r].page /\ ns2[r].firstChildID = ns[r].firstChildID
                    /\ ns2[r].parentID = ns[r].parentID /\ ns2[r].siblingLeftID = fresh
                    /\ ns2[r].siblingRightID = ns[r].siblingRightID
  BY <1>2, <1>5 DEF Table, Node
<1> HIDE DEF ns2, n
<1>10. \A y \in NodeIDs :
         /\ ns2[y].page = IF y = fresh THEN {} ELSE ns[y].page
         /\ ns2[y].firstChildID = ns[y].firstChildID
         /\ ns2[y].parentID = IF y = fresh THEN ns[x].parentID ELSE ns[y].parentID
         /\ ns2[y].siblingLeftID = IF y = fresh THEN x ELSE IF y = r THEN fresh ELSE ns[y].siblingLeftID
         /\ ns2[y].siblingRightID = IF y = fresh THEN r ELSE IF y = x THEN fresh ELSE ns[y].siblingRightID
  BY <1>2, <1>3, <1>6, <1>7, <1>8, <1>9
<1> QED
  BY <1>1, <1>10 DEF ns2

\* update_parent_pointers sets the parents of a branch's children and nothing else
LEMMA UpdateParentPointersFields ==
  ASSUME NEW ns \in Table, NEW old \in NodeIDs, NEW new \in NodeIDs
  PROVE  /\ UpdateParentPointers(ns, old, new) \in Table
         /\ \A y \in NodeIDs :
              /\ UpdateParentPointers(ns, old, new)[y].page = ns[y].page
              /\ UpdateParentPointers(ns, old, new)[y].firstChildID = ns[y].firstChildID
              /\ UpdateParentPointers(ns, old, new)[y].siblingLeftID = ns[y].siblingLeftID
              /\ UpdateParentPointers(ns, old, new)[y].siblingRightID = ns[y].siblingRightID
              /\ UpdateParentPointers(ns, old, new)[y].parentID =
                   IF y \in Children(ns, old) THEN new ELSE ns[y].parentID
<1> DEFINE ns2 == UpdateParentPointers(ns, old, new)
<1>1. ns2 \in Table
  BY UpdateParentPointersType
<1>2. ASSUME NEW y \in NodeIDs
      PROVE  /\ ns2[y].page = ns[y].page /\ ns2[y].firstChildID = ns[y].firstChildID
             /\ ns2[y].siblingLeftID = ns[y].siblingLeftID
             /\ ns2[y].siblingRightID = ns[y].siblingRightID
             /\ ns2[y].parentID = IF y \in Children(ns, old) THEN new ELSE ns[y].parentID
  <2>1. ns[y] \in Node
    BY DEF Table
  <2>2. ns2[y] = IF y \in Children(ns, old) THEN [ns[y] EXCEPT !.parentID = new] ELSE ns[y]
    BY DEF UpdateParentPointers
  <2> HIDE DEF ns2
  <2> QED
    BY <2>1, <2>2 DEF Node
<1> QED
  BY <1>1, <1>2

\* the smallest entry of a page is the one no other is before
LEMMA TheSmallest ==
  ASSUME NEW S, PageOf(S), NEW e \in S, \A f \in S : e.key <= f.key
  PROVE  FirstOf(S) = {e} /\ Lowest(S, 1) = {e}
<1>1. \A f \in S : f.key \in Nat
  BY EntriesAreOrdered
<1>2. \A f \in S : f # e => e.key < f.key
  BY <1>1 DEF PageOf, Distinct
<1>3. FirstOf(S) = {e}
  BY <1>1, <1>2, EntriesAreOrdered DEF FirstOf
<1>4. \A f \in S : f # e => e \in {g \in S : Before(g, f)}
  BY <1>2, EntriesAreOrdered
<1>5. {g \in S : Before(g, e)} = {}
  BY <1>1, <1>2, EntriesAreOrdered
<1>6. Cardinality({g \in S : Before(g, e)}) < 1
  BY <1>5, FS_EmptySet
<1>7. ASSUME NEW f \in S, f # e PROVE ~(Cardinality({g \in S : Before(g, f)}) < 1)
  <2> DEFINE B == {g \in S : Before(g, f)}
  <2>1. IsFiniteSet(B)
    BY FS_Subset DEF PageOf
  <2>2. B # {}
    BY <1>4, <1>7
  <2> HIDE DEF B
  <2>3. Cardinality(B) \in Nat /\ Cardinality(B) # 0
    BY <2>1, <2>2, FS_CardinalityType, FS_EmptySet
  <2> QED
    BY <2>3 DEF B
<1> QED
  BY <1>3, <1>6, <1>7 DEF Lowest

\* and the largest is the one no other is after
LEMMA TheLargest ==
  ASSUME NEW S, PageOf(S), NEW e \in S, \A f \in S : f.key <= e.key
  PROVE  LastOf(S) = {e} /\ Highest(S, 1) = {e}
<1>1. \A f \in S : f.key \in Nat
  BY EntriesAreOrdered
<1>2. \A f \in S : f # e => f.key < e.key
  BY <1>1 DEF PageOf, Distinct
<1>3. LastOf(S) = {e}
  BY <1>1, <1>2, EntriesAreOrdered DEF LastOf
<1>4. \A f \in S : f # e => e \in {g \in S : Before(f, g)}
  BY <1>2, EntriesAreOrdered
<1>5. {g \in S : Before(e, g)} = {}
  BY <1>1, <1>2, EntriesAreOrdered
<1>6. Cardinality({g \in S : Before(e, g)}) < 1
  BY <1>5, FS_EmptySet
<1>7. ASSUME NEW f \in S, f # e PROVE ~(Cardinality({g \in S : Before(f, g)}) < 1)
  <2> DEFINE B == {g \in S : Before(f, g)}
  <2>1. IsFiniteSet(B)
    BY FS_Subset DEF PageOf
  <2>2. B # {}
    BY <1>4, <1>7
  <2> HIDE DEF B
  <2>3. Cardinality(B) \in Nat /\ Cardinality(B) # 0
    BY <2>1, <2>2, FS_CardinalityType, FS_EmptySet
  <2> QED
    BY <2>3 DEF B
<1> QED
  BY <1>3, <1>6, <1>7 DEF Highest

\* a tuple whose key a page has not makes it one larger
LEMMA PageWithTuple ==
  ASSUME NEW S, PageOf(S), NEW e \in Entry, \A f \in S : f.key # e.key
  PROVE  /\ PageOf(S \cup {e}) /\ e \notin S
         /\ Cardinality(S) \in Nat /\ Cardinality(S \cup {e}) = Cardinality(S) + 1
<1>1. e \notin S
  OBVIOUS
<1>2. IsFiniteSet(S)
  BY DEF PageOf
<1>3. /\ Cardinality(S) \in Nat /\ Cardinality(S \cup {e}) = Cardinality(S) + 1
      /\ IsFiniteSet(S \cup {e})
  BY <1>1, <1>2, FS_CardinalityType, FS_AddElement
<1> QED
  BY <1>1, <1>3 DEF PageOf, Distinct

\* a page without one of its tuples is one smaller
LEMMA PageWithoutTuple ==
  ASSUME NEW S, PageOf(S), NEW e \in S
  PROVE  /\ PageOf(S \ {e}) /\ Cardinality(S) \in Nat
         /\ Cardinality(S \ {e}) = Cardinality(S) - 1
<1>1. IsFiniteSet(S)
  BY DEF PageOf
<1>2. /\ Cardinality(S) \in Nat /\ Cardinality(S \ {e}) = Cardinality(S) - 1
      /\ IsFiniteSet(S \ {e})
  BY <1>1, FS_CardinalityType, FS_RemoveElement
<1> QED
  BY <1>2 DEF PageOf, Distinct

\* a page is divided into a part of it and the rest
LEMMA PageParts ==
  ASSUME NEW S, PageOf(S), NEW T, T \subseteq S
  PROVE  /\ PageOf(T) /\ PageOf(S \ T)
         /\ Cardinality(S) \in Nat /\ Cardinality(T) \in Nat /\ Cardinality(T) <= Cardinality(S)
         /\ Cardinality(S \ T) = Cardinality(S) - Cardinality(T)
<1>1. IsFiniteSet(S) /\ IsFiniteSet(T) /\ IsFiniteSet(S \ T)
  BY FS_Subset DEF PageOf
<1>2. Cardinality(S) \in Nat /\ Cardinality(T) \in Nat
  BY <1>1, FS_CardinalityType
<1>3. Cardinality(S \ T) = Cardinality(S) - Cardinality(S \cap T)
  BY <1>1, FS_Difference
<1>4. S \cap T = T
  OBVIOUS
<1>5. Cardinality(T) <= Cardinality(S)
  BY <1>1, FS_Subset
<1> QED
  BY <1>1, <1>2, <1>3, <1>4, <1>5 DEF PageOf, Distinct

-----------------------------------------------------------------------------
(***************************************************************************)
(* A full leaf lends a tuple to one of its siblings.                       *)
(***************************************************************************)
\* a tuple that is not in leaf x and belongs there
TupleFits(ns, live, low, level, x, t) ==
  /\ x \in live /\ level[x] = 0 /\ t \in Nat /\ low[x] <= t
  /\ InRangeOf(live, low, level, x, t)
  /\ \A e \in ns[x].page : e.key # t

\* what is known of a leaf and its entries
LEMMA LeafEntries ==
  ASSUME NEW ns, NEW live, NEW root, NEW low, NEW level, NEW orphan,
         Shape(ns, live, root, low, level, orphan), NEW x \in live, level[x] = 0
  PROVE  /\ x \in NodeIDs /\ low[x] \in Int /\ ~HasChildren(ns, x)
         /\ MaxTupleCount(ns, x) = MaxLeafTuples
         /\ PageOf(ns[x].page) /\ TupleCount(ns, x) \in Nat /\ TupleCount(ns, x) <= MaxLeafTuples
         /\ \A e \in ns[x].page : /\ e \in Entry /\ e.key \in Nat /\ e.child = NoNode
                                  /\ e = LeafTuple(e.key) /\ low[x] <= e.key
                                  /\ InRangeOf(live, low, level, x, e.key)
<1>1. x \in NodeIDs /\ low[x] \in Int /\ ns \in Table
  BY DEF Shape, Ghosts
<1>2. ~HasChildren(ns, x)
  BY DEF Shape, RootOnTop, HasChildren
<1>3. MaxTupleCount(ns, x) = MaxLeafTuples
  BY <1>2 DEF MaxTupleCount
<1>4. PageOf(ns[x].page)
  BY PagesAreOrdered
<1>5. TupleCount(ns, x) \in Nat /\ TupleCount(ns, x) <= MaxLeafTuples
  BY <1>3, FS_CardinalityType DEF Shape, Sized, TupleCount
<1>6. \A e \in ns[x].page : /\ e.child = NoNode /\ low[x] <= e.key
                            /\ InRangeOf(live, low, level, x, e.key)
  BY DEF Shape, KeysInRange
<1>7. \A e \in ns[x].page : e.key \in Nat /\ e \in Entry /\ (e.child = NoNode => e = LeafTuple(e.key))
  BY <1>1, PageTypes
<1> QED
  BY <1>1, <1>2, <1>3, <1>4, <1>5, <1>6, <1>7

\* a leaf tuple has its key and no child
LEMMA LeafTupleFields ==
  ASSUME NEW t \in Nat
  PROVE  LeafTuple(t) \in Entry /\ LeafTuple(t).key = t /\ LeafTuple(t).child = NoNode
BY NodeRefsAreIDsOrNone DEF LeafTuple, Entry

\* two neighbouring leaves under one parent
Neighbours(ns, live, root, low, level, l, r) ==
  /\ r \in live /\ level[r] = 0 /\ l # r /\ low[l] < low[r] /\ low[l] >= -1
  /\ low[r] \in Nat /\ low[l] \in Int
  /\ LeafTuple(low[r]) \in ns[r].page
  /\ l # root /\ r # root
  /\ ns[r].parentID \in live /\ ns[r].parentID \in NodeIDs
  /\ ns[r].parentID # l /\ ns[r].parentID # r
  /\ PageOf(ns[ns[r].parentID].page) /\ HasChildren(ns, ns[r].parentID)
  /\ BranchTuple(low[r], r) \in ns[ns[r].parentID].page
  /\ FindIndexEntry(ns, r) = {BranchTuple(low[r], r)}
  /\ TupleCount(ns, ns[r].parentID) \in Nat /\ TupleCount(ns, ns[r].parentID) <= MaxBranchTuples

\* siblings with the same parent are neighbours there: the right one is not its first child
LEMMA NeighbourLeaves ==
  ASSUME NEW ns, NEW live, NEW root, NEW low, NEW level,
         Shape(ns, live, root, low, level, NoNode),
         NEW l \in live, level[l] = 0, NEW r, ns[l].siblingRightID = r, r # NoNode,
         ns[r].parentID = ns[l].parentID
  PROVE  Neighbours(ns, live, root, low, level, l, r)
<1> DEFINE p == ns[r].parentID
<1>1. /\ l \in NodeIDs /\ low[l] \in Int /\ low[l] >= -1 /\ live \subseteq NodeIDs
      /\ low \in [NodeIDs -> Int] /\ level \in [NodeIDs -> Nat]
  BY DEF Shape, Ghosts, LowsDiffer
<1>2. r \in live /\ level[r] = 0 /\ low[l] < low[r]
  BY DEF Shape, RightLinks
<1>3. low[r] \in Nat /\ l # r /\ low[r] # -1
  BY <1>1, <1>2
<1>4. l # NoNode /\ r # NoNode
  BY <1>1 DEF NodeIDs, NoNode
<1>5. r # root /\ level[root] \in Nat /\ low[root] = -1
  BY <1>1, <1>3 DEF Shape, RootOnTop
<1>6. l # root
  BY <1>1, <1>2, <1>4, <1>5 DEF Shape, RootOnTop
<1>7. /\ p \in live /\ p # NoNode /\ p # r /\ level[p] = 1
      /\ ns[p].firstChildID # NoNode
      /\ ns[p].firstChildID = r <=> low[p] = low[r]
      /\ ns[p].firstChildID # r => BranchTuple(low[r], r) \in ns[p].page
  BY <1>2, <1>4, <1>5, PlaceInParent
<1>8. p # l /\ low[p] <= low[l]
  BY <1>4, <1>6, PlaceInParent
<1>9. low[p] # low[r]
  BY <1>1, <1>2, <1>7, <1>8
<1>10. FindIndexEntry(ns, r) = {BranchTuple(low[r], r)}
  BY <1>2, <1>4, <1>5, <1>7, <1>9, IndexEntryIsFound
<1>11. LeafTuple(low[r]) \in ns[r].page
  BY <1>2, <1>3 DEF Shape, LowsAreTuples
<1>12. /\ PageOf(ns[p].page) /\ HasChildren(ns, p) /\ MaxTupleCount(ns, p) = MaxBranchTuples
  BY <1>7, PagesAreOrdered DEF HasChildren, MaxTupleCount
<1>13. TupleCount(ns, p) \in Nat /\ TupleCount(ns, p) <= MaxBranchTuples
  BY <1>7, <1>12, FS_CardinalityType DEF Shape, Sized, TupleCount
<1> QED
  BY <1>1, <1>2, <1>3, <1>5, <1>6, <1>7, <1>8, <1>9, <1>10, <1>11, <1>12, <1>13 DEF Neighbours

\* what a redistribution comes to: the index entry of r is renewed, L and R are
\* the new pages
Renews(ns, ns2, low, l, r, m, L, R) ==
  /\ ns2 \in Table /\ SameLinks(ns, ns2)
  /\ \A y \in NodeIDs : ns2[y].page =
       IF y = l THEN L ELSE IF y = r THEN R
       ELSE IF y = ns[r].parentID
         THEN (ns[y].page \ {BranchTuple(low[r], r)}) \cup {BranchTuple(m, r)}
       ELSE ns[y].page

\* a redistribution erases the index entry of the right leaf, deals the tuples and adds the
\* entry of its new first tuple, for which there is room: the old one's
LEMMA RenewedIndexEntry ==
  ASSUME NEW ns, NEW live, NEW root, NEW low, NEW level,
         Shape(ns, live, root, low, level, NoNode),
         NEW l \in live, level[l] = 0, NEW r, r = ns[l].siblingRightID, r # NoNode,
         ns[r].parentID = ns[l].parentID,
         NEW ns1, ns1 = EraseIndexEntry(ns, r),
         NEW L, NEW R, NEW ns3, PagesChange(ns1, ns3, l, L, r, R),
         NEW m \in Nat, FirstOf(R) = {LeafTuple(m)}
  PROVE  CanAddIndexEntry(ns3, r) /\ Renews(ns, AddIndexEntry(ns3, r), low, l, r, m, L, R)
<1> DEFINE p == ns[r].parentID
           own == BranchTuple(low[r], r)
           ns4 == AddIndexEntry(ns3, r)
<1>1. /\ r \in live /\ l # r /\ p \in NodeIDs /\ p # l /\ p # r /\ own \in ns[p].page
      /\ FindIndexEntry(ns, r) = {own} /\ PageOf(ns[p].page) /\ HasChildren(ns, p)
      /\ TupleCount(ns, p) \in Nat /\ TupleCount(ns, p) <= MaxBranchTuples
  <2>1. Neighbours(ns, live, root, low, level, l, r)
    BY NeighbourLeaves
  <2> QED
    BY <2>1 DEF Neighbours
<1> HIDE DEF own
<1>2. l \in NodeIDs /\ r \in NodeIDs /\ ns \in Table
  BY <1>1 DEF Shape
<1>3. PageChanges(ns, ns1, p, ns[p].page \ {own})
  BY <1>1, <1>2, EraseIndexEntryFields
<1>0. /\ ns3 \in Table /\ SameLinks(ns1, ns3)
      /\ \A y \in NodeIDs : ns3[y].page = IF y = l THEN L ELSE IF y = r THEN R ELSE ns1[y].page
  BY DEF PagesChange
<1>4. ns3[p].page = ns[p].page \ {own} /\ ns3[r].page = R
  BY <1>0, <1>1, <1>2, <1>3 DEF PageChanges
<1>5. SameLinks(ns, ns3) /\ ns3[r].parentID = p
  BY <1>0, <1>2, <1>3 DEF SameLinks, PageChanges
<1>6. HasLessThanMaxTuples(ns3, p)
  <2>1. MaxTupleCount(ns3, p) = MaxBranchTuples
    BY <1>1, <1>5, SameLinksKeepSizes DEF MaxTupleCount
  <2>2. Cardinality(ns[p].page \ {own}) = Cardinality(ns[p].page) - 1
    BY <1>1, PageWithoutTuple
  <2>3. TupleCount(ns3, p) = TupleCount(ns, p) - 1
    BY <1>4, <2>2 DEF TupleCount
  <2> QED
    BY <1>1, <2>1, <2>3, PageSizeAssumption DEF HasLessThanMaxTuples
<1>7. LeafTuple(m) \in Entry /\ LeafTuple(m).key = m
  BY LeafTupleFields
<1>8. /\ CanAddIndexEntry(ns3, r)
      /\ PageChanges(ns3, ns4, p, ns3[p].page \cup {BranchTuple(m, r)})
  <2>1. FirstOf(ns3[r].page) = {LeafTuple(m)} /\ ns3[r].parentID \in NodeIDs
        /\ HasLessThanMaxTuples(ns3, ns3[r].parentID)
    BY <1>1, <1>4, <1>5, <1>6
  <2>2. /\ CanAddIndexEntry(ns3, r)
        /\ PageChanges(ns3, ns4, ns3[r].parentID,
                       ns3[ns3[r].parentID].page \cup {BranchTuple(LeafTuple(m).key, r)})
    BY <1>0, <1>2, <1>7, <2>1, AddIndexEntryFields
  <2> HIDE DEF ns4
  <2> QED
    BY <1>5, <1>7, <2>2
<1> HIDE DEF ns4
<1>9. SameLinks(ns, ns4)
  BY <1>5, <1>8 DEF SameLinks, PageChanges
<1>10. \A y \in NodeIDs : ns4[y].page =
              IF y = l THEN L ELSE IF y = r THEN R
              ELSE IF y = p THEN (ns[y].page \ {own}) \cup {BranchTuple(m, r)}
              ELSE ns[y].page
  <2> SUFFICES ASSUME NEW y \in NodeIDs
               PROVE  ns4[y].page =
                        IF y = l THEN L ELSE IF y = r THEN R
                        ELSE IF y = p THEN (ns[y].page \ {own}) \cup {BranchTuple(m, r)}
                        ELSE ns[y].page
    OBVIOUS
  <2>1. ns4[y].page = IF y = p THEN ns3[y].page \cup {BranchTuple(m, r)} ELSE ns3[y].page
    BY <1>8 DEF PageChanges
  <2>2. CASE y = p
    BY <1>1, <1>4, <2>1, <2>2
  <2>3. CASE y # p
    <3>1. ns1[y].page = ns[y].page
      BY <1>3, <2>3 DEF PageChanges
    <3> QED
      BY <1>0, <2>1, <2>3, <3>1
  <2> QED
    BY <2>2, <2>3
<1> QED
  BY <1>8, <1>9, <1>10 DEF ns4, own, PageChanges, Renews

\* what a redistribution with an insertion leaves behind: l and r have the
\* tuples they had, and t
Redistributed(ns, ns2, live, low, level, l, r, t) ==
  \E m, L, R : /\ BoundaryMoves(ns, ns2, live, low, level, l, r, m, L, R)
               /\ L \cup R = ns[l].page \cup ns[r].page \cup {LeafTuple(t)}

\* and a tree stays a tree
LEMMA RedistributedKeepsShape ==
  ASSUME NEW ns, NEW ns2, NEW live, NEW root, NEW low, NEW level,
         Shape(ns, live, root, low, level, NoNode),
         NEW l, NEW r, NEW t, Redistributed(ns, ns2, live, low, level, l, r, t), l # root
  PROVE  \E m : Shape(ns2, live, root, [low EXCEPT ![r] = m], level, NoNode)
BY MovedBoundary DEF Redistributed

\* redistribute_leaf_left_and_insert: the first tuple of the full leaf r goes to its left
\* sibling, which has room, and t goes into r; r does not get empty on the way and nothing
\* aborts.  As t is not below the low key of r, which is its first tuple, t belongs there
LEMMA LentToLeft ==
  ASSUME NEW ns, NEW live, NEW root, NEW low, NEW level,
         Shape(ns, live, root, low, level, NoNode),
         NEW r, NEW t, TupleFits(ns, live, low, level, r, t),
         ~HasLessThanMaxTuples(ns, r),
         NEW l, l = ns[r].siblingLeftID, IsUsefulSibling(ns, r, l), HasLessThanMaxTuples(ns, l),
         NEW ns1, ns1 = EraseIndexEntry(ns, r),
         NEW first, first = Lowest(ns1[r].page, 1),
         NEW ns2, ns2 = Transfer(ns1, r, l, first),
         NEW ns3, ns3 = AddTuple(ns2, r, LeafTuple(t))
  PROVE  /\ CanFindIndexEntry(ns, r) /\ CanTransfer(ns1, r, l, first) /\ CanAddIndexEntry(ns3, r)
         /\ Redistributed(ns, AddIndexEntry(ns3, r), live, low, level, l, r, t)
         /\ l \in live /\ l # root
<1> DEFINE p == ns[r].parentID
           P == ns[r].page
           Q == ns[l].page
           new == LeafTuple(t)
           e1 == LeafTuple(low[r])
           L == Q \cup {e1}
           R == (P \ {e1}) \cup {new}
<1> HIDE DEF p, P, Q, new, e1, L, R
<1>1. /\ r \in live /\ level[r] = 0 /\ t \in Nat /\ low[r] <= t
      /\ InRangeOf(live, low, level, r, t) /\ \A e \in P : e.key # t
  BY DEF TupleFits, P
<1>2. l # NoNode /\ ns[r].parentID = ns[l].parentID
  BY DEF IsUsefulSibling
<1>3. /\ l \in live /\ ns[l].siblingRightID = r /\ l # r /\ level[l] = 0 /\ low[l] < low[r]
      /\ r # NoNode /\ r \in NodeIDs /\ l \in NodeIDs /\ ns \in Table
  <2>1. r \in NodeIDs /\ r # NoNode /\ ns \in Table
    BY <1>1 DEF Shape, NodeIDs, NoNode
  <2>2. l \in live /\ ns[l].siblingRightID = r /\ l # r /\ level[l] = level[r] /\ low[l] < low[r]
    BY <1>1, <1>2, LeftSibling
  <2> QED
    BY <1>1, <2>1, <2>2 DEF Shape
<1>4. /\ low[l] >= -1 /\ low[r] \in Nat /\ low[l] \in Int /\ e1 \in P
      /\ l # root /\ r # root /\ p \in NodeIDs /\ p # l /\ p # r
      /\ FindIndexEntry(ns, r) = {BranchTuple(low[r], r)}
  <2>1. /\ low[l] >= -1 /\ low[r] \in Nat /\ low[l] \in Int /\ LeafTuple(low[r]) \in ns[r].page
        /\ l # root /\ r # root /\ p \in NodeIDs /\ p # l /\ p # r
        /\ FindIndexEntry(ns, r) = {BranchTuple(low[r], r)}
    <3>1. Neighbours(ns, live, root, low, level, l, r)
      BY <1>2, <1>3, NeighbourLeaves
    <3> QED
      BY <3>1 DEF Neighbours, p
  <2> QED
    BY <2>1 DEF P, e1
<1>5. /\ PageOf(P) /\ MaxTupleCount(ns, r) = MaxLeafTuples /\ Cardinality(P) = MaxLeafTuples
      /\ \A e \in P : /\ e \in Entry /\ e.key \in Nat /\ e.child = NoNode /\ low[r] <= e.key
                      /\ InRangeOf(live, low, level, r, e.key)
  <2>1. TupleCount(ns, r) \in Nat /\ TupleCount(ns, r) <= MaxLeafTuples /\ MaxTupleCount(ns, r) = MaxLeafTuples
    BY <1>1, LeafEntries DEF P
  <2>2. TupleCount(ns, r) = MaxLeafTuples
    BY <2>1, PageSizeAssumption DEF HasLessThanMaxTuples
  <2> QED
    BY <1>1, <2>1, <2>2, LeafEntries DEF TupleCount, P
<1>6. /\ PageOf(Q) /\ MaxTupleCount(ns, l) = MaxLeafTuples
      /\ Cardinality(Q) \in Nat /\ Cardinality(Q) < MaxLeafTuples
      /\ \A e \in Q : /\ e \in Entry /\ e.key \in Nat /\ e.child = NoNode /\ low[l] <= e.key
                      /\ e.key < low[r]
  <2>1. \A e \in Q : /\ e \in Entry /\ e.key \in Nat /\ e.child = NoNode /\ low[l] <= e.key
                      /\ InRangeOf(live, low, level, l, e.key)
    BY <1>3, LeafEntries DEF Q
  <2>2. \A k : InRangeOf(live, low, level, l, k) => k < low[r]
    BY <1>1, <1>3 DEF InRangeOf
  <2>3. PageOf(Q) /\ MaxTupleCount(ns, l) = MaxLeafTuples /\ TupleCount(ns, l) \in Nat
    BY <1>3, LeafEntries DEF Q
  <2> QED
    BY <2>1, <2>2, <2>3 DEF HasLessThanMaxTuples, TupleCount, Q
<1>7. /\ new \in Entry /\ new.key = t /\ new.child = NoNode
      /\ e1 \in Entry /\ e1.key = low[r] /\ e1.child = NoNode
  BY <1>1, <1>4, LeafTupleFields DEF new, e1
<1>8. FirstOf(P) = {e1} /\ Lowest(P, 1) = {e1}
  BY <1>4, <1>5, <1>7, TheSmallest
<1>9. PageChanges(ns, ns1, p, ns[p].page \ {BranchTuple(low[r], r)})
  BY <1>3, <1>4, EraseIndexEntryFields DEF p
<1>10. ns1 \in Table /\ SameLinks(ns, ns1) /\ ns1[r].page = P /\ ns1[l].page = Q
  BY <1>3, <1>4, <1>9 DEF PageChanges, P, Q
<1>11. first = {e1}
  BY <1>8, <1>10
<1>12. PagesChange(ns1, ns2, r, P \ {e1}, l, L)
  BY <1>3, <1>7, <1>10, <1>11, TransferFields DEF L
<1>13. ns2 \in Table /\ ns2[r].page = P \ {e1}
  BY <1>3, <1>12 DEF PagesChange
<1>14. PageChanges(ns2, ns3, r, R)
  BY <1>3, <1>7, <1>13, AddTupleFields DEF new, R
<1>15. PagesChange(ns1, ns3, l, L, r, R)
  <2>1. ns3 \in Table /\ SameLinks(ns1, ns3)
    <3>1. ns3 \in Table /\ SameLinks(ns1, ns2) /\ SameLinks(ns2, ns3)
      BY <1>12, <1>14 DEF PagesChange, PageChanges
    <3> QED
      BY <3>1 DEF SameLinks
  <2>2. \A y \in NodeIDs : ns3[y].page = IF y = l THEN L ELSE IF y = r THEN R ELSE ns1[y].page
    BY <1>3, <1>12, <1>14 DEF PagesChange, PageChanges
  <2> QED
    BY <2>1, <2>2 DEF PagesChange
<1>16. PageOf(P \ {e1}) /\ Cardinality(P \ {e1}) = MaxLeafTuples - 1
  BY <1>4, <1>5, PageWithoutTuple
<1>17. PageOf(R) /\ Cardinality(R) = MaxLeafTuples /\ IsFiniteSet(R)
  <2>1. \A e \in P \ {e1} : e.key # new.key
    BY <1>1, <1>7
  <2>2. PageOf(R) /\ Cardinality(R) = (MaxLeafTuples - 1) + 1
    BY <1>7, <1>16, <2>1, PageWithTuple DEF R
  <2> QED
    BY <2>2, PageSizeAssumption DEF PageOf
<1>18. IsFiniteSet(L) /\ Cardinality(L) = Cardinality(Q) + 1
  <2>1. \A e \in Q : e.key # e1.key
    BY <1>4, <1>6, <1>7
  <2>2. PageOf(L) /\ Cardinality(L) = Cardinality(Q) + 1
    BY <1>6, <1>7, <2>1, PageWithTuple DEF L
  <2> QED
    BY <2>2 DEF PageOf
<1>19. PICK f \in R : FirstOf(R) = {f} /\ \A e \in R : e # f => f.key < e.key
  <2>1. R # {}
    BY DEF R
  <2> QED
    BY <1>17, <2>1, SmallestOfPage
<1>20. \A e \in R : /\ e.key \in Nat /\ e.child = NoNode /\ low[r] < e.key
                    /\ InRangeOf(live, low, level, r, e.key) /\ e \in Entry
  <2>1. \A e \in P \ {e1} : low[r] < e.key
    <3>1. \A e \in P : e # e1 => e.key # e1.key
      BY <1>4, <1>5 DEF PageOf, Distinct
    <3> QED
      BY <1>4, <1>5, <1>7, <3>1
  <2>2. low[r] < t
    BY <1>1, <1>4, <1>7
  <2> QED
    BY <1>1, <1>5, <1>7, <2>1, <2>2 DEF R
<1> DEFINE m == f.key
<1>21. m \in Nat /\ low[r] < m /\ LeafTuple(m) = f /\ \A e \in R : m <= e.key
  <2>1. m \in Nat /\ low[r] < m /\ f.child = NoNode /\ f \in Entry
    BY <1>19, <1>20
  <2>2. LeafTuple(m) = f
    BY <2>1 DEF LeafTuple, Entry
  <2> QED
    BY <1>19, <1>20, <2>1, <2>2
<1> HIDE DEF m
<1>22. CanAddIndexEntry(ns3, r) /\ Renews(ns, AddIndexEntry(ns3, r), low, l, r, m, L, R)
  <2>1. FirstOf(R) = {LeafTuple(m)}
    BY <1>19, <1>21
  <2> QED
    BY <1>1, <1>2, <1>3, <1>15, <1>21, <2>1, RenewedIndexEntry
<1>23. CanFindIndexEntry(ns, r)
  BY <1>4 DEF CanFindIndexEntry
<1>24. CanTransfer(ns1, r, l, first)
  <2>1. Cardinality({e1}) = 1
    BY FS_Singleton
  <2>2. MaxTupleCount(ns1, l) = MaxLeafTuples
    BY <1>3, <1>6, <1>10, SameLinksKeepSizes
  <2>3. ns1[l].parentID = ns1[r].parentID
    BY <1>2, <1>3, <1>10 DEF SameLinks
  <2>4. Cardinality(first) = 1 /\ TupleCount(ns1, l) = Cardinality(Q)
    BY <1>10, <1>11, <2>1 DEF TupleCount
  <2>5. TupleCount(ns1, l) + Cardinality(first) <= MaxTupleCount(ns1, l)
    BY <1>6, <2>2, <2>4, PageSizeAssumption
  <2> QED
    BY <1>2, <2>3, <2>5 DEF CanTransfer
<1>25. HalfFull(ns, l, L) /\ HalfFull(ns, r, R)
  <2>1. Cardinality(Q) >= MaxLeafTuples \div 2
    BY <1>3, <1>4, <1>6 DEF Shape, Sized, TupleCount, Q
  <2>2. MaxLeafTuples >= MaxLeafTuples \div 2 /\ MaxLeafTuples \div 2 \in Nat /\ MaxLeafTuples \in Nat
    BY PageSizeAssumption
  <2>3. HalfFull(ns, l, L)
    BY <1>6, <1>18, <2>1, <2>2 DEF HalfFull
  <2>4. HalfFull(ns, r, R)
    BY <1>5, <1>17, <2>2 DEF HalfFull
  <2> QED
    BY <2>3, <2>4
<1>26. \A e \in L : e.key \in Nat /\ e.child = NoNode /\ low[l] <= e.key /\ e.key < m
  BY <1>3, <1>4, <1>6, <1>7, <1>21 DEF L
<1>27. low[l] # -1 => LeafTuple(low[l]) \in L
  BY <1>3 DEF Shape, LowsAreTuples, L, Q
<1>28. LeafTuple(m) \in R
  BY <1>19, <1>21
<1>29. BoundaryMoves(ns, AddIndexEntry(ns3, r), live, low, level, l, r, m, L, R)
  BY <1>2, <1>3, <1>4, <1>20, <1>21, <1>22, <1>25, <1>26, <1>27, <1>28
  DEF BoundaryMoves, Renews
<1>30. L \cup R = Q \cup P \cup {new}
  BY <1>4 DEF L, R
<1>31. Redistributed(ns, AddIndexEntry(ns3, r), live, low, level, l, r, t)
  BY <1>29, <1>30 DEF Redistributed, new, P, Q
<1> QED
  BY <1>3, <1>4, <1>22, <1>23, <1>24, <1>31

\* the largest tuple of the full leaf l, or the new one, goes to its right sibling
LEMMA LentToRight ==
  ASSUME NEW ns, NEW live, NEW root, NEW low, NEW level,
         Shape(ns, live, root, low, level, NoNode),
         NEW l, NEW t, TupleFits(ns, live, low, level, l, t),
         ~HasLessThanMaxTuples(ns, l),
         NEW r, ns[l].siblingRightID = r, IsUsefulSibling(ns, l, r), HasLessThanMaxTuples(ns, r),
         NEW ns1, ns1 = EraseIndexEntry(ns, r),
         NEW last, last = Highest(ns1[l].page, 1),
         NEW ns2, ns2 = IF \A e \in ns1[l].page : e.key < t
                          THEN AddTuple(ns1, r, LeafTuple(t))
                          ELSE AddTuple(Transfer(ns1, l, r, last), l, LeafTuple(t))
  PROVE  /\ CanFindIndexEntry(ns, r) /\ CanTransfer(ns1, l, r, last) /\ CanAddIndexEntry(ns2, r)
         /\ Redistributed(ns, AddIndexEntry(ns2, r), live, low, level, l, r, t)
         /\ r \in live /\ l # root
<1> DEFINE p == ns[r].parentID
           P == ns[l].page
           Q == ns[r].page
           new == LeafTuple(t)
<1> HIDE DEF p, P, Q, new
<1>1. /\ l \in live /\ level[l] = 0 /\ t \in Nat /\ low[l] <= t
      /\ InRangeOf(live, low, level, l, t) /\ \A e \in P : e.key # t
  BY DEF TupleFits, P
<1>2. r # NoNode /\ ns[r].parentID = ns[l].parentID
  BY DEF IsUsefulSibling
<1>3. /\ r \in live /\ l # r /\ level[r] = 0 /\ low[l] < low[r] /\ low[l] >= -1
      /\ low[r] \in Nat /\ low[l] \in Int /\ l # root /\ r # root
      /\ p \in NodeIDs /\ p # l /\ p # r /\ FindIndexEntry(ns, r) = {BranchTuple(low[r], r)}
  <2>1. Neighbours(ns, live, root, low, level, l, r)
    BY <1>1, <1>2, NeighbourLeaves
  <2> QED
    BY <2>1 DEF Neighbours, p
<1>4. r \in NodeIDs /\ l \in NodeIDs /\ ns \in Table
  BY <1>1, <1>3 DEF Shape
<1>5. /\ PageOf(P) /\ MaxTupleCount(ns, l) = MaxLeafTuples /\ Cardinality(P) = MaxLeafTuples
      /\ \A e \in P : /\ e \in Entry /\ e.key \in Nat /\ e.child = NoNode /\ low[l] <= e.key
                      /\ e = LeafTuple(e.key) /\ e.key < low[r]
  <2>1. TupleCount(ns, l) \in Nat /\ TupleCount(ns, l) <= MaxLeafTuples /\ MaxTupleCount(ns, l) = MaxLeafTuples
    BY <1>1, LeafEntries
  <2>2. TupleCount(ns, l) = MaxLeafTuples
    BY <2>1, PageSizeAssumption DEF HasLessThanMaxTuples
  <2>3. \A k : InRangeOf(live, low, level, l, k) => k < low[r]
    BY <1>1, <1>3 DEF InRangeOf
  <2>4. \A e \in P : /\ e \in Entry /\ e.key \in Nat /\ e.child = NoNode /\ low[l] <= e.key
                     /\ e = LeafTuple(e.key) /\ InRangeOf(live, low, level, l, e.key)
    BY <1>1, LeafEntries DEF P
  <2>5. PageOf(P) /\ Cardinality(P) = MaxLeafTuples
    BY <1>1, <2>2, LeafEntries DEF TupleCount, P
  <2> QED
    BY <2>1, <2>3, <2>4, <2>5
<1>6. /\ PageOf(Q) /\ MaxTupleCount(ns, r) = MaxLeafTuples
      /\ Cardinality(Q) \in Nat /\ Cardinality(Q) < MaxLeafTuples
      /\ \A e \in Q : /\ e \in Entry /\ e.key \in Nat /\ e.child = NoNode /\ low[r] <= e.key
                      /\ InRangeOf(live, low, level, r, e.key)
  <2>1. \A e \in Q : /\ e \in Entry /\ e.key \in Nat /\ e.child = NoNode /\ low[r] <= e.key
                      /\ InRangeOf(live, low, level, r, e.key)
    BY <1>3, LeafEntries DEF Q
  <2>3. PageOf(Q) /\ MaxTupleCount(ns, r) = MaxLeafTuples /\ TupleCount(ns, r) \in Nat
    BY <1>3, LeafEntries DEF Q
  <2> QED
    BY <2>1, <2>3 DEF HasLessThanMaxTuples, TupleCount, Q
<1>7. new \in Entry /\ new.key = t /\ new.child = NoNode /\ t < low[r]
  BY <1>1, <1>3, LeafTupleFields DEF new, InRangeOf
\* an entry between the two leaves is in the range of the right one
<1>8. \A k \in Int : k < low[r] => InRangeOf(live, low, level, r, k)
  <2> SUFFICES ASSUME NEW k \in Int, k < low[r], NEW z \in live, level[z] = level[r], low[r] < low[z]
               PROVE  k < low[z]
    BY DEF InRangeOf
  <2>1. low[z] \in Int /\ low[r] \in Int
    BY <1>3 DEF Shape, Ghosts
  <2> QED
    BY <2>1
<1>9. ns1 \in Table /\ SameLinks(ns, ns1) /\ ns1[l].page = P /\ ns1[r].page = Q
  <2>1. PageChanges(ns, ns1, p, ns[p].page \ {BranchTuple(low[r], r)})
    BY <1>3, <1>4, EraseIndexEntryFields DEF p
  <2> QED
    BY <1>3, <1>4, <2>1 DEF PageChanges, P, Q
<1>10. PICK eM \in P : LastOf(P) = {eM} /\ \A f \in P : f # eM => f.key < eM.key
  <2>1. P # {}
    BY <1>5, FS_EmptySet, PageSizeAssumption
  <2> QED
    BY <1>5, <2>1, LargestOfPage
<1>11. /\ eM \in Entry /\ eM.key \in Nat /\ eM.child = NoNode /\ low[l] <= eM.key
       /\ eM = LeafTuple(eM.key) /\ eM.key < low[r]
       /\ \A f \in P : f.key <= eM.key
  BY <1>5, <1>10
<1>12. last = {eM}
  BY <1>5, <1>9, <1>10, <1>11, TheLargest
<1>13. CanFindIndexEntry(ns, r)
  BY <1>3 DEF CanFindIndexEntry
<1>14. CanTransfer(ns1, l, r, last)
  <2>1. Cardinality({eM}) = 1
    BY FS_Singleton
  <2>2. MaxTupleCount(ns1, r) = MaxLeafTuples
    BY <1>4, <1>6, <1>9, SameLinksKeepSizes
  <2>3. ns1[l].parentID = ns1[r].parentID
    BY <1>2, <1>4, <1>9 DEF SameLinks
  <2>4. Cardinality(last) = 1 /\ TupleCount(ns1, r) = Cardinality(Q)
    BY <1>9, <1>12, <2>1 DEF TupleCount
  <2>5. TupleCount(ns1, r) + Cardinality(last) <= MaxTupleCount(ns1, r)
    BY <1>6, <2>2, <2>4, PageSizeAssumption
  <2> QED
    BY <1>2, <2>3, <2>5 DEF CanTransfer
<1>15. Cardinality(Q) >= MaxLeafTuples \div 2
  BY <1>3, <1>6 DEF Shape, Sized, TupleCount, Q
<1>16. MaxLeafTuples >= MaxLeafTuples \div 2 /\ MaxLeafTuples \div 2 \in Nat /\ MaxLeafTuples \in Nat
  BY PageSizeAssumption
\* what is left to show of the new pages, m being the new separator
<1>17. ASSUME NEW m \in Nat, NEW new1 \in Entry, new1.key = m, new1.child = NoNode, new1 = LeafTuple(m),
              low[l] < m, m < low[r],
              NEW L, PageOf(L), Cardinality(L) = MaxLeafTuples,
              \A e \in L : e.key \in Nat /\ e.child = NoNode /\ low[l] <= e.key /\ e.key < m,
              low[l] # -1 => LeafTuple(low[l]) \in L,
              PagesChange(ns1, ns2, l, L, r, Q \cup {new1}),
              L \cup {new1} = P \cup {new}
       PROVE  /\ CanAddIndexEntry(ns2, r)
              /\ Redistributed(ns, AddIndexEntry(ns2, r), live, low, level, l, r, t)
  <2> DEFINE R == Q \cup {new1}
  <2>1. \A e \in Q : m < e.key
    BY <1>3, <1>6, <1>17
  <2>2. PageOf(R) /\ Cardinality(R) = Cardinality(Q) + 1
    <3>1. \A e \in Q : e.key # new1.key
      BY <1>6, <1>17, <2>1
    <3> QED
      BY <1>6, <1>17, <3>1, PageWithTuple
  <2>3. FirstOf(R) = {new1}
    <3>1. \A e \in R : new1.key <= e.key
      BY <1>6, <1>17, <2>1
    <3>2. new1 \in R
      OBVIOUS
    <3> HIDE DEF R
    <3> QED
      BY <2>2, <3>1, <3>2, TheSmallest
  <2>4. HalfFull(ns, l, L) /\ HalfFull(ns, r, R)
    <3>1. IsFiniteSet(L) /\ IsFiniteSet(R)
      BY <1>17, <2>2 DEF PageOf
    <3> HIDE DEF R
    <3> QED
      BY <1>5, <1>6, <1>15, <1>16, <1>17, <2>2, <3>1 DEF HalfFull
  <2>5. \A e \in R : e.key \in Nat /\ e.child = NoNode /\ m <= e.key /\ InRangeOf(live, low, level, r, e.key)
    BY <1>6, <1>8, <1>17, <2>1
  <2>6. new1 \in R
    OBVIOUS
  <2> HIDE DEF R
  <2>7. PagesChange(ns1, ns2, l, L, r, R)
    BY <1>17 DEF R
  <2>8. CanAddIndexEntry(ns2, r) /\ Renews(ns, AddIndexEntry(ns2, r), low, l, r, m, L, R)
    BY <1>1, <1>2, <1>17, <2>3, <2>7, RenewedIndexEntry
  <2>9. BoundaryMoves(ns, AddIndexEntry(ns2, r), live, low, level, l, r, m, L, R)
    BY <1>1, <1>2, <1>17, <2>4, <2>5, <2>6, <2>8 DEF BoundaryMoves, Renews
  <2>10. L \cup R = P \cup Q \cup {new}
    BY <1>17 DEF R
  <2> QED
    BY <2>8, <2>9, <2>10 DEF Redistributed, P, Q, new
<1>18. low[l] # -1 => LeafTuple(low[l]) \in P
  BY <1>1 DEF Shape, LowsAreTuples, P
<1>19. CASE \A e \in P : e.key < t
  <2>1. ns2 = AddTuple(ns1, r, new)
    BY <1>9, <1>19 DEF new
  <2>2. PageChanges(ns1, ns2, r, Q \cup {new})
    BY <1>4, <1>7, <1>9, <2>1, AddTupleFields
  <2>3. PagesChange(ns1, ns2, l, P, r, Q \cup {new})
    BY <1>3, <1>9, <2>2 DEF PageChanges, PagesChange
  <2>4. low[l] < t
    BY <1>1, <1>3, <1>10, <1>11, <1>19
  <2>5. /\ CanAddIndexEntry(ns2, r)
        /\ Redistributed(ns, AddIndexEntry(ns2, r), live, low, level, l, r, t)
    BY <1>1, <1>5, <1>7, <1>17, <1>18, <1>19, <2>3, <2>4 DEF new
  <2> QED
    BY <1>3, <1>13, <1>14, <2>5
<1>20. CASE ~\A e \in P : e.key < t
  <2> DEFINE L == (P \ {eM}) \cup {new}
           mid == Transfer(ns1, l, r, {eM})
  <2>1. ns2 = AddTuple(mid, l, new)
    BY <1>9, <1>12, <1>20 DEF new
  <2>2. PagesChange(ns1, mid, l, P \ {eM}, r, Q \cup {eM})
    <3>1. {eM} \subseteq Entry
      BY <1>11
    <3> QED
      BY <1>3, <1>4, <1>9, <3>1, TransferFields
  <2> HIDE DEF L, mid
  <2>3. mid \in Table /\ mid[l].page = P \ {eM}
    BY <1>4, <2>2 DEF PagesChange
  <2>4. PageChanges(mid, ns2, l, mid[l].page \cup {new})
    BY <1>4, <1>7, <2>1, <2>3, AddTupleFields
  <2>5. PagesChange(ns1, ns2, l, L, r, Q \cup {eM})
    <3>1. /\ ns2 \in Table /\ SameLinks(ns1, mid) /\ SameLinks(mid, ns2)
      BY <2>2, <2>4 DEF PagesChange, PageChanges
    <3>2. SameLinks(ns1, ns2)
      BY <3>1 DEF SameLinks
    <3>3. \A y \in NodeIDs : ns2[y].page = IF y = l THEN L ELSE IF y = r THEN Q \cup {eM} ELSE ns1[y].page
      <4>1. \A y \in NodeIDs : ns2[y].page = IF y = l THEN L ELSE mid[y].page
        BY <2>3, <2>4 DEF PageChanges, L
      <4>2. \A y \in NodeIDs : y # l => mid[y].page = IF y = r THEN Q \cup {eM} ELSE ns1[y].page
        BY <2>2 DEF PagesChange
      <4> QED
        BY <4>1, <4>2
    <3> QED
      BY <3>1, <3>2, <3>3 DEF PagesChange
  <2>6. t < eM.key
    <3>1. PICK e \in P : ~(e.key < t)
      BY <1>20
    <3>2. e.key \in Nat /\ e.key # t /\ e.key <= eM.key
      BY <1>1, <1>5, <1>11
    <3> QED
      BY <1>1, <1>11, <3>1, <3>2
  <2>7. low[l] < eM.key
    BY <1>1, <1>3, <1>11, <2>6
  <2>8. PageOf(L) /\ Cardinality(L) = MaxLeafTuples
    <3>1. PageOf(P \ {eM}) /\ Cardinality(P \ {eM}) = MaxLeafTuples - 1
      BY <1>5, <1>10, PageWithoutTuple
    <3>2. \A e \in P \ {eM} : e.key # new.key
      BY <1>1, <1>7
    <3>3. PageOf(L) /\ Cardinality(L) = (MaxLeafTuples - 1) + 1
      BY <1>7, <3>1, <3>2, PageWithTuple DEF L
    <3> QED
      BY <1>16, <3>3
  <2>9. \A e \in L : e.key \in Nat /\ e.child = NoNode /\ low[l] <= e.key /\ e.key < eM.key
    BY <1>1, <1>5, <1>7, <1>10, <2>6 DEF L
  <2>10. low[l] # -1 => LeafTuple(low[l]) \in L
    <3> SUFFICES ASSUME low[l] # -1 PROVE LeafTuple(low[l]) \in L
      OBVIOUS
    <3>1. LeafTuple(low[l]).key = low[l]
      BY DEF LeafTuple
    <3> QED
      BY <1>3, <1>11, <1>18, <2>7, <3>1 DEF L
  <2>11. L \cup {eM} = P \cup {new}
    BY <1>10 DEF L
  <2>12. /\ CanAddIndexEntry(ns2, r)
         /\ Redistributed(ns, AddIndexEntry(ns2, r), live, low, level, l, r, t)
    BY <1>11, <1>17, <2>5, <2>7, <2>8, <2>9, <2>10, <2>11
  <2> QED
    BY <1>3, <1>13, <1>14, <2>12
<1> QED
  BY <1>19, <1>20

-----------------------------------------------------------------------------
(***************************************************************************)
(* A full leaf is split.                                                   *)
(***************************************************************************)
\* node x is split in two, fresh being its new right sibling and m the splitter
SplitsOff(ns, ns2, live, root, low, level, x, fresh, m) ==
  /\ m \in Nat /\ low[x] < m /\ InRangeOf(live, low, level, x, m)
  /\ Shape(ns2, live \cup {fresh}, root, [low EXCEPT ![fresh] = m],
           [level EXCEPT ![fresh] = level[x]], fresh)
  /\ TupleCount(ns2, x) >= MaxTupleCount(ns2, x) \div 2
  /\ ns2[fresh].parentID = ns[x].parentID
  /\ \A y \in live : /\ level[y] >= level[x] => ns2[y].parentID = ns[y].parentID
                     /\ ns2[y].firstChildID = ns[y].firstChildID
  /\ \A y \in live : y # x => ns2[y].siblingRightID = ns[y].siblingRightID
                              /\ ns2[y].page = ns[y].page
  /\ ns2[x].siblingRightID = fresh /\ ns2[fresh].siblingRightID = ns[x].siblingRightID

\* the sizes the halves of a full leaf may have, the new tuple in either
LEMMA HalvesOfLeaf ==
  ASSUME NEW n \in Nat, n >= 2
  PROVE  /\ n \div 2 \in Nat /\ n \div 2 >= 1 /\ n \div 2 <= n /\ n \div 2 + 1 <= n
         /\ n - (n \div 2) \in Nat /\ n - (n \div 2) >= n \div 2 /\ n - (n \div 2) >= 1
         /\ n - (n \div 2) + 1 <= n
OBVIOUS

\* the pages a full leaf is split into
LeafParts(ns, low, x, t, m, X, F) ==
  /\ PageOf(X) /\ PageOf(F) /\ X \cup F = ns[x].page \cup {LeafTuple(t)}
  /\ \A e \in X : e.key < m
  /\ \A e \in F : m <= e.key
  /\ FirstOf(F) = {LeafTuple(m)} /\ LeafTuple(m) \in F
  /\ m \in Nat /\ low[x] < m
  /\ low[x] # -1 => LeafTuple(low[x]) \in X
  /\ Cardinality(X) \in Nat /\ Cardinality(X) <= MaxLeafTuples /\ Cardinality(X) >= MaxLeafTuples \div 2
  /\ Cardinality(F) \in Nat /\ Cardinality(F) <= MaxLeafTuples /\ Cardinality(F) >= MaxLeafTuples \div 2

\* split_leaf_and_insert divides a full leaf so that both halves are half full with the new tuple
\* in the half it belongs to
LEMMA PartsOfLeaf ==
  ASSUME NEW ns, NEW live, NEW root, NEW low, NEW level,
         Shape(ns, live, root, low, level, NoNode),
         NEW x, NEW t, TupleFits(ns, live, low, level, x, t),
         ~HasLessThanMaxTuples(ns, x),
         NEW U, U = Highest(ns[x].page, TupleCount(ns, x) \div 2),
         NEW X, NEW F,
         X = IF \E f \in FirstOf(U) : t < f.key THEN (ns[x].page \ U) \cup {LeafTuple(t)} ELSE ns[x].page \ U,
         F = IF \E f \in FirstOf(U) : t < f.key THEN U ELSE U \cup {LeafTuple(t)}
  PROVE  U \subseteq ns[x].page /\ \E m : LeafParts(ns, low, x, t, m, X, F)
<1> DEFINE P == ns[x].page
           new == LeafTuple(t)
           n == MaxLeafTuples
           h == MaxLeafTuples \div 2
<1> HIDE DEF P, new, n, h
<1>1. /\ x \in live /\ level[x] = 0 /\ t \in Nat /\ low[x] <= t /\ low[x] \in Int
      /\ \A e \in P : e.key # t
  BY LeafEntries DEF TupleFits, P
<1>2. /\ PageOf(P) /\ Cardinality(P) = n /\ TupleCount(ns, x) = n
      /\ \A e \in P : /\ e \in Entry /\ e.key \in Nat /\ low[x] <= e.key /\ e = LeafTuple(e.key)
  <2>1. /\ PageOf(P) /\ TupleCount(ns, x) \in Nat /\ TupleCount(ns, x) <= n /\ MaxTupleCount(ns, x) = n
        /\ \A e \in P : /\ e \in Entry /\ e.key \in Nat /\ low[x] <= e.key /\ e = LeafTuple(e.key)
    BY <1>1, LeafEntries DEF P, n
  <2>2. TupleCount(ns, x) = n
    BY <2>1, PageSizeAssumption DEF HasLessThanMaxTuples, n
  <2> QED
    BY <2>1, <2>2 DEF TupleCount, P
<1>3. new \in Entry /\ new.key = t /\ new = LeafTuple(t)
  BY <1>1, LeafTupleFields DEF new
<1>4. /\ n \in Nat /\ h \in Nat /\ h >= 1 /\ h <= n /\ h + 1 <= n
      /\ n - h \in Nat /\ n - h >= h /\ n - h >= 1 /\ n - h + 1 <= n
  BY HalvesOfLeaf, PageSizeAssumption DEF n, h
<1>5. U = Highest(P, h)
  BY <1>2 DEF P, n, h
<1>6. /\ U \subseteq P /\ Cardinality(U) = h
      /\ \A e \in U, f \in P \ U : f.key < e.key
  <2>1. U \subseteq P
    BY <1>5 DEF Highest
  <2> QED
    BY <1>2, <1>4, <1>5, <2>1, HighestOfPage
<1>7. /\ PageOf(U) /\ PageOf(P \ U) /\ Cardinality(P \ U) = n - h
  BY <1>2, <1>6, PageParts
<1>8. U # {} /\ P \ U # {}
  <2>1. IsFiniteSet(U) /\ IsFiniteSet(P \ U)
    BY <1>7 DEF PageOf
  <2>2. Cardinality(U) # 0 /\ Cardinality(P \ U) # 0
    BY <1>4, <1>6, <1>7
  <2> QED
    BY <2>1, <2>2, FS_EmptySet
<1>9. PICK f0 \in U : FirstOf(U) = {f0} /\ \A f \in U : f # f0 => f0.key < f.key
  BY <1>7, <1>8, SmallestOfPage
<1> DEFINE m == f0.key
<1>10. m \in Nat /\ f0 = LeafTuple(m) /\ f0 \in P
  BY <1>2, <1>6
<1> HIDE DEF m
<1>11. \A e \in U : m <= e.key
  BY <1>2, <1>6, <1>9, <1>10 DEF m
<1>12. \A e \in P \ U : e.key < m
  BY <1>6 DEF m
<1>13. low[x] < m
  BY <1>1, <1>2, <1>8, <1>10, <1>12
<1>14. low[x] # -1 => LeafTuple(low[x]) \in P \ U
  <2>1. low[x] # -1 => LeafTuple(low[x]) \in P
    BY <1>1 DEF Shape, LowsAreTuples, P
  <2>2. LeafTuple(low[x]).key = low[x]
    BY DEF LeafTuple
  <2> QED
    BY <1>1, <1>10, <1>11, <1>13, <2>1, <2>2
<1>15. (\E f \in FirstOf(U) : t < f.key) <=> t < m
  BY <1>9 DEF m
<1>16. \A e \in P : e.key # new.key
  BY <1>1, <1>3
<1>17. CASE t < m
  <2>1. X = (P \ U) \cup {new} /\ F = U
    BY <1>15, <1>17 DEF P, new
  <2>2. PageOf(X) /\ Cardinality(X) = (n - h) + 1
    BY <1>3, <1>7, <1>16, <2>1, PageWithTuple
  <2>3. PageOf(F) /\ FirstOf(F) = {LeafTuple(m)} /\ LeafTuple(m) \in F /\ Cardinality(F) = h
    BY <1>6, <1>7, <1>9, <1>10, <2>1
  <2>4. X \cup F = P \cup {new}
    BY <1>6, <2>1
  <2>5. \A e \in X : e.key < m
    BY <1>3, <1>12, <1>17, <2>1
  <2>6. \A e \in F : m <= e.key
    BY <1>11, <2>1
  <2>7. low[x] # -1 => LeafTuple(low[x]) \in X
    BY <1>14, <2>1
  <2>8. Cardinality(X) \in Nat /\ Cardinality(X) <= n /\ Cardinality(X) >= h
    BY <1>4, <2>2
  <2>9. Cardinality(F) \in Nat /\ Cardinality(F) <= n /\ Cardinality(F) >= h
    BY <1>4, <2>3
  <2>10. LeafParts(ns, low, x, t, m, X, F)
    BY <1>10, <1>13, <2>2, <2>3, <2>4, <2>5, <2>6, <2>7, <2>8, <2>9 DEF LeafParts, P, new, n, h
  <2> QED
    BY <1>6, <2>10 DEF P
<1>18. CASE ~(t < m)
  <2>1. X = P \ U /\ F = U \cup {new}
    BY <1>15, <1>18 DEF P, new
  <2>2. PageOf(X) /\ Cardinality(X) = n - h
    BY <1>7, <2>1
  <2>3. PageOf(F) /\ Cardinality(F) = h + 1
    <3>1. \A e \in U : e.key # new.key
      BY <1>6, <1>16
    <3> QED
      BY <1>3, <1>6, <1>7, <2>1, <3>1, PageWithTuple
  <2>4. X \cup F = P \cup {new}
    BY <1>6, <2>1
  <2>5. \A e \in X : e.key < m
    BY <1>12, <2>1
  <2>6. \A e \in F : m <= e.key
    BY <1>1, <1>3, <1>10, <1>11, <1>18, <2>1
  <2>7. low[x] # -1 => LeafTuple(low[x]) \in X
    BY <1>14, <2>1
  <2>8. Cardinality(X) \in Nat /\ Cardinality(X) <= n /\ Cardinality(X) >= h
    BY <1>4, <2>2
  <2>9. Cardinality(F) \in Nat /\ Cardinality(F) <= n /\ Cardinality(F) >= h
    BY <1>4, <2>3
  <2>10. f0 \in F
    BY <2>1
  <2>11. FirstOf(F) = {LeafTuple(m)} /\ LeafTuple(m) \in F
    <3>1. \A f \in F : f0.key <= f.key
      BY <2>6 DEF m
    <3>2. FirstOf(F) = {f0}
      BY <2>3, <2>10, <3>1, TheSmallest
    <3> QED
      BY <1>10, <2>10, <3>2
  <2>12. LeafParts(ns, low, x, t, m, X, F)
    BY <1>10, <1>13, <2>2, <2>3, <2>4, <2>5, <2>6, <2>7, <2>8, <2>9, <2>11 DEF LeafParts, P, new, n, h
  <2> QED
    BY <1>6, <2>12 DEF P
<1> QED
  BY <1>17, <1>18

\* a fresh node is connected, and the tuples of leaf x divided between the two
LeafDivides(ns, ns3, x, fresh, X, F) ==
  /\ ns3 \in Table
  /\ \A y \in NodeIDs :
       /\ ns3[y].page = IF y = x THEN X ELSE IF y = fresh THEN F ELSE ns[y].page
       /\ ns3[y].siblingLeftID = IF y = fresh THEN x ELSE IF y = ns[x].siblingRightID THEN fresh
                                 ELSE ns[y].siblingLeftID
       /\ ns3[y].siblingRightID = IF y = fresh THEN ns[x].siblingRightID ELSE IF y = x THEN fresh
                                  ELSE ns[y].siblingRightID
       /\ ns3[y].firstChildID = ns[y].firstChildID
       /\ ns3[y].parentID = IF y = fresh THEN ns[x].parentID ELSE ns[y].parentID

\* the right sibling of a node is neither the node itself nor one not in use
LEMMA RightSiblingIsAnother ==
  ASSUME NEW ns, NEW live, NEW root, NEW low, NEW level, NEW orphan,
         Shape(ns, live, root, low, level, orphan), NEW x \in live, NEW fresh \in NodeIDs \ live
  PROVE  ns[x].siblingRightID # x /\ ns[x].siblingRightID # fresh
<1>1. low[x] \in Int
  BY DEF Shape, Ghosts
<1>2. fresh # NoNode
  BY DEF NodeIDs, NoNode
<1>3. x # NoNode
  BY DEF Shape, NodeIDs, NoNode
<1>4. ns[x].siblingRightID # NoNode => ns[x].siblingRightID \in live /\ low[x] < low[ns[x].siblingRightID]
  BY DEF Shape, RightLinks
<1> QED
  BY <1>1, <1>2, <1>3, <1>4

\* connecting a fresh leaf, moving the upper half there and adding the tuple in its place
LEMMA DividedFields ==
  ASSUME NEW ns, NEW live, NEW root, NEW low, NEW level,
         Shape(ns, live, root, low, level, NoNode),
         NEW x \in live, NEW fresh \in NodeIDs \ live, NEW U, U \subseteq ns[x].page,
         NEW t \in Nat,
         NEW ns1, ns1 = ConnectFresh(ns, fresh, x),
         NEW ns2, ns2 = Transfer(ns1, x, fresh, U),
         NEW below \in BOOLEAN,
         NEW ns3, ns3 = AddTuple(ns2, IF below THEN x ELSE fresh, LeafTuple(t))
  PROVE  LeafDivides(ns, ns3, x, fresh,
                     IF below THEN (ns[x].page \ U) \cup {LeafTuple(t)} ELSE ns[x].page \ U,
                     IF below THEN U ELSE U \cup {LeafTuple(t)})
<1> DEFINE r == ns[x].siblingRightID
           new == LeafTuple(t)
           P == ns[x].page
<1>1. /\ x \in NodeIDs /\ fresh \in NodeIDs /\ x # fresh /\ ns \in Table /\ r # x /\ r # fresh
  BY RightSiblingIsAnother DEF Shape
<1>2. /\ ns1 \in Table
      /\ \A y \in NodeIDs :
           /\ ns1[y].page = IF y = fresh THEN {} ELSE ns[y].page
           /\ ns1[y].firstChildID = ns[y].firstChildID
           /\ ns1[y].parentID = IF y = fresh THEN ns[x].parentID ELSE ns[y].parentID
           /\ ns1[y].siblingLeftID =
                IF y = fresh THEN x ELSE IF y = r THEN fresh ELSE ns[y].siblingLeftID
           /\ ns1[y].siblingRightID =
                IF y = fresh THEN r ELSE IF y = x THEN fresh ELSE ns[y].siblingRightID
  BY <1>1, ConnectFreshFields
<1>3. new \in Entry
  BY LeafTupleFields
<1> HIDE DEF r, new, P
<1>4. ns1[x].page = P /\ ns1[fresh].page = {}
  BY <1>1, <1>2 DEF P
<1>5. U \subseteq Entry
  BY <1>1, PageTypes
<1>6. PagesChange(ns1, ns2, x, P \ U, fresh, {} \cup U)
  BY <1>1, <1>2, <1>4, <1>5, TransferFields
<1>7. /\ ns2 \in Table /\ SameLinks(ns1, ns2) /\ ns2[x].page = P \ U /\ ns2[fresh].page = U
      /\ \A y \in NodeIDs : y \notin {x, fresh} => ns2[y].page = ns1[y].page
  BY <1>1, <1>6 DEF PagesChange
<1> DEFINE side == IF below THEN x ELSE fresh
           X == IF below THEN (P \ U) \cup {new} ELSE P \ U
           F == IF below THEN U ELSE U \cup {new}
<1>8. side \in NodeIDs /\ ns3 = AddTuple(ns2, side, new)
  BY <1>1 DEF new
<1>9. PageChanges(ns2, ns3, side, ns2[side].page \cup {new})
  BY <1>3, <1>7, <1>8, AddTupleFields
<1>10. ns3 \in Table /\ SameLinks(ns2, ns3)
  BY <1>9 DEF PageChanges
<1>11. \A y \in NodeIDs : ns3[y].page = IF y = x THEN X ELSE IF y = fresh THEN F ELSE ns[y].page
  <2>1. \A y \in NodeIDs : ns3[y].page = IF y = side THEN ns2[side].page \cup {new} ELSE ns2[y].page
    BY <1>9 DEF PageChanges
  <2>4. \A y \in NodeIDs : y \notin {x, fresh} => ns2[y].page = ns[y].page
    BY <1>2, <1>7
  <2>5. ns2[x].page = P \ U /\ ns2[fresh].page = U
    BY <1>7
  <2>2. CASE below
    <3>1. side = x /\ X = (P \ U) \cup {new} /\ F = U
      BY <2>2
    <3> HIDE DEF side, X, F
    <3>2. \A y \in NodeIDs : ns3[y].page = IF y = x THEN ns2[x].page \cup {new} ELSE ns2[y].page
      BY <2>1, <3>1
    <3>3. ASSUME NEW y \in NodeIDs
          PROVE  ns3[y].page = IF y = x THEN X ELSE IF y = fresh THEN F ELSE ns[y].page
      <4>1. CASE y = x
        BY <2>5, <3>1, <3>2, <4>1
      <4>2. CASE y # x
        BY <2>4, <2>5, <3>1, <3>2, <4>2
      <4> QED
        BY <4>1, <4>2
    <3> QED
      BY <3>3
  <2>3. CASE ~below
    <3>1. side = fresh /\ X = P \ U /\ F = U \cup {new}
      BY <2>3
    <3> HIDE DEF side, X, F
    <3>2. \A y \in NodeIDs : ns3[y].page = IF y = fresh THEN ns2[fresh].page \cup {new} ELSE ns2[y].page
      BY <2>1, <3>1
    <3>3. ASSUME NEW y \in NodeIDs
          PROVE  ns3[y].page = IF y = x THEN X ELSE IF y = fresh THEN F ELSE ns[y].page
      <4>1. CASE y = fresh
        BY <1>1, <2>5, <3>1, <3>2, <4>1
      <4>2. CASE y # fresh
        BY <2>4, <2>5, <3>1, <3>2, <4>2
      <4> QED
        BY <4>1, <4>2
    <3> QED
      BY <3>3
  <2> QED
    BY <2>2, <2>3
<1>12. SameLinks(ns1, ns3)
  BY <1>7, <1>10 DEF SameLinks
<1> HIDE DEF X, F
<1>13. LeafDivides(ns, ns3, x, fresh, X, F)
  BY <1>2, <1>10, <1>11, <1>12 DEF LeafDivides, SameLinks, r
<1> QED
  BY <1>13 DEF X, F, P, new

\* a full leaf is split
LEMMA SplitLeaf ==
  ASSUME NEW ns, NEW live, NEW root, NEW low, NEW level,
         Shape(ns, live, root, low, level, NoNode),
         NEW x, NEW t, TupleFits(ns, live, low, level, x, t),
         NEW fresh \in NodeIDs \ live,
         NEW m, NEW X, NEW F, LeafParts(ns, low, x, t, m, X, F),
         NEW ns3, LeafDivides(ns, ns3, x, fresh, X, F)
  PROVE  SplitsOff(ns, ns3, live, root, low, level, x, fresh, m)
<1>1. /\ x \in live /\ x \in NodeIDs /\ level[x] = 0 /\ t \in Nat /\ low[x] <= t /\ low[x] \in Int
      /\ InRangeOf(live, low, level, x, t) /\ x # fresh /\ fresh \in NodeIDs /\ ns \in Table
  BY LeafEntries DEF TupleFits, Shape
<1>2. /\ \A e \in ns[x].page \cup {LeafTuple(t)} :
           e.key \in Nat /\ e.child = NoNode /\ low[x] <= e.key /\ InRangeOf(live, low, level, x, e.key)
  BY <1>1, LeafEntries, LeafTupleFields
<1>3. /\ PageOf(X) /\ PageOf(F) /\ X \cup F = ns[x].page \cup {LeafTuple(t)}
      /\ (\A e \in X : e.key < m) /\ (\A e \in F : m <= e.key)
      /\ m \in Nat /\ low[x] < m /\ LeafTuple(m) \in F
      /\ (low[x] # -1 => LeafTuple(low[x]) \in X)
      /\ Cardinality(X) \in Nat /\ Cardinality(X) <= MaxLeafTuples /\ Cardinality(X) >= MaxLeafTuples \div 2
      /\ Cardinality(F) \in Nat /\ Cardinality(F) <= MaxLeafTuples /\ Cardinality(F) >= MaxLeafTuples \div 2
  BY DEF LeafParts
<1>4. \A e \in X \cup F : e.key \in Nat /\ e.child = NoNode /\ low[x] <= e.key
                          /\ InRangeOf(live, low, level, x, e.key)
  BY <1>2, <1>3
<1>5. InRangeOf(live, low, level, x, m)
  <2>1. LeafTuple(m) \in X \cup F /\ LeafTuple(m).key = m
    BY <1>3, LeafTupleFields
  <2> QED
    BY <1>4, <2>1
<1>6. ns3[x].firstChildID = NoNode /\ ns3[fresh].firstChildID = NoNode
  <2>1. ns[x].firstChildID = NoNode
    BY <1>1, LeafEntries DEF HasChildren
  <2>2. ns[fresh].firstChildID = NoNode
    BY DEF Shape, Blank, BlankNode
  <2> QED
    BY <1>1, <2>1, <2>2 DEF LeafDivides
<1>7. MaxTupleCount(ns3, x) = MaxLeafTuples /\ MaxTupleCount(ns3, fresh) = MaxLeafTuples
  BY <1>6 DEF MaxTupleCount, HasChildren
<1>8. HalfFull(ns3, x, X) /\ HalfFull(ns3, fresh, F)
  BY <1>3, <1>7 DEF HalfFull, PageOf
<1>9. /\ ns3 \in Table
      /\ \A y \in NodeIDs :
           /\ ns3[y].page = IF y = x THEN X ELSE IF y = fresh THEN F ELSE ns[y].page
           /\ ns3[y].siblingLeftID = IF y = fresh THEN x ELSE IF y = ns[x].siblingRightID THEN fresh
                                     ELSE ns[y].siblingLeftID
           /\ ns3[y].siblingRightID = IF y = fresh THEN ns[x].siblingRightID ELSE IF y = x THEN fresh
                                      ELSE ns[y].siblingRightID
           /\ ns3[y].firstChildID = ns[y].firstChildID
           /\ ns3[y].parentID = IF y = fresh THEN ns[x].parentID ELSE ns[y].parentID
  BY DEF LeafDivides
<1>10. Divides(ns, ns3, live, low, level, x, fresh, m, X, F)
  <2>1. \A e \in X : e.key \in Nat /\ e.key < m /\ low[x] <= e.key /\ e.child = NoNode
    BY <1>3, <1>4
  <2>2. \A e \in F : e.key \in Nat /\ InRangeOf(live, low, level, x, e.key) /\ m <= e.key /\ e.child = NoNode
    BY <1>3, <1>4
  <2>3. ~(level[x] > 0)
    BY <1>1
  <2> QED
    BY <1>1, <1>3, <1>5, <1>8, <1>9, <2>1, <2>2, <2>3 DEF Divides
<1>11. \A y \in NodeIDs : ns3[y].parentID = IF y = fresh THEN ns[x].parentID ELSE ns[y].parentID
  BY <1>9
<1>12. Shape(ns3, live \cup {fresh}, root, [low EXCEPT ![fresh] = m],
             [level EXCEPT ![fresh] = level[x]], fresh)
  BY <1>1, <1>6, <1>10, <1>11, DividedLeaf
<1>13. TupleCount(ns3, x) >= MaxTupleCount(ns3, x) \div 2
  <2>1. ns3[x].page = X
    BY <1>1, <1>9
  <2> QED
    BY <1>8, <2>1 DEF HalfFull, TupleCount
<1>14. \A y \in live : y \in NodeIDs /\ y # fresh
  BY DEF Shape
<1> QED
  BY <1>1, <1>3, <1>5, <1>9, <1>12, <1>13, <1>14 DEF SplitsOff

-----------------------------------------------------------------------------
(***************************************************************************)
(* A full branch is split.                                                 *)
(***************************************************************************)
\* the sizes the halves of a full branch may have: of its entries and the new one the median
\* goes up
LEMMA HalvesOfBranch ==
  ASSUME NEW n \in Nat, n >= 2
  PROVE  /\ (n + 1) \div 2 \in Nat /\ (n + 1) \div 2 <= n /\ (n + 1) \div 2 >= n \div 2
         /\ n - ((n + 1) \div 2) \in Nat /\ n - ((n + 1) \div 2) >= n \div 2
         /\ n - ((n + 1) \div 2) <= n /\ n \div 2 \in Nat
OBVIOUS

\* an entry of branch x
IndexesChild(live, low, level, x, e) ==
  /\ e \in Entry /\ e.key \in Nat /\ e.child \in live /\ e.child \in NodeIDs /\ e.child # NoNode
  /\ e.key = low[e.child] /\ level[e.child] + 1 = level[x]
  /\ low[x] < e.key /\ InRangeOf(live, low, level, x, e.key)
  /\ e = BranchTuple(e.key, e.child)

\* every entry of a branch is that of one of its children
LEMMA EntriesOfBranch ==
  ASSUME NEW ns, NEW live, NEW root, NEW low, NEW level, NEW orphan,
         Shape(ns, live, root, low, level, orphan), NEW x \in live, level[x] > 0,
         NEW e \in ns[x].page
  PROVE  IndexesChild(live, low, level, x, e)
<1>1. x \in NodeIDs /\ ns \in Table /\ level[x] \in Nat
  BY DEF Shape, Ghosts
<1>2. e \in Entry /\ e.key \in Nat /\ e = BranchTuple(e.key, e.child)
  BY <1>1, PageTypes
<1>3. e.child \in live /\ e.key = low[e.child] /\ level[x] = level[e.child] + 1
  BY DEF Shape, ChildrenKnow
<1>4. e.child \in NodeIDs /\ e.child # NoNode
  <2>1. live \subseteq NodeIDs /\ \A i \in NodeIDs : i # NoNode
    BY DEF Shape, NodeIDs, NoNode
  <2> QED
    BY <1>3, <2>1
<1>5. low[x] < e.key /\ InRangeOf(live, low, level, x, e.key)
  BY DEF Shape, KeysInRange
<1> QED
  BY <1>2, <1>3, <1>4, <1>5 DEF IndexesChild

\* and so will be the orphan's: its key is none the branch has
LEMMA OrphansEntry ==
  ASSUME NEW ns, NEW live, NEW root, NEW low, NEW level, NEW o,
         Shape(ns, live, root, low, level, o), NEW x, Awaits(ns, live, low, level, x, o)
  PROVE  /\ x \in live /\ x \in NodeIDs /\ x # NoNode /\ level[x] > 0 /\ level[x] \in Nat
         /\ PageOf(ns[x].page)
         /\ IndexesChild(live, low, level, x, BranchTuple(low[o], o))
         /\ \A e \in ns[x].page : e.key # low[o]
<1>1. /\ x \in live /\ x \in NodeIDs /\ o \in live /\ o \in NodeIDs /\ level[x] = level[o] + 1
      /\ level[o] \in Nat /\ level[x] \in Nat
      /\ low[x] < low[o] /\ low[x] \in Int /\ low[o] \in Int /\ low[x] >= -1
  BY DEF Awaits, Shape, Ghosts, LowsDiffer
<1>2. level[x] > 0 /\ low[o] \in Nat /\ x # NoNode /\ o # NoNode
  BY <1>1 DEF NodeIDs, NoNode
<1>3. BranchTuple(low[o], o) \in Entry
  BY <1>1, <1>2 DEF BranchTuple, Entry, NodeRefs
<1>4. BranchTuple(low[o], o).key = low[o] /\ BranchTuple(low[o], o).child = o
  BY DEF BranchTuple
<1>5. InRangeOf(live, low, level, x, low[o])
  BY DEF Awaits
<1>6. IndexesChild(live, low, level, x, BranchTuple(low[o], o))
  BY <1>1, <1>2, <1>3, <1>4, <1>5 DEF IndexesChild
<1>7. ASSUME NEW e \in ns[x].page PROVE e.key # low[o]
  <2>1. e.child # o /\ e.child \in live /\ e.key = low[e.child] /\ level[x] = level[e.child] + 1
    BY <1>1, <1>2 DEF Shape, ChildrenKnow
  <2>2. level[e.child] \in Nat
    BY <2>1 DEF Shape, Ghosts
  <2>3. level[e.child] = level[o]
    BY <1>1, <2>1, <2>2
  <2> QED
    BY <1>1, <2>1, <2>3 DEF Shape, LowsDiffer
<1> QED
  BY <1>1, <1>2, <1>6, <1>7, PagesAreOrdered

\* the page of a full branch and the orphan's entry, divided
BranchParts(ns, live, low, level, x, o, m, c, X, F) ==
  /\ ns[x].page \cup {BranchTuple(low[o], o)} = X \cup F \cup {BranchTuple(m, c)}
  /\ \A e \in X \cup F \cup {BranchTuple(m, c)} : IndexesChild(live, low, level, x, e)
  /\ PageOf(X) /\ PageOf(F)
  /\ \A e \in X : e.key < m
  /\ \A e \in F : m < e.key
  /\ Cardinality(X) \in Nat /\ Cardinality(X) <= MaxBranchTuples /\ Cardinality(X) >= MaxBranchTuples \div 2
  /\ Cardinality(F) \in Nat /\ Cardinality(F) <= MaxBranchTuples /\ Cardinality(F) >= MaxBranchTuples \div 2

\* split_branch_and_insert divides a full branch about the median of its entries and the new one,
\* and both halves are half full
LEMMA PartsOfBranch ==
  ASSUME NEW ns, NEW live, NEW root, NEW low, NEW level, NEW o,
         Shape(ns, live, root, low, level, o), NEW x, Awaits(ns, live, low, level, x, o),
         ~HasLessThanMaxTuples(ns, x),
         NEW all, all = ns[x].page \cup {BranchTuple(low[o], o)},
         NEW lower, lower = Lowest(all, Cardinality(all) \div 2)
  PROVE  \E m, c : /\ FirstOf(all \ lower) = {BranchTuple(m, c)}
                   /\ BranchParts(ns, live, low, level, x, o, m, c, lower, (all \ lower) \ {BranchTuple(m, c)})
<1> DEFINE P == ns[x].page
           own == BranchTuple(low[o], o)
           n == MaxBranchTuples
           h == (MaxBranchTuples + 1) \div 2
<1>1. /\ x \in live /\ x \in NodeIDs /\ level[x] > 0 /\ PageOf(P)
      /\ IndexesChild(live, low, level, x, own)
      /\ \A e \in P : e.key # low[o]
  BY OrphansEntry
<1>2. \A e \in P : IndexesChild(live, low, level, x, e)
  BY <1>1, EntriesOfBranch
<1>3. own.key = low[o] /\ own \in Entry
  BY <1>1 DEF BranchTuple, IndexesChild
<1>4. all = P \cup {own}
  OBVIOUS
<1>5. Cardinality(P) = n /\ n \in Nat
  <2>1. ns[x].firstChildID # NoNode
    BY <1>1 DEF Shape, RootOnTop, Ghosts
  <2>2. MaxTupleCount(ns, x) = n
    BY <2>1 DEF MaxTupleCount, HasChildren
  <2>3. TupleCount(ns, x) <= n
    BY <1>1, <2>2 DEF Shape, Sized
  <2>4. TupleCount(ns, x) = Cardinality(P)
    BY DEF TupleCount
  <2>5. Cardinality(P) \in Nat
    BY <1>1, FS_CardinalityType DEF PageOf
  <2> HIDE DEF P, n
  <2>6. n \in Nat
    BY PageSizeAssumption DEF n
  <2> QED
    BY <2>2, <2>3, <2>4, <2>5, <2>6 DEF HasLessThanMaxTuples
<1> HIDE DEF P, own, n, h
<1>6. PageOf(all) /\ Cardinality(all) = n + 1
  BY <1>1, <1>3, <1>4, <1>5, PageWithTuple
<1>7. /\ h \in Nat /\ h <= n /\ h >= n \div 2 /\ n - h \in Nat /\ n - h >= n \div 2 /\ n - h <= n
  BY PageSizeAssumption, HalvesOfBranch DEF n, h
<1>8. lower = Lowest(all, h)
  BY <1>6 DEF h, n
<1>9. lower \subseteq all /\ Cardinality(lower) = h
      /\ \A e \in lower, f \in all \ lower : e.key < f.key
  <2>1. lower \subseteq all
    BY <1>8 DEF Lowest
  <2>2. PageOf(all) /\ h \in Nat /\ h <= Cardinality(all)
    BY <1>5, <1>6, <1>7
  <2>3. /\ Cardinality(Lowest(all, h)) = h
        /\ \A e \in Lowest(all, h), f \in all \ Lowest(all, h) : e.key < f.key
    BY <2>2, LowestOfPage
  <2> QED
    BY <1>8, <2>1, <2>3
<1> DEFINE rest == all \ lower
<1>10. /\ PageOf(lower) /\ PageOf(rest) /\ Cardinality(rest) = n + 1 - h
  <2>1. /\ PageOf(lower) /\ PageOf(all \ lower)
        /\ Cardinality(all \ lower) = Cardinality(all) - Cardinality(lower)
    BY <1>6, <1>9, PageParts
  <2> QED
    BY <1>5, <1>6, <1>7, <1>9, <2>1
<1> HIDE DEF rest
<1>11. rest # {}
  <2>1. IsFiniteSet(rest)
    BY <1>10 DEF PageOf
  <2>2. Cardinality(rest) # 0
    BY <1>5, <1>7, <1>10
  <2> QED
    BY <2>1, <2>2, FS_EmptySet
<1>12. PICK e0 \in rest : FirstOf(rest) = {e0} /\ \A f \in rest : f # e0 => e0.key < f.key
  BY <1>10, <1>11, SmallestOfPage
<1> DEFINE m == e0.key
           c == e0.child
           F == rest \ {e0}
<1>13. \A e \in all : IndexesChild(live, low, level, x, e)
  BY <1>1, <1>2, <1>4
<1>14. e0 \in all /\ e0 = BranchTuple(m, c)
  <2>1. e0 \in all
    BY DEF rest
  <2> QED
    BY <1>13, <2>1 DEF IndexesChild
<1>15. PageOf(F) /\ Cardinality(F) = (n + 1 - h) - 1
  BY <1>10, <1>12, PageWithoutTuple
<1> HIDE DEF F, m, c
<1>16. all = lower \cup F \cup {BranchTuple(m, c)}
  BY <1>9, <1>14 DEF F, rest
<1>17. \A e \in lower : e.key < m
  BY <1>9 DEF m, rest
<1>18. \A e \in F : m < e.key
  BY <1>12 DEF m, F
<1>19. /\ Cardinality(lower) \in Nat /\ Cardinality(lower) <= n /\ Cardinality(lower) >= n \div 2
       /\ Cardinality(F) \in Nat /\ Cardinality(F) <= n /\ Cardinality(F) >= n \div 2
  BY <1>5, <1>7, <1>9, <1>15
<1>20. BranchParts(ns, live, low, level, x, o, m, c, lower, F)
  BY <1>4, <1>10, <1>13, <1>15, <1>16, <1>17, <1>18, <1>19 DEF BranchParts, P, own, n
<1>21. FirstOf(all \ lower) = {BranchTuple(m, c)} /\ F = (all \ lower) \ {BranchTuple(m, c)}
  BY <1>12, <1>14 DEF rest, F
<1> QED
  BY <1>20, <1>21

\* a fresh node is connected at the right of x; the two have pages X and F, and
\* the fresh one a first child c
BranchPages(ns, ns2, x, fresh, c, X, F) ==
  /\ ns2 \in Table
  /\ \A y \in NodeIDs :
       /\ ns2[y].page = IF y = x THEN X ELSE IF y = fresh THEN F ELSE ns[y].page
       /\ ns2[y].firstChildID = IF y = fresh THEN c ELSE ns[y].firstChildID
       /\ ns2[y].siblingLeftID = IF y = fresh THEN x ELSE IF y = ns[x].siblingRightID THEN fresh
                                 ELSE ns[y].siblingLeftID
       /\ ns2[y].siblingRightID = IF y = fresh THEN ns[x].siblingRightID ELSE IF y = x THEN fresh
                                  ELSE ns[y].siblingRightID
       /\ ns2[y].parentID = IF y = fresh THEN ns[x].parentID ELSE ns[y].parentID

\* and its children are told
BranchLinks(ns, ns3, x, fresh, c, X, F) ==
  /\ ns3 \in Table
  /\ \A y \in NodeIDs :
       /\ ns3[y].page = IF y = x THEN X ELSE IF y = fresh THEN F ELSE ns[y].page
       /\ ns3[y].firstChildID = IF y = fresh THEN c ELSE ns[y].firstChildID
       /\ ns3[y].siblingLeftID = IF y = fresh THEN x ELSE IF y = ns[x].siblingRightID THEN fresh
                                 ELSE ns[y].siblingLeftID
       /\ ns3[y].siblingRightID = IF y = fresh THEN ns[x].siblingRightID ELSE IF y = x THEN fresh
                                  ELSE ns[y].siblingRightID
       /\ ns3[y].parentID = IF y = c \/ \E e \in F : e.child = y THEN fresh
                            ELSE IF y = fresh THEN ns[x].parentID
                            ELSE ns[y].parentID

\* the table with new pages for a branch and for a fresh one
BranchTable(ns1, x, fresh, X, F, c) ==
  [ns1 EXCEPT ![x].page = X, ![fresh].page = F, ![fresh].firstChildID = c]

\* what split_branch_and_insert does to the table, until it updates the parent pointers
LEMMA SplitBranchPages ==
  ASSUME NEW ns \in Table, NEW x \in NodeIDs, NEW fresh \in NodeIDs, x # fresh,
         ns[x].siblingRightID # x, ns[x].siblingRightID # fresh,
         NEW X \in SUBSET Entry, NEW F \in SUBSET Entry, NEW c \in NodeIDs
  PROVE  BranchPages(ns, BranchTable(ConnectFresh(ns, fresh, x), x, fresh, X, F, c), x, fresh, c, X, F)
<1> DEFINE r == ns[x].siblingRightID
           ns1 == ConnectFresh(ns, fresh, x)
<1>2. /\ ns1 \in Table
      /\ \A y \in NodeIDs :
           /\ ns1[y].page = IF y = fresh THEN {} ELSE ns[y].page
           /\ ns1[y].firstChildID = ns[y].firstChildID
           /\ ns1[y].parentID = IF y = fresh THEN ns[x].parentID ELSE ns[y].parentID
           /\ ns1[y].siblingLeftID =
                IF y = fresh THEN x ELSE IF y = r THEN fresh ELSE ns[y].siblingLeftID
           /\ ns1[y].siblingRightID =
                IF y = fresh THEN r ELSE IF y = x THEN fresh ELSE ns[y].siblingRightID
  BY ConnectFreshFields
<1> HIDE DEF r, ns1
<1> DEFINE xRec == [ns1[x] EXCEPT !.page = X]
           fRec == [ns1[fresh] EXCEPT !.page = F, !.firstChildID = c]
           ns2 == [ns1 EXCEPT ![x].page = X, ![fresh].page = F, ![fresh].firstChildID = c]
<1>3. c \in NodeRefs
  BY DEF NodeRefs
<1>4. ns1[x] \in Node /\ ns1[fresh] \in Node
  BY <1>2 DEF Table
<1>5. /\ xRec \in Node /\ xRec.page = X
      /\ xRec.firstChildID = ns1[x].firstChildID /\ xRec.parentID = ns1[x].parentID
      /\ xRec.siblingLeftID = ns1[x].siblingLeftID /\ xRec.siblingRightID = ns1[x].siblingRightID
  BY <1>4 DEF Node
<1>6. /\ fRec \in Node /\ fRec.page = F
      /\ fRec.firstChildID = c /\ fRec.parentID = ns1[fresh].parentID
      /\ fRec.siblingLeftID = ns1[fresh].siblingLeftID /\ fRec.siblingRightID = ns1[fresh].siblingRightID
  BY <1>3, <1>4 DEF Node
<1>7. /\ ns2 \in Table /\ ns2[x] = xRec /\ ns2[fresh] = fRec
      /\ \A y \in NodeIDs : y \notin {x, fresh} => ns2[y] = ns1[y]
  BY <1>2, <1>5, <1>6 DEF Table
<1> HIDE DEF xRec, fRec, ns2
<1>8. \A y \in NodeIDs :
        /\ ns2[y].firstChildID = IF y = fresh THEN c ELSE ns1[y].firstChildID
        /\ ns2[y].parentID = ns1[y].parentID
        /\ ns2[y].siblingLeftID = ns1[y].siblingLeftID
        /\ ns2[y].siblingRightID = ns1[y].siblingRightID
  BY <1>5, <1>6, <1>7
<1>9. \A y \in NodeIDs : ns2[y].page = IF y = x THEN X ELSE IF y = fresh THEN F ELSE ns[y].page
  BY <1>2, <1>5, <1>6, <1>7
<1>10. BranchPages(ns, ns2, x, fresh, c, X, F)
  BY <1>2, <1>7, <1>8, <1>9 DEF BranchPages, r
<1> QED
  BY <1>10 DEF ns2, ns1, BranchTable

\* the children of a branch with first child c and page F
ChildrenIn(c, F) == {c} \cup {e.child : e \in F}

\* and then
LEMMA SplitBranchLinks ==
  ASSUME NEW ns, NEW x \in NodeIDs, NEW fresh \in NodeIDs, x # fresh,
         NEW X, NEW F, NEW c, NEW ns2, BranchPages(ns, ns2, x, fresh, c, X, F)
  PROVE  /\ Children(ns2, fresh) = ChildrenIn(c, F)
         /\ BranchLinks(ns, UpdateParentPointers(ns2, fresh, fresh), x, fresh, c, X, F)
<1>1. ns2 \in Table
  BY DEF BranchPages
<1>2. Children(ns2, fresh) = {c} \cup {e.child : e \in F}
  BY DEF BranchPages, Children
<1> DEFINE ns3 == UpdateParentPointers(ns2, fresh, fresh)
<1>3. /\ ns3 \in Table
      /\ \A y \in NodeIDs :
            /\ ns3[y].page = ns2[y].page
            /\ ns3[y].firstChildID = ns2[y].firstChildID
            /\ ns3[y].siblingLeftID = ns2[y].siblingLeftID
            /\ ns3[y].siblingRightID = ns2[y].siblingRightID
            /\ ns3[y].parentID = IF y \in Children(ns2, fresh) THEN fresh ELSE ns2[y].parentID
  BY <1>1, UpdateParentPointersFields
<1>4. \A y \in NodeIDs : y \in Children(ns2, fresh) <=> (y = c \/ \E e \in F : e.child = y)
  BY <1>2
<1> HIDE DEF ns3
<1>5. BranchLinks(ns, ns3, x, fresh, c, X, F)
  BY <1>3, <1>4 DEF BranchLinks, BranchPages
<1> QED
  BY <1>2, <1>5 DEF ns3, ChildrenIn

\* a full branch is split
LEMMA SplitBranch ==
  ASSUME NEW ns, NEW live, NEW root, NEW low, NEW level, NEW o,
         Shape(ns, live, root, low, level, o), NEW x, Awaits(ns, live, low, level, x, o),
         NEW fresh \in NodeIDs \ live,
         NEW m, NEW c, NEW X, NEW F, BranchParts(ns, live, low, level, x, o, m, c, X, F),
         NEW ns3, BranchLinks(ns, ns3, x, fresh, c, X, F)
  PROVE  /\ ChildrenIn(c, F) \subseteq live
         /\ SplitsOff(ns, ns3, live, root, low, level, x, fresh, m)
<1>1. /\ x \in live /\ x \in NodeIDs /\ x # NoNode /\ level[x] > 0 /\ level[x] \in Nat
      /\ o \in live /\ ns[o].parentID = x /\ level[x] = level[o] + 1
      /\ fresh \in NodeIDs /\ fresh \notin live /\ x # fresh /\ ns \in Table /\ live \subseteq NodeIDs
  BY OrphansEntry DEF Awaits, Shape
<1>2. ns[x].siblingRightID # x /\ ns[x].siblingRightID # fresh
  BY <1>1, RightSiblingIsAnother
<1>3. /\ ns[x].page \cup {BranchTuple(low[o], o)} = X \cup F \cup {BranchTuple(m, c)}
      /\ \A e \in X \cup F \cup {BranchTuple(m, c)} : IndexesChild(live, low, level, x, e)
      /\ PageOf(X) /\ PageOf(F)
      /\ (\A e \in X : e.key < m) /\ (\A e \in F : m < e.key)
      /\ Cardinality(X) \in Nat /\ Cardinality(X) <= MaxBranchTuples /\ Cardinality(X) >= MaxBranchTuples \div 2
      /\ Cardinality(F) \in Nat /\ Cardinality(F) <= MaxBranchTuples /\ Cardinality(F) >= MaxBranchTuples \div 2
  BY DEF BranchParts
<1>4. /\ m \in Nat /\ c \in live /\ c \in NodeIDs /\ c # NoNode /\ level[c] + 1 = level[x]
      /\ low[x] < m /\ InRangeOf(live, low, level, x, m)
  <2>1. IndexesChild(live, low, level, x, BranchTuple(m, c))
    BY <1>3
  <2>2. BranchTuple(m, c).key = m /\ BranchTuple(m, c).child = c
    BY DEF BranchTuple
  <2> QED
    BY <2>1, <2>2 DEF IndexesChild
<1>5. \A e \in F : e.child \in live /\ level[e.child] + 1 = level[x]
  BY <1>3 DEF IndexesChild
<1>7. fresh # c /\ \A e \in F : fresh # e.child
  BY <1>1, <1>4, <1>5
<1>8. /\ ns3 \in Table
      /\ \A y \in NodeIDs :
           /\ ns3[y].page = IF y = x THEN X ELSE IF y = fresh THEN F ELSE ns[y].page
           /\ ns3[y].firstChildID = IF y = fresh THEN c ELSE ns[y].firstChildID
           /\ ns3[y].siblingLeftID = IF y = fresh THEN x ELSE IF y = ns[x].siblingRightID THEN fresh
                                      ELSE ns[y].siblingLeftID
           /\ ns3[y].siblingRightID = IF y = fresh THEN ns[x].siblingRightID ELSE IF y = x THEN fresh
                                      ELSE ns[y].siblingRightID
  BY DEF BranchLinks
<1>21. \A y \in NodeIDs : ns3[y].parentID = IF y = fresh THEN ns[x].parentID
                                ELSE IF y = c \/ \E e \in F : e.child = y THEN fresh
                                ELSE ns[y].parentID
  BY <1>7 DEF BranchLinks
<1>9. {c} \cup {e.child : e \in F} \subseteq live
  BY <1>4, <1>5
<1>10. MaxTupleCount(ns3, x) = MaxBranchTuples /\ MaxTupleCount(ns3, fresh) = MaxBranchTuples
  <2>1. ns[x].firstChildID # NoNode
    BY <1>1 DEF Shape, RootOnTop
  <2>2. ns3[x].firstChildID # NoNode /\ ns3[fresh].firstChildID # NoNode
    BY <1>1, <1>4, <1>8, <2>1
  <2> QED
    BY <2>2 DEF MaxTupleCount, HasChildren
<1>11. HalfFull(ns3, x, X) /\ HalfFull(ns3, fresh, F)
  BY <1>3, <1>10 DEF HalfFull, PageOf
<1>12. Divides(ns, ns3, live, low, level, x, fresh, m, X, F)
  <2>1. \A e \in X : e.key \in Nat /\ e.key < m /\ low[x] < e.key
    BY <1>3 DEF IndexesChild
  <2>2. \A e \in F : e.key \in Nat /\ InRangeOf(live, low, level, x, e.key) /\ m < e.key
    BY <1>3 DEF IndexesChild
  <2>3. level[x] # 0
    BY <1>1
  <2>4. \A y \in NodeIDs : y \notin live \cup {fresh} => ns3[y].parentID = ns[y].parentID
    BY <1>4, <1>5, <1>21
  <2>5. \A y \in NodeIDs : y # fresh => ns3[y].firstChildID = ns[y].firstChildID
    BY <1>8
  <2>6. \A y \in NodeIDs :
           /\ ns3[y].page = IF y = x THEN X ELSE IF y = fresh THEN F ELSE ns[y].page
           /\ ns3[y].siblingLeftID = IF y = fresh THEN x ELSE IF y = ns[x].siblingRightID THEN fresh
                                     ELSE ns[y].siblingLeftID
           /\ ns3[y].siblingRightID = IF y = fresh THEN ns[x].siblingRightID ELSE IF y = x THEN fresh
                                      ELSE ns[y].siblingRightID
    BY <1>8
  <2>7. ns3 \in Table
    BY <1>8
  <2> QED
    BY <1>1, <1>4, <1>11, <2>1, <2>2, <2>3, <2>4, <2>5, <2>6, <2>7 DEF Divides
<1>13. BranchDivides(ns, ns3, low, x, fresh, o, m, c, X, F)
  BY <1>1, <1>3, <1>8, <1>21 DEF BranchDivides
<1>14. Shape(ns3, live \cup {fresh}, root, [low EXCEPT ![fresh] = m],
             [level EXCEPT ![fresh] = level[x]], fresh)
  BY <1>1, <1>12, <1>13, DividedBranch
<1>15. TupleCount(ns3, x) >= MaxTupleCount(ns3, x) \div 2
  <2>1. ns3[x].page = X
    BY <1>1, <1>8
  <2> QED
    BY <1>11, <2>1 DEF HalfFull, TupleCount
<1>16. ns3[fresh].parentID = ns[x].parentID
  BY <1>1, <1>21
<1>17. \A y \in live : level[y] >= level[x] => ns3[y].parentID = ns[y].parentID
  <2> SUFFICES ASSUME NEW y \in live, level[y] >= level[x] PROVE ns3[y].parentID = ns[y].parentID
    OBVIOUS
  <2>1. y \in NodeIDs /\ y # fresh
    BY <1>1
  <2>2. \A z \in live : level[z] \in Nat
    BY DEF Shape, Ghosts
  <2>3. y # c /\ \A e \in F : e.child # y
    BY <1>1, <1>4, <1>5, <2>2
  <2> QED
    BY <1>21, <2>1, <2>3
<1>18. \A y \in live : y \in NodeIDs /\ y # fresh
  BY <1>1
<1>19. /\ \A y \in live : ns3[y].firstChildID = ns[y].firstChildID
       /\ \A y \in live : y # x => ns3[y].siblingRightID = ns[y].siblingRightID
                              /\ ns3[y].page = ns[y].page
       /\ ns3[x].siblingRightID = fresh /\ ns3[fresh].siblingRightID = ns[x].siblingRightID
  BY <1>1, <1>8, <1>18
<1>20. SplitsOff(ns, ns3, live, root, low, level, x, fresh, m)
  BY <1>4, <1>14, <1>15, <1>16, <1>17, <1>19 DEF SplitsOff
<1> QED
  BY <1>9, <1>20 DEF ChildrenIn
=============================================================================
