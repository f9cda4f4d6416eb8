-------------------------------- MODULE BTree --------------------------------
(***************************************************************************)
(* whery's B+-tree (src/db/btrees/BTree.cpp): a dictionary of leaf tuples, *)
(* ordered by a unique key, over pages of limited size.  Nodes are records *)
(* in a table indexed by node ID; branch pages hold index entries          *)
(* <key, child ID> to the right of firstChildID; leaves are chained.       *)
(*                                                                         *)
(* insert_tuple and erase_tuple are recursive.  A call is modelled frame   *)
(* by frame: it walks down ("insertDown", "eraseDown") to a leaf, does the *)
(* whole leaf handler in one step, and returns ("insertUp", "eraseUp")     *)
(* through the frames in `path', each of which deals with the split or     *)
(* merge reported to it.  A failed assertion, an exception or an access to *)
(* a node or tuple that does not exist ends the run ("aborted").           *)
(*                                                                         *)
(* A tuple is the natural number that gives its place in the key order; a  *)
(* search key (ValueKey, compared by prefix) is the interval <<low, high>> *)
(* of the tuples it compares equal to, and is no longer than a branch key. *)
(***************************************************************************)
EXTENDS Integers, FiniteSets, Sequences

CONSTANTS
  Tuples,           \* the tuples that may be inserted
  SearchKeys,       \* the keys that may be erased, as <<low, high>>
  MaxLeafTuples,    \* max_tuple_count() of a leaf page
  MaxBranchTuples,  \* max_tuple_count() of a branch page
  MaxNodes,         \* bound: at most this many nodes at a time
  CountModulus      \* m_tupleCount is unsigned: it counts modulo this

ASSUME TuplesAssumption == Tuples \subseteq Nat
ASSUME SearchKeysAssumption == SearchKeys \subseteq Nat \X Nat
ASSUME PageSizeAssumption ==
  /\ MaxLeafTuples \in Nat /\ MaxLeafTuples >= 2
  /\ MaxBranchTuples \in Nat /\ MaxBranchTuples >= 2
ASSUME BoundsAssumption == MaxNodes \in Nat \ {0} /\ CountModulus \in Nat \ {0}

VARIABLES
  m_nodes, m_rootID, m_firstLeafID, m_lastLeafID, m_tupleCount,
  m_nodeIDAllocator,  \* the two sets of the IDAllocator
  pc,                 \* what the call in progress does next
  key,                \* its argument: <<t, t>> to insert t, or a search key
  node,               \* the subtree it is about to enter
  path,               \* the branches whose frames are on the stack
  result              \* what the last frame returned: nothing, a Split or a Merge

tree  == <<m_nodes, m_rootID, m_firstLeafID, m_lastLeafID, m_nodeIDAllocator>>
call  == <<pc, key, node, path, result>>
vars  == <<tree, m_tupleCount, call>>

NodeIDs  == 0..(MaxNodes - 1)
NoNode   == -1
NodeRefs == NodeIDs \cup {NoNode}

\* a leaf tuple has no child
Entry == [key : Nat, child : NodeRefs]

\* a node without a page (page.reset()) is one whose ID is not in use
Node == [firstChildID  : NodeRefs, page          : SUBSET Entry,
         parentID      : NodeRefs, siblingLeftID : NodeRefs,
         siblingRightID : NodeRefs]
BlankNode == [firstChildID |-> NoNode, page |-> {}, parentID |-> NoNode,
              siblingLeftID |-> NoNode, siblingRightID |-> NoNode]

Result == [kind : {"none", "split", "merge"}, left : NodeRefs,
           right : NodeRefs, splitter : Nat]
NoResult == [kind |-> "none", left |-> NoNode, right |-> NoNode, splitter |-> 0]
Split(l, r, k) == [kind |-> "split", left |-> l, right |-> r, splitter |-> k]
Merge(id) == [kind |-> "merge", left |-> id, right |-> NoNode, splitter |-> 0]

IDs == INSTANCE IDAllocator WITH
         MaxIDs <- MaxNodes,
         m_free <- m_nodeIDAllocator.free,
         m_used <- m_nodeIDAllocator.used

Live == m_nodeIDAllocator.used

-----------------------------------------------------------------------------
(***************************************************************************)
(* A page is a multiset sorted by key, and index entries with the same key *)
(* by child.  No entry is ever twice in a page (see KeysAreUnique), so a   *)
(* set with a first and a last entry says as much.  FirstOf and LastOf are *)
(* empty when there is nothing to dereference.                             *)
(***************************************************************************)
Before(e, f) == e.key < f.key \/ (e.key = f.key /\ e.child < f.child)
FirstOf(S) == {e \in S : \A f \in S : ~Before(f, e)}
LastOf(S)  == {e \in S : \A f \in S : ~Before(e, f)}
The(S) == CHOOSE e \in S : TRUE

\* mutant: the largest entries of a page for the smallest
LowestSwapped(S, n) == {e \in S : Cardinality({f \in S : Before(e, f)}) < n}

\* the n smallest and the n largest entries of a page
Lowest(S, n)  == {e \in S : Cardinality({f \in S : Before(f, e)}) < n}
Highest(S, n) == {e \in S : Cardinality({f \in S : Before(e, f)}) < n}

LeafTuple(t) == [key |-> t, child |-> NoNode]
BranchTuple(k, id) == [key |-> k, child |-> id]

HasChildren(ns, id) == ns[id].firstChildID # NoNode
Children(ns, id) == {ns[id].firstChildID} \cup {e.child : e \in ns[id].page}
TupleCount(ns, id) == Cardinality(ns[id].page)
MaxTupleCount(ns, id) ==
  IF HasChildren(ns, id) THEN MaxBranchTuples ELSE MaxLeafTuples

\* mutant: a full page has room for one more
HasLessThanMaxTuplesOffByOne(ns, id) == TupleCount(ns, id) <= MaxTupleCount(ns, id)

HasLessThanMaxTuples(ns, id) == TupleCount(ns, id) < MaxTupleCount(ns, id)

\* mutant: a node that is to give a tuple away may keep too few
HasAtLeastMinTuplesIgnoringOffset(ns, id, offset) ==
  TupleCount(ns, id) >= MaxTupleCount(ns, id) \div 2

\* the sum is unsigned: an empty page minus one tuple is a huge number
HasAtLeastMinTuples(ns, id, offset) ==
  LET n == TupleCount(ns, id) + offset
  IN  n < 0 \/ n >= MaxTupleCount(ns, id) \div 2

\* mutant: a sibling under another parent is useful as well
IsUsefulSiblingAnyParent(ns, id, sibling) == sibling # NoNode

IsUsefulSibling(ns, id, sibling) ==
  sibling # NoNode /\ ns[sibling].parentID = ns[id].parentID
CanLend(ns, id, sibling) ==
  IsUsefulSibling(ns, id, sibling) /\ HasAtLeastMinTuples(ns, sibling, -1)

\* the child to the left of a position in a branch page, the position being
\* given by the entries before it
LeftChildOf(ns, id, before) ==
  IF LastOf(before) = {} THEN ns[id].firstChildID ELSE The(LastOf(before)).child

(***************************************************************************)
(* Operations on the node table.  Each returns the table it leaves behind; *)
(* the Can... operators say when the code gets through its assertions.     *)
(***************************************************************************)

\* mutant: no second search for the entry of an empty node
FindIndexEntryOfNonEmpty(ns, id) ==
  LET parent == ns[id].parentID
  IN  IF parent = NoNode \/ ns[parent].firstChildID = id THEN {}
      ELSE LastOf({e \in ns[parent].page : \E f \in FirstOf(ns[id].page) : e.key <= f.key})

\* find_index_entry: the entry of node id in its parent's page, if it is found
FindIndexEntry(ns, id) ==
  LET parent == ns[id].parentID
      left   == ns[id].siblingLeftID
      up     == ns[parent].page
  IN  IF parent = NoNode \/ ns[parent].firstChildID = id THEN {}
      ELSE IF ns[id].page # {}
        THEN LastOf({e \in up : \E f \in FirstOf(ns[id].page) : e.key <= f.key})
      ELSE IF IsUsefulSibling(ns, id, left)
        THEN FirstOf({e \in up : \E f \in FirstOf(ns[left].page) : e.key > f.key})
      ELSE {}

CanFindIndexEntry(ns, id) == FindIndexEntry(ns, id) # {}
\* mutant: the old index entry is kept
EraseIndexEntryKept(ns, id) == ns

EraseIndexEntry(ns, id) ==
  [ns EXCEPT ![ns[id].parentID].page = @ \ {The(FindIndexEntry(ns, id))}]

CanAddIndexEntry(ns, id) ==
  /\ ns[id].parentID # NoNode
  /\ FirstOf(ns[id].page) # {}
  /\ HasLessThanMaxTuples(ns, ns[id].parentID)
AddIndexEntry(ns, id) ==
  [ns EXCEPT ![ns[id].parentID].page =
     @ \cup {BranchTuple(The(FirstOf(ns[id].page)).key, id)}]

AddTuple(ns, id, e) == [ns EXCEPT ![id].page = @ \cup {e}]
EraseTuple(ns, id, e) == [ns EXCEPT ![id].page = @ \ {e}]

\* transfer_leaf_tuples: S goes from one node to another with the same parent
CanTransfer(ns, source, target, S) ==
  /\ target # NoNode
  /\ ns[target].parentID = ns[source].parentID
  /\ TupleCount(ns, target) + Cardinality(S) <= MaxTupleCount(ns, target)
Transfer(ns, source, target, S) ==
  [ns EXCEPT ![target].page = @ \cup S, ![source].page = @ \ S]

\* mutant: the old right sibling keeps its left link
ConnectFreshOneSided(ns, fresh, existing) ==
  [ns EXCEPT ![fresh] = [@ EXCEPT !.page = {}, !.parentID = ns[existing].parentID,
                                  !.siblingLeftID = existing,
                                  !.siblingRightID = ns[existing].siblingRightID],
             ![existing].siblingRightID = fresh]

\* add_node and connect_node_as_right_sibling_of; firstChildID is left alone
ConnectFresh(ns, fresh, existing) ==
  LET right == ns[existing].siblingRightID
      added == [ns EXCEPT ![fresh] =
                  [@ EXCEPT !.page = {}, !.parentID = ns[existing].parentID,
                            !.siblingLeftID = existing, !.siblingRightID = right],
                          ![existing].siblingRightID = fresh]
  IN  IF right = NoNode THEN added ELSE [added EXCEPT ![right].siblingLeftID = fresh]

AddRootNode(ns, root, split) ==
  [ns EXCEPT ![root] = [@ EXCEPT !.page = {BranchTuple(split.splitter, split.right)},
                                 !.firstChildID = split.left, !.parentID = NoNode,
                                 !.siblingLeftID = NoNode, !.siblingRightID = NoNode],
             ![split.left].parentID = root,
             ![split.right].parentID = root]

DisconnectFromSiblings(ns, id) ==
  [i \in NodeIDs |->
     [ns[i] EXCEPT
        !.siblingRightID = IF i = ns[id].siblingLeftID THEN ns[id].siblingRightID ELSE @,
        !.siblingLeftID  = IF i = ns[id].siblingRightID THEN ns[id].siblingLeftID ELSE @]]

\* mutant: the first child is not reset with the rest
DeleteNodeKeepingFirstChild(ns, id) ==
  [ns EXCEPT ![id] = [BlankNode EXCEPT !.firstChildID = ns[id].firstChildID]]

DeleteNode(ns, id) == [ns EXCEPT ![id] = BlankNode]

\* mutant: only the children in the page are told
UpdateParentPointersInPage(ns, old, new) ==
  [i \in NodeIDs |->
     IF i \in {e.child : e \in ns[old].page} THEN [ns[i] EXCEPT !.parentID = new] ELSE ns[i]]

UpdateParentPointers(ns, old, new) ==
  [i \in NodeIDs |->
     IF i \in Children(ns, old) THEN [ns[i] EXCEPT !.parentID = new] ELSE ns[i]]

\* pull_down_index_entry: the parent's entry for `source' moves to `target'
CanPullDown(ns, source, target) ==
  CanFindIndexEntry(ns, source) /\ HasLessThanMaxTuples(ns, target)
PullDownIndexEntry(ns, source, target, child) ==
  LET e == The(FindIndexEntry(ns, source))
  IN  [ns EXCEPT ![target].page = @ \cup {BranchTuple(e.key, child)},
                 ![ns[source].parentID].page = @ \ {e}]

-----------------------------------------------------------------------------
(***************************************************************************)
(* The node IDs handed out: a split takes one, or two when the root splits.*)
(***************************************************************************)
FreshID == IDs!Allocated(m_nodeIDAllocator.free, m_nodeIDAllocator.used)
\* mutant: an ID taken from the gaps stays among them
AfterAllocateKeepingGap(ids) ==
  [free |-> ids.free, used |-> IDs!UsedAfterAllocate(ids.free, ids.used)]

AfterAllocate(ids) ==
  [free |-> IDs!FreeAfterAllocate(ids.free, ids.used),
   used |-> IDs!UsedAfterAllocate(ids.free, ids.used)]
AfterDeallocate(id) ==
  [free |-> IDs!FreeAfterDeallocate(m_nodeIDAllocator.free, Live, id),
   used |-> IDs!UsedAfterDeallocate(Live, id)]
FreshRootID ==
  LET ids == AfterAllocate(m_nodeIDAllocator) IN IDs!Allocated(ids.free, ids.used)

\* the tuples in the leaves
Stored == UNION {{e.key : e \in m_nodes[id].page} :
                 id \in {i \in Live : ~HasChildren(m_nodes, i)}}

Abort == pc' = "aborted" /\ UNCHANGED <<tree, m_tupleCount, key, node, path, result>>

Idle(count) ==
  /\ pc' = "idle" /\ m_tupleCount' = count
  /\ key' = <<0, 0>> /\ node' = NoNode /\ path' = <<>> /\ result' = NoResult
  /\ UNCHANGED tree

Begin(down, k) ==
  /\ pc = "idle"
  /\ pc' = down /\ key' = k /\ node' = m_rootID
  /\ UNCHANGED <<tree, m_tupleCount, path, result>>

\* enter the child at a position of the branch `node'
Descend(before) ==
  LET child == LeftChildOf(m_nodes, node, before)
  IN  IF child \in Live
        THEN /\ node' = child /\ path' = Append(path, node)
             /\ UNCHANGED <<tree, m_tupleCount, pc, key, result>>
        ELSE Abort

\* the handler of a leaf returns
LeafReturns(up, ns, res) ==
  /\ pc' = up /\ m_nodes' = ns /\ result' = res
  /\ UNCHANGED <<m_firstLeafID, m_tupleCount, key, node, path>>

\* the handler of the innermost branch on the stack returns
Frame == path[Len(path)]
BranchReturns(ns, res) ==
  /\ m_nodes' = ns /\ result' = res /\ path' = SubSeq(path, 1, Len(path) - 1)
  /\ UNCHANGED <<m_firstLeafID, m_lastLeafID, m_tupleCount, pc, key, node>>

SameRootAndIDs == UNCHANGED <<m_rootID, m_nodeIDAllocator>>

-----------------------------------------------------------------------------
(***************************************************************************)
(* insert_tuple                                                            *)
(***************************************************************************)

\* keys are unique (BTree.h:21-23): the caller inserts no tuple twice
InsertCall(t) == t \notin Stored /\ Begin("insertDown", <<t, t>>)

NewTuple == LeafTuple(key[1])

InsertDescend ==
  /\ pc = "insertDown" /\ HasChildren(m_nodes, node)
  /\ Descend({e \in m_nodes[node].page : e.key <= key[1]})

AtLeafToInsert == pc = "insertDown" /\ ~HasChildren(m_nodes, node)
LeftLeaf  == m_nodes[node].siblingLeftID
RightLeaf == m_nodes[node].siblingRightID
HasRoomIn(sibling) ==
  IsUsefulSibling(m_nodes, node, sibling) /\ HasLessThanMaxTuples(m_nodes, sibling)

InsertIntoLeaf ==
  /\ AtLeafToInsert
  /\ HasLessThanMaxTuples(m_nodes, node)
  /\ LeafReturns("insertUp", AddTuple(m_nodes, node, NewTuple), NoResult)
  /\ SameRootAndIDs /\ UNCHANGED m_lastLeafID

RedistributeLeafLeftAndInsert ==
  LET ns1   == EraseIndexEntry(m_nodes, node)
      first == Lowest(ns1[node].page, 1)
      ns2   == Transfer(ns1, node, LeftLeaf, first)
      ns3   == AddTuple(ns2, node, NewTuple)
      ok    == /\ CanFindIndexEntry(m_nodes, node)
               /\ CanTransfer(ns1, node, LeftLeaf, first)
               /\ CanAddIndexEntry(ns3, node)
  IN  /\ AtLeafToInsert
      /\ ~HasLessThanMaxTuples(m_nodes, node)
      /\ HasRoomIn(LeftLeaf)
      /\ IF ok THEN /\ LeafReturns("insertUp", AddIndexEntry(ns3, node), NoResult)
                    /\ SameRootAndIDs /\ UNCHANGED m_lastLeafID
               ELSE Abort

RedistributeLeafRightAndInsert ==
  LET ns1  == EraseIndexEntry(m_nodes, RightLeaf)
      last == Highest(ns1[node].page, 1)
      ns2  == IF \A e \in ns1[node].page : e.key < key[1]
                THEN AddTuple(ns1, RightLeaf, NewTuple)
                ELSE AddTuple(Transfer(ns1, node, RightLeaf, last), node, NewTuple)
      ok   == /\ CanFindIndexEntry(m_nodes, RightLeaf)
              /\ CanTransfer(ns1, node, RightLeaf, last)
              /\ CanAddIndexEntry(ns2, RightLeaf)
  IN  /\ AtLeafToInsert
      /\ ~HasLessThanMaxTuples(m_nodes, node)
      /\ ~HasRoomIn(LeftLeaf) /\ HasRoomIn(RightLeaf)
      /\ IF ok THEN /\ LeafReturns("insertUp", AddIndexEntry(ns2, RightLeaf), NoResult)
                    /\ SameRootAndIDs /\ UNCHANGED m_lastLeafID
               ELSE Abort

\* split_leaf_and_insert, and add_root_node if the leaf is the root
SplitLeafAndInsert ==
  LET fresh == FreshID
      ns1   == ConnectFresh(m_nodes, fresh, node)
      upper == Highest(ns1[node].page, TupleCount(ns1, node) \div 2)
      ns2   == Transfer(ns1, node, fresh, upper)
      side  == IF \E f \in FirstOf(upper) : key[1] < f.key THEN node ELSE fresh
      ns3   == AddTuple(ns2, side, NewTuple)
      split == Split(node, fresh, The(FirstOf(ns3[fresh].page)).key)
      atRoot == node = m_rootID
      lastID == IF m_lastLeafID = node THEN fresh ELSE m_lastLeafID
  IN  /\ AtLeafToInsert
      /\ ~HasLessThanMaxTuples(m_nodes, node)
      /\ ~HasRoomIn(LeftLeaf) /\ ~HasRoomIn(RightLeaf)
      /\ fresh \in NodeIDs /\ (atRoot => FreshRootID \in NodeIDs)   \* bound
      /\ IF FirstOf(ns3[fresh].page) = {} THEN Abort
         ELSE IF atRoot
           THEN /\ LeafReturns("insertUp", AddRootNode(ns3, FreshRootID, split), NoResult)
                /\ m_rootID' = FreshRootID
                /\ m_nodeIDAllocator' = AfterAllocate(AfterAllocate(m_nodeIDAllocator))
                /\ m_lastLeafID' = lastID
           ELSE /\ LeafReturns("insertUp", ns3, split)
                /\ m_nodeIDAllocator' = AfterAllocate(m_nodeIDAllocator)
                /\ m_lastLeafID' = lastID /\ UNCHANGED m_rootID

ReturningToBranch(up, kind) == pc = up /\ path # <<>> /\ result.kind = kind

InsertReturnsWithoutSplit ==
  /\ ReturningToBranch("insertUp", "none")
  /\ BranchReturns(m_nodes, NoResult) /\ SameRootAndIDs

SplitTuple == BranchTuple(result.splitter, result.right)

InsertIndexEntry ==
  /\ ReturningToBranch("insertUp", "split")
  /\ HasLessThanMaxTuples(m_nodes, Frame)
  /\ BranchReturns(AddTuple(m_nodes, Frame, SplitTuple), NoResult)
  /\ SameRootAndIDs

\* split_branch_and_insert, and add_root_node if the branch is the root
SplitBranchAndInsert ==
  LET fresh  == FreshID
      all    == m_nodes[Frame].page \cup {SplitTuple}
      lower  == Lowest(all, Cardinality(all) \div 2)
      median == The(FirstOf(all \ lower))
      ns1    == ConnectFresh(m_nodes, fresh, Frame)
      ns2    == [ns1 EXCEPT ![Frame].page = lower,
                            ![fresh].page = (all \ lower) \ {median},
                            ![fresh].firstChildID = median.child]
      ns3    == UpdateParentPointers(ns2, fresh, fresh)
      split  == Split(Frame, fresh, median.key)
      atRoot == Frame = m_rootID
  IN  /\ ReturningToBranch("insertUp", "split")
      /\ ~HasLessThanMaxTuples(m_nodes, Frame)
      /\ fresh \in NodeIDs /\ (atRoot => FreshRootID \in NodeIDs)   \* bound
      /\ IF ~(FirstOf(all \ lower) # {} /\ Children(ns2, fresh) \subseteq Live) THEN Abort
         ELSE IF atRoot
           THEN /\ BranchReturns(AddRootNode(ns3, FreshRootID, split), NoResult)
                /\ m_rootID' = FreshRootID
                /\ m_nodeIDAllocator' = AfterAllocate(AfterAllocate(m_nodeIDAllocator))
           ELSE /\ BranchReturns(ns3, split)
                /\ m_nodeIDAllocator' = AfterAllocate(m_nodeIDAllocator)
                /\ UNCHANGED m_rootID

\* insert_tuple asserts that no split is left over, and counts the tuple
InsertReturns ==
  /\ pc = "insertUp" /\ path = <<>>
  /\ IF result.kind = "none" THEN Idle((m_tupleCount + 1) % CountModulus) ELSE Abort

-----------------------------------------------------------------------------
(***************************************************************************)
(* erase_tuple                                                             *)
(***************************************************************************)
EraseCall(k) == Begin("eraseDown", k)

EraseDescend ==
  /\ pc = "eraseDown" /\ HasChildren(m_nodes, node)
  /\ Descend({e \in m_nodes[node].page : e.key < key[1]})

AtLeafToErase == pc = "eraseDown" /\ ~HasChildren(m_nodes, node)

\* the leaf to erase from: the right sibling if all tuples here are smaller
NotBelowKey(id) == {e \in m_nodes[id].page : key[1] <= e.key}
\* mutant: the tuple is looked for in the leaf the walk ended in only
EraseIDHere == node

EraseID == IF NotBelowKey(node) # {} THEN node ELSE m_nodes[node].siblingRightID
Doomed == The(FirstOf(NotBelowKey(EraseID)))
HasMatch ==
  EraseID # NoNode /\ \E e \in FirstOf(NotBelowKey(EraseID)) : e.key <= key[2]

\* nothing compares equal to the key; a sibling without a tuple to look at is
\* a dereferenced end iterator
EraseNothing ==
  /\ AtLeafToErase /\ ~HasMatch
  /\ IF EraseID # NoNode => NotBelowKey(EraseID) # {}
       THEN LeafReturns("eraseUp", m_nodes, NoResult) /\ SameRootAndIDs /\ UNCHANGED m_lastLeafID
       ELSE Abort

EraseFromLeaf ==
  /\ AtLeafToErase /\ HasMatch
  /\ EraseID = m_rootID \/ HasAtLeastMinTuples(m_nodes, EraseID, -1)
  /\ LeafReturns("eraseUp", EraseTuple(m_nodes, EraseID, Doomed), NoResult)
  /\ SameRootAndIDs /\ UNCHANGED m_lastLeafID

LeafUnderflows ==
  /\ AtLeafToErase /\ HasMatch
  /\ EraseID # m_rootID /\ ~HasAtLeastMinTuples(m_nodes, EraseID, -1)
LeftOf(id)  == m_nodes[id].siblingLeftID
RightOf(id) == m_nodes[id].siblingRightID

RedistributeFromLeftLeafAndErase ==
  LET left == LeftOf(EraseID)
      ns1  == EraseIndexEntry(m_nodes, EraseID)
      ns2  == EraseTuple(ns1, EraseID, Doomed)
      last == Highest(ns2[left].page, 1)
      ns3  == Transfer(ns2, left, RightOf(left), last)
      ok   == /\ CanFindIndexEntry(m_nodes, EraseID)
              /\ CanTransfer(ns2, left, RightOf(left), last)
              /\ CanAddIndexEntry(ns3, EraseID)
  IN  /\ LeafUnderflows
      /\ CanLend(m_nodes, EraseID, left)
      /\ IF ok THEN /\ LeafReturns("eraseUp", AddIndexEntry(ns3, EraseID), NoResult)
                    /\ SameRootAndIDs /\ UNCHANGED m_lastLeafID
               ELSE Abort

\* unless it is a first child, the leaf's own index entry is renewed as well:
\* the leaf may lose its only tuple
RedistributeFromRightLeafAndErase ==
  LET right == RightOf(EraseID)
      inner == m_nodes[m_nodes[EraseID].parentID].firstChildID # EraseID
      ns1   == EraseIndexEntry(m_nodes, right)
      ns2   == IF inner THEN EraseIndexEntry(ns1, EraseID) ELSE ns1
      ns3   == EraseTuple(ns2, EraseID, Doomed)
      first == Lowest(ns3[right].page, 1)
      ns4   == Transfer(ns3, right, LeftOf(right), first)
      ns5   == AddIndexEntry(ns4, right)
      ok    == /\ CanFindIndexEntry(m_nodes, right)
               /\ inner => CanFindIndexEntry(ns1, EraseID)
               /\ CanTransfer(ns3, right, LeftOf(right), first)
               /\ CanAddIndexEntry(ns4, right)
               /\ inner => CanAddIndexEntry(ns5, EraseID)
  IN  /\ LeafUnderflows
      /\ ~CanLend(m_nodes, EraseID, LeftOf(EraseID))
      /\ CanLend(m_nodes, EraseID, right)
      /\ IF ok THEN /\ LeafReturns("eraseUp",
                         IF inner THEN AddIndexEntry(ns5, EraseID) ELSE ns5, NoResult)
                    /\ SameRootAndIDs /\ UNCHANGED m_lastLeafID
               ELSE Abort

MergeLeavesAndErase(left, right) ==
  LET ns1   == EraseIndexEntry(m_nodes, right)
      ns2   == EraseTuple(ns1, EraseID, Doomed)
      moved == ns2[right].page
      ns3   == Transfer(ns2, right, LeftOf(right), moved)
      ok    == /\ CanFindIndexEntry(m_nodes, right)
               /\ TupleCount(ns2, left) + TupleCount(ns2, right) <= MaxTupleCount(ns2, left)
               /\ CanTransfer(ns2, right, LeftOf(right), moved)
               /\ right \in Live
  IN  IF ok THEN /\ LeafReturns("eraseUp",
                      DeleteNode(DisconnectFromSiblings(ns3, right), right), Merge(left))
                 /\ m_lastLeafID' = IF m_lastLeafID = right THEN left ELSE m_lastLeafID
                 /\ m_nodeIDAllocator' = AfterDeallocate(right)
                 /\ UNCHANGED m_rootID
            ELSE Abort

LeafMustMerge ==
  /\ LeafUnderflows
  /\ ~CanLend(m_nodes, EraseID, LeftOf(EraseID))
  /\ ~CanLend(m_nodes, EraseID, RightOf(EraseID))

MergeWithLeftLeaf ==
  /\ LeafMustMerge
  /\ IsUsefulSibling(m_nodes, EraseID, LeftOf(EraseID))
  /\ MergeLeavesAndErase(LeftOf(EraseID), EraseID)

\* the code asserts that there is a useful sibling on one side
MergeWithRightLeaf ==
  /\ LeafMustMerge
  /\ ~IsUsefulSibling(m_nodes, EraseID, LeftOf(EraseID))
  /\ IF IsUsefulSibling(m_nodes, EraseID, RightOf(EraseID))
       THEN MergeLeavesAndErase(EraseID, RightOf(EraseID))
       ELSE Abort

EraseReturnsWithoutMerge ==
  /\ ReturningToBranch("eraseUp", "none")
  /\ BranchReturns(m_nodes, NoResult) /\ SameRootAndIDs

\* the parent of the merged node, which need not be the branch of this frame
RelevantID == m_nodes[result.left].parentID

\* the merge below took the last index entry of the root: its only child
\* becomes the root
DecreaseHeight ==
  /\ ReturningToBranch("eraseUp", "merge")
  /\ RelevantID = m_rootID /\ TupleCount(m_nodes, m_rootID) = 0
  /\ LET child == m_nodes[m_rootID].firstChildID
     IN  IF child \in NodeIDs /\ m_rootID \in Live
           THEN /\ m_rootID' = child
                /\ BranchReturns(DeleteNode([m_nodes EXCEPT ![child].parentID = NoNode],
                                            m_rootID), NoResult)
                /\ m_nodeIDAllocator' = AfterDeallocate(m_rootID)
           ELSE Abort

MergeNeedsNothingMore ==
  /\ ReturningToBranch("eraseUp", "merge")
  /\ IF RelevantID = m_rootID THEN TupleCount(m_nodes, m_rootID) # 0
     ELSE RelevantID # NoNode => HasAtLeastMinTuples(m_nodes, RelevantID, 0)
  /\ IF RelevantID # NoNode
       THEN BranchReturns(m_nodes, NoResult) /\ SameRootAndIDs
       ELSE Abort

BranchUnderflows ==
  /\ ReturningToBranch("eraseUp", "merge")
  /\ RelevantID # m_rootID /\ RelevantID # NoNode
  /\ ~HasAtLeastMinTuples(m_nodes, RelevantID, 0)

RedistributeFromLeftBranch ==
  LET id   == RelevantID
      left == LeftOf(id)
      ns1  == PullDownIndexEntry(m_nodes, id, id, m_nodes[id].firstChildID)
      last == The(LastOf(ns1[left].page))
      ns2  == AddTuple(ns1, ns1[id].parentID, BranchTuple(last.key, id))
      ns3  == EraseTuple(ns2, left, last)
      ok   == /\ CanPullDown(m_nodes, id, id) /\ HasChildren(m_nodes, id)
              /\ LastOf(ns1[left].page) # {} /\ last.child \in Live
              /\ HasLessThanMaxTuples(ns1, ns1[id].parentID)
  IN  /\ BranchUnderflows
      /\ CanLend(m_nodes, id, left)
      /\ IF ok THEN /\ BranchReturns([ns3 EXCEPT ![id].firstChildID = last.child,
                                                 ![last.child].parentID = id], NoResult)
                    /\ SameRootAndIDs
               ELSE Abort

RedistributeFromRightBranch ==
  LET id    == RelevantID
      right == RightOf(id)
      ns1   == PullDownIndexEntry(m_nodes, right, id, m_nodes[right].firstChildID)
      moved == The(LastOf(ns1[id].page)).child
      ns2   == [ns1 EXCEPT ![moved].parentID = id]
      first == The(FirstOf(ns2[right].page))
      ns3   == AddTuple(ns2, ns2[id].parentID, BranchTuple(first.key, right))
      ns4   == EraseTuple(ns3, right, first)
      ok    == /\ CanPullDown(m_nodes, right, id) /\ HasChildren(m_nodes, id)
               /\ LastOf(ns1[id].page) # {} /\ moved \in Live
               /\ FirstOf(ns2[right].page) # {} /\ first.child \in Live
               /\ HasLessThanMaxTuples(ns2, ns2[id].parentID)
  IN  /\ BranchUnderflows
      /\ ~CanLend(m_nodes, id, LeftOf(id)) /\ CanLend(m_nodes, id, right)
      /\ IF ok THEN /\ BranchReturns([ns4 EXCEPT ![right].firstChildID = first.child], NoResult)
                    /\ SameRootAndIDs
               ELSE Abort

MergeBranches(left, right) ==
  LET ns1    == PullDownIndexEntry(m_nodes, right, left, m_nodes[right].firstChildID)
      ns2    == UpdateParentPointers(ns1, right, left)
      moved  == ns2[right].page
      target == ns2[right].siblingLeftID
      ns3    == Transfer(ns2, right, target, moved)
      ok     == /\ right # NoNode /\ right \in Live
                /\ CanPullDown(m_nodes, right, left)
                /\ Children(ns1, right) \subseteq Live
                /\ TupleCount(ns2, left) + TupleCount(ns2, right) <= MaxTupleCount(ns2, left)
                /\ CanTransfer(ns2, right, target, moved)
  IN  IF ok THEN /\ BranchReturns(DeleteNode(DisconnectFromSiblings(ns3, right), right),
                                  Merge(left))
                 /\ m_nodeIDAllocator' = AfterDeallocate(right)
                 /\ UNCHANGED m_rootID
            ELSE Abort

BranchMustMerge ==
  /\ BranchUnderflows
  /\ ~CanLend(m_nodes, RelevantID, LeftOf(RelevantID))
  /\ ~CanLend(m_nodes, RelevantID, RightOf(RelevantID))

\* the node merged is the one of this frame, not the relevant one (line 350)
MergeWithLeftBranch ==
  /\ BranchMustMerge
  /\ IsUsefulSibling(m_nodes, RelevantID, LeftOf(RelevantID))
  /\ MergeBranches(LeftOf(RelevantID), Frame)

\* likewise (line 356); the code asserts that there is a useful sibling
MergeWithRightBranch ==
  /\ BranchMustMerge
  /\ ~IsUsefulSibling(m_nodes, RelevantID, LeftOf(RelevantID))
  /\ IF IsUsefulSibling(m_nodes, RelevantID, RightOf(RelevantID))
       THEN MergeBranches(Frame, RightOf(RelevantID))
       ELSE Abort

\* mutants: the count is signed; the count is forgotten
EraseReturnsSigned ==
  /\ pc = "eraseUp" /\ path = <<>>
  /\ IF result.kind = "none" THEN Idle(m_tupleCount - 1) ELSE Abort
EraseReturnsUncounted ==
  /\ pc = "eraseUp" /\ path = <<>>
  /\ IF result.kind = "none" THEN Idle(m_tupleCount) ELSE Abort

\* erase_tuple asserts that no merge is left over; it uncounts a tuple even
\* when none was found
EraseReturns ==
  /\ pc = "eraseUp" /\ path = <<>>
  /\ IF result.kind = "none" THEN Idle((m_tupleCount - 1) % CountModulus) ELSE Abort

-----------------------------------------------------------------------------
\* the constructor: one empty leaf, which is the root
Init ==
  /\ m_nodes = [id \in NodeIDs |-> BlankNode]
  /\ m_rootID = 0 /\ m_firstLeafID = 0 /\ m_lastLeafID = 0
  /\ m_tupleCount = 0
  /\ m_nodeIDAllocator = [free |-> {}, used |-> {0}]
  /\ pc = "idle" /\ key = <<0, 0>> /\ node = NoNode /\ path = <<>> /\ result = NoResult

InsertStep ==
  \/ InsertDescend
  \/ InsertIntoLeaf
  \/ RedistributeLeafLeftAndInsert
  \/ RedistributeLeafRightAndInsert
  \/ SplitLeafAndInsert
  \/ InsertReturnsWithoutSplit
  \/ InsertIndexEntry
  \/ SplitBranchAndInsert
  \/ InsertReturns

EraseStep ==
  \/ EraseDescend
  \/ EraseNothing
  \/ EraseFromLeaf
  \/ RedistributeFromLeftLeafAndErase
  \/ RedistributeFromRightLeafAndErase
  \/ MergeWithLeftLeaf
  \/ MergeWithRightLeaf
  \/ EraseReturnsWithoutMerge
  \/ DecreaseHeight
  \/ MergeNeedsNothingMore
  \/ RedistributeFromLeftBranch
  \/ RedistributeFromRightBranch
  \/ MergeWithLeftBranch
  \/ MergeWithRightBranch
  \/ EraseReturns

Next ==
  \/ \E t \in Tuples : InsertCall(t)
  \/ \E k \in SearchKeys : EraseCall(k)
  \/ InsertStep
  \/ EraseStep

Spec == Init /\ [][Next]_vars

-----------------------------------------------------------------------------
(***************************************************************************)
(* Type correctness.  A call on its way down is about to enter a node, and *)
(* the Split or Merge a frame returns names the nodes it is about.         *)
(***************************************************************************)
TypeOK ==
  /\ m_nodes \in [NodeIDs -> Node]
  /\ m_rootID \in NodeIDs /\ m_firstLeafID \in NodeIDs /\ m_lastLeafID \in NodeIDs
  /\ m_tupleCount \in 0..(CountModulus - 1)
  /\ m_nodeIDAllocator \in [free : SUBSET NodeIDs, used : SUBSET NodeIDs]
  /\ pc \in {"idle", "insertDown", "insertUp", "eraseDown", "eraseUp", "aborted"}
  /\ key \in Nat \X Nat /\ node \in NodeRefs
  /\ path \in Seq(NodeIDs) /\ result \in Result
  /\ pc \in {"insertDown", "eraseDown"} => node \in NodeIDs
  /\ result.kind # "none" => result.left \in NodeIDs
  /\ result.kind = "split" => result.right \in NodeIDs

Leaves == {id \in Live : ~HasChildren(m_nodes, id)}

(***************************************************************************)
(* No call fails an assertion, throws, or follows a link to nowhere.       *)
(***************************************************************************)
NeverAborts == pc # "aborted"

(***************************************************************************)
(* The nodes of a level form a doubly linked list of live nodes, on which  *)
(* splits, merges and root changes agree at both ends (begin(), end(), the *)
(* iterators and every redistribution follow these links).                 *)
(***************************************************************************)
SiblingLinksAgree ==
  /\ \A id \in Live :
       /\ LeftOf(id)  # NoNode => LeftOf(id)  \in Live /\ RightOf(LeftOf(id)) = id
       /\ RightOf(id) # NoNode => RightOf(id) \in Live /\ LeftOf(RightOf(id)) = id
  /\ {id \in Leaves : LeftOf(id)  = NoNode} = {m_firstLeafID}
  /\ {id \in Leaves : RightOf(id) = NoNode} = {m_lastLeafID}

(***************************************************************************)
(* Along the leaf chain every tuple of a leaf is before every tuple of its *)
(* right sibling, also in the middle of a call.                            *)
(***************************************************************************)
LeafChainInOrder ==
  \A id \in Leaves : RightOf(id) # NoNode =>
    \A e \in m_nodes[id].page, f \in m_nodes[RightOf(id)].page : e.key < f.key

(***************************************************************************)
(* Between calls each live node but the root is in exactly one child slot  *)
(* of the live branch its parent pointer names, and the root has no        *)
(* parent: nothing is leaked, shared or left behind by a merge.            *)
(***************************************************************************)
ParentsAgree ==
  pc = "idle" =>
    /\ m_rootID \in Live /\ m_nodes[m_rootID].parentID = NoNode
    /\ \A b \in Live : HasChildren(m_nodes, b) =>
         /\ Children(m_nodes, b) = {c \in Live : m_nodes[c].parentID = b}
         /\ Cardinality(Children(m_nodes, b)) = TupleCount(m_nodes, b) + 1
    /\ \A c \in Live \ {m_rootID} : m_nodes[c].parentID \in Live \ Leaves

(***************************************************************************)
(* No page ever holds more than it has room for, and between calls every   *)
(* node but the root is at least half full and a root branch has two       *)
(* children or more.                                                       *)
(***************************************************************************)
PagesHalfFull ==
  /\ \A id \in Live : TupleCount(m_nodes, id) <= MaxTupleCount(m_nodes, id)
  /\ pc = "idle" =>
       \A id \in Live : TupleCount(m_nodes, id) >=
         IF id # m_rootID THEN MaxTupleCount(m_nodes, id) \div 2
         ELSE IF HasChildren(m_nodes, id) THEN 1 ELSE 0

(***************************************************************************)
(* A node that is not in use keeps nothing of its former life: add_node    *)
(* does not reset firstChildID, so a stale one would make a fresh leaf     *)
(* look like a branch.                                                     *)
(***************************************************************************)
FreeNodesAreBlank == \A id \in NodeIDs \ Live : m_nodes[id] = BlankNode

(***************************************************************************)
(* The node a split takes is never one of the tree's: the allocator stays  *)
(* consistent though a root split takes two IDs in one handler, and merges *)
(* give IDs back in any order.                                             *)
(***************************************************************************)
SplitsTakeUnusedNodes == IDs!FreeIsTheGaps /\ IDs!NextIDIsSmallestUnused

(***************************************************************************)
(* Between calls tuple_count() is the number of tuples in the leaves       *)
(* (BTree.h:257), counted leaf by leaf.                                    *)
(***************************************************************************)
CountIsExact ==
  pc = "idle" =>
    m_tupleCount = Cardinality(UNION {{id} \X m_nodes[id].page : id \in Leaves}) % CountModulus

(***************************************************************************)
(* No page holds two entries with the same key.                            *)
(***************************************************************************)
KeysAreUnique ==
  \A id \in Live : \A e, f \in m_nodes[id].page : e.key = f.key => e = f

=============================================================================
