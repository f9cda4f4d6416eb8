---------------------------- MODULE BTreeLoading ----------------------------
(***************************************************************************)
(* What makes a B+-tree that is only loaded correct: the inductive         *)
(* invariant of BTreeWorkloads' LoadingSpec.  Each node has two ghosts,    *)
(* which the code does not keep: low, the key from which its tuples begin  *)
(* (-1 for the leftmost node of a level, as there is none), and level, its *)
(* height above the leaves.  While nothing is erased the separator of two  *)
(* siblings is the low key of the right one, at every level, and so it is  *)
(* the boundary that the walk down, the redistributions and the splits     *)
(* take it for.  An erasure of a leaf's first tuple leaves a separator     *)
(* that is smaller than all the tuples of its leaf, and a redistribution   *)
(* may then put a tuple on the wrong side of it (MCStaleSeparator.cfg):    *)
(* the invariant is one of loading only.                                   *)
(*                                                                         *)
(* live are the nodes in use, ns is the table of nodes.                    *)
(***************************************************************************)
EXTENDS BTreeWorkloads

\* the tables of nodes
Table == [NodeIDs -> Node]

\* nodes that are not in use are blank
Blank(ns, live) == \A x \in NodeIDs \ live : ns[x] = BlankNode

\* the ghosts: no two nodes of a level have the same low key; that of the leftmost is -1
LowsDiffer(live, low, level) ==
  /\ \A x \in live : low[x] >= -1
  /\ \A x, y \in live : level[x] = level[y] /\ low[x] = low[y] => x = y

\* the range of a node ends where that of the next node on its level begins
InRangeOf(live, low, level, x, k) ==
  \A z \in live : level[z] = level[x] /\ low[x] < low[z] => k < low[z]

\* the keys of a node's page are in its range; in a branch they are above its low key,
\* which is the key its first child stands for
KeysInRange(ns, live, low, level) ==
  \A x \in live : \A e \in ns[x].page :
    /\ level[x] = 0 => low[x] <= e.key /\ e.child = NoNode
    /\ level[x] > 0 => low[x] < e.key
    /\ InRangeOf(live, low, level, x, e.key)

\* the low key of a leaf is the key of a tuple in it
LowsAreTuples(ns, live, low, level) ==
  \A x \in live : level[x] = 0 /\ low[x] # -1 => LeafTuple(low[x]) \in ns[x].page

\* a node has a left sibling unless it is the leftmost, and the two name each other
LeftLinks(ns, live, low, level) ==
  \A x \in live :
    /\ ns[x].siblingLeftID = NoNode <=> low[x] = -1
    /\ ns[x].siblingLeftID # NoNode =>
         ns[x].siblingLeftID \in live /\ ns[ns[x].siblingLeftID].siblingRightID = x

\* and its right sibling is the next node of its level
RightLinks(ns, live, low, level) ==
  \A x \in live :
    /\ ns[x].siblingRightID = NoNode => \A z \in live : level[z] = level[x] => low[z] <= low[x]
    /\ ns[x].siblingRightID # NoNode =>
         /\ ns[x].siblingRightID \in live
         /\ ns[ns[x].siblingRightID].siblingLeftID = x
         /\ level[ns[x].siblingRightID] = level[x] /\ low[x] < low[ns[x].siblingRightID]
         /\ \A z \in live : level[z] = level[x] =>
              low[z] <= low[x] \/ low[ns[x].siblingRightID] <= low[z]

\* the root is the only node of its level, an orphan that was split from it aside,
\* and the nodes at level 0 are the leaves
RootOnTop(ns, live, root, low, level, orphan) ==
  /\ root \in live /\ ns[root].parentID = NoNode /\ low[root] = -1
  /\ \A x \in live : level[x] <= level[root] /\ (x \notin {root, orphan} => level[x] < level[root])
  /\ \A x \in live : ns[x].firstChildID = NoNode <=> level[x] = 0

\* the parent of a node has it as its first child, or an entry for it whose key is its low
\* key; an orphan is a node whose split the frame above has not yet dealt with
ParentsKnow(ns, live, root, low, level, orphan) ==
  \A x \in live \ {root, orphan} :
    /\ ns[x].parentID \in live /\ level[ns[x].parentID] = level[x] + 1
    /\ \/ ns[ns[x].parentID].firstChildID = x
       \/ BranchTuple(low[x], x) \in ns[ns[x].parentID].page

\* the children a branch has name it as their parent, and the key of the entry of each
\* is its low key
ChildrenKnow(ns, live, low, level, orphan) ==
  /\ \A b \in live : ns[b].firstChildID # NoNode =>
       /\ ns[b].firstChildID \in live /\ ns[b].firstChildID # orphan
       /\ ns[ns[b].firstChildID].parentID = b
       /\ low[ns[b].firstChildID] = low[b] /\ level[b] = level[ns[b].firstChildID] + 1
  /\ \A b \in live : level[b] > 0 => \A e \in ns[b].page :
       /\ e.child \in live /\ e.child # orphan /\ ns[e.child].parentID = b
       /\ e.key = low[e.child] /\ level[b] = level[e.child] + 1

\* no page overflows, and none but the root's is less than half full
Sized(ns, live, root) ==
  /\ \A x \in live : IsFiniteSet(ns[x].page) /\ TupleCount(ns, x) <= MaxTupleCount(ns, x)
  /\ \A x \in live \ {root} : TupleCount(ns, x) >= MaxTupleCount(ns, x) \div 2
  /\ HasChildren(ns, root) => TupleCount(ns, root) >= 1

\* the low key and the height of each node
Ghosts(low, level) == low \in [NodeIDs -> Int] /\ level \in [NodeIDs -> Nat]

(***************************************************************************)
(* A B+-tree, but for an orphan: a node that a split has made and the frame*)
(* above has not yet taken in.                                             *)
(***************************************************************************)
Shape(ns, live, root, low, level, orphan) ==
  /\ ns \in Table /\ live \subseteq NodeIDs /\ Ghosts(low, level)
  /\ Blank(ns, live)
  /\ LowsDiffer(live, low, level)
  /\ KeysInRange(ns, live, low, level)
  /\ LowsAreTuples(ns, live, low, level)
  /\ LeftLinks(ns, live, low, level)
  /\ RightLinks(ns, live, low, level)
  /\ RootOnTop(ns, live, root, low, level, orphan)
  /\ ParentsKnow(ns, live, root, low, level, orphan)
  /\ ChildrenKnow(ns, live, low, level, orphan)
  /\ Sized(ns, live, root)

-----------------------------------------------------------------------------
(***************************************************************************)
(* The call that is under way: the branches on its path, and what it is    *)
(* about to do.                                                            *)
(***************************************************************************)
\* the entries of the leaves
LeafEntriesOf(ns, live) == UNION {ns[x].page : x \in {i \in live : ~HasChildren(ns, i)}}

\* and the tuples they store
StoredIn(ns, live) == {e.key : e \in LeafEntriesOf(ns, live)}

\* the frame that is reached next as the calls return
Top(stk) == stk[Len(stk)]

\* the frames above it
Rest(stk) == SubSeq(stk, 1, Len(stk) - 1)

\* the frames on the stack are a path from the root
StackOf(ns, live, root, level, stk) ==
  /\ stk \in Seq(NodeIDs)
  /\ \A i \in 1..Len(stk) : /\ stk[i] \in live /\ level[stk[i]] + i = level[root] + 1
                            /\ IF i = 1 THEN stk[1] = root ELSE ns[stk[i]].parentID = stk[i - 1]

\* the first and the last leaf are the ends of the chain of leaves
EndsOf(ns, live, first, last, low, level) ==
  /\ first \in live /\ level[first] = 0 /\ low[first] = -1
  /\ last \in live /\ level[last] = 0 /\ ns[last].siblingRightID = NoNode

\* a call on its way down is at a child of the last frame in whose range its key is, and the
\* key is not stored
WalkOf(ns, live, root, low, level, stk, x, k) ==
  /\ x \in live /\ level[x] + Len(stk) = level[root]
  /\ IF stk = <<>> THEN x = root ELSE ns[x].parentID = Top(stk)
  /\ low[x] <= k /\ InRangeOf(live, low, level, x, k)
  /\ k \notin StoredIn(ns, live)

\* an orphan that is waiting for branch x to take it in
Awaits(ns, live, low, level, x, o) ==
  /\ o \in live /\ x \in live /\ ns[o].parentID = x /\ level[x] = level[o] + 1
  /\ low[x] < low[o] /\ InRangeOf(live, low, level, x, low[o])

\* a call on its way up reports nothing, or a split to a frame that waits for it
ReturnOf(ns, live, low, level, stk, res) ==
  \/ res.kind = "none"
  \/ /\ res.kind = "split" /\ stk # <<>>
     /\ Awaits(ns, live, low, level, Top(stk), res.right)
     /\ res.splitter = low[res.right]

\* the node whose index entry is still to be added
OrphanOf(res) == IF res.kind = "split" THEN res.right ELSE NoNode

\* the tuple is counted when the call returns, not when it is stored
Counted == IF pc = "insertUp" THEN Stored \ {key[1]} ELSE Stored

(***************************************************************************)
(* All of it, for the table there is and the call that is under way.       *)
(***************************************************************************)
LoadInv(low, level) ==
  /\ Shape(m_nodes, Live, m_rootID, low, level, OrphanOf(result))
  /\ EndsOf(m_nodes, Live, m_firstLeafID, m_lastLeafID, low, level)
  /\ StackOf(m_nodes, Live, m_rootID, level, path)
  /\ pc \in {"idle", "insertDown", "insertUp"}
  /\ pc = "idle" => path = <<>>
  /\ pc # "insertUp" => result = NoResult
  /\ pc = "insertDown" => WalkOf(m_nodes, Live, m_rootID, low, level, path, node, key[1])
  /\ ReturnOf(m_nodes, Live, low, level, path, result)
  /\ IsFiniteSet(Stored)
  /\ pc = "insertUp" => key[1] \in Stored
  /\ m_tupleCount = Cardinality(Counted) % CountModulus
=============================================================================
