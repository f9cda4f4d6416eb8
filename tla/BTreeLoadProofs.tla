-------------------------- MODULE BTreeLoadProofs ---------------------------
(***************************************************************************)
(* A B+-tree that is only loaded is correct, for every set of tuples,      *)
(* every page size the code allows and every bound on the number of nodes: *)
(* the invariant of BTreeLoading is inductive, the properties that the     *)
(* runs check follow from it, each step of the tree is a step of           *)
(* TupleStore or changes nothing there, and the queries between two calls  *)
(* return what they should.                                                *)
(*                                                                         *)
(* The queries walk: down from the root, and from leaf to leaf.  An        *)
(* iterator is known by the tuples that are still ahead of it, which are a *)
(* tail of those stored; each step of a walk takes one away or puts one    *)
(* back, and a walk is the function from the steps taken to the iterator   *)
(* reached.                                                                *)
(***************************************************************************)
EXTENDS BTreeProofs, BTreeLongKeys

(***************************************************************************)
(* The inductive invariant of a tree that is only loaded.  The ghosts are  *)
(* not in the code: a separator that a branch has for a child is the low   *)
(* key of that child for as long as nothing is erased.                     *)
(***************************************************************************)
LoadingIInv ==
  /\ TypeOK
  /\ IDsConsistent(m_nodeIDAllocator)
  /\ \E low, level : LoadInv(low, level)

-----------------------------------------------------------------------------
(***************************************************************************)
(* The walk down, and the frames it leaves on the stack.                   *)
(***************************************************************************)
\* a key in the range of a node is in the range of its parent
LEMMA RangeOfParent ==
  ASSUME NEW ns, NEW live, NEW root, NEW low, NEW level, NEW orphan,
         Shape(ns, live, root, low, level, orphan), NEW x \in live, x \notin {root, orphan},
         NEW k \in Int, low[x] <= k, InRangeOf(live, low, level, x, k),
         NEW p, p = ns[x].parentID
  PROVE  p \in live /\ low[p] <= k /\ InRangeOf(live, low, level, p, k)
<1>1. /\ p \in live /\ level[p] = level[x] + 1 /\ level[p] > 0 /\ low[p] <= low[x]
      /\ (ns[p].firstChildID = x <=> low[p] = low[x])
      /\ (ns[p].firstChildID # x => BranchTuple(low[x], x) \in ns[p].page)
  BY PlaceInParent
<1>2. /\ \A z \in live : low[z] \in Int /\ level[z] \in Nat
  BY DEF Shape, Ghosts
<1>3. ASSUME NEW y \in live, level[y] = level[p], low[p] < low[y]
      PROVE  k < low[y]
  <2> DEFINE c == ns[y].firstChildID
  <2>1. c # NoNode
    BY <1>1, <1>3 DEF Shape, RootOnTop
  <2>2. c \in live /\ low[c] = low[y] /\ level[y] = level[c] + 1
    BY <2>1 DEF Shape, ChildrenKnow
  <2> HIDE DEF c
  <2>3. low[x] < low[y]
    <3>1. CASE ns[p].firstChildID = x
      BY <1>1, <1>3, <3>1
    <3>2. CASE ns[p].firstChildID # x
      <4>1. InRangeOf(live, low, level, p, low[x])
        BY <1>1, <3>2 DEF Shape, KeysInRange, BranchTuple
      <4> QED
        BY <1>3, <4>1 DEF InRangeOf
    <3> QED
      BY <3>1, <3>2
  <2>4. level[c] = level[x]
    BY <1>1, <1>2, <1>3, <2>2
  <2> QED
    BY <2>2, <2>3, <2>4 DEF InRangeOf
<1>4. InRangeOf(live, low, level, p, k)
  BY <1>3 DEF InRangeOf
<1>5. low[p] <= k
  BY <1>1, <1>2
<1> QED
  BY <1>1, <1>4, <1>5

\* c is a child of b, at its place
IsChildOf(ns, live, low, level, c, b) ==
  /\ c \in live /\ ns[c].parentID = b /\ level[c] + 1 = level[b] /\ low[b] <= low[c]

\* c is the last child of b that is not above k
LEMMA RangeOfChild ==
  ASSUME NEW ns, NEW live, NEW root, NEW low, NEW level,
         Shape(ns, live, root, low, level, NoNode), NEW b \in live,
         NEW c, IsChildOf(ns, live, low, level, c, b),
         NEW k \in Int, InRangeOf(live, low, level, b, k),
         \A e \in ns[b].page : low[c] < e.key => k < e.key
  PROVE  InRangeOf(live, low, level, c, k)
<1>1. /\ \A z \in live : low[z] \in Int /\ level[z] \in Nat
      /\ c \in live /\ level[c] + 1 = level[b] /\ low[b] <= low[c]
  BY DEF Shape, Ghosts, IsChildOf
<1> SUFFICES ASSUME NEW z \in live, level[z] = level[c], low[c] < low[z]
             PROVE  k < low[z]
  BY DEF InRangeOf
<1>2. z # root /\ z # NoNode
  <2>1. level[b] <= level[root] /\ root \in live
    BY DEF Shape, RootOnTop
  <2>2. z # root
    BY <1>1, <2>1
  <2> QED
    BY <2>2 DEF Shape, NodeIDs, NoNode
<1> DEFINE q == ns[z].parentID
<1>3. /\ q \in live /\ level[q] = level[z] + 1 /\ level[q] > 0 /\ low[q] <= low[z]
      /\ (ns[q].firstChildID = z <=> low[q] = low[z])
      /\ (ns[q].firstChildID # z => BranchTuple(low[z], z) \in ns[q].page)
  BY <1>2, PlaceInParent
<1> HIDE DEF q
<1>4. BranchTuple(low[z], z).key = low[z]
  BY DEF BranchTuple
<1>5. CASE q = b
  BY <1>1, <1>3, <1>4, <1>5
<1>6. CASE q # b
  <2>1. level[q] = level[b]
    BY <1>1, <1>3
  <2>2. low[q] # low[b]
    BY <1>3, <1>6, <2>1 DEF Shape, LowsDiffer
  <2>3. CASE low[b] < low[q]
    <3>1. k < low[q]
      BY <1>3, <2>1, <2>3 DEF InRangeOf
    <3> QED
      BY <1>1, <1>3, <3>1
  <2>4. CASE low[q] < low[b]
    <3>1. low[z] < low[b]
      <4>1. CASE ns[q].firstChildID = z
        BY <1>3, <2>4, <4>1
      <4>2. CASE ns[q].firstChildID # z
        <5>1. InRangeOf(live, low, level, q, low[z])
          BY <1>3, <1>4, <4>2 DEF Shape, KeysInRange
        <5> QED
          BY <2>1, <2>4, <5>1 DEF InRangeOf
      <4> QED
        BY <4>1, <4>2
    <3> QED
      BY <1>1, <3>1
  <2> QED
    BY <1>1, <1>3, <2>2, <2>3, <2>4
<1> QED
  BY <1>5, <1>6

\* the walk down: from branch b to the child that a tuple k belongs under
LEMMA WalkDown ==
  ASSUME NEW ns, NEW live, NEW root, NEW low, NEW level,
         Shape(ns, live, root, low, level, NoNode), NEW b \in live, HasChildren(ns, b),
         NEW k \in Nat, low[b] <= k, InRangeOf(live, low, level, b, k),
         NEW c, c = LeftChildOf(ns, b, {e \in ns[b].page : e.key <= k})
  PROVE  /\ c \in live /\ ns[c].parentID = b /\ level[c] + 1 = level[b]
         /\ low[c] <= k /\ InRangeOf(live, low, level, c, k)
<1> DEFINE before == {e \in ns[b].page : e.key <= k}
           f == ns[b].firstChildID
<1>1. /\ \A z \in live : low[z] \in Int /\ level[z] \in Nat
      /\ PageOf(ns[b].page)
  BY PagesAreOrdered DEF Shape, Ghosts
<1>2. f # NoNode /\ level[b] > 0
  <2>1. f # NoNode
    BY DEF HasChildren
  <2> QED
    BY <1>1, <2>1 DEF Shape, RootOnTop
<1>3. f \in live /\ ns[f].parentID = b /\ low[f] = low[b] /\ level[b] = level[f] + 1
  BY <1>2 DEF Shape, ChildrenKnow
<1>4. \A e \in ns[b].page : e.key \in Nat
  BY <1>2, EntriesOfBranch DEF IndexesChild
<1>5. PageOf(before)
  <2>1. before \subseteq ns[b].page
    OBVIOUS
  <2> HIDE DEF before
  <2> QED
    BY <1>1, <2>1, PageParts
<1>6. CASE before = {}
  <2>1. LastOf(before) = {}
    BY <1>6 DEF LastOf
  <2>2. c = f
    BY <2>1 DEF LeftChildOf
  <2>3. \A e \in ns[b].page : k < e.key
    BY <1>4, <1>6
  <2>4. IsChildOf(ns, live, low, level, f, b)
    BY <1>1, <1>3 DEF IsChildOf
  <2> HIDE DEF f
  <2>5. InRangeOf(live, low, level, f, k)
    BY <2>3, <2>4, RangeOfChild
  <2> QED
    BY <1>1, <1>3, <2>2, <2>5
<1>7. CASE before # {}
  <2> HIDE DEF before
  <2>1. PICK e0 \in before : LastOf(before) = {e0} /\ \A g \in before : g # e0 => g.key < e0.key
    BY <1>5, <1>7, LargestOfPage
  <2>2. The(LastOf(before)) = e0 /\ LastOf(before) # {}
    BY <2>1 DEF The
  <2>3. c = e0.child
    BY <2>2 DEF LeftChildOf, before
  <2>4. e0 \in ns[b].page /\ e0.key <= k
    BY <2>1 DEF before
  <2>5. IndexesChild(live, low, level, b, e0)
    BY <1>2, <2>4, EntriesOfBranch
  <2>6. e0.child \in live /\ e0.key = low[e0.child] /\ level[e0.child] + 1 = level[b] /\ low[b] < e0.key
    BY <2>5 DEF IndexesChild
  <2>7. ns[e0.child].parentID = b
    BY <1>2, <2>4 DEF Shape, ChildrenKnow
  <2>8. IsChildOf(ns, live, low, level, c, b)
    BY <1>1, <2>3, <2>6, <2>7 DEF IsChildOf
  <2>9. \A e \in ns[b].page : low[c] < e.key => k < e.key
    <3> SUFFICES ASSUME NEW e \in ns[b].page, low[c] < e.key PROVE k < e.key
      OBVIOUS
    <3>1. e.key \in Nat /\ e0.key \in Nat /\ e0.key < e.key
      BY <1>4, <2>3, <2>4, <2>6
    <3>2. e \notin before
      BY <2>1, <3>1
    <3> QED
      BY <3>1, <3>2 DEF before
  <2>10. InRangeOf(live, low, level, c, k)
    BY <2>8, <2>9, RangeOfChild
  <2> QED
    BY <2>3, <2>4, <2>6, <2>7, <2>10
<1> QED
  BY <1>6, <1>7

\* the IDs a split takes
LEMMA FreshIDs ==
  ASSUME IDsConsistent(m_nodeIDAllocator)
  PROVE  /\ FreshID \notin Live
         /\ AfterAllocate(m_nodeIDAllocator).used = Live \cup {FreshID}
         /\ FreshID \in NodeIDs =>
              /\ FreshRootID \notin Live \cup {FreshID}
              /\ AfterAllocate(AfterAllocate(m_nodeIDAllocator)).used = Live \cup {FreshID} \cup {FreshRootID}
<1>1. ASSUME NEW ids, IDsConsistent(ids)
      PROVE  IDs!Allocated(ids.free, ids.used) \notin ids.used
  <2>1. IDProofs!Consistent(ids.free, ids.used)
    BY <1>1 DEF IDsConsistent
  <2>2. IDProofs!Allocated(ids.free, ids.used) \notin ids.used
    BY <2>1, BoundsAssumption, IDProofs!AllocatedIsFresh
  <2> QED
    BY <2>2, SameOperators
<1>2. \A ids : AfterAllocate(ids).used = ids.used \cup {IDs!Allocated(ids.free, ids.used)}
  BY DEF AfterAllocate, IDs!UsedAfterAllocate
<1>3. FreshID \notin Live
  BY <1>1 DEF FreshID, Live
<1>4. AfterAllocate(m_nodeIDAllocator).used = Live \cup {FreshID}
  BY <1>2 DEF FreshID, Live
<1>5. ASSUME FreshID \in NodeIDs
      PROVE  /\ FreshRootID \notin Live \cup {FreshID}
             /\ AfterAllocate(AfterAllocate(m_nodeIDAllocator)).used = Live \cup {FreshID} \cup {FreshRootID}
  <2> DEFINE ids == AfterAllocate(m_nodeIDAllocator)
  <2>1. IDsConsistent(ids)
    BY <1>5, AllocateKeepsIDsConsistent DEF FreshID
  <2>2. FreshRootID = IDs!Allocated(ids.free, ids.used)
    BY DEF FreshRootID
  <2> HIDE DEF ids
  <2>3. FreshRootID \notin ids.used /\ AfterAllocate(ids).used = ids.used \cup {FreshRootID}
    BY <1>1, <1>2, <2>1, <2>2
  <2> QED
    BY <1>4, <2>3 DEF ids
<1> QED
  BY <1>3, <1>4, <1>5

\* the tuples stored are those in the leaves, now and after a step
LEMMA StoredIsInLeaves ==
  \A ns, live : UNION {{e.key : e \in ns[id].page} : id \in {i \in live : ~HasChildren(ns, i)}}
                  = StoredIn(ns, live)
BY DEF StoredIn, LeafEntriesOf

LEMMA StoredNow == Stored = StoredIn(m_nodes, Live)
BY StoredIsInLeaves DEF Stored

LEMMA StoredNext == Stored' = StoredIn(m_nodes', Live')
<1>1. Stored' = UNION {{e.key : e \in m_nodes'[id].page} : id \in {i \in Live' : ~HasChildren(m_nodes', i)}}
  BY DEF Stored, HasChildren
<1> QED
  BY <1>1, StoredIsInLeaves

\* the leaf nodes are those at level 0
LEMMA LeavesAreAtTheBottom ==
  ASSUME NEW ns, NEW live, NEW root, NEW low, NEW level, NEW orphan,
         Shape(ns, live, root, low, level, orphan)
  PROVE  \A x \in live : HasChildren(ns, x) <=> level[x] # 0
BY DEF Shape, RootOnTop, HasChildren

\* a step that leaves the leaves alone but for x, which gets S
LEMMA StoredAfter ==
  ASSUME NEW ns, NEW ns2, NEW live, NEW live2, NEW t,
         LeafEntriesOf(ns2, live2) = LeafEntriesOf(ns, live) \cup {LeafTuple(t)}
  PROVE  StoredIn(ns2, live2) = StoredIn(ns, live) \cup {t}
<1>1. LeafTuple(t).key = t
  BY DEF LeafTuple
<1> QED
  BY <1>1 DEF StoredIn

\* a tuple that is stored is in the range of the leaf that has it
LEMMA NotStoredHere ==
  ASSUME NEW ns, NEW live, NEW x \in live, ~HasChildren(ns, x), NEW t, t \notin StoredIn(ns, live)
  PROVE  \A e \in ns[x].page : e.key # t
BY DEF StoredIn, LeafEntriesOf

\* the frames of the stack are no deeper than node x
AreAbove(level, stk, x) == \A i \in 1..Len(stk) : level[stk[i]] >= level[x]

\* the last frame of the stack, and those above it
LEMMA StackTop ==
  ASSUME NEW ns, NEW live, NEW root \in live, NEW level, \A x \in live : level[x] \in Nat,
         NEW stk, StackOf(ns, live, root, level, stk), stk # <<>>
  PROVE  /\ Top(stk) \in live /\ level[Top(stk)] + Len(stk) = level[root] + 1
         /\ Len(stk) \in Nat /\ Len(stk) >= 1
         /\ StackOf(ns, live, root, level, Rest(stk))
         /\ Len(Rest(stk)) = Len(stk) - 1
         /\ (Top(stk) = root <=> Rest(stk) = <<>>)
         /\ (Top(stk) # root => ns[Top(stk)].parentID = Top(Rest(stk)))
         /\ AreAbove(level, Rest(stk), Top(stk))
<1>1. stk \in Seq(NodeIDs) /\ Len(stk) \in Nat /\ Len(stk) >= 1
  BY DEF StackOf
<1> DEFINE n == Len(stk)
           r == Rest(stk)
<1>2. r \in Seq(NodeIDs) /\ Len(r) = n - 1 /\ \A i \in 1..(n - 1) : r[i] = stk[i]
  <2>1. r = SubSeq(stk, 1, n - 1)
    BY DEF Rest
  <2>2. 1 \in Int /\ n - 1 \in Int /\ \A i \in 1..(n - 1) : stk[i] \in NodeIDs
    BY <1>1
  <2>3. /\ r \in Seq(NodeIDs) /\ Len(r) = IF 1 <= n - 1 THEN n - 1 - 1 + 1 ELSE 0
        /\ \A i \in 1..(n - 1 - 1 + 1) : r[i] = stk[1 + i - 1]
    BY <2>1, <2>2, SubSeqProperties
  <2>4. n \in Nat /\ n >= 1
    BY <1>1
  <2> HIDE DEF n, r
  <2>5. Len(r) = n - 1
    BY <2>3, <2>4
  <2>6. ASSUME NEW i \in 1..(n - 1) PROVE r[i] = stk[i]
    <3>1. i \in 1..(n - 1 - 1 + 1) /\ 1 + i - 1 = i
      BY <2>4
    <3> QED
      BY <2>3, <3>1
  <2> QED
    BY <2>3, <2>5, <2>6
<1>3. \A i \in 1..n : /\ stk[i] \in live /\ level[stk[i]] + i = level[root] + 1
                      /\ IF i = 1 THEN stk[1] = root ELSE ns[stk[i]].parentID = stk[i - 1]
  BY DEF StackOf
<1> HIDE DEF n, r
<1>4. n \in Nat /\ n >= 1 /\ n \in 1..n
  BY <1>1 DEF n
<1>5. StackOf(ns, live, root, level, r)
  <2>1. \A i \in 1..(n - 1) : i \in 1..n /\ (i # 1 => i - 1 \in 1..(n - 1))
    BY <1>4
  <2> QED
    BY <1>2, <1>3, <2>1 DEF StackOf
<1>6. stk[n] \in live /\ level[stk[n]] + n = level[root] + 1
  BY <1>3, <1>4
<1>7. level[root] \in Nat /\ level[stk[n]] \in Nat
  BY <1>6
<1>8. stk[n] = root <=> n = 1
  BY <1>3, <1>4, <1>6, <1>7
<1>9. n = 1 <=> r = <<>>
  BY <1>2, <1>4
<1>10. n # 1 => ns[stk[n]].parentID = stk[n - 1] /\ r[n - 1] = stk[n - 1]
  BY <1>2, <1>3, <1>4
<1>11. \A i \in 1..(n - 1) : level[r[i]] >= level[stk[n]]
  <2> SUFFICES ASSUME NEW i \in 1..(n - 1) PROVE level[r[i]] >= level[stk[n]]
    OBVIOUS
  <2>1. r[i] = stk[i] /\ stk[i] \in live /\ level[stk[i]] + i = level[root] + 1
    BY <1>2, <1>3, <1>4
  <2>2. level[stk[i]] \in Nat /\ i \in Nat /\ i < n
    BY <1>4, <2>1
  <2> QED
    BY <1>4, <1>6, <1>7, <2>1, <2>2
<1> QED
  BY <1>2, <1>4, <1>5, <1>6, <1>8, <1>9, <1>10, <1>11 DEF n, r, Top, AreAbove

\* the walk down adds a frame to the path
LEMMA StackPush ==
  ASSUME NEW ns, NEW live, NEW root, NEW level, NEW stk, StackOf(ns, live, root, level, stk),
         NEW b \in live, b \in NodeIDs, level[b] \in Nat, level[root] \in Nat,
         level[b] + Len(stk) = level[root],
         IF stk = <<>> THEN b = root ELSE ns[b].parentID = Top(stk)
  PROVE  /\ StackOf(ns, live, root, level, Append(stk, b))
         /\ Append(stk, b) # <<>> /\ Top(Append(stk, b)) = b /\ Len(Append(stk, b)) = Len(stk) + 1
<1>1. stk \in Seq(NodeIDs) /\ Len(stk) \in Nat
  BY DEF StackOf
<1> DEFINE s == Append(stk, b)
           n == Len(stk)
<1>2. /\ s \in Seq(NodeIDs) /\ Len(s) = n + 1 /\ s[n + 1] = b /\ \A i \in 1..n : s[i] = stk[i]
  BY <1>1
<1>3. n = 0 <=> stk = <<>>
  BY <1>1
<1>4. \A i \in 1..n : /\ stk[i] \in live /\ level[stk[i]] + i = level[root] + 1
                      /\ IF i = 1 THEN stk[1] = root ELSE ns[stk[i]].parentID = stk[i - 1]
  BY DEF StackOf
<1> HIDE DEF s
<1>5. \A i \in 1..(n + 1) : /\ s[i] \in live /\ level[s[i]] + i = level[root] + 1
                            /\ IF i = 1 THEN s[1] = root ELSE ns[s[i]].parentID = s[i - 1]
  <2> SUFFICES ASSUME NEW i \in 1..(n + 1)
               PROVE  /\ s[i] \in live /\ level[s[i]] + i = level[root] + 1
                      /\ IF i = 1 THEN s[1] = root ELSE ns[s[i]].parentID = s[i - 1]
    OBVIOUS
  <2>1. CASE i = n + 1
    <3>1. s[i] = b /\ level[b] + i = level[root] + 1
      BY <1>1, <1>2, <2>1
    <3>2. CASE n = 0
      BY <1>2, <1>3, <2>1, <3>1, <3>2
    <3>3. CASE n # 0
      <4>1. s[i - 1] = stk[n] /\ i # 1
        BY <1>1, <1>2, <2>1, <3>3
      <4> QED
        BY <1>3, <3>1, <3>3, <4>1 DEF Top
    <3> QED
      BY <3>2, <3>3
  <2>2. CASE i # n + 1
    <3>1. i \in 1..n /\ s[i] = stk[i]
      BY <1>1, <1>2, <2>2
    <3>2. i # 1 => i - 1 \in 1..n /\ s[i - 1] = stk[i - 1]
      BY <1>1, <1>2, <3>1
    <3> QED
      BY <1>4, <3>1, <3>2
  <2> QED
    BY <2>1, <2>2
<1>6. s # <<>>
  BY <1>1, <1>2
<1> QED
  BY <1>2, <1>5, <1>6 DEF StackOf, Top, s

\* a step that keeps the parents and levels of the nodes on the stack
LEMMA StackKept ==
  ASSUME NEW ns, NEW live, NEW root, NEW level, NEW stk, StackOf(ns, live, root, level, stk),
         NEW ns2, NEW live2, NEW level2, live \subseteq live2,
         \A x \in live : level2[x] = level[x], root \in live,
         \A i \in 1..Len(stk) : ns2[stk[i]].parentID = ns[stk[i]].parentID
  PROVE  StackOf(ns2, live2, root, level2, stk)
BY DEF StackOf

-----------------------------------------------------------------------------
(***************************************************************************)
(* The steps of insert_tuple that split nothing.                           *)
(***************************************************************************)
\* a step that dealt with the leaf keeps the invariant if it keeps the tree
LEMMA LeafDone ==
  ASSUME NEW low, NEW level, LoadInv(low, level), pc = "insertDown",
         NEW ns, NEW res, LeafReturns("insertUp", ns, res),
         Stored' = Stored \cup {key[1]},
         NEW lo, NEW le,
         Shape(ns, Live', m_rootID', lo, le, OrphanOf(res)),
         EndsOf(ns, Live', m_firstLeafID, m_lastLeafID', lo, le),
         StackOf(ns, Live', m_rootID', le, path),
         ReturnOf(ns, Live', lo, le, path, res)
  PROVE  LoadInv(lo, le)'
<1>1. /\ pc' = "insertUp" /\ m_nodes' = ns /\ result' = res /\ m_firstLeafID' = m_firstLeafID
      /\ m_tupleCount' = m_tupleCount /\ key' = key /\ node' = node /\ path' = path
  BY DEF LeafReturns
<1>2. key[1] \notin Stored /\ IsFiniteSet(Stored) /\ m_tupleCount = Cardinality(Stored) % CountModulus
  BY StoredNow DEF LoadInv, WalkOf, Counted
<1>3. Counted' = Stored
  BY <1>1, <1>2 DEF Counted
<1>4. IsFiniteSet(Stored') /\ key'[1] \in Stored'
  BY <1>1, <1>2, FS_AddElement
<1>5. m_tupleCount' = Cardinality(Counted') % CountModulus
  BY <1>1, <1>2, <1>3
<1> QED
  BY <1>1, <1>4, <1>5 DEF LoadInv

\* and so does a frame that returns
LEMMA BranchDone ==
  ASSUME NEW low, NEW level, LoadInv(low, level), pc = "insertUp",
         NEW ns, NEW res, BranchReturns(ns, res),
         Stored' = Stored,
         NEW lo, NEW le,
         Shape(ns, Live', m_rootID', lo, le, OrphanOf(res)),
         EndsOf(ns, Live', m_firstLeafID, m_lastLeafID, lo, le),
         StackOf(ns, Live', m_rootID', le, Rest(path)),
         ReturnOf(ns, Live', lo, le, Rest(path), res)
  PROVE  LoadInv(lo, le)'
<1>1. /\ m_nodes' = ns /\ result' = res /\ m_firstLeafID' = m_firstLeafID /\ m_lastLeafID' = m_lastLeafID
      /\ m_tupleCount' = m_tupleCount /\ key' = key /\ pc' = "insertUp" /\ path' = Rest(path)
  BY DEF BranchReturns, Rest
<1>2. /\ key[1] \in Stored /\ IsFiniteSet(Stored)
      /\ m_tupleCount = Cardinality(Stored \ {key[1]}) % CountModulus
  BY DEF LoadInv, Counted
<1>3. m_tupleCount' = Cardinality(Counted') % CountModulus
  BY <1>1, <1>2 DEF Counted
<1> QED
  BY <1>1, <1>2, <1>3 DEF LoadInv

\* some ghosts fit the table after the step as well
Preserved == \E low, level : LoadInv(low, level)'

\* the step neither serves nor makes a call
Quiet == Stored' = Stored /\ Pending' = Pending

\* the step serves the call: the tuple is stored
Serves == pc = "insertDown" /\ pc' = "insertUp" /\ Stored' = Stored \cup {key[1]}

\* what the invariant says of the table at any time
LEMMA LoadFacts ==
  ASSUME TypeOK, NEW low, NEW level, LoadInv(low, level)
  PROVE  /\ m_nodes \in Table /\ Live \subseteq NodeIDs /\ m_rootID \in Live /\ key[1] \in Nat
         /\ \A x \in Live : level[x] \in Nat /\ low[x] \in Int /\ x # NoNode
         /\ Shape(m_nodes, Live, m_rootID, low, level, OrphanOf(result))
         /\ EndsOf(m_nodes, Live, m_firstLeafID, m_lastLeafID, low, level)
         /\ StackOf(m_nodes, Live, m_rootID, level, path)
         /\ ReturnOf(m_nodes, Live, low, level, path, result)
         /\ OrphanOf(NoResult) = NoNode
<1>1. key[1] \in Nat
  BY DEF TypeOK
<1>2. /\ Shape(m_nodes, Live, m_rootID, low, level, OrphanOf(result))
      /\ EndsOf(m_nodes, Live, m_firstLeafID, m_lastLeafID, low, level)
      /\ StackOf(m_nodes, Live, m_rootID, level, path)
      /\ ReturnOf(m_nodes, Live, low, level, path, result)
  BY DEF LoadInv
<1>3. m_nodes \in Table /\ Live \subseteq NodeIDs /\ m_rootID \in Live
  BY <1>2 DEF Shape, RootOnTop
<1>4. \A x \in Live : level[x] \in Nat /\ low[x] \in Int
  BY <1>2 DEF Shape, Ghosts
<1>5. \A x \in Live : x # NoNode
  BY <1>3 DEF NodeIDs, NoNode
<1>6. OrphanOf(NoResult) = NoNode
  BY DEF OrphanOf, NoResult
<1> QED
  BY <1>1, <1>2, <1>3, <1>4, <1>5, <1>6

\* and on the way down
LEMMA WalkFacts ==
  ASSUME TypeOK, NEW low, NEW level, LoadInv(low, level), pc = "insertDown"
  PROVE  /\ Shape(m_nodes, Live, m_rootID, low, level, NoNode)
         /\ WalkOf(m_nodes, Live, m_rootID, low, level, path, node, key[1])
         /\ node \in Live /\ node \in NodeIDs /\ result = NoResult
<1>1. result = NoResult /\ WalkOf(m_nodes, Live, m_rootID, low, level, path, node, key[1])
  BY DEF LoadInv
<1>2. Shape(m_nodes, Live, m_rootID, low, level, NoNode) /\ Live \subseteq NodeIDs
  BY <1>1, LoadFacts
<1> QED
  BY <1>1, <1>2 DEF WalkOf

\* at the leaf the tuple fits
LEMMA WalkEnds ==
  ASSUME TypeOK, NEW low, NEW level, LoadInv(low, level), AtLeafToInsert
  PROVE  /\ TupleFits(m_nodes, Live, low, level, node, key[1])
         /\ pc = "insertDown" /\ node \in Live /\ level[node] = 0
<1>1. pc = "insertDown" /\ ~HasChildren(m_nodes, node)
  BY DEF AtLeafToInsert
<1>2. /\ Shape(m_nodes, Live, m_rootID, low, level, NoNode)
      /\ WalkOf(m_nodes, Live, m_rootID, low, level, path, node, key[1])
      /\ node \in Live /\ key[1] \in Nat
  BY <1>1, WalkFacts, LoadFacts
<1>3. level[node] = 0
  BY <1>1, <1>2, LeavesAreAtTheBottom
<1>4. \A e \in m_nodes[node].page : e.key # key[1]
  BY <1>1, <1>2, NotStoredHere DEF WalkOf
<1> QED
  BY <1>1, <1>2, <1>3, <1>4 DEF TupleFits, WalkOf

\* insert_tuple is called with a tuple that is not stored
LEMMA CallLoads ==
  ASSUME TypeOK, NEW low, NEW level, LoadInv(low, level), NEW t \in Tuples, InsertCall(t)
  PROVE  Preserved /\ Stored' = Stored /\ pc = "idle" /\ pc' = "insertDown" /\ key' = <<t, t>>
<1>1. /\ t \notin Stored /\ pc = "idle" /\ pc' = "insertDown" /\ key' = <<t, t>> /\ node' = m_rootID
      /\ m_nodes' = m_nodes /\ m_rootID' = m_rootID /\ m_firstLeafID' = m_firstLeafID
      /\ m_lastLeafID' = m_lastLeafID /\ m_nodeIDAllocator' = m_nodeIDAllocator
      /\ m_tupleCount' = m_tupleCount /\ path' = path /\ result' = result
  BY DEF InsertCall, Begin, tree
<1>2. Live' = Live /\ Stored' = Stored /\ t \in Nat /\ key'[1] = t
  BY <1>1, TuplesAssumption DEF Live, Stored
<1>3. path = <<>> /\ result = NoResult /\ Counted' = Counted
  BY <1>1, <1>2 DEF LoadInv, Counted
<1>4. /\ Shape(m_nodes, Live, m_rootID, low, level, NoNode) /\ m_rootID \in Live
      /\ \A x \in Live : level[x] \in Nat /\ low[x] \in Int /\ x # NoNode
  BY <1>3, LoadFacts
<1>5. low[m_rootID] = -1 /\ \A z \in Live : z # m_rootID => level[z] < level[m_rootID]
  BY <1>4 DEF Shape, RootOnTop
<1>6. WalkOf(m_nodes, Live, m_rootID, low, level, <<>>, m_rootID, t)
  <2>1. InRangeOf(Live, low, level, m_rootID, t)
    BY <1>4, <1>5 DEF InRangeOf
  <2>2. t \notin StoredIn(m_nodes, Live)
    BY <1>1, StoredNow
  <2>3. level[m_rootID] + Len(<<>>) = level[m_rootID] /\ low[m_rootID] <= t
    BY <1>2, <1>4, <1>5
  <2> QED
    BY <1>4, <2>1, <2>2, <2>3 DEF WalkOf
<1>7. LoadInv(low, level)'
  BY <1>1, <1>2, <1>3, <1>6 DEF LoadInv
<1> QED
  BY <1>1, <1>2, <1>7 DEF Preserved

\* the walk goes from a branch to the child in whose range the tuple is
LEMMA DescendLoads ==
  ASSUME TypeOK, NEW low, NEW level, LoadInv(low, level), InsertDescend
  PROVE  Preserved /\ Quiet
<1> DEFINE k == key[1]
           c == LeftChildOf(m_nodes, node, {e \in m_nodes[node].page : e.key <= k})
<1>1. pc = "insertDown" /\ HasChildren(m_nodes, node) /\ Descend({e \in m_nodes[node].page : e.key <= k})
  BY DEF InsertDescend
<1>2. /\ Shape(m_nodes, Live, m_rootID, low, level, NoNode) /\ node \in Live /\ node \in NodeIDs
      /\ WalkOf(m_nodes, Live, m_rootID, low, level, path, node, k) /\ k \in Nat
      /\ StackOf(m_nodes, Live, m_rootID, level, path) /\ m_rootID \in Live
      /\ \A x \in Live : level[x] \in Nat
  BY <1>1, WalkFacts, LoadFacts
<1> HIDE DEF k
<1>3. /\ low[node] <= k /\ InRangeOf(Live, low, level, node, k) /\ k \notin StoredIn(m_nodes, Live)
      /\ level[node] + Len(path) = level[m_rootID]
      /\ IF path = <<>> THEN node = m_rootID ELSE m_nodes[node].parentID = Top(path)
  BY <1>2 DEF WalkOf
<1>4. /\ c \in Live /\ m_nodes[c].parentID = node /\ level[c] + 1 = level[node]
      /\ low[c] <= k /\ InRangeOf(Live, low, level, c, k)
  BY <1>1, <1>2, <1>3, WalkDown
<1> HIDE DEF c
<1>5. /\ node' = c /\ path' = Append(path, node)
      /\ UNCHANGED <<tree, m_tupleCount, pc, key, result>>
  BY <1>1, <1>4 DEF Descend, c, k
<1>6. /\ m_nodes' = m_nodes /\ m_rootID' = m_rootID /\ m_firstLeafID' = m_firstLeafID
      /\ m_lastLeafID' = m_lastLeafID /\ m_nodeIDAllocator' = m_nodeIDAllocator
      /\ m_tupleCount' = m_tupleCount /\ pc' = pc /\ key' = key /\ result' = result
  BY <1>5 DEF tree
<1>7. Live' = Live /\ Stored' = Stored
  BY <1>6 DEF Live, Stored
<1>8. Counted' = Counted /\ Pending' = Pending
  BY <1>6, <1>7 DEF Counted, Pending
<1>9. /\ StackOf(m_nodes, Live, m_rootID, level, path') /\ path' # <<>> /\ Top(path') = node
      /\ Len(path') = Len(path) + 1
  BY <1>2, <1>3, <1>5, StackPush
<1>10. WalkOf(m_nodes, Live, m_rootID, low, level, path', c, k)
  <2>1. Len(path) \in Nat
    BY <1>2 DEF StackOf
  <2>2. level[c] + Len(path') = level[m_rootID]
    BY <1>2, <1>3, <1>4, <1>9, <2>1
  <2> QED
    BY <1>3, <1>4, <1>9, <2>2 DEF WalkOf
<1>11. result = NoResult /\ result.kind = "none"
  BY <1>1 DEF LoadInv, NoResult
<1>12. LoadInv(low, level)'
  <2>1. WalkOf(m_nodes', Live', m_rootID', low, level, path', node', key'[1])
    BY <1>5, <1>6, <1>7, <1>10 DEF k
  <2>2. ReturnOf(m_nodes', Live', low, level, path', result')
    BY <1>6, <1>11 DEF ReturnOf
  <2> QED
    BY <1>1, <1>6, <1>7, <1>8, <1>9, <1>11, <2>1, <2>2 DEF LoadInv
<1> QED
  BY <1>7, <1>8, <1>12 DEF Preserved, Quiet

\* a tuple added to a leaf is stored
LEMMA StoredInLeaf ==
  ASSUME NEW ns, NEW ns2, NEW live \in SUBSET NodeIDs, NEW x \in live, ~HasChildren(ns, x), NEW t,
         PageChanges(ns, ns2, x, ns[x].page \cup {LeafTuple(t)})
  PROVE  StoredIn(ns2, live) = StoredIn(ns, live) \cup {t}
<1>1. \A y \in live : /\ HasChildren(ns2, y) = HasChildren(ns, y)
                      /\ ns2[y].page = IF y = x THEN ns[x].page \cup {LeafTuple(t)} ELSE ns[y].page
  BY DEF PageChanges, SameLinks, HasChildren
<1>2. LeafEntriesOf(ns2, live) = LeafEntriesOf(ns, live) \cup {LeafTuple(t)}
  BY <1>1 DEF LeafEntriesOf
<1> QED
  BY <1>2, StoredAfter

\* changing the page of a branch stores nothing
LEMMA StoredInBranch ==
  ASSUME NEW ns, NEW ns2, NEW live \in SUBSET NodeIDs, NEW x \in live, HasChildren(ns, x), NEW P,
         PageChanges(ns, ns2, x, P)
  PROVE  StoredIn(ns2, live) = StoredIn(ns, live)
<1>1. \A y \in live : /\ HasChildren(ns2, y) = HasChildren(ns, y)
                      /\ y # x => ns2[y].page = ns[y].page
  BY DEF PageChanges, SameLinks, HasChildren
<1>2. LeafEntriesOf(ns2, live) = LeafEntriesOf(ns, live)
  BY <1>1 DEF LeafEntriesOf
<1> QED
  BY <1>2 DEF StoredIn

\* a redistribution stores the tuple and keeps the others
LEMMA StoredInTwoLeaves ==
  ASSUME NEW ns, NEW ns2, NEW live, NEW root, NEW low, NEW level,
         Shape(ns, live, root, low, level, NoNode),
         NEW l, NEW r, NEW t, Redistributed(ns, ns2, live, low, level, l, r, t), l # root
  PROVE  StoredIn(ns2, live) = StoredIn(ns, live) \cup {t}
<1>1. PICK m, L, R : /\ BoundaryMoves(ns, ns2, live, low, level, l, r, m, L, R)
                     /\ L \cup R = ns[l].page \cup ns[r].page \cup {LeafTuple(t)}
  BY DEF Redistributed
<1>2. /\ l \in live /\ ns[l].siblingRightID = r /\ r # NoNode /\ level[l] = 0
      /\ ns[r].parentID = ns[l].parentID
  BY <1>1 DEF BoundaryMoves
<1>3. Neighbours(ns, live, root, low, level, l, r)
  BY <1>2, NeighbourLeaves
<1> DEFINE p == ns[r].parentID
<1>4. /\ r \in live /\ level[r] = 0 /\ p \in live /\ HasChildren(ns, p) /\ p # l /\ p # r /\ l # r
  BY <1>3 DEF Neighbours
<1>5. ~HasChildren(ns, l) /\ ~HasChildren(ns, r)
  BY <1>2, <1>4, LeavesAreAtTheBottom
<1>6. \A y \in live : /\ HasChildren(ns2, y) = HasChildren(ns, y)
                      /\ y \notin {l, r, p} => ns2[y].page = ns[y].page
                      /\ ns2[l].page = L /\ ns2[r].page = R
  <2>1. \A y \in live : y \in NodeIDs
    BY DEF Shape
  <2> QED
    BY <1>1, <1>2, <1>4, <2>1 DEF BoundaryMoves, SameLinks, HasChildren
<1> HIDE DEF p
<1>7. LeafEntriesOf(ns2, live) = LeafEntriesOf(ns, live) \cup {LeafTuple(t)}
  <2> DEFINE A == {i \in live : ~HasChildren(ns, i)}
             B == {i \in live : ~HasChildren(ns2, i)}
  <2>1. A = B /\ l \in A /\ r \in A /\ \A y \in A : y \notin {l, r} => ns2[y].page = ns[y].page
    BY <1>2, <1>4, <1>5, <1>6
  <2> HIDE DEF A, B
  <2>2. ns2[l].page = L /\ ns2[r].page = R
    BY <1>2, <1>6
  <2>3. \A e : e \in LeafEntriesOf(ns2, live) <=> \E x \in B : e \in ns2[x].page
    BY DEF LeafEntriesOf, B
  <2>4. \A e : e \in LeafEntriesOf(ns, live) <=> \E x \in A : e \in ns[x].page
    BY DEF LeafEntriesOf, A
  <2>5. ASSUME NEW e
        PROVE  (\E x \in B : e \in ns2[x].page) <=> ((\E x \in A : e \in ns[x].page) \/ e = LeafTuple(t))
    BY <1>1, <2>1, <2>2
  <2>6. \A e : e \in LeafEntriesOf(ns2, live) <=> e \in LeafEntriesOf(ns, live) \cup {LeafTuple(t)}
    BY <2>3, <2>4, <2>5
  <2> QED
    BY <2>6
<1> QED
  BY <1>7, StoredAfter

\* a step that handles a leaf and splits nothing
LEMMA LeafHandled ==
  ASSUME TypeOK, NEW low, NEW level, LoadInv(low, level), pc = "insertDown",
         NEW ns, LeafReturns("insertUp", ns, NoResult), SameRootAndIDs, UNCHANGED m_lastLeafID,
         NEW lo, Shape(ns, Live, m_rootID, lo, level, NoNode),
         SameLinks(m_nodes, ns), lo[m_firstLeafID] = -1,
         StoredIn(ns, Live) = StoredIn(m_nodes, Live) \cup {key[1]}
  PROVE  Preserved /\ Serves
<1>1. /\ Live' = Live /\ m_rootID' = m_rootID /\ m_lastLeafID' = m_lastLeafID
      /\ m_nodes' = ns /\ pc' = "insertUp"
  BY DEF SameRootAndIDs, LeafReturns, Live
<1>2. Stored' = Stored \cup {key[1]}
  BY <1>1, StoredNow, StoredNext
<1>3. /\ EndsOf(m_nodes, Live, m_firstLeafID, m_lastLeafID, low, level)
      /\ StackOf(m_nodes, Live, m_rootID, level, path) /\ m_rootID \in Live /\ Live \subseteq NodeIDs
      /\ OrphanOf(NoResult) = NoNode
  BY LoadFacts
<1>4. EndsOf(ns, Live, m_firstLeafID, m_lastLeafID, lo, level)
  BY <1>3 DEF EndsOf, SameLinks
<1>5. StackOf(ns, Live, m_rootID, level, path)
  <2>1. \A i \in 1..Len(path) : ns[path[i]].parentID = m_nodes[path[i]].parentID
    BY <1>3 DEF StackOf, SameLinks
  <2> QED
    BY <1>3, <2>1, StackKept
<1>6. ReturnOf(ns, Live, lo, level, path, NoResult)
  BY DEF ReturnOf, NoResult
<1>7. LoadInv(lo, level)'
  BY <1>1, <1>2, <1>3, <1>4, <1>5, <1>6, LeafDone
<1> QED
  BY <1>1, <1>2, <1>7 DEF Preserved, Serves

\* a leaf with room takes the tuple in
LEMMA IntoLeafLoads ==
  ASSUME TypeOK, NEW low, NEW level, LoadInv(low, level), InsertIntoLeaf
  PROVE  Preserved /\ Serves
<1> DEFINE ns == AddTuple(m_nodes, node, NewTuple)
<1>1. /\ AtLeafToInsert /\ HasLessThanMaxTuples(m_nodes, node)
      /\ LeafReturns("insertUp", ns, NoResult) /\ SameRootAndIDs /\ UNCHANGED m_lastLeafID
  BY DEF InsertIntoLeaf
<1>2. /\ TupleFits(m_nodes, Live, low, level, node, key[1]) /\ pc = "insertDown" /\ level[node] = 0
      /\ Shape(m_nodes, Live, m_rootID, low, level, NoNode) /\ ~HasChildren(m_nodes, node)
      /\ m_nodes \in Table /\ Live \subseteq NodeIDs /\ node \in Live
      /\ EndsOf(m_nodes, Live, m_firstLeafID, m_lastLeafID, low, level)
  BY <1>1, WalkEnds, WalkFacts, LoadFacts DEF AtLeafToInsert
<1>3. /\ key[1] \in Nat /\ low[node] <= key[1] /\ InRangeOf(Live, low, level, node, key[1])
      /\ LeafTuple(key[1]) \notin m_nodes[node].page
  <2>1. LeafTuple(key[1]).key = key[1]
    BY DEF LeafTuple
  <2> QED
    BY <1>2, <2>1 DEF TupleFits
<1>4. Shape(ns, Live, m_rootID, low, level, NoNode)
  BY <1>1, <1>2, <1>3, AddedTuple DEF NewTuple
<1>5. PageChanges(m_nodes, ns, node, m_nodes[node].page \cup {LeafTuple(key[1])})
  <2>1. LeafTuple(key[1]) \in Entry /\ node \in NodeIDs
    BY <1>2, <1>3, LeafTupleFields
  <2> QED
    BY <1>2, <2>1, AddTupleFields DEF NewTuple
<1> HIDE DEF ns
<1>6. StoredIn(ns, Live) = StoredIn(m_nodes, Live) \cup {key[1]}
  BY <1>2, <1>5, StoredInLeaf
<1>7. SameLinks(m_nodes, ns) /\ low[m_firstLeafID] = -1
  BY <1>2, <1>5 DEF PageChanges, EndsOf
<1> QED
  BY <1>1, <1>2, <1>4, <1>6, <1>7, LeafHandled

\* a step that deals the tuples of two neighbouring leaves anew
LEMMA RedistributionHandled ==
  ASSUME TypeOK, NEW low, NEW level, LoadInv(low, level), pc = "insertDown",
         NEW ns, LeafReturns("insertUp", ns, NoResult), SameRootAndIDs, UNCHANGED m_lastLeafID,
         NEW l, NEW r, l # m_rootID,
         Redistributed(m_nodes, ns, Live, low, level, l, r, key[1])
  PROVE  Preserved /\ Serves
<1>1. /\ Shape(m_nodes, Live, m_rootID, low, level, NoNode) /\ Live \subseteq NodeIDs
      /\ EndsOf(m_nodes, Live, m_firstLeafID, m_lastLeafID, low, level)
  BY WalkFacts, LoadFacts
<1>2. PICK m : Shape(ns, Live, m_rootID, [low EXCEPT ![r] = m], level, NoNode)
  BY <1>1, RedistributedKeepsShape
<1>3. StoredIn(ns, Live) = StoredIn(m_nodes, Live) \cup {key[1]}
  BY <1>1, StoredInTwoLeaves
<1>4. /\ SameLinks(m_nodes, ns) /\ l \in Live /\ r # NoNode /\ m_nodes[l].siblingRightID = r
  BY DEF Redistributed, BoundaryMoves
<1>5. m_firstLeafID # r
  <2>1. r \in Live /\ low[l] < low[r] /\ low[l] \in Int /\ low[l] >= -1 /\ low[r] \in Int
    BY <1>1, <1>4 DEF Shape, RightLinks, Ghosts, LowsDiffer
  <2> QED
    BY <1>1, <2>1 DEF EndsOf
<1>6. [low EXCEPT ![r] = m][m_firstLeafID] = -1
  <2>1. low \in [NodeIDs -> Int] /\ m_firstLeafID \in NodeIDs
    BY <1>1 DEF Shape, Ghosts, EndsOf
  <2> QED
    BY <1>1, <1>5, <2>1 DEF EndsOf
<1> QED
  BY <1>2, <1>3, <1>4, <1>6, LeafHandled

\* redistribution with the left sibling
LEMMA LeftLoads ==
  ASSUME TypeOK, NEW low, NEW level, LoadInv(low, level), RedistributeLeafLeftAndInsert
  PROVE  Preserved /\ Serves
<1> DEFINE ns1   == EraseIndexEntry(m_nodes, node)
           first == Lowest(ns1[node].page, 1)
           ns2   == Transfer(ns1, node, LeftLeaf, first)
           ns3   == AddTuple(ns2, node, NewTuple)
           ok    == /\ CanFindIndexEntry(m_nodes, node)
                    /\ CanTransfer(ns1, node, LeftLeaf, first)
                    /\ CanAddIndexEntry(ns3, node)
           ns    == AddIndexEntry(ns3, node)
<1>1. /\ AtLeafToInsert /\ ~HasLessThanMaxTuples(m_nodes, node) /\ HasRoomIn(LeftLeaf)
      /\ IF ok THEN /\ LeafReturns("insertUp", ns, NoResult)
                    /\ SameRootAndIDs /\ UNCHANGED m_lastLeafID
               ELSE Abort
  BY DEF RedistributeLeafLeftAndInsert
<1> HIDE DEF ns1, first, ns2, ns3, ok, ns
<1>2. /\ TupleFits(m_nodes, Live, low, level, node, key[1]) /\ pc = "insertDown"
      /\ Shape(m_nodes, Live, m_rootID, low, level, NoNode)
  BY <1>1, WalkEnds, WalkFacts
<1>3. /\ CanFindIndexEntry(m_nodes, node) /\ CanTransfer(ns1, node, LeftLeaf, first)
      /\ CanAddIndexEntry(ns3, node)
      /\ Redistributed(m_nodes, ns, Live, low, level, LeftLeaf, node, key[1])
      /\ LeftLeaf # m_rootID
  <2>1. /\ LeftLeaf = m_nodes[node].siblingLeftID
        /\ IsUsefulSibling(m_nodes, node, LeftLeaf) /\ HasLessThanMaxTuples(m_nodes, LeftLeaf)
    BY <1>1 DEF HasRoomIn, LeftLeaf
  <2>2. /\ ns1 = EraseIndexEntry(m_nodes, node) /\ first = Lowest(ns1[node].page, 1)
        /\ ns2 = Transfer(ns1, node, LeftLeaf, first) /\ ns3 = AddTuple(ns2, node, LeafTuple(key[1]))
        /\ ns = AddIndexEntry(ns3, node)
    BY DEF ns1, first, ns2, ns3, ns, NewTuple
  <2> QED
    BY <1>1, <1>2, <2>1, <2>2, LentToLeft
<1>4. LeafReturns("insertUp", ns, NoResult) /\ SameRootAndIDs /\ UNCHANGED m_lastLeafID
  BY <1>1, <1>3 DEF ok
<1> QED
  BY <1>2, <1>3, <1>4, RedistributionHandled

\* redistribution with the right sibling
LEMMA RightLoads ==
  ASSUME TypeOK, NEW low, NEW level, LoadInv(low, level), RedistributeLeafRightAndInsert
  PROVE  Preserved /\ Serves
<1> DEFINE ns1   == EraseIndexEntry(m_nodes, RightLeaf)
           last  == Highest(ns1[node].page, 1)
           ns2   == IF \A e \in ns1[node].page : e.key < key[1]
                      THEN AddTuple(ns1, RightLeaf, NewTuple)
                      ELSE AddTuple(Transfer(ns1, node, RightLeaf, last), node, NewTuple)
           ok    == /\ CanFindIndexEntry(m_nodes, RightLeaf)
                    /\ CanTransfer(ns1, node, RightLeaf, last)
                    /\ CanAddIndexEntry(ns2, RightLeaf)
           ns    == AddIndexEntry(ns2, RightLeaf)
<1>1. /\ AtLeafToInsert /\ ~HasLessThanMaxTuples(m_nodes, node) /\ HasRoomIn(RightLeaf)
      /\ IF ok THEN /\ LeafReturns("insertUp", ns, NoResult)
                    /\ SameRootAndIDs /\ UNCHANGED m_lastLeafID
               ELSE Abort
  BY DEF RedistributeLeafRightAndInsert
<1> HIDE DEF ns1, last, ns2, ok, ns
<1>2. /\ TupleFits(m_nodes, Live, low, level, node, key[1]) /\ pc = "insertDown"
      /\ Shape(m_nodes, Live, m_rootID, low, level, NoNode)
  BY <1>1, WalkEnds, WalkFacts
<1>3. /\ CanFindIndexEntry(m_nodes, RightLeaf) /\ CanTransfer(ns1, node, RightLeaf, last)
      /\ CanAddIndexEntry(ns2, RightLeaf)
      /\ Redistributed(m_nodes, ns, Live, low, level, node, RightLeaf, key[1])
      /\ node # m_rootID
  <2>1. /\ m_nodes[node].siblingRightID = RightLeaf
        /\ IsUsefulSibling(m_nodes, node, RightLeaf) /\ HasLessThanMaxTuples(m_nodes, RightLeaf)
    BY <1>1 DEF HasRoomIn, RightLeaf
  <2>2. /\ ns1 = EraseIndexEntry(m_nodes, RightLeaf) /\ last = Highest(ns1[node].page, 1)
        /\ ns2 = IF \A e \in ns1[node].page : e.key < key[1]
                   THEN AddTuple(ns1, RightLeaf, LeafTuple(key[1]))
                   ELSE AddTuple(Transfer(ns1, node, RightLeaf, last), node, LeafTuple(key[1]))
        /\ ns = AddIndexEntry(ns2, RightLeaf)
    BY DEF ns1, last, ns2, ns, NewTuple
  <2> QED
    BY <1>1, <1>2, <2>1, <2>2, LentToRight
<1>4. LeafReturns("insertUp", ns, NoResult) /\ SameRootAndIDs /\ UNCHANGED m_lastLeafID
  BY <1>1, <1>3 DEF ok
<1> QED
  BY <1>2, <1>3, <1>4, RedistributionHandled

-----------------------------------------------------------------------------
(***************************************************************************)
(* Splits: what they leave of the stack and of the ends of the leaf chain, *)
(* and how the tree grows.                                                 *)
(***************************************************************************)
\* the ghosts after a split
LowAfter(low, fresh, m) == [low EXCEPT ![fresh] = m]

\* the fresh node is on the level of x
LevelAfter(level, fresh, x) == [level EXCEPT ![fresh] = level[x]]

\* what a split leaves of the stack, and what it gives the frame above
LEMMA SplitKeepsStack ==
  ASSUME NEW ns, NEW live, NEW root, NEW low, NEW level, NEW orphan,
         Shape(ns, live, root, low, level, orphan),
         NEW ns2, NEW x \in live, NEW fresh \in NodeIDs \ live, NEW m,
         SplitsOff(ns, ns2, live, root, low, level, x, fresh, m),
         NEW stk, StackOf(ns, live, root, level, stk),
         AreAbove(level, stk, x)
  PROVE  StackOf(ns2, live \cup {fresh}, root, LevelAfter(level, fresh, x), stk)
<1>1. \A i \in 1..Len(stk) : ns2[stk[i]].parentID = ns[stk[i]].parentID
  BY DEF StackOf, SplitsOff, AreAbove
<1>2. \A y \in live : [level EXCEPT ![fresh] = level[x]][y] = level[y]
  BY DEF Shape, Ghosts
<1>3. root \in live
  BY DEF Shape, RootOnTop
<1> DEFINE le == [level EXCEPT ![fresh] = level[x]]
           lv == live \cup {fresh}
<1>4. live \subseteq lv
  OBVIOUS
<1> HIDE DEF le, lv
<1>5. StackOf(ns2, lv, root, le, stk)
  BY <1>1, <1>2, <1>3, <1>4, StackKept DEF le
<1> QED
  BY <1>5 DEF le, lv, LevelAfter

\* the frame above waits for the fresh node
LEMMA SplitAwaits ==
  ASSUME NEW ns, NEW live, NEW root, NEW low, NEW level, NEW orphan,
         Shape(ns, live, root, low, level, orphan),
         NEW ns2, NEW x \in live, x \notin {root, orphan}, NEW fresh \in NodeIDs \ live, NEW m,
         SplitsOff(ns, ns2, live, root, low, level, x, fresh, m)
  PROVE  Awaits(ns2, live \cup {fresh}, LowAfter(low, fresh, m), LevelAfter(level, fresh, x),
                ns[x].parentID, fresh)
<1> DEFINE p == ns[x].parentID
           lo == [low EXCEPT ![fresh] = m]
           le == [level EXCEPT ![fresh] = level[x]]
<1>1. /\ m \in Nat /\ low[x] < m /\ InRangeOf(live, low, level, x, m) /\ ns2[fresh].parentID = p
  BY DEF SplitsOff
<1>2. low \in [NodeIDs -> Int] /\ level \in [NodeIDs -> Nat] /\ live \subseteq NodeIDs
  BY DEF Shape, Ghosts
<1>3. p \in live /\ level[p] = level[x] + 1 /\ low[p] <= low[x]
  BY PlaceInParent
<1>4. low[x] <= m /\ m \in Int
  BY <1>1, <1>2
<1>5. InRangeOf(live, low, level, p, m)
  BY <1>1, <1>4, RangeOfParent
<1>6. /\ lo[fresh] = m /\ le[fresh] = level[x]
      /\ \A y \in live : lo[y] = low[y] /\ le[y] = level[y] /\ y # fresh
  BY <1>2
<1> HIDE DEF p, lo, le
<1>7. le[p] = le[fresh] + 1 /\ lo[p] < lo[fresh]
  BY <1>1, <1>2, <1>3, <1>6
<1>8. InRangeOf(live \cup {fresh}, lo, le, p, m)
  <2> SUFFICES ASSUME NEW z \in live \cup {fresh}, le[z] = le[p], lo[p] < lo[z] PROVE m < lo[z]
    BY DEF InRangeOf
  <2>1. z # fresh
    BY <1>2, <1>6, <1>7
  <2> QED
    BY <1>3, <1>5, <1>6, <2>1 DEF InRangeOf
<1>9. Awaits(ns2, live \cup {fresh}, lo, le, p, fresh)
  BY <1>1, <1>3, <1>6, <1>7, <1>8 DEF Awaits
<1> QED
  BY <1>9 DEF p, lo, le, LowAfter, LevelAfter

\* a split of the last leaf makes the fresh leaf the last one
LEMMA SplitKeepsEnds ==
  ASSUME NEW ns, NEW live, NEW root, NEW low, NEW level, NEW orphan,
         Shape(ns, live, root, low, level, orphan),
         NEW ns2, NEW x \in live, NEW fresh \in NodeIDs \ live, NEW m,
         SplitsOff(ns, ns2, live, root, low, level, x, fresh, m),
         NEW first, NEW last, EndsOf(ns, live, first, last, low, level),
         NEW last2, last = x => last2 = fresh, last # x => last2 = last
  PROVE  EndsOf(ns2, live \cup {fresh}, first, last2,
                LowAfter(low, fresh, m), LevelAfter(level, fresh, x))
<1> DEFINE lo == [low EXCEPT ![fresh] = m]
           le == [level EXCEPT ![fresh] = level[x]]
<1>1. low \in [NodeIDs -> Int] /\ level \in [NodeIDs -> Nat] /\ live \subseteq NodeIDs
  BY DEF Shape, Ghosts
<1>2. /\ lo[fresh] = m /\ le[fresh] = level[x]
      /\ \A y \in live : lo[y] = low[y] /\ le[y] = level[y] /\ y # fresh
  BY <1>1
<1> HIDE DEF lo, le
<1>3. /\ first \in live /\ level[first] = 0 /\ low[first] = -1
      /\ last \in live /\ level[last] = 0 /\ ns[last].siblingRightID = NoNode
  BY DEF EndsOf
<1>4. /\ \A y \in live : y # x => ns2[y].siblingRightID = ns[y].siblingRightID
      /\ ns2[fresh].siblingRightID = ns[x].siblingRightID
  BY DEF SplitsOff
<1>5. EndsOf(ns2, live \cup {fresh}, first, last2, lo, le)
  BY <1>2, <1>3, <1>4 DEF EndsOf
<1> QED
  BY <1>5 DEF lo, le, LowAfter, LevelAfter

\* nothing but the new root and two parent pointers changes
RootIsAdded(ns, ns2, r) ==
  /\ ns2[r].firstChildID # NoNode
  /\ \A y \in NodeIDs : y # r =>
       /\ ns2[y].page = ns[y].page /\ ns2[y].firstChildID = ns[y].firstChildID
       /\ ns2[y].siblingRightID = ns[y].siblingRightID

\* add_root_node makes the two halves the children of the new root
LEMMA AddRootNodeFields ==
  ASSUME NEW ns \in Table, NEW r \in NodeIDs, NEW a \in NodeIDs, NEW b \in NodeIDs,
         a # r, b # r, a # b, NEW m
  PROVE  RootIsAdded(ns, AddRootNode(ns, r, Split(a, b, m)), r)
<1> DEFINE split == Split(a, b, m)
           ns2 == AddRootNode(ns, r, split)
           rec == [ns[r] EXCEPT !.page = {BranchTuple(split.splitter, split.right)},
                                !.firstChildID = split.left, !.parentID = NoNode,
                                !.siblingLeftID = NoNode, !.siblingRightID = NoNode]
<1>1. split.left = a /\ split.right = b
  BY DEF Split
<1>2. \A y \in NodeIDs : ns[y] \in Node
  BY DEF Table
<1>3. a # NoNode
  BY DEF NodeIDs, NoNode
<1>4. rec.firstChildID = a
  BY <1>1, <1>2 DEF Node
<1>5. ns2 = [ns EXCEPT ![r] = rec, ![a].parentID = r, ![b].parentID = r]
  BY <1>1 DEF AddRootNode
<1> HIDE DEF rec, ns2, split
<1>6. /\ ns2[r] = rec /\ ns2[a] = [ns[a] EXCEPT !.parentID = r]
      /\ ns2[b] = [ns[b] EXCEPT !.parentID = r]
      /\ \A y \in NodeIDs : y \notin {r, a, b} => ns2[y] = ns[y]
  BY <1>5 DEF Table
<1>7. \A y \in NodeIDs : y # r =>
       /\ ns2[y].page = ns[y].page /\ ns2[y].firstChildID = ns[y].firstChildID
       /\ ns2[y].siblingRightID = ns[y].siblingRightID
  BY <1>2, <1>6 DEF Node
<1>8. RootIsAdded(ns, ns2, r)
  BY <1>3, <1>4, <1>6, <1>7 DEF RootIsAdded
<1> QED
  BY <1>8 DEF ns2, split

\* a new root stores nothing
LEMMA RootAddedKeepsStored ==
  ASSUME NEW ns, NEW ns2, NEW live, live \subseteq NodeIDs, NEW r, r \notin live, RootIsAdded(ns, ns2, r)
  PROVE  StoredIn(ns2, live \cup {r}) = StoredIn(ns, live)
<1>1. HasChildren(ns2, r) /\ \A y \in live : HasChildren(ns2, y) = HasChildren(ns, y) /\ ns2[y].page = ns[y].page
  BY DEF RootIsAdded, HasChildren
<1>2. LeafEntriesOf(ns2, live \cup {r}) = LeafEntriesOf(ns, live)
  <2>1. {i \in live \cup {r} : ~HasChildren(ns2, i)} = {i \in live : ~HasChildren(ns, i)}
    BY <1>1
  <2> QED
    BY <1>1, <2>1 DEF LeafEntriesOf
<1> QED
  BY <1>2 DEF StoredIn

\* a tree without an orphan
Settled(ns, live, root, first, last) ==
  \E low, level : /\ Shape(ns, live, root, low, level, NoNode)
                   /\ EndsOf(ns, live, first, last, low, level)

\* the tree grows: its root was split
LEMMA SplitRoot ==
  ASSUME NEW ns, NEW live, NEW root, NEW low, NEW level, NEW orphan,
         Shape(ns, live, root, low, level, orphan),
         NEW ns2, NEW fresh \in NodeIDs \ live, NEW m,
         SplitsOff(ns, ns2, live, root, low, level, root, fresh, m),
         NEW lo, lo = LowAfter(low, fresh, m),
         NEW le, le = LevelAfter(level, fresh, root),
         NEW lv, lv = live \cup {fresh},
         NEW r \in NodeIDs \ lv,
         NEW first, NEW last, EndsOf(ns2, lv, first, last, lo, le),
         NEW ns3, ns3 = AddRootNode(ns2, r, Split(root, fresh, m))
  PROVE  /\ StoredIn(ns3, lv \cup {r}) = StoredIn(ns2, lv)
         /\ Settled(ns3, lv \cup {r}, r, first, last)
<1>1. /\ root \in live /\ root \in NodeIDs /\ live \subseteq NodeIDs
      /\ low \in [NodeIDs -> Int] /\ level \in [NodeIDs -> Nat] /\ root # fresh
  BY DEF Shape, RootOnTop, Ghosts
<1>2. lo[fresh] = m /\ le[fresh] = le[root] /\ fresh \in lv
  BY <1>1 DEF LowAfter, LevelAfter
<1>3. Shape(ns2, lv, root, lo, le, fresh) /\ TupleCount(ns2, root) >= MaxTupleCount(ns2, root) \div 2
  BY DEF SplitsOff, LowAfter, LevelAfter
<1> DEFINE lo2 == [lo EXCEPT ![r] = -1]
           le2 == [le EXCEPT ![r] = le[root] + 1]
<1>4. Shape(ns3, lv \cup {r}, r, lo2, le2, NoNode)
  BY <1>1, <1>2, <1>3, AddedRoot
<1>5. /\ lo \in [NodeIDs -> Int] /\ le \in [NodeIDs -> Nat] /\ ns2 \in Table /\ lv \subseteq NodeIDs
  BY <1>3 DEF Shape, Ghosts
<1>6. RootIsAdded(ns2, ns3, r)
  <2>1. root # r /\ fresh # r /\ root # fresh
    BY <1>1
  <2> QED
    BY <1>1, <1>5, <2>1, AddRootNodeFields
<1>7. StoredIn(ns3, lv \cup {r}) = StoredIn(ns2, lv)
  BY <1>5, <1>6, RootAddedKeepsStored
<1>8. \A y \in lv : lo2[y] = lo[y] /\ le2[y] = le[y] /\ y # r /\ y \in NodeIDs
  BY <1>5
<1> HIDE DEF lo2, le2
<1>9. EndsOf(ns3, lv \cup {r}, first, last, lo2, le2)
  BY <1>6, <1>8 DEF EndsOf, RootIsAdded
<1> QED
  BY <1>4, <1>7, <1>9 DEF Settled

\* a split of a leaf stores the tuple and keeps the others
LEMMA StoredAfterLeafSplit ==
  ASSUME NEW ns, NEW live, NEW root, NEW low, NEW level,
         Shape(ns, live, root, low, level, NoNode),
         NEW x \in live, level[x] = 0, NEW fresh \in NodeIDs \ live, NEW m, NEW t, NEW X, NEW F, NEW ns3,
         LeafDivides(ns, ns3, x, fresh, X, F), X \cup F = ns[x].page \cup {LeafTuple(t)}
  PROVE  StoredIn(ns3, live \cup {fresh}) = StoredIn(ns, live) \cup {t}
<1>1. live \subseteq NodeIDs /\ ~HasChildren(ns, x) /\ ns[fresh].firstChildID = NoNode
  <2>1. live \subseteq NodeIDs /\ ns[fresh] = BlankNode
    BY DEF Shape, Blank
  <2>2. ~HasChildren(ns, x)
    BY LeavesAreAtTheBottom
  <2>3. BlankNode.firstChildID = NoNode
    BY DEF BlankNode
  <2> QED
    BY <2>1, <2>2, <2>3
<1>2. /\ \A y \in live \cup {fresh} : HasChildren(ns3, y) = HasChildren(ns, y)
      /\ ns3[x].page = X /\ ns3[fresh].page = F /\ x # fresh
      /\ \A y \in live : y # x => ns3[y].page = ns[y].page
  BY <1>1 DEF LeafDivides, HasChildren
<1>3. ~HasChildren(ns, fresh)
  BY <1>1 DEF HasChildren
<1> DEFINE A == {i \in live : ~HasChildren(ns, i)}
           B == {i \in live \cup {fresh} : ~HasChildren(ns3, i)}
<1>4. B = A \cup {fresh} /\ x \in A /\ A \subseteq live
  BY <1>1, <1>2, <1>3
<1>5. \A e : e \in LeafEntriesOf(ns3, live \cup {fresh}) <=> \E y \in B : e \in ns3[y].page
  BY DEF LeafEntriesOf
<1>6. \A e : e \in LeafEntriesOf(ns, live) <=> \E y \in A : e \in ns[y].page
  BY DEF LeafEntriesOf
<1> HIDE DEF A, B
<1>7. ASSUME NEW e
      PROVE (\E y \in B : e \in ns3[y].page) <=> ((\E y \in A : e \in ns[y].page) \/ e = LeafTuple(t))
  <2>1. (\E y \in B : e \in ns3[y].page) <=> (e \in X \/ e \in F \/ \E y \in A : y # x /\ e \in ns[y].page)
    BY <1>2, <1>4
  <2>2. (e \in X \/ e \in F) <=> (e \in ns[x].page \/ e = LeafTuple(t))
    OBVIOUS
  <2> QED
    BY <1>4, <2>1, <2>2
<1>8. LeafEntriesOf(ns3, live \cup {fresh}) = LeafEntriesOf(ns, live) \cup {LeafTuple(t)}
  <2>1. \A e : e \in LeafEntriesOf(ns3, live \cup {fresh}) <=> e \in LeafEntriesOf(ns, live) \cup {LeafTuple(t)}
    BY <1>5, <1>6, <1>7
  <2> QED
    BY <2>1
<1> DEFINE lv == live \cup {fresh}
<1>9. LeafEntriesOf(ns3, lv) = LeafEntriesOf(ns, live) \cup {LeafTuple(t)}
  BY <1>8
<1> HIDE DEF lv
<1>10. StoredIn(ns3, lv) = StoredIn(ns, live) \cup {t}
  BY <1>9, StoredAfter
<1> QED
  BY <1>10 DEF lv

-----------------------------------------------------------------------------
(***************************************************************************)
(* The step of split_leaf_and_insert.                                      *)
(***************************************************************************)
\* the leaf the call is at has been split, and stores its tuple
LeafIsSplit(ns3, low, level, fresh, m) ==
  /\ FirstOf(ns3[fresh].page) = {LeafTuple(m)} /\ m \in Nat
  /\ SplitsOff(m_nodes, ns3, Live, m_rootID, low, level, node, fresh, m)
  /\ StoredIn(ns3, Live \cup {fresh}) = Stored \cup {key[1]}

\* what split_leaf_and_insert does, before the root is dealt with
LEMMA LeafSplits ==
  ASSUME TypeOK, NEW low, NEW level, LoadInv(low, level), AtLeafToInsert,
         ~HasLessThanMaxTuples(m_nodes, node),
         NEW fresh \in NodeIDs \ Live,
         NEW ns1, ns1 = ConnectFresh(m_nodes, fresh, node),
         NEW upper, upper = Highest(ns1[node].page, TupleCount(ns1, node) \div 2),
         NEW ns2, ns2 = Transfer(ns1, node, fresh, upper),
         NEW side, side = IF \E f \in FirstOf(upper) : key[1] < f.key THEN node ELSE fresh,
         NEW ns3, ns3 = AddTuple(ns2, side, NewTuple)
  PROVE  \E m : LeafIsSplit(ns3, low, level, fresh, m)
<1> DEFINE P == m_nodes[node].page
           t == key[1]
           below == \E f \in FirstOf(upper) : t < f.key
           X == IF below THEN (P \ upper) \cup {LeafTuple(t)} ELSE P \ upper
           F == IF below THEN upper ELSE upper \cup {LeafTuple(t)}
<1>1. /\ TupleFits(m_nodes, Live, low, level, node, t) /\ pc = "insertDown" /\ node \in Live /\ level[node] = 0
      /\ Shape(m_nodes, Live, m_rootID, low, level, NoNode) /\ node \in NodeIDs /\ t \in Nat
      /\ m_nodes \in Table /\ node # fresh /\ Live \subseteq NodeIDs
  BY WalkEnds, WalkFacts, LoadFacts
<1>2. ns1[node].page = P
  <2>1. m_nodes[node].siblingRightID # node /\ m_nodes[node].siblingRightID # fresh
    BY <1>1, RightSiblingIsAnother
  <2> QED
    BY <1>1, <2>1, ConnectFreshFields
<1>3. upper = Highest(P, TupleCount(m_nodes, node) \div 2)
  BY <1>2 DEF TupleCount
<1> HIDE DEF t
<1>4. upper \subseteq P /\ \E m : LeafParts(m_nodes, low, node, t, m, X, F)
  <2>1. /\ X = IF \E f \in FirstOf(upper) : t < f.key THEN (P \ upper) \cup {LeafTuple(t)} ELSE P \ upper
        /\ F = IF \E f \in FirstOf(upper) : t < f.key THEN upper ELSE upper \cup {LeafTuple(t)}
    OBVIOUS
  <2>2. /\ Shape(m_nodes, Live, m_rootID, low, level, NoNode)
        /\ TupleFits(m_nodes, Live, low, level, node, t)
        /\ ~HasLessThanMaxTuples(m_nodes, node)
        /\ upper = Highest(m_nodes[node].page, TupleCount(m_nodes, node) \div 2)
    BY <1>1, <1>3
  <2> HIDE DEF X, F, below
  <2> QED
    BY <2>1, <2>2, PartsOfLeaf
<1>5. LeafDivides(m_nodes, ns3, node, fresh, X, F)
  <2>1. ns3 = AddTuple(ns2, IF below THEN node ELSE fresh, LeafTuple(t))
    BY DEF NewTuple, t
  <2>2. below \in BOOLEAN
    OBVIOUS
  <2> HIDE DEF below
  <2> QED
    BY <1>1, <1>4, <2>1, <2>2, DividedFields
<1> HIDE DEF X, F, below
<1>6. PICK m : LeafParts(m_nodes, low, node, t, m, X, F)
  BY <1>4
<1>7. /\ X \cup F = m_nodes[node].page \cup {LeafTuple(t)} /\ m \in Nat /\ FirstOf(F) = {LeafTuple(m)}
  BY <1>6 DEF LeafParts
<1>8. ns3[fresh].page = F
  BY <1>1, <1>5 DEF LeafDivides
<1>9. SplitsOff(m_nodes, ns3, Live, m_rootID, low, level, node, fresh, m)
  BY <1>1, <1>5, <1>6, SplitLeaf
<1>10. StoredIn(ns3, Live \cup {fresh}) = StoredIn(m_nodes, Live) \cup {t}
  BY <1>1, <1>5, <1>7, StoredAfterLeafSplit
<1>11. StoredIn(ns3, Live \cup {fresh}) = Stored \cup {key[1]}
  BY <1>10, StoredNow DEF t
<1> QED
  BY <1>7, <1>8, <1>9, <1>11 DEF LeafIsSplit

\* a split that is dealt with in the frame above
LEMMA SplitLeavesLoadInv ==
  ASSUME TypeOK, NEW low, NEW level, LoadInv(low, level),
         NEW x \in Live, NEW fresh \in NodeIDs \ Live, NEW m, NEW ns,
         x # m_rootID, x # OrphanOf(result),
         SplitsOff(m_nodes, ns, Live, m_rootID, low, level, x, fresh, m),
         NEW stk, StackOf(m_nodes, Live, m_rootID, level, stk), stk # <<>>,
         m_nodes[x].parentID = Top(stk),
         AreAbove(level, stk, x),
         NEW last2, last2 = IF m_lastLeafID = x THEN fresh ELSE m_lastLeafID,
         NEW lo, lo = LowAfter(low, fresh, m),
         NEW le, le = LevelAfter(level, fresh, x),
         NEW lv, lv = Live \cup {fresh}
  PROVE  /\ Shape(ns, lv, m_rootID, lo, le, OrphanOf(Split(x, fresh, m)))
         /\ EndsOf(ns, lv, m_firstLeafID, last2, lo, le)
         /\ StackOf(ns, lv, m_rootID, le, stk)
         /\ ReturnOf(ns, lv, lo, le, stk, Split(x, fresh, m))
<1>1. /\ Shape(m_nodes, Live, m_rootID, low, level, OrphanOf(result))
      /\ EndsOf(m_nodes, Live, m_firstLeafID, m_lastLeafID, low, level)
      /\ Live \subseteq NodeIDs
  BY LoadFacts
<1>2. /\ Split(x, fresh, m).kind = "split" /\ Split(x, fresh, m).right = fresh
      /\ Split(x, fresh, m).splitter = m
  BY DEF Split
<1>3. Shape(ns, lv, m_rootID, lo, le, OrphanOf(Split(x, fresh, m)))
  BY <1>2 DEF SplitsOff, OrphanOf, LowAfter, LevelAfter
<1>4. EndsOf(ns, lv, m_firstLeafID, last2, lo, le)
  <2>1. EndsOf(ns, Live \cup {fresh}, m_firstLeafID, last2, LowAfter(low, fresh, m), LevelAfter(level, fresh, x))
    <3>1. (m_lastLeafID = x => last2 = fresh) /\ (m_lastLeafID # x => last2 = m_lastLeafID)
      OBVIOUS
    <3> QED
      BY <1>1, <3>1, SplitKeepsEnds
  <2> QED
    BY <2>1
<1>5. StackOf(ns, lv, m_rootID, le, stk)
  BY <1>1, SplitKeepsStack
<1>6. Awaits(ns, lv, lo, le, Top(stk), fresh)
  <2>1. x \notin {m_rootID, OrphanOf(result)}
    OBVIOUS
  <2>2. Awaits(ns, Live \cup {fresh}, LowAfter(low, fresh, m), LevelAfter(level, fresh, x),
               m_nodes[x].parentID, fresh)
    BY <1>1, <2>1, SplitAwaits
  <2> QED
    BY <2>2
<1>7. lo[fresh] = m
  BY <1>1 DEF Shape, Ghosts, LowAfter
<1>8. ReturnOf(ns, lv, lo, le, stk, Split(x, fresh, m))
  BY <1>2, <1>6, <1>7 DEF ReturnOf
<1> QED
  BY <1>3, <1>4, <1>5, <1>8

\* a tree without an orphan, and no frame left on the stack
SettledOn(ns, live, root, last) ==
  \E low, level : /\ Shape(ns, live, root, low, level, OrphanOf(NoResult))
                   /\ EndsOf(ns, live, m_firstLeafID, last, low, level)
                   /\ StackOf(ns, live, root, level, <<>>)
                   /\ ReturnOf(ns, live, low, level, <<>>, NoResult)

\* a split that makes the tree grow
LEMMA SplitOfRootLeavesLoadInv ==
  ASSUME TypeOK, NEW low, NEW level, LoadInv(low, level),
         NEW fresh \in NodeIDs \ Live, NEW m, NEW ns,
         SplitsOff(m_nodes, ns, Live, m_rootID, low, level, m_rootID, fresh, m),
         NEW last2, m_lastLeafID = m_rootID => last2 = fresh, m_lastLeafID # m_rootID => last2 = m_lastLeafID,
         NEW lv, lv = Live \cup {fresh}, NEW r \in NodeIDs \ lv,
         NEW ns2, ns2 = AddRootNode(ns, r, Split(m_rootID, fresh, m))
  PROVE  /\ StoredIn(ns2, lv \cup {r}) = StoredIn(ns, lv)
         /\ SettledOn(ns2, lv \cup {r}, r, last2)
<1>1. /\ Shape(m_nodes, Live, m_rootID, low, level, OrphanOf(result)) /\ m_rootID \in Live
      /\ EndsOf(m_nodes, Live, m_firstLeafID, m_lastLeafID, low, level)
      /\ OrphanOf(NoResult) = NoNode
  BY LoadFacts
<1> DEFINE lo == LowAfter(low, fresh, m)
           le == LevelAfter(level, fresh, m_rootID)
<1>2. EndsOf(ns, lv, m_firstLeafID, last2, lo, le)
  <2>2. EndsOf(ns, Live \cup {fresh}, m_firstLeafID, last2, LowAfter(low, fresh, m),
               LevelAfter(level, fresh, m_rootID))
    BY <1>1, SplitKeepsEnds
  <2> QED
    BY <2>2
<1>3. /\ StoredIn(ns2, lv \cup {r}) = StoredIn(ns, lv)
      /\ Settled(ns2, lv \cup {r}, r, m_firstLeafID, last2)
  <2>1. lo = LowAfter(low, fresh, m) /\ le = LevelAfter(level, fresh, m_rootID)
    OBVIOUS
  <2> HIDE DEF lo, le
  <2> QED
    BY <1>1, <1>2, <2>1, SplitRoot
<1>4. \A le2 : StackOf(ns2, lv \cup {r}, r, le2, <<>>)
  BY DEF StackOf
<1>5. NoResult.kind = "none"
  BY DEF NoResult
<1>6. \A lo2, le2 : ReturnOf(ns2, lv \cup {r}, lo2, le2, <<>>, NoResult)
  BY <1>5 DEF ReturnOf
<1> QED
  BY <1>1, <1>3, <1>4, <1>6 DEF Settled, SettledOn

\* the only element of a set is the one that is picked
LEMMA TheOne == ASSUME NEW e PROVE The({e}) = e
BY DEF The

\* the IDs a split may take
LEMMA SplitIDs ==
  ASSUME IDsConsistent(m_nodeIDAllocator), FreshID \in NodeIDs
  PROVE  /\ FreshID \in NodeIDs \ Live
         /\ AfterAllocate(m_nodeIDAllocator).used = Live \cup {FreshID}
         /\ FreshRootID \in NodeIDs => FreshRootID \in NodeIDs \ (Live \cup {FreshID})
         /\ AfterAllocate(AfterAllocate(m_nodeIDAllocator)).used
              = (Live \cup {FreshID}) \cup {FreshRootID}
BY FreshIDs

\* a leaf that is not the root is split, and the frame above is told
LEMMA LeafSplitAboveRootLoads ==
  ASSUME TypeOK, NEW low, NEW level, LoadInv(low, level), AtLeafToInsert, node # m_rootID,
         NEW fresh \in NodeIDs \ Live, NEW m, NEW ns,
         SplitsOff(m_nodes, ns, Live, m_rootID, low, level, node, fresh, m),
         StoredIn(ns, Live \cup {fresh}) = Stored \cup {key[1]},
         LeafReturns("insertUp", ns, Split(node, fresh, m)),
         m_lastLeafID' = IF m_lastLeafID = node THEN fresh ELSE m_lastLeafID,
         m_rootID' = m_rootID, Live' = Live \cup {fresh}
  PROVE  Preserved /\ Serves
<1> DEFINE lo == LowAfter(low, fresh, m)
           le == LevelAfter(level, fresh, node)
           res == Split(node, fresh, m)
<1>1. /\ pc = "insertDown" /\ node \in Live /\ level[node] = 0 /\ result = NoResult
      /\ WalkOf(m_nodes, Live, m_rootID, low, level, path, node, key[1])
  BY WalkEnds, WalkFacts
<1>2. /\ StackOf(m_nodes, Live, m_rootID, level, path) /\ OrphanOf(NoResult) = NoNode
      /\ \A x \in Live : level[x] \in Nat /\ x # NoNode
  BY LoadFacts
<1>3. path # <<>> /\ m_nodes[node].parentID = Top(path)
  BY <1>1 DEF WalkOf
<1>4. AreAbove(level, path, node)
  BY <1>1, <1>2 DEF StackOf, AreAbove
<1>5. node # OrphanOf(result)
  BY <1>1, <1>2
<1>6. m_nodes' = ns /\ pc' = "insertUp"
  BY DEF LeafReturns
<1>7. Stored' = Stored \cup {key[1]}
  BY <1>6, StoredNext
<1>8. /\ Shape(ns, Live', m_rootID, lo, le, OrphanOf(res))
      /\ EndsOf(ns, Live', m_firstLeafID, m_lastLeafID', lo, le)
      /\ StackOf(ns, Live', m_rootID, le, path)
      /\ ReturnOf(ns, Live', lo, le, path, res)
  BY <1>1, <1>2, <1>3, <1>4, <1>5, SplitLeavesLoadInv
<1> HIDE DEF lo, le, res
<1>9. PICK lo2, le2 : /\ Shape(ns, Live', m_rootID', lo2, le2, OrphanOf(res))
                      /\ EndsOf(ns, Live', m_firstLeafID, m_lastLeafID', lo2, le2)
                      /\ StackOf(ns, Live', m_rootID', le2, path)
                      /\ ReturnOf(ns, Live', lo2, le2, path, res)
  BY <1>8
<1>10. LeafReturns("insertUp", ns, res)
  BY DEF res
<1>11. LoadInv(lo2, le2)'
  BY <1>1, <1>7, <1>9, <1>10, LeafDone
<1> QED
  BY <1>1, <1>6, <1>7, <1>11 DEF Preserved, Serves

\* a leaf that is the root is split, and gets a parent
LEMMA LeafSplitAtRootLoads ==
  ASSUME TypeOK, NEW low, NEW level, LoadInv(low, level), AtLeafToInsert, node = m_rootID,
         NEW fresh \in NodeIDs \ Live, NEW m, NEW ns,
         SplitsOff(m_nodes, ns, Live, m_rootID, low, level, node, fresh, m),
         StoredIn(ns, Live \cup {fresh}) = Stored \cup {key[1]},
         NEW r \in NodeIDs \ (Live \cup {fresh}),
         LeafReturns("insertUp", AddRootNode(ns, r, Split(node, fresh, m)), NoResult),
         m_lastLeafID' = IF m_lastLeafID = node THEN fresh ELSE m_lastLeafID,
         m_rootID' = r, Live' = (Live \cup {fresh}) \cup {r}
  PROVE  Preserved /\ Serves
<1> DEFINE ns2 == AddRootNode(ns, r, Split(m_rootID, fresh, m))
           lv == Live \cup {fresh}
<1>1. /\ pc = "insertDown" /\ node \in Live
      /\ WalkOf(m_nodes, Live, m_rootID, low, level, path, node, key[1])
  BY WalkEnds, WalkFacts
<1>2. /\ StackOf(m_nodes, Live, m_rootID, level, path)
      /\ \A x \in Live : level[x] \in Nat
  BY LoadFacts
<1>3. path = <<>>
  <2>1. level[node] + Len(path) = level[node] /\ path \in Seq(NodeIDs) /\ level[node] \in Nat
    BY <1>1, <1>2 DEF WalkOf, StackOf
  <2>2. Len(path) = 0
    BY <2>1
  <2> QED
    BY <2>1, <2>2
<1>4. LeafReturns("insertUp", ns2, NoResult) /\ lv = Live \cup {fresh}
      /\ ns2 = AddRootNode(ns, r, Split(m_rootID, fresh, m)) /\ r \in NodeIDs \ lv
      /\ Live' = lv \cup {r}
  OBVIOUS
<1> HIDE DEF ns2, lv
<1>5. m_nodes' = ns2 /\ pc' = "insertUp"
  BY <1>4 DEF LeafReturns
<1>6. /\ StoredIn(ns2, lv \cup {r}) = StoredIn(ns, lv)
      /\ SettledOn(ns2, lv \cup {r}, r, m_lastLeafID')
  <2>1. /\ m_lastLeafID = m_rootID => m_lastLeafID' = fresh
        /\ m_lastLeafID # m_rootID => m_lastLeafID' = m_lastLeafID
        /\ SplitsOff(m_nodes, ns, Live, m_rootID, low, level, m_rootID, fresh, m)
    OBVIOUS
  <2> QED
    BY <1>4, <2>1, SplitOfRootLeavesLoadInv
<1>7. Stored' = Stored \cup {key[1]}
  BY <1>4, <1>5, <1>6, StoredNext
<1>8. PICK lo2, le2 : /\ Shape(ns2, Live', r, lo2, le2, OrphanOf(NoResult))
                      /\ EndsOf(ns2, Live', m_firstLeafID, m_lastLeafID', lo2, le2)
                      /\ StackOf(ns2, Live', r, le2, <<>>)
                      /\ ReturnOf(ns2, Live', lo2, le2, <<>>, NoResult)
  BY <1>4, <1>6 DEF SettledOn
<1>9. LoadInv(lo2, le2)'
  <2>1. /\ Shape(ns2, Live', m_rootID', lo2, le2, OrphanOf(NoResult))
        /\ StackOf(ns2, Live', m_rootID', le2, path)
        /\ ReturnOf(ns2, Live', lo2, le2, path, NoResult)
    BY <1>3, <1>8
  <2> QED
    BY <1>1, <1>4, <1>7, <1>8, <2>1, LeafDone
<1> QED
  BY <1>1, <1>5, <1>7, <1>9 DEF Preserved, Serves

\* split_leaf_and_insert, at the root or not
LEMMA SplitLeafLoads ==
  ASSUME TypeOK, IDsConsistent(m_nodeIDAllocator),
         NEW low, NEW level, LoadInv(low, level), SplitLeafAndInsert
  PROVE  Preserved /\ Serves
<1> DEFINE fresh == FreshID
           ns1   == ConnectFresh(m_nodes, fresh, node)
           upper == Highest(ns1[node].page, TupleCount(ns1, node) \div 2)
           ns2   == Transfer(ns1, node, fresh, upper)
           side  == IF \E f \in FirstOf(upper) : key[1] < f.key THEN node ELSE fresh
           ns3   == AddTuple(ns2, side, NewTuple)
           k     == The(FirstOf(ns3[fresh].page)).key
           lastID == IF m_lastLeafID = node THEN fresh ELSE m_lastLeafID
<1>1. /\ AtLeafToInsert /\ ~HasLessThanMaxTuples(m_nodes, node)
      /\ fresh \in NodeIDs /\ (node = m_rootID => FreshRootID \in NodeIDs)
  BY DEF SplitLeafAndInsert
<1>2. FirstOf(ns3[fresh].page) # {} =>
        IF node = m_rootID
          THEN /\ LeafReturns("insertUp", AddRootNode(ns3, FreshRootID, Split(node, fresh, k)), NoResult)
               /\ m_rootID' = FreshRootID
               /\ m_nodeIDAllocator' = AfterAllocate(AfterAllocate(m_nodeIDAllocator))
               /\ m_lastLeafID' = lastID
          ELSE /\ LeafReturns("insertUp", ns3, Split(node, fresh, k))
               /\ m_nodeIDAllocator' = AfterAllocate(m_nodeIDAllocator)
               /\ m_lastLeafID' = lastID /\ UNCHANGED m_rootID
  BY DEF SplitLeafAndInsert
<1>3. /\ fresh \in NodeIDs \ Live
      /\ AfterAllocate(m_nodeIDAllocator).used = Live \cup {fresh}
      /\ FreshRootID \in NodeIDs => FreshRootID \in NodeIDs \ (Live \cup {fresh})
      /\ AfterAllocate(AfterAllocate(m_nodeIDAllocator)).used = (Live \cup {fresh}) \cup {FreshRootID}
  BY <1>1, SplitIDs
<1>4. \E m : LeafIsSplit(ns3, low, level, fresh, m)
  <2>1. /\ ns1 = ConnectFresh(m_nodes, fresh, node)
        /\ upper = Highest(ns1[node].page, TupleCount(ns1, node) \div 2)
        /\ ns2 = Transfer(ns1, node, fresh, upper)
        /\ side = IF \E f \in FirstOf(upper) : key[1] < f.key THEN node ELSE fresh
        /\ ns3 = AddTuple(ns2, side, NewTuple)
    OBVIOUS
  <2> HIDE DEF fresh, ns1, upper, ns2, side, ns3
  <2> QED
    BY <1>1, <1>3, <2>1, LeafSplits
<1> HIDE DEF fresh, ns1, upper, ns2, side, ns3
<1>5. PICK m : /\ FirstOf(ns3[fresh].page) = {LeafTuple(m)} /\ m \in Nat
               /\ SplitsOff(m_nodes, ns3, Live, m_rootID, low, level, node, fresh, m)
               /\ StoredIn(ns3, Live \cup {fresh}) = Stored \cup {key[1]}
  BY <1>4 DEF LeafIsSplit
<1>6. k = m
  <2>1. LeafTuple(m).key = m
    BY DEF LeafTuple
  <2> QED
    BY <1>5, <2>1, TheOne
<1> HIDE DEF k
<1>7. FirstOf(ns3[fresh].page) # {}
  BY <1>5
<1>8. CASE node = m_rootID
  <2>1. /\ LeafReturns("insertUp", AddRootNode(ns3, FreshRootID, Split(node, fresh, m)), NoResult)
        /\ m_rootID' = FreshRootID
        /\ m_nodeIDAllocator' = AfterAllocate(AfterAllocate(m_nodeIDAllocator))
        /\ m_lastLeafID' = lastID
    BY <1>2, <1>6, <1>7, <1>8
  <2>2. Live' = (Live \cup {fresh}) \cup {FreshRootID}
    BY <1>3, <2>1 DEF Live
  <2>3. FreshRootID \in NodeIDs \ (Live \cup {fresh})
    BY <1>1, <1>3, <1>8
  <2> QED
    BY <1>1, <1>3, <1>5, <1>8, <2>1, <2>2, <2>3, LeafSplitAtRootLoads
<1>9. CASE node # m_rootID
  <2>1. /\ LeafReturns("insertUp", ns3, Split(node, fresh, m))
        /\ m_nodeIDAllocator' = AfterAllocate(m_nodeIDAllocator)
        /\ m_lastLeafID' = lastID /\ m_rootID' = m_rootID
    BY <1>2, <1>6, <1>7, <1>9
  <2>2. Live' = Live \cup {fresh}
    BY <1>3, <2>1 DEF Live
  <2> QED
    BY <1>1, <1>3, <1>5, <1>9, <2>1, <2>2, LeafSplitAboveRootLoads
<1> QED
  BY <1>8, <1>9

-----------------------------------------------------------------------------
(***************************************************************************)
(* The steps of the way up.                                                *)
(***************************************************************************)
\* what a frame finds when the one below it returns
LEMMA FrameFacts ==
  ASSUME TypeOK, NEW low, NEW level, LoadInv(low, level), pc = "insertUp", path # <<>>
  PROVE  /\ Frame = Top(path) /\ Frame \in Live /\ Frame \in NodeIDs
         /\ StackOf(m_nodes, Live, m_rootID, level, Rest(path))
         /\ (Frame = m_rootID <=> Rest(path) = <<>>)
         /\ (Frame # m_rootID => m_nodes[Frame].parentID = Top(Rest(path)))
         /\ AreAbove(level, Rest(path), Frame)
<1>1. Frame = Top(path)
  BY DEF Frame, Top
<1>2. /\ m_rootID \in Live /\ StackOf(m_nodes, Live, m_rootID, level, path) /\ Live \subseteq NodeIDs
      /\ \A x \in Live : level[x] \in Nat
      /\ Shape(m_nodes, Live, m_rootID, low, level, OrphanOf(result))
  BY LoadFacts
<1>3. /\ Top(path) \in Live
      /\ StackOf(m_nodes, Live, m_rootID, level, Rest(path))
      /\ (Top(path) = m_rootID <=> Rest(path) = <<>>)
      /\ (Top(path) # m_rootID => m_nodes[Top(path)].parentID = Top(Rest(path)))
      /\ AreAbove(level, Rest(path), Top(path))
  BY <1>2, StackTop
<1> QED
  BY <1>1, <1>2, <1>3

\* and when it reports a split
LEMMA SplitFacts ==
  ASSUME TypeOK, NEW low, NEW level, LoadInv(low, level), ReturningToBranch("insertUp", "split"),
         NEW o, o = result.right
  PROVE  /\ Awaits(m_nodes, Live, low, level, Frame, o)
         /\ Shape(m_nodes, Live, m_rootID, low, level, o)
         /\ SplitTuple = BranchTuple(low[o], o)
         /\ HasChildren(m_nodes, Frame) /\ level[Frame] > 0 /\ Frame # o /\ OrphanOf(result) = o
         /\ Frame \in Live /\ pc = "insertUp" /\ path # <<>>
<1>1. pc = "insertUp" /\ path # <<>> /\ result.kind = "split"
  BY DEF ReturningToBranch
<1>2. /\ ReturnOf(m_nodes, Live, low, level, path, result)
      /\ Shape(m_nodes, Live, m_rootID, low, level, OrphanOf(result))
      /\ \A x \in Live : level[x] \in Nat
  BY LoadFacts
<1>3. Frame = Top(path) /\ Frame \in Live
  BY <1>1, FrameFacts
<1>4. /\ Awaits(m_nodes, Live, low, level, Frame, o) /\ result.splitter = low[o] /\ OrphanOf(result) = o
  BY <1>1, <1>2, <1>3 DEF ReturnOf, OrphanOf
<1>5. SplitTuple = BranchTuple(low[o], o)
  BY <1>4 DEF SplitTuple
<1>6. level[Frame] > 0 /\ Frame # o
  BY <1>2, <1>3, <1>4 DEF Awaits
<1>7. HasChildren(m_nodes, Frame)
  BY <1>2, <1>3, <1>6, LeavesAreAtTheBottom
<1> QED
  BY <1>1, <1>2, <1>3, <1>4, <1>5, <1>6, <1>7

\* a frame returns and reports nothing
LEMMA BranchHandled ==
  ASSUME TypeOK, NEW low, NEW level, LoadInv(low, level), pc = "insertUp", path # <<>>,
         NEW ns, BranchReturns(ns, NoResult), SameRootAndIDs,
         Shape(ns, Live, m_rootID, low, level, NoNode),
         SameLinks(m_nodes, ns), StoredIn(ns, Live) = StoredIn(m_nodes, Live)
  PROVE  Preserved /\ Quiet
<1>1. /\ Live' = Live /\ m_rootID' = m_rootID /\ m_nodes' = ns /\ pc' = pc /\ key' = key
  BY DEF SameRootAndIDs, BranchReturns, Live
<1>2. Stored' = Stored /\ Pending' = Pending
  BY <1>1, StoredNow, StoredNext DEF Pending
<1>3. /\ EndsOf(m_nodes, Live, m_firstLeafID, m_lastLeafID, low, level)
      /\ StackOf(m_nodes, Live, m_rootID, level, Rest(path)) /\ m_rootID \in Live /\ Live \subseteq NodeIDs
      /\ OrphanOf(NoResult) = NoNode
  BY LoadFacts, FrameFacts
<1>4. EndsOf(ns, Live, m_firstLeafID, m_lastLeafID, low, level)
  BY <1>3 DEF EndsOf, SameLinks
<1>5. StackOf(ns, Live, m_rootID, level, Rest(path))
  <2>1. \A i \in 1..Len(Rest(path)) : ns[Rest(path)[i]].parentID = m_nodes[Rest(path)[i]].parentID
    BY <1>3 DEF StackOf, SameLinks
  <2> QED
    BY <1>3, <2>1, StackKept
<1>6. ReturnOf(ns, Live, low, level, Rest(path), NoResult)
  BY DEF ReturnOf, NoResult
<1>7. LoadInv(low, level)'
  BY <1>1, <1>2, <1>3, <1>4, <1>5, <1>6, BranchDone
<1> QED
  BY <1>2, <1>7 DEF Preserved, Quiet

\* a frame that is told of nothing has nothing to do
LEMMA ReturnsWithoutSplitLoads ==
  ASSUME TypeOK, NEW low, NEW level, LoadInv(low, level), InsertReturnsWithoutSplit
  PROVE  Preserved /\ Quiet
<1>1. /\ pc = "insertUp" /\ path # <<>> /\ result.kind = "none"
      /\ BranchReturns(m_nodes, NoResult) /\ SameRootAndIDs
  BY DEF InsertReturnsWithoutSplit, ReturningToBranch
<1>2. Shape(m_nodes, Live, m_rootID, low, level, NoNode)
  <2>1. OrphanOf(result) = NoNode
    BY <1>1 DEF OrphanOf
  <2> QED
    BY <2>1, LoadFacts
<1>3. SameLinks(m_nodes, m_nodes)
  BY DEF SameLinks
<1> QED
  BY <1>1, <1>2, <1>3, BranchHandled

\* a branch with room takes the index entry in
LEMMA IndexEntryLoads ==
  ASSUME TypeOK, NEW low, NEW level, LoadInv(low, level), InsertIndexEntry
  PROVE  Preserved /\ Quiet
<1> DEFINE ns == AddTuple(m_nodes, Frame, SplitTuple)
           o == result.right
<1>1. /\ ReturningToBranch("insertUp", "split") /\ HasLessThanMaxTuples(m_nodes, Frame)
      /\ BranchReturns(ns, NoResult) /\ SameRootAndIDs
  BY DEF InsertIndexEntry
<1>2. /\ Awaits(m_nodes, Live, low, level, Frame, o)
      /\ Shape(m_nodes, Live, m_rootID, low, level, o)
      /\ SplitTuple = BranchTuple(low[o], o)
      /\ HasChildren(m_nodes, Frame)
      /\ Frame \in Live /\ pc = "insertUp" /\ path # <<>>
      /\ Live \subseteq NodeIDs /\ m_nodes \in Table
  BY <1>1, SplitFacts, LoadFacts
<1>3. ns = AddTuple(m_nodes, Frame, BranchTuple(low[o], o))
  BY <1>2
<1> HIDE DEF ns, o
<1>4. Shape(ns, Live, m_rootID, low, level, NoNode)
  <2>1. /\ o \in Live /\ Frame = m_nodes[o].parentID /\ level[Frame] = level[o] + 1 /\ low[Frame] < low[o]
        /\ InRangeOf(Live, low, level, Frame, low[o])
    BY <1>2 DEF Awaits
  <2> QED
    BY <1>1, <1>2, <1>3, <2>1, AdoptedOrphan
<1>5. PageChanges(m_nodes, ns, Frame, m_nodes[Frame].page \cup {BranchTuple(low[o], o)})
  <2>1. BranchTuple(low[o], o) \in Entry /\ Frame \in NodeIDs
    BY <1>2, OrphansEntry DEF IndexesChild
  <2> QED
    BY <1>2, <1>3, <2>1, AddTupleFields
<1>6. StoredIn(ns, Live) = StoredIn(m_nodes, Live)
  BY <1>2, <1>5, StoredInBranch
<1>7. SameLinks(m_nodes, ns)
  BY <1>5 DEF PageChanges
<1> QED
  BY <1>1, <1>2, <1>4, <1>6, <1>7, BranchHandled

\* a split of a branch leaves the leaves alone
LEMMA StoredAfterBranchSplit ==
  ASSUME NEW ns, NEW live, live \subseteq NodeIDs, NEW x \in live, HasChildren(ns, x),
         NEW fresh \in NodeIDs \ live, NEW c, c # NoNode, NEW X, NEW F, NEW ns3,
         BranchLinks(ns, ns3, x, fresh, c, X, F)
  PROVE  StoredIn(ns3, live \cup {fresh}) = StoredIn(ns, live)
<1>1. /\ HasChildren(ns3, fresh)
      /\ \A y \in live : /\ HasChildren(ns3, y) = HasChildren(ns, y)
                         /\ y # x => ns3[y].page = ns[y].page
  BY DEF BranchLinks, HasChildren
<1>2. LeafEntriesOf(ns3, live \cup {fresh}) = LeafEntriesOf(ns, live)
  <2>1. {i \in live \cup {fresh} : ~HasChildren(ns3, i)} = {i \in live : ~HasChildren(ns, i)}
    BY <1>1
  <2> QED
    BY <1>1, <2>1 DEF LeafEntriesOf
<1> QED
  BY <1>2 DEF StoredIn

\* the branch that was told of a split has been split itself
BranchIsSplit(upper, ns2, ns3, low, level, x, fresh, m) ==
  /\ FirstOf(upper) # {}
  /\ Children(ns2, fresh) \subseteq Live
  /\ SplitsOff(m_nodes, ns3, Live, m_rootID, low, level, x, fresh, m)
  /\ StoredIn(ns3, Live \cup {fresh}) = Stored

\* what split_branch_and_insert does, before the root is dealt with
LEMMA BranchSplits ==
  ASSUME TypeOK, NEW low, NEW level, LoadInv(low, level), ReturningToBranch("insertUp", "split"),
         ~HasLessThanMaxTuples(m_nodes, Frame),
         NEW fresh \in NodeIDs \ Live,
         NEW all, all = m_nodes[Frame].page \cup {SplitTuple},
         NEW lower, lower = Lowest(all, Cardinality(all) \div 2),
         NEW median, median = The(FirstOf(all \ lower)),
         NEW ns1, ns1 = ConnectFresh(m_nodes, fresh, Frame),
         NEW ns2, ns2 = BranchTable(ns1, Frame, fresh, lower, (all \ lower) \ {median}, median.child),
         NEW ns3, ns3 = UpdateParentPointers(ns2, fresh, fresh)
  PROVE  BranchIsSplit(all \ lower, ns2, ns3, low, level, Frame, fresh, median.key)
<1> DEFINE o == result.right
           x == Frame
           F == (all \ lower) \ {median}
           m == median.key
           c == median.child
<1>1. /\ Awaits(m_nodes, Live, low, level, x, o)
      /\ Shape(m_nodes, Live, m_rootID, low, level, o)
      /\ SplitTuple = BranchTuple(low[o], o)
      /\ HasChildren(m_nodes, x) /\ x \in Live /\ x \in NodeIDs /\ x # fresh
      /\ Live \subseteq NodeIDs /\ m_nodes \in Table
  BY SplitFacts, LoadFacts
<1> HIDE DEF o, x, F, m, c
<1>2. \E m2, c2 : /\ FirstOf(all \ lower) = {BranchTuple(m2, c2)}
                  /\ BranchParts(m_nodes, Live, low, level, x, o, m2, c2, lower,
                                 (all \ lower) \ {BranchTuple(m2, c2)})
  <2>1. all = m_nodes[x].page \cup {BranchTuple(low[o], o)} /\ ~HasLessThanMaxTuples(m_nodes, x)
    BY <1>1 DEF x
  <2> QED
    BY <1>1, <2>1, PartsOfBranch
<1>3. PICK m2, c2 : /\ FirstOf(all \ lower) = {BranchTuple(m2, c2)}
                    /\ BranchParts(m_nodes, Live, low, level, x, o, m2, c2, lower,
                                   (all \ lower) \ {BranchTuple(m2, c2)})
  BY <1>2
<1>4. median = BranchTuple(m2, c2)
  BY <1>3, TheOne
<1>5. m = m2 /\ c = c2
  <2>1. BranchTuple(m2, c2).key = m2 /\ BranchTuple(m2, c2).child = c2
    BY DEF BranchTuple
  <2> QED
    BY <1>4, <2>1 DEF m, c
<1>6. BranchParts(m_nodes, Live, low, level, x, o, m, c, lower, F)
  BY <1>3, <1>4, <1>5 DEF F
<1>7. /\ lower \in SUBSET Entry /\ F \in SUBSET Entry /\ c \in NodeIDs /\ c # NoNode
  <2>1. \A e \in lower \cup F \cup {BranchTuple(m, c)} : IndexesChild(Live, low, level, x, e)
    BY <1>6 DEF BranchParts
  <2>2. \A e \in lower \cup F : e \in Entry
    BY <2>1 DEF IndexesChild
  <2>3. IndexesChild(Live, low, level, x, BranchTuple(m, c)) /\ BranchTuple(m, c).child = c
    BY <2>1 DEF BranchTuple
  <2>4. c \in NodeIDs /\ c # NoNode
    BY <2>3 DEF IndexesChild
  <2> QED
    BY <2>2, <2>4
<1>8. m_nodes[x].siblingRightID # x /\ m_nodes[x].siblingRightID # fresh
  BY <1>1, RightSiblingIsAnother
<1>9. BranchPages(m_nodes, ns2, x, fresh, c, lower, F)
  <2>1. ns2 = BranchTable(ConnectFresh(m_nodes, fresh, x), x, fresh, lower, F, c)
    BY DEF x, F, c
  <2>2. BranchPages(m_nodes, BranchTable(ConnectFresh(m_nodes, fresh, x), x, fresh, lower, F, c),
                    x, fresh, c, lower, F)
    BY <1>1, <1>7, <1>8, SplitBranchPages
  <2> QED
    BY <2>1, <2>2
<1>10. /\ Children(ns2, fresh) = ChildrenIn(c, F)
       /\ BranchLinks(m_nodes, ns3, x, fresh, c, lower, F)
  <2>1. x \in NodeIDs /\ fresh \in NodeIDs /\ x # fresh
    BY <1>1
  <2> QED
    BY <1>9, <2>1, SplitBranchLinks
<1>11. /\ ChildrenIn(c, F) \subseteq Live
       /\ SplitsOff(m_nodes, ns3, Live, m_rootID, low, level, x, fresh, m)
  <2>1. /\ Shape(m_nodes, Live, m_rootID, low, level, o)
        /\ Awaits(m_nodes, Live, low, level, x, o)
        /\ BranchLinks(m_nodes, ns3, x, fresh, c, lower, F)
    BY <1>1, <1>10
  <2> QED
    BY <1>6, <2>1, SplitBranch
<1>12. StoredIn(ns3, Live \cup {fresh}) = Stored
  <2>1. StoredIn(ns3, Live \cup {fresh}) = StoredIn(m_nodes, Live)
    <3>1. /\ Live \subseteq NodeIDs /\ x \in Live /\ HasChildren(m_nodes, x) /\ c # NoNode
          /\ BranchLinks(m_nodes, ns3, x, fresh, c, lower, F)
      BY <1>1, <1>7, <1>10
    <3> QED
      BY <3>1, StoredAfterBranchSplit
  <2> QED
    BY <2>1, StoredNow
<1> QED
  BY <1>3, <1>10, <1>11, <1>12 DEF BranchIsSplit, x, m

\* a branch that is not the root is split, and the frame above is told
LEMMA BranchSplitAboveRootLoads ==
  ASSUME TypeOK, NEW low, NEW level, LoadInv(low, level), ReturningToBranch("insertUp", "split"),
         NEW x, x = Frame, x # m_rootID,
         NEW fresh \in NodeIDs \ Live, NEW m, NEW ns,
         SplitsOff(m_nodes, ns, Live, m_rootID, low, level, x, fresh, m),
         StoredIn(ns, Live \cup {fresh}) = Stored,
         BranchReturns(ns, Split(x, fresh, m)),
         m_rootID' = m_rootID, Live' = Live \cup {fresh}
  PROVE  Preserved /\ Quiet
<1> DEFINE lo == LowAfter(low, fresh, m)
           le == LevelAfter(level, fresh, x)
           res == Split(x, fresh, m)
           stk == Rest(path)
           o == result.right
<1>1. /\ pc = "insertUp" /\ path # <<>> /\ x \in Live /\ x # o /\ OrphanOf(result) = o /\ level[x] > 0
  BY SplitFacts
<1>2. /\ StackOf(m_nodes, Live, m_rootID, level, stk) /\ stk # <<>>
      /\ m_nodes[x].parentID = Top(stk) /\ AreAbove(level, stk, x)
  BY <1>1, FrameFacts
<1>3. m_lastLeafID # x
  BY <1>1, LoadFacts DEF EndsOf
<1>4. m_nodes' = ns /\ pc' = pc /\ key' = key /\ m_lastLeafID' = m_lastLeafID
  BY DEF BranchReturns
<1>5. Stored' = Stored /\ Pending' = Pending
  BY <1>4, StoredNext DEF Pending
<1>6. /\ Shape(ns, Live', m_rootID, lo, le, OrphanOf(res))
      /\ EndsOf(ns, Live', m_firstLeafID, m_lastLeafID, lo, le)
      /\ StackOf(ns, Live', m_rootID, le, stk)
      /\ ReturnOf(ns, Live', lo, le, stk, res)
  <2> HIDE DEF lo, le, stk, o
  <2>1. /\ x # OrphanOf(result) /\ m_lastLeafID = IF m_lastLeafID = x THEN fresh ELSE m_lastLeafID
    BY <1>1, <1>3
  <2> QED
    BY <1>1, <1>2, <2>1, SplitLeavesLoadInv DEF lo, le
<1> HIDE DEF lo, le, res, stk
<1>7. PICK lo2, le2 : /\ Shape(ns, Live', m_rootID', lo2, le2, OrphanOf(res))
                      /\ EndsOf(ns, Live', m_firstLeafID, m_lastLeafID, lo2, le2)
                      /\ StackOf(ns, Live', m_rootID', le2, Rest(path))
                      /\ ReturnOf(ns, Live', lo2, le2, Rest(path), res)
  BY <1>6 DEF stk
<1>8. BranchReturns(ns, res)
  BY DEF res
<1>9. LoadInv(lo2, le2)'
  BY <1>1, <1>5, <1>7, <1>8, BranchDone
<1> QED
  BY <1>5, <1>9 DEF Preserved, Quiet

\* a branch that is the root is split, and gets a parent
LEMMA BranchSplitAtRootLoads ==
  ASSUME TypeOK, NEW low, NEW level, LoadInv(low, level), ReturningToBranch("insertUp", "split"),
         Frame = m_rootID,
         NEW fresh \in NodeIDs \ Live, NEW m, NEW ns,
         SplitsOff(m_nodes, ns, Live, m_rootID, low, level, m_rootID, fresh, m),
         StoredIn(ns, Live \cup {fresh}) = Stored,
         NEW r \in NodeIDs \ (Live \cup {fresh}),
         BranchReturns(AddRootNode(ns, r, Split(m_rootID, fresh, m)), NoResult),
         m_rootID' = r, Live' = (Live \cup {fresh}) \cup {r}
  PROVE  Preserved /\ Quiet
<1> DEFINE ns2 == AddRootNode(ns, r, Split(m_rootID, fresh, m))
           lv == Live \cup {fresh}
<1>1. pc = "insertUp" /\ path # <<>> /\ m_rootID \in Live /\ level[m_rootID] > 0
  BY SplitFacts
<1>2. Rest(path) = <<>>
  BY <1>1, FrameFacts
<1>3. m_lastLeafID # m_rootID
  BY <1>1, LoadFacts DEF EndsOf
<1>4. BranchReturns(ns2, NoResult) /\ lv = Live \cup {fresh}
      /\ ns2 = AddRootNode(ns, r, Split(m_rootID, fresh, m)) /\ r \in NodeIDs \ lv
      /\ Live' = lv \cup {r}
  OBVIOUS
<1> HIDE DEF ns2, lv
<1>5. m_nodes' = ns2 /\ pc' = pc /\ key' = key
  BY <1>4 DEF BranchReturns
<1>6. /\ StoredIn(ns2, lv \cup {r}) = StoredIn(ns, lv)
      /\ SettledOn(ns2, lv \cup {r}, r, m_lastLeafID)
  BY <1>3, <1>4, SplitOfRootLeavesLoadInv
<1>7. Stored' = Stored /\ Pending' = Pending
  BY <1>4, <1>5, <1>6, StoredNext DEF Pending
<1>8. PICK lo2, le2 : /\ Shape(ns2, Live', m_rootID', lo2, le2, OrphanOf(NoResult))
                      /\ EndsOf(ns2, Live', m_firstLeafID, m_lastLeafID, lo2, le2)
                      /\ StackOf(ns2, Live', m_rootID', le2, Rest(path))
                      /\ ReturnOf(ns2, Live', lo2, le2, Rest(path), NoResult)
  BY <1>2, <1>4, <1>6 DEF SettledOn
<1>9. LoadInv(lo2, le2)'
  BY <1>1, <1>4, <1>7, <1>8, BranchDone
<1> QED
  BY <1>7, <1>9 DEF Preserved, Quiet

\* split_branch_and_insert, at the root or not
LEMMA SplitBranchLoads ==
  ASSUME TypeOK, IDsConsistent(m_nodeIDAllocator),
         NEW low, NEW level, LoadInv(low, level), SplitBranchAndInsert
  PROVE  Preserved /\ Quiet
<1> DEFINE fresh  == FreshID
           all    == m_nodes[Frame].page \cup {SplitTuple}
           lower  == Lowest(all, Cardinality(all) \div 2)
           median == The(FirstOf(all \ lower))
           ns1    == ConnectFresh(m_nodes, fresh, Frame)
           ns2    == BranchTable(ns1, Frame, fresh, lower, (all \ lower) \ {median}, median.child)
           ns3    == UpdateParentPointers(ns2, fresh, fresh)
           split  == Split(Frame, fresh, median.key)
<1>1. /\ ReturningToBranch("insertUp", "split") /\ ~HasLessThanMaxTuples(m_nodes, Frame)
      /\ fresh \in NodeIDs /\ (Frame = m_rootID => FreshRootID \in NodeIDs)
  BY DEF SplitBranchAndInsert
<1>2. FirstOf(all \ lower) # {} /\ Children(ns2, fresh) \subseteq Live =>
        IF Frame = m_rootID
          THEN /\ BranchReturns(AddRootNode(ns3, FreshRootID, split), NoResult)
               /\ m_rootID' = FreshRootID
               /\ m_nodeIDAllocator' = AfterAllocate(AfterAllocate(m_nodeIDAllocator))
          ELSE /\ BranchReturns(ns3, split)
               /\ m_nodeIDAllocator' = AfterAllocate(m_nodeIDAllocator)
               /\ UNCHANGED m_rootID
  BY DEF SplitBranchAndInsert, BranchTable
<1>3. /\ fresh \in NodeIDs \ Live
      /\ AfterAllocate(m_nodeIDAllocator).used = Live \cup {fresh}
      /\ FreshRootID \in NodeIDs => FreshRootID \in NodeIDs \ (Live \cup {fresh})
      /\ AfterAllocate(AfterAllocate(m_nodeIDAllocator)).used = (Live \cup {fresh}) \cup {FreshRootID}
  BY <1>1, SplitIDs
<1>4. BranchIsSplit(all \ lower, ns2, ns3, low, level, Frame, fresh, median.key)
  <2>1. /\ all = m_nodes[Frame].page \cup {SplitTuple} /\ lower = Lowest(all, Cardinality(all) \div 2)
        /\ median = The(FirstOf(all \ lower)) /\ ns1 = ConnectFresh(m_nodes, fresh, Frame)
        /\ ns2 = BranchTable(ns1, Frame, fresh, lower, (all \ lower) \ {median}, median.child)
        /\ ns3 = UpdateParentPointers(ns2, fresh, fresh)
    OBVIOUS
  <2>2. /\ ReturningToBranch("insertUp", "split") /\ ~HasLessThanMaxTuples(m_nodes, Frame)
        /\ fresh \in NodeIDs \ Live
    BY <1>1, <1>3
  <2> HIDE DEF fresh, all, lower, median, ns1, ns2, ns3
  <2> QED
    BY <2>1, <2>2, BranchSplits
<1> DEFINE m == median.key
<1>5. split = Split(Frame, fresh, m)
  OBVIOUS
<1>6. BranchIsSplit(all \ lower, ns2, ns3, low, level, Frame, fresh, m)
  BY <1>4
<1> HIDE DEF fresh, all, lower, median, ns1, ns2, ns3, split, m
<1>7. /\ FirstOf(all \ lower) # {} /\ Children(ns2, fresh) \subseteq Live
      /\ SplitsOff(m_nodes, ns3, Live, m_rootID, low, level, Frame, fresh, m)
      /\ StoredIn(ns3, Live \cup {fresh}) = Stored
  BY <1>6 DEF BranchIsSplit
<1>8. CASE Frame = m_rootID
  <2>1. /\ BranchReturns(AddRootNode(ns3, FreshRootID, Split(m_rootID, fresh, m)), NoResult)
        /\ m_rootID' = FreshRootID
        /\ m_nodeIDAllocator' = AfterAllocate(AfterAllocate(m_nodeIDAllocator))
    BY <1>2, <1>5, <1>7, <1>8
  <2>2. Live' = (Live \cup {fresh}) \cup {FreshRootID}
    BY <1>3, <2>1 DEF Live
  <2>3. FreshRootID \in NodeIDs \ (Live \cup {fresh})
    BY <1>1, <1>3, <1>8
  <2>4. SplitsOff(m_nodes, ns3, Live, m_rootID, low, level, m_rootID, fresh, m)
    BY <1>7, <1>8
  <2> QED
    BY <1>1, <1>3, <1>7, <1>8, <2>1, <2>2, <2>3, <2>4, BranchSplitAtRootLoads
<1>9. CASE Frame # m_rootID
  <2>1. /\ BranchReturns(ns3, Split(Frame, fresh, m))
        /\ m_nodeIDAllocator' = AfterAllocate(m_nodeIDAllocator) /\ m_rootID' = m_rootID
    BY <1>2, <1>5, <1>7, <1>9
  <2>2. Live' = Live \cup {fresh}
    BY <1>3, <2>1 DEF Live
  <2> QED
    BY <1>1, <1>3, <1>7, <1>9, <2>1, <2>2, BranchSplitAboveRootLoads
<1> QED
  BY <1>8, <1>9

-----------------------------------------------------------------------------
(***************************************************************************)
(* Counting modulo the width of the counter.                               *)
(***************************************************************************)
\* n divided by M, with its remainder
Divided(n, M, q, r) == q \in Nat /\ r \in 0..(M - 1) /\ n = q * M + r

\* the quotient and the remainder there are
LEMMA Remainder ==
  ASSUME NEW n \in Nat, NEW M \in Nat \ {0}
  PROVE  Divided(n, M, n \div M, n % M)
  BY DEF Divided

\* numbers with different quotients differ
LEMMA SmallerQuotient ==
  ASSUME NEW M \in Nat \ {0}, NEW p \in Nat, NEW q \in Nat, p < q,
         NEW r \in 0..(M - 1), NEW s \in 0..(M - 1)
  PROVE  p * M + r # q * M + s
<1> DEFINE d == q - (p + 1)
<1>1. d \in Nat /\ q = p + 1 + d
  OBVIOUS
<1> HIDE DEF d
<1>2. q * M = p * M + M + d * M
  BY <1>1
<1>3. d * M \in Nat /\ p * M \in Nat
  BY <1>1
<1> DEFINE a == d * M
           b == p * M
           c == q * M
<1>4. a \in Nat /\ b \in Nat /\ c = b + M + a
  BY <1>2, <1>3
<1> HIDE DEF a, b, c
<1>5. b + r # c + s
  BY <1>4
<1> QED
  BY <1>5 DEF b, c

\* so that there is one remainder
LEMMA RemainderIsUnique ==
  ASSUME NEW M \in Nat \ {0}, NEW p \in Nat, NEW q \in Nat,
         NEW r \in 0..(M - 1), NEW s \in 0..(M - 1), p * M + r = q * M + s
  PROVE  r = s
<1>1. ~(p < q) /\ ~(q < p)
  BY SmallerQuotient
<1>2. p = q
  BY <1>1
<1> DEFINE b == p * M
<1>3. b \in Nat /\ b + r = b + s
  BY <1>2
<1> HIDE DEF b
<1> QED
  BY <1>3

\* counting modulo M
LEMMA CountingOn ==
  ASSUME NEW n \in Nat, NEW M \in Nat \ {0}
  PROVE  ((n % M) + 1) % M = (n + 1) % M
<1> DEFINE q == n \div M
           r == n % M
           p == (r + 1) \div M
           s == (r + 1) % M
           u == (n + 1) \div M
           v == (n + 1) % M
<1>a. Divided(n, M, q, r) /\ r \in Nat
  <2>1. Divided(n, M, q, r)
    BY Remainder
  <2> HIDE DEF q, r
  <2>2. r \in Nat
    BY <2>1 DEF Divided
  <2> QED
    BY <2>1, <2>2
<1>b. Divided(n + 1, M, u, v)
  <2>1. n + 1 \in Nat
    OBVIOUS
  <2> QED
    BY <2>1, Remainder
<1> HIDE DEF q, r, u, v
<1>c. Divided(r + 1, M, p, s)
  <2>1. r + 1 \in Nat
    BY <1>a
  <2> QED
    BY <2>1, Remainder
<1> HIDE DEF p, s
<1>1. q \in Nat /\ r \in Nat /\ n = q * M + r
  BY <1>a DEF Divided
<1>2. p \in Nat /\ s \in 0..(M - 1) /\ r + 1 = p * M + s
  BY <1>c DEF Divided
<1>3. u \in Nat /\ v \in 0..(M - 1) /\ n + 1 = u * M + v
  BY <1>b DEF Divided
<1>4. (q + p) * M + s = u * M + v /\ q + p \in Nat
  <2>1. (q + p) * M = q * M + p * M
    BY <1>1, <1>2
  <2>2. q * M \in Nat /\ p * M \in Nat
    BY <1>1, <1>2
  <2> DEFINE a == q * M
             b == p * M
             c == u * M
             d == (q + p) * M
  <2>3. a \in Nat /\ b \in Nat /\ d = a + b /\ n = a + r /\ r + 1 = b + s /\ n + 1 = c + v
    BY <1>1, <1>2, <1>3, <2>1, <2>2
  <2> HIDE DEF a, b, c, d
  <2>4. d + s = c + v
    BY <1>1, <1>2, <1>3, <2>3
  <2> QED
    BY <1>1, <1>2, <2>4 DEF c, d
<1>5. s = v
  BY <1>2, <1>3, <1>4, RemainderIsUnique
<1> QED
  BY <1>5 DEF s, r, v

\* insert_tuple returns to its caller and counts the tuple
LEMMA InsertReturnsLoads ==
  ASSUME TypeOK, NEW low, NEW level, LoadInv(low, level), InsertReturns
  PROVE  Preserved /\ Quiet
<1>1. /\ pc = "insertUp" /\ path = <<>>
      /\ IF result.kind = "none" THEN Idle((m_tupleCount + 1) % CountModulus) ELSE Abort
  BY DEF InsertReturns
<1>2. result.kind = "none"
  <2>1. ReturnOf(m_nodes, Live, low, level, path, result)
    BY LoadFacts
  <2> QED
    BY <1>1, <2>1 DEF ReturnOf
<1>3. /\ pc' = "idle" /\ m_tupleCount' = (m_tupleCount + 1) % CountModulus
      /\ path' = <<>> /\ result' = NoResult
      /\ m_nodes' = m_nodes /\ m_rootID' = m_rootID /\ m_firstLeafID' = m_firstLeafID
      /\ m_lastLeafID' = m_lastLeafID /\ m_nodeIDAllocator' = m_nodeIDAllocator
  BY <1>1, <1>2 DEF Idle, tree
<1>4. Live' = Live /\ Stored' = Stored
  BY <1>3 DEF Live, Stored
<1>5. Pending' = Pending
  BY <1>1, <1>3 DEF Pending
<1>6. /\ IsFiniteSet(Stored) /\ key[1] \in Stored
      /\ m_tupleCount = Cardinality(Stored \ {key[1]}) % CountModulus
  BY <1>1 DEF LoadInv, Counted
<1>7. m_tupleCount' = Cardinality(Stored) % CountModulus
  <2>1. Cardinality(Stored) \in Nat /\ Cardinality(Stored \ {key[1]}) = Cardinality(Stored) - 1
    BY <1>6, FS_RemoveElement, FS_CardinalityType
  <2>2. IsFiniteSet(Stored \ {key[1]}) /\ Cardinality(Stored \ {key[1]}) \in Nat
    BY <1>6, FS_RemoveElement, FS_CardinalityType
  <2> DEFINE n == Cardinality(Stored \ {key[1]})
  <2>3. n \in Nat /\ Cardinality(Stored) = n + 1 /\ CountModulus \in Nat \ {0}
    BY <2>1, <2>2, BoundsAssumption
  <2> HIDE DEF n
  <2>4. ((n % CountModulus) + 1) % CountModulus = (n + 1) % CountModulus
    BY <2>3, CountingOn
  <2> QED
    BY <1>3, <1>6, <2>3, <2>4 DEF n
<1>8. Counted' = Stored'
  BY <1>3 DEF Counted
<1>9. /\ Shape(m_nodes, Live, m_rootID, low, level, NoNode)
      /\ EndsOf(m_nodes, Live, m_firstLeafID, m_lastLeafID, low, level)
      /\ StackOf(m_nodes, Live, m_rootID, level, path)
      /\ OrphanOf(NoResult) = NoNode
  <2>1. OrphanOf(result) = NoNode
    BY <1>2 DEF OrphanOf
  <2> QED
    BY <2>1, LoadFacts
<1>10. ReturnOf(m_nodes, Live, low, level, <<>>, NoResult)
  BY DEF ReturnOf, NoResult
<1>11. LoadInv(low, level)'
  BY <1>1, <1>3, <1>4, <1>6, <1>7, <1>8, <1>9, <1>10 DEF LoadInv
<1> QED
  BY <1>4, <1>5, <1>11 DEF Preserved, Quiet

-----------------------------------------------------------------------------
(***************************************************************************)
(* The invariant holds of a new tree and every step keeps it.              *)
(***************************************************************************)
\* every step keeps the invariant, and serves the call, makes one, or does neither
LEMMA LoadingStepPreserves ==
  ASSUME TypeOK, IDsConsistent(m_nodeIDAllocator),
         NEW low, NEW level, LoadInv(low, level), [LoadingNext]_vars
  PROVE  /\ Preserved
         /\ \/ Quiet
            \/ Serves
            \/ \E t \in Tuples : /\ t \notin Stored /\ Stored' = Stored
                                 /\ pc = "idle" /\ pc' = "insertDown" /\ key' = <<t, t>>
<1>1. CASE UNCHANGED vars
  <2>1. /\ m_nodes' = m_nodes /\ m_rootID' = m_rootID /\ m_firstLeafID' = m_firstLeafID
        /\ m_lastLeafID' = m_lastLeafID /\ m_nodeIDAllocator' = m_nodeIDAllocator
        /\ m_tupleCount' = m_tupleCount /\ pc' = pc /\ key' = key /\ node' = node
        /\ path' = path /\ result' = result
    BY <1>1 DEF vars, tree, call
  <2>2. Live' = Live /\ Stored' = Stored
    BY <2>1 DEF Live, Stored
  <2>3. Counted' = Counted /\ Pending' = Pending
    BY <2>1, <2>2 DEF Counted, Pending
  <2>4. LoadInv(low, level)'
    BY <2>1, <2>2, <2>3 DEF LoadInv
  <2> QED
    BY <2>2, <2>3, <2>4 DEF Preserved, Quiet
<1>2. ASSUME NEW t \in Tuples, InsertCall(t)
      PROVE  /\ Preserved /\ t \notin Stored /\ Stored' = Stored
             /\ pc = "idle" /\ pc' = "insertDown" /\ key' = <<t, t>>
  <2>1. t \notin Stored
    BY <1>2 DEF InsertCall
  <2> QED
    BY <1>2, <2>1, CallLoads
<1>3. CASE InsertDescend
  BY <1>3, DescendLoads
<1>4. CASE InsertIntoLeaf
  BY <1>4, IntoLeafLoads
<1>5. CASE RedistributeLeafLeftAndInsert
  BY <1>5, LeftLoads
<1>6. CASE RedistributeLeafRightAndInsert
  BY <1>6, RightLoads
<1>7. CASE SplitLeafAndInsert
  BY <1>7, SplitLeafLoads
<1>8. CASE InsertReturnsWithoutSplit
  BY <1>8, ReturnsWithoutSplitLoads
<1>9. CASE InsertIndexEntry
  BY <1>9, IndexEntryLoads
<1>10. CASE SplitBranchAndInsert
  BY <1>10, SplitBranchLoads
<1>11. CASE InsertReturns
  BY <1>11, InsertReturnsLoads
<1>12. CASE InsertStep
  BY <1>3, <1>4, <1>5, <1>6, <1>7, <1>8, <1>9, <1>10, <1>11, <1>12 DEF InsertStep
<1>13. CASE \E t \in Tuples : InsertCall(t)
  BY <1>2, <1>13
<1> QED
  BY <1>1, <1>12, <1>13 DEF LoadingNext

\* the new tree
LEMMA NewTreeLoads ==
  ASSUME Init
  PROVE  \E low, level : LoadInv(low, level)
<1> DEFINE low == [x \in NodeIDs |-> -1]
           level == [x \in NodeIDs |-> 0]
<1>1. /\ m_nodes = [id \in NodeIDs |-> BlankNode] /\ m_rootID = 0 /\ m_firstLeafID = 0
      /\ m_lastLeafID = 0 /\ m_tupleCount = 0 /\ Live = {0}
      /\ pc = "idle" /\ path = <<>> /\ result = NoResult
  BY DEF Init, Live
<1>2. 0 \in NodeIDs /\ m_nodes \in Table
  <2>1. 0 \in NodeIDs
    BY BoundsAssumption DEF NodeIDs
  <2>2. TypeOK
    BY InitType
  <2> QED
    BY <2>1, <2>2 DEF TypeOK, Table
<1>3. /\ m_nodes[0].page = {} /\ m_nodes[0].firstChildID = NoNode /\ m_nodes[0].parentID = NoNode
      /\ m_nodes[0].siblingLeftID = NoNode /\ m_nodes[0].siblingRightID = NoNode
      /\ \A x \in NodeIDs : m_nodes[x] = BlankNode
  BY <1>1, <1>2 DEF BlankNode
<1>4. low \in [NodeIDs -> Int] /\ level \in [NodeIDs -> Nat] /\ low[0] = -1 /\ level[0] = 0
  BY <1>2
<1> HIDE DEF low, level
<1>5. ~HasChildren(m_nodes, 0)
  BY <1>3 DEF HasChildren
<1>6. Shape(m_nodes, {0}, 0, low, level, NoNode)
  <2>1. Blank(m_nodes, {0})
    BY <1>3 DEF Blank
  <2>2. LowsDiffer({0}, low, level) /\ KeysInRange(m_nodes, {0}, low, level)
    BY <1>3, <1>4 DEF LowsDiffer, KeysInRange
  <2>3. LowsAreTuples(m_nodes, {0}, low, level)
    BY <1>4 DEF LowsAreTuples
  <2>4. LeftLinks(m_nodes, {0}, low, level) /\ RightLinks(m_nodes, {0}, low, level)
    BY <1>3, <1>4 DEF LeftLinks, RightLinks
  <2>5. RootOnTop(m_nodes, {0}, 0, low, level, NoNode)
    BY <1>3, <1>4 DEF RootOnTop
  <2>6. ParentsKnow(m_nodes, {0}, 0, low, level, NoNode) /\ ChildrenKnow(m_nodes, {0}, low, level, NoNode)
    BY <1>3, <1>4 DEF ParentsKnow, ChildrenKnow
  <2>7. Sized(m_nodes, {0}, 0)
    <3>1. TupleCount(m_nodes, 0) = 0 /\ IsFiniteSet(m_nodes[0].page)
      BY <1>3, FS_EmptySet DEF TupleCount
    <3>2. MaxTupleCount(m_nodes, 0) = MaxLeafTuples
      BY <1>5 DEF MaxTupleCount
    <3> QED
      BY <1>5, <3>1, <3>2, PageSizeAssumption DEF Sized
  <2> QED
    BY <1>2, <1>4, <2>1, <2>2, <2>3, <2>4, <2>5, <2>6, <2>7 DEF Shape, Ghosts
<1>7. Stored = {}
  <2>1. LeafEntriesOf(m_nodes, {0}) = {}
    BY <1>3 DEF LeafEntriesOf
  <2> QED
    BY <1>1, <2>1, StoredNow DEF StoredIn
<1>8. IsFiniteSet(Stored) /\ m_tupleCount = Cardinality(Counted) % CountModulus
  <2>1. Counted = {} /\ Cardinality({}) = 0 /\ IsFiniteSet({})
    BY <1>1, <1>7, FS_EmptySet DEF Counted
  <2>2. 0 % CountModulus = 0
    BY BoundsAssumption
  <2> QED
    BY <1>1, <1>7, <2>1, <2>2
<1>9. OrphanOf(result) = NoNode /\ result.kind = "none"
  BY <1>1 DEF NoResult, OrphanOf
<1>10. EndsOf(m_nodes, {0}, 0, 0, low, level) /\ StackOf(m_nodes, {0}, 0, level, <<>>)
       /\ ReturnOf(m_nodes, {0}, low, level, <<>>, result)
  BY <1>3, <1>4, <1>9 DEF EndsOf, StackOf, ReturnOf
<1> QED
  BY <1>1, <1>6, <1>8, <1>9, <1>10 DEF LoadInv

-----------------------------------------------------------------------------
(***************************************************************************)
(* What the runs check follows from it.                                    *)
(***************************************************************************)
\* what the invariant says of parent pointers,
LEMMA LoadedParentsAgree ==
  ASSUME TypeOK, NEW low, NEW level, LoadInv(low, level)
  PROVE  ParentsAgree
<1> SUFFICES ASSUME pc = "idle" PROVE
       /\ m_rootID \in Live /\ m_nodes[m_rootID].parentID = NoNode
       /\ \A b \in Live : HasChildren(m_nodes, b) =>
            /\ Children(m_nodes, b) = {c \in Live : m_nodes[c].parentID = b}
            /\ Cardinality(Children(m_nodes, b)) = TupleCount(m_nodes, b) + 1
       /\ \A c \in Live \ {m_rootID} : m_nodes[c].parentID \in Live \ Leaves
  BY DEF ParentsAgree
<1>1. /\ Shape(m_nodes, Live, m_rootID, low, level, NoNode) /\ Live \subseteq NodeIDs
      /\ \A x \in Live : level[x] \in Nat /\ low[x] \in Int /\ x # NoNode
  <2>1. result = NoResult
    BY DEF LoadInv
  <2> QED
    BY <2>1, LoadFacts
<1>2. m_rootID \in Live /\ m_nodes[m_rootID].parentID = NoNode
  BY <1>1 DEF Shape, RootOnTop
<1>3. ASSUME NEW c \in Live, c # m_rootID
      PROVE  /\ m_nodes[c].parentID \in Live /\ HasChildren(m_nodes, m_nodes[c].parentID)
             /\ c \in Children(m_nodes, m_nodes[c].parentID)
  <2> DEFINE p == m_nodes[c].parentID
  <2>1. c \notin {m_rootID, NoNode}
    BY <1>1, <1>3
  <2>2. p \in Live /\ m_nodes[p].firstChildID # NoNode
        /\ (m_nodes[p].firstChildID # c => BranchTuple(low[c], c) \in m_nodes[p].page)
    BY <1>1, <2>1, PlaceInParent
  <2>3. BranchTuple(low[c], c).child = c
    BY DEF BranchTuple
  <2> QED
    BY <2>2, <2>3 DEF HasChildren, Children
<1>4. ASSUME NEW b \in Live, HasChildren(m_nodes, b)
      PROVE  /\ Children(m_nodes, b) = {c \in Live : m_nodes[c].parentID = b}
             /\ Cardinality(Children(m_nodes, b)) = TupleCount(m_nodes, b) + 1
  <2> DEFINE P == m_nodes[b].page
             C == {e.child : e \in P}
             f == m_nodes[b].firstChildID
             g == [e \in P |-> e.child]
  <2>1. /\ f # NoNode /\ f \in Live /\ m_nodes[f].parentID = b /\ low[f] = low[b]
    BY <1>1, <1>4 DEF HasChildren, Shape, ChildrenKnow
  <2>2. level[b] > 0
    BY <1>1, <1>4, LeavesAreAtTheBottom
  <2>3. \A e \in P : /\ e.child \in Live /\ m_nodes[e.child].parentID = b
                     /\ e.key = low[e.child] /\ low[b] < e.key
    BY <1>1, <2>2 DEF Shape, ChildrenKnow, KeysInRange
  <2>4. PageOf(P)
    BY <1>1, PagesAreOrdered
  <2>5. Children(m_nodes, b) = {f} \cup C
    BY DEF Children
  <2>6. Children(m_nodes, b) = {c \in Live : m_nodes[c].parentID = b}
    <3>1. \A c \in Live : m_nodes[c].parentID = b => c \in Children(m_nodes, b)
      <4> SUFFICES ASSUME NEW c \in Live, m_nodes[c].parentID = b PROVE c \in Children(m_nodes, b)
        OBVIOUS
      <4>1. c # m_rootID
        BY <1>1, <1>2
      <4> QED
        BY <1>3, <4>1
    <3>2. \A c \in {f} \cup C : c \in Live /\ m_nodes[c].parentID = b
      BY <2>1, <2>3
    <3> QED
      BY <2>5, <3>1, <3>2
  <2>7. f \notin C
    <3> SUFFICES ASSUME NEW e \in P, e.child = f PROVE FALSE
      OBVIOUS
    <3>1. e.key = low[b] /\ low[b] < e.key /\ low[b] \in Int
      BY <1>1, <2>1, <2>3
    <3> QED
      BY <3>1
  <2>8. IsFiniteSet(C) /\ Cardinality(C) = Cardinality(P)
    <3>1. IsFiniteSet(P) /\ \A e, d \in P : e.key = d.key => e = d
      BY <2>4 DEF PageOf, Distinct
    <3>2. g \in [P -> C] /\ \A c \in C : \E e \in P : g[e] = c
      OBVIOUS
    <3>3. \A e, d \in P : g[e] = g[d] => e = d
      BY <2>3, <3>1
    <3> HIDE DEF P, C, g
    <3> QED
      BY <3>1, <3>2, <3>3, SameNumber
  <2> HIDE DEF C, f, P
  <2>9. Cardinality({f} \cup C) = Cardinality(P) + 1
    <3>1. C \cup {f} = {f} \cup C
      OBVIOUS
    <3>2. Cardinality(C \cup {f}) = Cardinality(C) + 1
      BY <2>7, <2>8, FS_AddElement
    <3> QED
      BY <2>8, <3>1, <3>2
  <2>10. TupleCount(m_nodes, b) = Cardinality(P)
    BY DEF TupleCount, P
  <2> QED
    BY <2>5, <2>6, <2>9, <2>10
<1> QED
  BY <1>2, <1>3, <1>4 DEF Leaves

\* of sibling links,
LEMMA LoadedSiblingLinksAgree ==
  ASSUME TypeOK, NEW low, NEW level, LoadInv(low, level)
  PROVE  SiblingLinksAgree
<1>1. /\ Shape(m_nodes, Live, m_rootID, low, level, OrphanOf(result)) /\ Live \subseteq NodeIDs
      /\ EndsOf(m_nodes, Live, m_firstLeafID, m_lastLeafID, low, level)
      /\ \A x \in Live : level[x] \in Nat /\ low[x] \in Int /\ x # NoNode
  BY LoadFacts
<1>2. \A x \in Live : x \in Leaves <=> level[x] = 0
  BY <1>1, LeavesAreAtTheBottom DEF Leaves
<1>3. /\ LeftLinks(m_nodes, Live, low, level) /\ RightLinks(m_nodes, Live, low, level)
      /\ LowsDiffer(Live, low, level)
  BY <1>1 DEF Shape
<1>4. ASSUME NEW id \in Live
      PROVE  /\ LeftOf(id)  # NoNode => LeftOf(id)  \in Live /\ RightOf(LeftOf(id)) = id
             /\ RightOf(id) # NoNode => RightOf(id) \in Live /\ LeftOf(RightOf(id)) = id
  BY <1>3 DEF LeftLinks, RightLinks, LeftOf, RightOf
<1>5. {id \in Leaves : LeftOf(id) = NoNode} = {m_firstLeafID}
  <2>1. m_firstLeafID \in Live /\ level[m_firstLeafID] = 0 /\ low[m_firstLeafID] = -1
    BY <1>1 DEF EndsOf
  <2>2. \A id \in Leaves : LeftOf(id) = NoNode <=> low[id] = -1
    BY <1>3 DEF LeftLinks, LeftOf, Leaves
  <2>3. \A id \in Leaves : low[id] = -1 <=> id = m_firstLeafID
    BY <1>2, <1>3, <2>1 DEF LowsDiffer, Leaves
  <2> QED
    BY <1>2, <2>1, <2>2, <2>3
<1>6. {id \in Leaves : RightOf(id) = NoNode} = {m_lastLeafID}
  <2>1. m_lastLeafID \in Live /\ level[m_lastLeafID] = 0 /\ m_nodes[m_lastLeafID].siblingRightID = NoNode
    BY <1>1 DEF EndsOf
  <2>2. ASSUME NEW id \in Live, level[id] = 0, m_nodes[id].siblingRightID = NoNode
        PROVE  id = m_lastLeafID
    <3>1. low[id] <= low[m_lastLeafID] /\ low[m_lastLeafID] <= low[id]
      BY <1>3, <2>1, <2>2 DEF RightLinks
    <3>2. low[id] = low[m_lastLeafID]
      BY <1>1, <2>1, <3>1
    <3> QED
      BY <1>3, <2>1, <2>2, <3>2 DEF LowsDiffer
  <2> QED
    BY <1>2, <2>1, <2>2 DEF RightOf, Leaves
<1> QED
  BY <1>4, <1>5, <1>6 DEF SiblingLinksAgree

\* of the chain of leaves,
LEMMA LoadedLeafChainInOrder ==
  ASSUME TypeOK, NEW low, NEW level, LoadInv(low, level)
  PROVE  LeafChainInOrder
<1>1. /\ Shape(m_nodes, Live, m_rootID, low, level, OrphanOf(result)) /\ Live \subseteq NodeIDs
      /\ \A x \in Live : level[x] \in Nat /\ low[x] \in Int
      /\ m_nodes \in Table
  BY LoadFacts
<1> SUFFICES ASSUME NEW id \in Leaves, RightOf(id) # NoNode,
                    NEW e \in m_nodes[id].page, NEW f \in m_nodes[RightOf(id)].page
             PROVE  e.key < f.key
  BY DEF LeafChainInOrder
<1> DEFINE r == RightOf(id)
<1>2. id \in Live /\ level[id] = 0
  BY <1>1, LeavesAreAtTheBottom DEF Leaves
<1>3. r \in Live /\ level[r] = 0 /\ low[id] < low[r]
  BY <1>1, <1>2 DEF Shape, RightLinks, RightOf
<1>4. e.key < low[r] /\ low[r] <= f.key
  BY <1>1, <1>2, <1>3 DEF Shape, KeysInRange, InRangeOf
<1>5. e.key \in Nat /\ f.key \in Nat /\ low[r] \in Int
  BY <1>1, <1>2, <1>3, PageTypes
<1> QED
  BY <1>4, <1>5

\* of pages and nodes that are not in use,
LEMMA LoadedPages ==
  ASSUME TypeOK, NEW low, NEW level, LoadInv(low, level)
  PROVE  FreeNodesAreBlank /\ KeysAreUnique /\ PagesHalfFull /\ NeverAborts
<1>1. /\ Shape(m_nodes, Live, m_rootID, low, level, OrphanOf(result)) /\ Live \subseteq NodeIDs
  BY LoadFacts
<1>2. FreeNodesAreBlank
  BY <1>1 DEF Shape, Blank, FreeNodesAreBlank
<1>3. KeysAreUnique
  BY <1>1, PagesAreOrdered DEF PageOf, Distinct, KeysAreUnique
<1>4. PagesHalfFull
  <2>1. Sized(m_nodes, Live, m_rootID)
    BY <1>1 DEF Shape
  <2>2. \A id \in Live : TupleCount(m_nodes, id) \in Nat
    BY <2>1, FS_CardinalityType DEF Sized, TupleCount
  <2> QED
    BY <2>1, <2>2 DEF Sized, PagesHalfFull
<1>5. NeverAborts
  BY DEF LoadInv, NeverAborts
<1> QED
  BY <1>2, <1>3, <1>4, <1>5

\* and of the count
LEMMA LoadedCountIsExact ==
  ASSUME TypeOK, NEW low, NEW level, LoadInv(low, level)
  PROVE  CountIsExact
<1> DEFINE Counts == UNION {{id} \X m_nodes[id].page : id \in Leaves}
           g == [c \in Counts |-> c[2].key]
<1>1. /\ Shape(m_nodes, Live, m_rootID, low, level, OrphanOf(result)) /\ Live \subseteq NodeIDs
      /\ \A x \in Live : level[x] \in Nat /\ low[x] \in Int
      /\ m_nodes \in Table
  BY LoadFacts
<1>2. \A id \in Leaves : id \in Live /\ level[id] = 0
  BY <1>1, LeavesAreAtTheBottom DEF Leaves
<1>3. \A id \in Leaves : \A e \in m_nodes[id].page :
        /\ e.key \in Nat /\ low[id] <= e.key
        /\ \A z \in Leaves : low[id] < low[z] => e.key < low[z]
  <2> SUFFICES ASSUME NEW id \in Leaves, NEW e \in m_nodes[id].page
               PROVE  /\ e.key \in Nat /\ low[id] <= e.key
                      /\ \A z \in Leaves : low[id] < low[z] => e.key < low[z]
    OBVIOUS
  <2>1. low[id] <= e.key /\ InRangeOf(Live, low, level, id, e.key)
    BY <1>1, <1>2 DEF Shape, KeysInRange
  <2>2. e.key \in Nat
    BY <1>1, <1>2, PageTypes
  <2> QED
    BY <1>2, <2>1, <2>2 DEF InRangeOf
<1>4. ASSUME NEW id \in Leaves, NEW id2 \in Leaves, NEW e \in m_nodes[id].page,
             NEW f \in m_nodes[id2].page, e.key = f.key
      PROVE  id = id2 /\ e = f
  <2>1. ~(low[id] < low[id2]) /\ ~(low[id2] < low[id])
    BY <1>1, <1>2, <1>3, <1>4
  <2>2. low[id] = low[id2]
    BY <1>1, <1>2, <2>1
  <2>3. id = id2
    BY <1>1, <1>2, <2>2 DEF Shape, LowsDiffer
  <2>4. PageOf(m_nodes[id].page)
    BY <1>1, <1>2, PagesAreOrdered
  <2> QED
    BY <1>4, <2>3, <2>4 DEF PageOf, Distinct
<1>5. \A c : c \in Counts <=> \E id \in Leaves : \E e \in m_nodes[id].page : c = <<id, e>>
  OBVIOUS
<1>6. \A t : t \in Stored <=> \E id \in Leaves : \E e \in m_nodes[id].page : t = e.key
  BY DEF Stored, Leaves
<1>7. \A c \in Counts : g[c] = c[2].key
  OBVIOUS
<1>8. g \in [Counts -> Stored]
  <2>1. \A c \in Counts : c[2].key \in Stored
    BY <1>5, <1>6
  <2> HIDE DEF Counts
  <2> QED
    BY <2>1
<1> HIDE DEF Counts, g
<1>9. \A c, d \in Counts : g[c] = g[d] => c = d
  <2> SUFFICES ASSUME NEW c \in Counts, NEW d \in Counts, g[c] = g[d] PROVE c = d
    OBVIOUS
  <2>1. PICK id \in Leaves : \E e \in m_nodes[id].page : c = <<id, e>>
    BY <1>5
  <2>2. PICK e \in m_nodes[id].page : c = <<id, e>>
    BY <2>1
  <2>3. PICK id2 \in Leaves : \E f \in m_nodes[id2].page : d = <<id2, f>>
    BY <1>5
  <2>4. PICK f \in m_nodes[id2].page : d = <<id2, f>>
    BY <2>3
  <2>5. e.key = f.key
    BY <1>7, <2>2, <2>4
  <2>6. id = id2 /\ e = f
    BY <1>4, <2>5
  <2> QED
    BY <2>2, <2>4, <2>6
<1>10. \A t \in Stored : \E c \in Counts : g[c] = t
  <2> SUFFICES ASSUME NEW t \in Stored PROVE \E c \in Counts : g[c] = t
    OBVIOUS
  <2>4. PICK id \in Leaves : \E e \in m_nodes[id].page : t = e.key
    BY <1>6
  <2>1. PICK e \in m_nodes[id].page : t = e.key
    BY <2>4
  <2>2. <<id, e>> \in Counts
    BY <1>5
  <2>3. g[<<id, e>>] = t
    BY <1>7, <2>1, <2>2
  <2> QED
    BY <2>2, <2>3
<1>11. Cardinality(Counts) = Cardinality(Stored)
  <2>1. g \in Bijection(Counts, Stored)
    BY <1>8, <1>9, <1>10 DEF Bijection, Injection, Surjection, IsInjective
  <2>2. ExistsBijection(Stored, Counts)
    BY <2>1, Fun_ExistsBijSymmetric DEF ExistsBijection
  <2>3. IsFiniteSet(Stored)
    BY DEF LoadInv
  <2> QED
    BY <2>2, <2>3, FS_Bijection
<1>12. pc = "idle" => m_tupleCount = Cardinality(Stored) % CountModulus
  BY DEF LoadInv, Counted
<1> QED
  BY <1>11, <1>12 DEF CountIsExact, Counts

\* loading takes steps of the tree
LEMMA LoadingIsNext == LoadingNext => Next
BY DEF LoadingNext, Next

\* a new tree has it
LEMMA LoadingInit == Init => LoadingIInv
BY InitType, InitIDs, NewTreeLoads DEF LoadingIInv

\* and every step keeps it
LEMMA LoadingStep == LoadingIInv /\ [LoadingNext]_vars => LoadingIInv'
<1> SUFFICES ASSUME LoadingIInv, [LoadingNext]_vars PROVE LoadingIInv'
  OBVIOUS
<1>1. PICK low, level : LoadInv(low, level)
  BY DEF LoadingIInv
<1>2. TypeOK /\ IDsConsistent(m_nodeIDAllocator)
  BY DEF LoadingIInv
<1>3. [Next]_vars
  BY LoadingIsNext
<1>4. TypeOK'
  BY <1>2, <1>3, NextType
<1>5. IDsConsistent(m_nodeIDAllocator')
  BY <1>2, <1>3, NextIDs, AllocatorStep
<1>6. Preserved
  BY <1>1, <1>2, LoadingStepPreserves
<1> QED
  BY <1>4, <1>5, <1>6 DEF LoadingIInv, Preserved

\* so that it always holds
LEMMA LoadingInvariant == LoadingSpec => []LoadingIInv
BY LoadingInit, LoadingStep, PTL DEF LoadingSpec

\* and it says all that the runs check of such a tree
LEMMA LoadedTree ==
  LoadingIInv => /\ ParentsAgree /\ SiblingLinksAgree /\ LeafChainInOrder /\ CountIsExact
                 /\ FreeNodesAreBlank /\ KeysAreUnique /\ PagesHalfFull /\ NeverAborts
<1> SUFFICES ASSUME LoadingIInv
             PROVE  /\ ParentsAgree /\ SiblingLinksAgree /\ LeafChainInOrder /\ CountIsExact
                    /\ FreeNodesAreBlank /\ KeysAreUnique /\ PagesHalfFull /\ NeverAborts
  OBVIOUS
<1>1. TypeOK /\ \E low, level : LoadInv(low, level)
  BY DEF LoadingIInv
<1>2. PICK low, level : LoadInv(low, level)
  BY <1>1
<1> QED
  BY <1>1, <1>2, LoadedParentsAgree, LoadedSiblingLinksAgree, LoadedLeafChainInOrder,
     LoadedCountIsExact, LoadedPages

-----------------------------------------------------------------------------
(***************************************************************************)
(* Numbers: induction up to a bound, a function applied again and again,   *)
(* and the places of the elements of a finite set.                         *)
(***************************************************************************)
\* induction up to m
LEMMA UpTo ==
  ASSUME NEW m \in Nat, NEW S, 0 \in S, \A n \in 0..m : n \in S /\ n < m => n + 1 \in S
  PROVE  \A n \in 0..m : n \in S
<1> DEFINE T == {n \in 0..m : n \notin S}
<1> SUFFICES ASSUME T # {} PROVE FALSE
  OBVIOUS
<1>1. PICK k \in T : \A j \in T : k <= j
  <2>1. T \subseteq Nat
    OBVIOUS
  <2> QED
    BY <2>1, LeastElement
<1>2. k # 0 /\ k - 1 \in 0..m /\ k - 1 \notin T /\ k - 1 < m
  BY <1>1
<1>3. k - 1 + 1 \in S
  BY <1>2
<1> QED
  BY <1>1, <1>3

\* F is applied to a again and again, m times
Iterates(f, X, F, a, m) ==
  /\ f \in [0..m -> X] /\ f[0] = a
  /\ \A n \in 0..m : n # 0 => f[n] = F[f[n - 1]]

\* there is such a sequence
LEMMA IteratesExist ==
  ASSUME NEW X, NEW a \in X, NEW F \in [X -> X], NEW m \in Nat
  PROVE  \E f : Iterates(f, X, F, a, m)
<1> DEFINE Is(f, k) == f[0] = a /\ \A n \in 0..k : n # 0 => f[n] = F[f[n - 1]]
           S == {k \in 0..m : \E f \in [0..k -> X] : Is(f, k)}
<1>1. 0 \in S
  <2> DEFINE f == [n \in 0..0 |-> a]
  <2>1. f \in [0..0 -> X] /\ Is(f, 0) /\ 0 \in 0..m
    OBVIOUS
  <2> QED
    BY <2>1
<1>2. ASSUME NEW k \in 0..m, k \in S, k < m PROVE k + 1 \in S
  <2>1. PICK f \in [0..k -> X] : Is(f, k)
    BY <1>2
  <2> DEFINE g == [n \in 0..(k + 1) |-> IF n = k + 1 THEN F[f[k]] ELSE f[n]]
  <2>2. g \in [0..(k + 1) -> X]
    OBVIOUS
  <2>3. \A n \in 0..k : g[n] = f[n]
    OBVIOUS
  <2>4. g[k + 1] = F[f[k]]
    OBVIOUS
  <2> HIDE DEF g
  <2>5. Is(g, k + 1)
    <3>1. g[0] = a
      BY <2>1, <2>3
    <3>2. ASSUME NEW n \in 0..(k + 1), n # 0 PROVE g[n] = F[g[n - 1]]
      <4>1. CASE n = k + 1
        BY <2>3, <2>4, <4>1
      <4>2. CASE n # k + 1
        <5>1. n \in 0..k /\ n - 1 \in 0..k
          BY <3>2, <4>2
        <5> QED
          BY <2>1, <2>3, <3>2, <5>1
      <4> QED
        BY <4>1, <4>2
    <3> QED
      BY <3>1, <3>2
  <2>6. k + 1 \in 0..m
    BY <1>2
  <2> QED
    BY <2>2, <2>5, <2>6
<1> HIDE DEF S
<1>3. m \in S
  BY <1>1, <1>2, UpTo
<1> QED
  BY <1>3 DEF S, Iterates

\* the place of t in the order of S, and what is left of S after its n first elements
Rank(S, t) == Cardinality({v \in S : v < t})
AfterFirst(S, n) == {t \in S : n <= Rank(S, t)}

\* what the lemmas below are about
FiniteNumbers(S) == S \subseteq Nat /\ IsFiniteSet(S)
IsLast(t, S) == t \in S /\ \A u \in S : u <= t

\* the elements of a set of numbers have the places from 0
LEMMA Ranks ==
  ASSUME NEW S, S \subseteq Nat, IsFiniteSet(S)
  PROVE  /\ Cardinality(S) \in Nat
         /\ \A t \in S : Rank(S, t) \in Nat /\ Rank(S, t) < Cardinality(S)
         /\ \A t, u \in S : t < u => Rank(S, t) < Rank(S, u)
         /\ \A t, u \in S : Rank(S, t) = Rank(S, u) => t = u
         /\ \A n \in Nat : n < Cardinality(S) => \E t \in S : Rank(S, t) = n
<1> DEFINE B(t) == {v \in S : v < t}
           N == Cardinality(S)
           r == [t \in S |-> Rank(S, t)]
<1>1. N \in Nat
  BY FS_CardinalityType
<1>2. ASSUME NEW t \in S
      PROVE  Rank(S, t) = Cardinality(B(t)) /\ B(t) \in SUBSET S /\ IsFiniteSet(B(t)) /\ t \notin B(t)
             /\ Rank(S, t) \in Nat /\ Rank(S, t) < N /\ r[t] = Rank(S, t)
  <2>1. Rank(S, t) = Cardinality(B(t)) /\ B(t) \in SUBSET S /\ t \notin B(t) /\ r[t] = Rank(S, t)
    BY DEF Rank
  <2> HIDE DEF B, r
  <2>2. IsFiniteSet(B(t)) /\ Cardinality(B(t)) <= N /\ (N = Cardinality(B(t)) => S = B(t))
    BY <2>1, FS_Subset
  <2>3. Cardinality(B(t)) \in Nat
    BY <2>2, FS_CardinalityType
  <2>4. N # Cardinality(B(t))
    <3>1. S # B(t)
      BY <2>1
    <3> QED
      BY <2>2, <3>1
  <2> HIDE DEF N
  <2> QED
    BY <1>1, <2>1, <2>2, <2>3, <2>4
<1>3. ASSUME NEW t \in S, NEW u \in S, t < u PROVE Rank(S, t) < Rank(S, u)
  <2>1. B(t) \in SUBSET B(u) /\ t \in B(u)
    <3>1. \A v \in S : v \in Nat
      OBVIOUS
    <3>2. \A v \in S : v < t => v < u
      BY <1>3, <3>1
    <3> QED
      BY <1>3, <3>2
  <2>2. /\ IsFiniteSet(B(u)) /\ t \notin B(t) /\ Rank(S, t) = Cardinality(B(t))
        /\ Rank(S, u) = Cardinality(B(u)) /\ Rank(S, t) \in Nat /\ Rank(S, u) \in Nat
    BY <1>2
  <2> HIDE DEF B
  <2>3. Cardinality(B(t)) <= Cardinality(B(u)) /\ (Cardinality(B(u)) = Cardinality(B(t)) => B(u) = B(t))
    BY <2>1, <2>2, FS_Subset
  <2>4. B(u) # B(t)
    BY <2>1, <2>2
  <2> QED
    BY <2>2, <2>3, <2>4
<1>4. \A t, u \in S : Rank(S, t) = Rank(S, u) => t = u
  <2> SUFFICES ASSUME NEW t \in S, NEW u \in S, t # u PROVE Rank(S, t) # Rank(S, u)
    OBVIOUS
  <2>1. (t < u \/ u < t) /\ Rank(S, t) \in Nat /\ Rank(S, u) \in Nat
    <3>1. t \in Nat /\ u \in Nat
      OBVIOUS
    <3>2. t < u \/ u < t
      BY <3>1
    <3> HIDE DEF B, N, r
    <3> QED
      BY <1>2, <3>2
  <2>2. Rank(S, t) < Rank(S, u) \/ Rank(S, u) < Rank(S, t)
    BY <1>3, <2>1
  <2> QED
    BY <2>1, <2>2
<1>5. r \in Injection(S, 0..(N - 1))
  <2>1. \A t \in S : r[t] \in 0..(N - 1)
    <3> HIDE DEF N, r, B
    <3> QED
      BY <1>1, <1>2
  <2>2. \A t, u \in S : r[t] = r[u] => t = u
    <3> HIDE DEF r, B
    <3> QED
      BY <1>2, <1>4
  <2>3. r \in [S -> 0..(N - 1)]
    BY <2>1
  <2> HIDE DEF r, N
  <2> QED
    BY <2>2, <2>3 DEF Injection, IsInjective
<1>6. \A k \in 0..(N - 1) : \E t \in S : r[t] = k
  <2>1. \A m \in Nat : IsFiniteSet(0..(m - 1)) /\ Cardinality(0..(m - 1)) = m
    BY FS_Interval
  <2> HIDE DEF r, N
  <2>3. IsFiniteSet(0..(N - 1)) /\ Cardinality(0..(N - 1)) = N
    BY <1>1, <2>1
  <2>2. r \in Surjection(S, 0..(N - 1))
    BY <1>5, <2>3, FS_Injection DEF N
  <2> QED
    BY <2>2 DEF Surjection
<1> HIDE DEF r, B
<1>7. \A n \in Nat : n < N => \E t \in S : Rank(S, t) = n
  <2> SUFFICES ASSUME NEW n \in Nat, n < N PROVE \E t \in S : Rank(S, t) = n
    OBVIOUS
  <2>1. n \in 0..(N - 1)
    BY <1>1
  <2> QED
    BY <1>2, <1>6, <2>1
<1> QED
  BY <1>1, <1>2, <1>3, <1>4, <1>7

\* what is left is all, none, or something in between
LEMMA AfterFirsts ==
  ASSUME NEW S, S \subseteq Nat, IsFiniteSet(S), NEW n \in Int
  PROVE  /\ \A t : t \in AfterFirst(S, n) <=> t \in S /\ n <= Rank(S, t)
         /\ n <= 0 => AfterFirst(S, n) = S
         /\ Cardinality(S) <= n => AfterFirst(S, n) = {}
         /\ \A t \in AfterFirst(S, n), u \in S : t <= u => u \in AfterFirst(S, n)
<1> DEFINE N == Cardinality(S)
           A == AfterFirst(S, n)
<1>1. /\ N \in Nat
      /\ \A t \in S : Rank(S, t) \in Nat /\ Rank(S, t) < N
      /\ \A t, u \in S : t < u => Rank(S, t) < Rank(S, u)
  BY Ranks
<1>2. \A t : t \in A <=> t \in S /\ n <= Rank(S, t)
  BY DEF AfterFirst
<1> HIDE DEF A, N
<1>3. n <= 0 => A = S
  <2> SUFFICES ASSUME n <= 0 PROVE A = S
    OBVIOUS
  <2>1. \A t \in S : n <= Rank(S, t)
    BY <1>1
  <2> QED
    BY <1>2, <2>1
<1>4. N <= n => A = {}
  <2> SUFFICES ASSUME N <= n, NEW t \in A PROVE FALSE
    OBVIOUS
  <2>1. t \in S /\ n <= Rank(S, t)
    BY <1>2
  <2> QED
    BY <1>1, <2>1
<1>5. ASSUME NEW t \in A, NEW u \in S, t <= u PROVE u \in A
  <2>1. t \in S /\ t \in Nat /\ u \in Nat /\ n <= Rank(S, t)
    BY <1>2
  <2>2. Rank(S, t) <= Rank(S, u)
    BY <1>1, <1>5, <2>1
  <2> QED
    BY <1>1, <1>2, <2>1, <2>2
<1> QED
  BY <1>2, <1>3, <1>4, <1>5 DEF A, N

\* one more is taken away
LEMMA TakeNext ==
  ASSUME NEW S, S \subseteq Nat, IsFiniteSet(S), NEW n \in Nat,
         NEW t \in AfterFirst(S, n), \A u \in AfterFirst(S, n) : t <= u
  PROVE  t \in S /\ Rank(S, t) = n /\ AfterFirst(S, n + 1) = AfterFirst(S, n) \ {t}
<1> DEFINE N == Cardinality(S)
           A(m) == AfterFirst(S, m)
<1>1. /\ N \in Nat
      /\ \A u \in S : Rank(S, u) \in Nat /\ Rank(S, u) < N
      /\ \A u, v \in S : u < v => Rank(S, u) < Rank(S, v)
      /\ \A u, v \in S : Rank(S, u) = Rank(S, v) => u = v
      /\ \A m \in Nat : m < N => \E u \in S : Rank(S, u) = m
  BY Ranks
<1>2. \A m \in Int : \A u : u \in A(m) <=> u \in S /\ m <= Rank(S, u)
  BY DEF AfterFirst
<1>3. t \in A(n) /\ \A u \in A(n) : t <= u
  OBVIOUS
<1> HIDE DEF A, N
<1>4. t \in S /\ n <= Rank(S, t) /\ Rank(S, t) \in Nat /\ n < N
  <2>1. t \in S /\ n <= Rank(S, t)
    BY <1>2, <1>3
  <2> QED
    BY <1>1, <2>1
<1>5. PICK s \in S : Rank(S, s) = n
  BY <1>1, <1>4
<1>6. s \in A(n) /\ t <= s
  BY <1>2, <1>3, <1>5
<1>7. Rank(S, t) = n
  BY <1>1, <1>4, <1>5, <1>6
<1>8. ASSUME NEW u \in S PROVE u \in A(n + 1) <=> u \in A(n) /\ u # t
  <2>1. (u \in A(n + 1) <=> n + 1 <= Rank(S, u)) /\ (u \in A(n) <=> n <= Rank(S, u))
    BY <1>2
  <2>2. Rank(S, u) \in Nat /\ (Rank(S, u) = n => u = t)
    BY <1>1, <1>4, <1>7
  <2> QED
    BY <1>7, <2>1, <2>2
<1>9. \A u : (u \in A(n + 1) \/ u \in A(n)) => u \in S
  BY <1>2
<1> QED
  BY <1>4, <1>7, <1>8, <1>9 DEF A

\* or the last one taken is put back
LEMMA PutLastBack ==
  ASSUME NEW S, FiniteNumbers(S), NEW n \in Int, n <= Cardinality(S),
         NEW t, IsLast(t, S \ AfterFirst(S, n))
  PROVE  AfterFirst(S, n - 1) = AfterFirst(S, n) \cup {t}
<1> DEFINE N == Cardinality(S)
           A(m) == AfterFirst(S, m)
<1>1. /\ N \in Nat
      /\ \A u \in S : Rank(S, u) \in Nat /\ Rank(S, u) < N
      /\ \A u, v \in S : u < v => Rank(S, u) < Rank(S, v)
      /\ \A u, v \in S : Rank(S, u) = Rank(S, v) => u = v
      /\ \A m \in Nat : m < N => \E u \in S : Rank(S, u) = m
  BY Ranks DEF FiniteNumbers
<1>2. \A m \in Int : \A u : u \in A(m) <=> u \in S /\ m <= Rank(S, u)
  BY DEF AfterFirst
<1>3. t \in S \ A(n) /\ (\A u \in S \ A(n) : u <= t) /\ n <= N
  BY DEF IsLast
<1> HIDE DEF A, N
<1>4. t \in S /\ Rank(S, t) < n /\ Rank(S, t) \in Nat
  <2>1. t \in S /\ ~(n <= Rank(S, t))
    BY <1>2, <1>3
  <2> QED
    BY <1>1, <2>1
<1>5. n - 1 \in Nat /\ n - 1 < N
  BY <1>1, <1>3, <1>4
<1>6. PICK s \in S : Rank(S, s) = n - 1
  BY <1>1, <1>5
<1>7. s \in S \ A(n) /\ s <= t
  BY <1>2, <1>3, <1>5, <1>6
<1>8. Rank(S, t) = n - 1
  <2>1. s \in Nat /\ t \in Nat
    BY <1>4 DEF FiniteNumbers
  <2>2. s = t \/ Rank(S, s) < Rank(S, t)
    BY <1>1, <1>4, <1>7, <2>1
  <2> QED
    BY <1>4, <1>5, <1>6, <2>2
<1>9. ASSUME NEW u \in S PROVE u \in A(n - 1) <=> u \in A(n) \/ u = t
  <2>1. (u \in A(n - 1) <=> n - 1 <= Rank(S, u)) /\ (u \in A(n) <=> n <= Rank(S, u))
    BY <1>2, <1>5
  <2>2. Rank(S, u) \in Nat /\ (Rank(S, u) = n - 1 => u = t)
    BY <1>1, <1>4, <1>8
  <2> QED
    BY <1>5, <1>8, <2>1, <2>2
<1>10. \A u : (u \in A(n - 1) \/ u \in A(n) \cup {t}) => u \in S
  BY <1>2, <1>4, <1>5
<1> QED
  BY <1>9, <1>10 DEF A

-----------------------------------------------------------------------------
(***************************************************************************)
(* The leaves of a tree between two calls.                                 *)
(***************************************************************************)
\* a tree between two calls
IdleTree(low, level) ==
  /\ Shape(m_nodes, Live, m_rootID, low, level, NoNode)
  /\ EndsOf(m_nodes, Live, m_firstLeafID, m_lastLeafID, low, level)
  /\ IsFiniteSet(Stored)

\* t is a tuple of leaf x
Holds(x, t) == x \in Leaves /\ LeafTuple(t) \in m_nodes[x].page

\* the leaves, and what is in them
LEMMA LeafFacts ==
  ASSUME NEW low, NEW level, IdleTree(low, level), NEW x \in Leaves
  PROVE  /\ x \in Live /\ x \in NodeIDs /\ level[x] = 0 /\ low[x] \in Int /\ low[x] >= -1
         /\ PageOf(m_nodes[x].page)
         /\ \A e \in m_nodes[x].page : /\ e.key \in Nat /\ e = LeafTuple(e.key) /\ e.key \in Stored
                                       /\ low[x] <= e.key /\ InRangeOf(Live, low, level, x, e.key)
         /\ x # m_rootID => m_nodes[x].page # {}
<1>1. /\ Shape(m_nodes, Live, m_rootID, low, level, NoNode)
  BY DEF IdleTree
<1>2. x \in Live /\ ~HasChildren(m_nodes, x)
  BY DEF Leaves
<1>3. x \in NodeIDs /\ level[x] = 0 /\ low[x] \in Int /\ low[x] >= -1
  BY <1>1, <1>2, LeavesAreAtTheBottom DEF Shape, Ghosts, LowsDiffer
<1>4. PageOf(m_nodes[x].page)
  BY <1>1, <1>2, PagesAreOrdered
<1>5. x # m_rootID => m_nodes[x].page # {}
  BY <1>1, <1>2, PagesAreNotEmpty
<1>6. ASSUME NEW e \in m_nodes[x].page
      PROVE  /\ e.key \in Nat /\ e = LeafTuple(e.key) /\ e.key \in Stored
             /\ low[x] <= e.key /\ InRangeOf(Live, low, level, x, e.key)
  <2>1. low[x] <= e.key /\ e.child = NoNode /\ InRangeOf(Live, low, level, x, e.key)
    BY <1>1, <1>2, <1>3 DEF Shape, KeysInRange
  <2>2. e.key \in Nat /\ e = LeafTuple(e.key)
    BY <1>1, <1>3, <2>1, PageTypes DEF Shape
  <2>3. e.key \in Stored
    BY <1>2 DEF Stored
  <2> QED
    BY <2>1, <2>2, <2>3
<1> QED
  BY <1>2, <1>3, <1>4, <1>5, <1>6

\* the leaf a stored tuple is in
LEMMA StoredIsHeld ==
  ASSUME NEW low, NEW level, IdleTree(low, level), NEW t \in Stored
  PROVE  t \in Nat /\ \E x : Holds(x, t)
<1>1. PICK x \in Leaves : \E e \in m_nodes[x].page : t = e.key
  BY DEF Stored, Leaves
<1>2. PICK e \in m_nodes[x].page : t = e.key
  BY <1>1
<1>3. e.key \in Nat /\ e = LeafTuple(e.key)
  BY <1>1, <1>2, LeafFacts
<1> QED
  BY <1>1, <1>2, <1>3 DEF Holds

\* what the range of its leaf says of a tuple
LEMMA HeldFacts ==
  ASSUME NEW low, NEW level, IdleTree(low, level), NEW x, NEW t, Holds(x, t)
  PROVE  /\ t \in Nat /\ t \in Stored /\ low[x] <= t /\ InRangeOf(Live, low, level, x, t)
<1>1. LeafTuple(t).key = t
  BY DEF LeafTuple
<1> QED
  BY <1>1, LeafFacts DEF Holds

\* it is in no other
LEMMA HeldOnce ==
  ASSUME NEW low, NEW level, IdleTree(low, level), NEW t,
         NEW x, Holds(x, t), NEW y, Holds(y, t)
  PROVE  x = y
<1>1. /\ x \in Live /\ y \in Live /\ level[x] = 0 /\ level[y] = 0 /\ low[x] \in Int /\ low[y] \in Int
      /\ low[x] <= t /\ InRangeOf(Live, low, level, x, t) /\ t \in Nat
      /\ low[y] <= t /\ InRangeOf(Live, low, level, y, t)
  BY LeafFacts, HeldFacts DEF Holds
<1>2. low[x] = low[y]
  BY <1>1 DEF InRangeOf
<1> QED
  BY <1>1, <1>2 DEF IdleTree, Shape, LowsDiffer

\* the next leaf, and the one before
LEMMA NextLeaf ==
  ASSUME NEW low, NEW level, IdleTree(low, level), NEW x \in Leaves
  PROVE  /\ RightOf(x) = NoNode <=> x = m_lastLeafID
         /\ RightOf(x) # NoNode =>
              /\ RightOf(x) \in Leaves /\ LeftOf(RightOf(x)) = x /\ low[x] < low[RightOf(x)]
              /\ m_nodes[RightOf(x)].page # {} /\ m_nodes[x].page # {}
              /\ \A z \in Leaves : low[z] <= low[x] \/ low[RightOf(x)] <= low[z]
         /\ RightOf(x) = NoNode => \A z \in Leaves : low[z] <= low[x]
         /\ LeftOf(x) = NoNode <=> x = m_firstLeafID
         /\ LeftOf(x) # NoNode => LeftOf(x) \in Leaves /\ RightOf(LeftOf(x)) = x
         /\ x = m_firstLeafID <=> low[x] = -1
<1>1. /\ Shape(m_nodes, Live, m_rootID, low, level, NoNode)
      /\ EndsOf(m_nodes, Live, m_firstLeafID, m_lastLeafID, low, level)
  BY DEF IdleTree
<1>2. /\ \A z \in Live : z \in Leaves <=> level[z] = 0
      /\ \A z \in Live : z # NoNode /\ low[z] \in Int
  <2>1. \A z \in Live : z \in Leaves <=> level[z] = 0
    BY <1>1, LeavesAreAtTheBottom DEF Leaves
  <2>2. \A z \in Live : z # NoNode /\ low[z] \in Int
    BY <1>1, NodesAreNotNone DEF Shape, Ghosts
  <2> QED
    BY <2>1, <2>2
<1>3. /\ LeftLinks(m_nodes, Live, low, level) /\ RightLinks(m_nodes, Live, low, level)
      /\ LowsDiffer(Live, low, level) /\ RootOnTop(m_nodes, Live, m_rootID, low, level, NoNode)
  BY <1>1 DEF Shape
<1>4. x \in Live /\ level[x] = 0 /\ \A z \in Leaves : z \in Live /\ level[z] = 0
  BY <1>2 DEF Leaves
<1>5. x = m_firstLeafID <=> low[x] = -1
  BY <1>1, <1>3, <1>4 DEF LowsDiffer, EndsOf
<1>6. LeftOf(x) = NoNode <=> x = m_firstLeafID
  BY <1>3, <1>4, <1>5 DEF LeftLinks, LeftOf
<1>7. RightOf(x) = NoNode => \A z \in Leaves : low[z] <= low[x]
  BY <1>3, <1>4 DEF RightLinks, RightOf
<1>8. RightOf(x) # NoNode =>
              /\ RightOf(x) \in Leaves /\ LeftOf(RightOf(x)) = x /\ low[x] < low[RightOf(x)]
              /\ \A z \in Leaves : low[z] <= low[x] \/ low[RightOf(x)] <= low[z]
  BY <1>2, <1>3, <1>4 DEF RightLinks, RightOf, LeftOf
<1>9. RightOf(x) = NoNode <=> x = m_lastLeafID
  <2>1. m_lastLeafID \in Leaves /\ RightOf(m_lastLeafID) = NoNode
    BY <1>1, <1>2 DEF EndsOf, RightOf
  <2>2. ASSUME RightOf(x) = NoNode PROVE x = m_lastLeafID
    <3>1. low[m_lastLeafID] <= low[x]
      BY <1>7, <2>1, <2>2
    <3>2. low[x] <= low[m_lastLeafID]
      BY <1>3, <1>4, <2>1 DEF RightLinks, RightOf
    <3>3. low[x] = low[m_lastLeafID]
      BY <1>2, <1>4, <2>1, <3>1, <3>2
    <3> QED
      BY <1>3, <1>4, <2>1, <3>3 DEF LowsDiffer
  <2> QED
    BY <2>1, <2>2
<1>10. LeftOf(x) # NoNode => LeftOf(x) \in Leaves /\ RightOf(LeftOf(x)) = x
  <2> SUFFICES ASSUME LeftOf(x) # NoNode PROVE LeftOf(x) \in Leaves /\ RightOf(LeftOf(x)) = x
    OBVIOUS
  <2>1. LeftOf(x) \in Live /\ RightOf(LeftOf(x)) = x /\ level[LeftOf(x)] = level[x]
    BY <1>1, <1>4, LeftSibling DEF LeftOf, RightOf
  <2> QED
    BY <1>2, <1>4, <2>1
<1>11. ASSUME RightOf(x) # NoNode PROVE x # m_rootID /\ RightOf(x) # m_rootID
  <2>1. /\ RightOf(x) \in Live /\ RightOf(x) # x /\ level[RightOf(x)] = level[x]
        /\ RightOf(x) # NoNode
    BY <1>2, <1>4, <1>8, <1>11 DEF Leaves
  <2>2. level[m_rootID] \in Nat /\ m_rootID \in Live
    BY <1>1 DEF Shape, Ghosts, RootOnTop
  <2> QED
    BY <1>2, <1>3, <1>4, <2>1, <2>2 DEF RootOnTop
<1>12. RightOf(x) # NoNode => m_nodes[RightOf(x)].page # {} /\ m_nodes[x].page # {}
  BY <1>8, <1>11, LeafFacts
<1> QED
  BY <1>5, <1>6, <1>7, <1>8, <1>9, <1>10, <1>12

-----------------------------------------------------------------------------
(***************************************************************************)
(* Iterators. The tuples still ahead of one are a tail of those stored: it *)
(* begins with the tuple that is pointed to, and operator++ and operator-- *)
(* move from one tail to the next.                                         *)
(***************************************************************************)
\* the tuples that are left to a walk through the leaves
IsTail(U) == U \subseteq Stored /\ \A t \in U : \A u \in Stored : t <= u => u \in U

\* an iterator that points to the first tuple of a tail
PointsTo(it, x, t) == Holds(x, t) /\ it = Iterator(x, {LeafTuple(t)})
Points(it, U) ==
  \/ U = {} /\ it = end
  \/ \E t \in U : (\A u \in U : t <= u) /\ \E x : PointsTo(it, x, t)

\* what is pointed to
LEMMA PointedTo ==
  ASSUME NEW low, NEW level, IdleTree(low, level), NEW it, NEW x, NEW t, PointsTo(it, x, t)
  PROVE  /\ it # end /\ it.leaf = x /\ it.at = {LeafTuple(t)} /\ The(it.at).key = t /\ it.at # PageEnd
         /\ FirstOf(it.at) = it.at
<1>1. it = [leaf |-> x, at |-> {LeafTuple(t)}]
  BY DEF PointsTo, Iterator
<1>2. it.leaf = x /\ it.at = {LeafTuple(t)}
  BY <1>1
<1>3. end.at = {} /\ PageEnd = {}
  BY DEF end, Iterator, PageEnd
<1>4. The({LeafTuple(t)}).key = t
  <2>1. The({LeafTuple(t)}) = LeafTuple(t)
    BY TheOne
  <2> QED
    BY <2>1 DEF LeafTuple
<1>5. it # end
  BY <1>2, <1>3
<1>6. FirstOf({LeafTuple(t)}) = {LeafTuple(t)}
  <2>1. ~Before(LeafTuple(t), LeafTuple(t))
    <3>1. t \in Nat
      BY HeldFacts DEF PointsTo
    <3> QED
      BY <3>1 DEF Before, LeafTuple, NoNode
  <2> QED
    BY <2>1 DEF FirstOf
<1> QED
  BY <1>2, <1>3, <1>4, <1>5, <1>6

\* and where it is
LEMMA PointedFacts ==
  ASSUME NEW low, NEW level, IdleTree(low, level), NEW it, NEW x, NEW t, PointsTo(it, x, t)
  PROVE  /\ x \in Leaves /\ x \in Live /\ it.leaf = x /\ it.at = {LeafTuple(t)} /\ it = Iterator(x, it.at)
         /\ LeafTuple(t) \in m_nodes[x].page /\ t \in Nat /\ t \in Stored
         /\ low[x] <= t /\ InRangeOf(Live, low, level, x, t) /\ level[x] = 0 /\ low[x] \in Int
         /\ LeafTuple(t).key = t
<1>1. Holds(x, t) /\ x \in Leaves /\ LeafTuple(t) \in m_nodes[x].page
  BY DEF PointsTo, Holds
<1>2. it.leaf = x /\ it.at = {LeafTuple(t)}
  BY PointedTo
<1>3. it = Iterator(x, it.at)
  BY <1>2 DEF PointsTo
<1>4. t \in Nat /\ t \in Stored /\ low[x] <= t /\ InRangeOf(Live, low, level, x, t)
  BY <1>1, HeldFacts
<1>5. x \in Live /\ level[x] = 0 /\ low[x] \in Int
  BY <1>1, LeafFacts
<1>6. LeafTuple(t).key = t
  BY DEF LeafTuple
<1> QED
  BY <1>1, <1>2, <1>3, <1>4, <1>5, <1>6

\* only one iterator points to a tail
LEMMA PointsToOne ==
  ASSUME NEW low, NEW level, IdleTree(low, level), NEW U, IsTail(U),
         NEW it, Points(it, U), NEW jt, Points(jt, U)
  PROVE  it = jt
<1>1. CASE U = {}
  BY <1>1 DEF Points
<1>2. CASE U # {}
  <2>1. PICK t \in U : (\A u \in U : t <= u) /\ \E x : PointsTo(it, x, t)
    BY <1>2 DEF Points
  <2>2. PICK s \in U : (\A u \in U : s <= u) /\ \E x : PointsTo(jt, x, s)
    BY <1>2 DEF Points
  <2>3. t \in Nat /\ s \in Nat
    BY StoredIsHeld DEF IsTail
  <2>4. t = s
    BY <2>1, <2>2, <2>3
  <2>5. PICK x : PointsTo(it, x, t)
    BY <2>1
  <2>6. PICK y : PointsTo(jt, y, t)
    BY <2>2, <2>4
  <2>7. x = y
    BY <2>5, <2>6, HeldOnce DEF PointsTo
  <2> QED
    BY <2>5, <2>6, <2>7 DEF PointsTo
<1> QED
  BY <1>1, <1>2

\* and to only one tail
LEMMA PointsToOneTail ==
  ASSUME NEW low, NEW level, IdleTree(low, level), NEW U, IsTail(U), NEW V, IsTail(V),
         NEW it, Points(it, U), Points(it, V)
  PROVE  U = V
<1>1. ASSUME NEW W, Points(it, W), W # {}
      PROVE  \E t \in W : (\A u \in W : t <= u) /\ it # end /\ The(it.at).key = t
  BY <1>1, PointedTo DEF Points
<1>2. CASE it = end
  BY <1>1, <1>2
<1>3. CASE it # end
  <2>1. U # {} /\ V # {}
    BY <1>3 DEF Points
  <2>2. PICK t \in U : (\A u \in U : t <= u) /\ The(it.at).key = t
    BY <1>1, <2>1
  <2>3. t \in V /\ \A u \in V : t <= u
    BY <1>1, <2>1, <2>2
  <2> QED
    BY <2>2, <2>3 DEF IsTail
<1> QED
  BY <1>2, <1>3

\* an iterator at the first entry of a leaf that is in the tail, or at the end of the leaf if
\* there is none, is moved to the next leaf in that case
LEMMA NormalisePoints ==
  ASSUME NEW low, NEW level, IdleTree(low, level), NEW x \in Leaves, NEW U, IsTail(U),
         \A t \in U : low[x] <= t,
         RightOf(x) # NoNode => \A e \in m_nodes[RightOf(x)].page : e.key \in U
  PROVE  Points(Normalise(Iterator(x, FirstOf({e \in m_nodes[x].page : e.key \in U}))), U)
<1> DEFINE S == {e \in m_nodes[x].page : e.key \in U}
<1>1. PageOf(m_nodes[x].page) /\ low[x] \in Int /\ x \in Live /\ level[x] = 0
  BY LeafFacts
<1>2. ASSUME NEW u \in U
      PROVE  /\ u \in Nat
             /\ \E z : Holds(z, u) /\ low[z] \in Int /\ low[z] <= u
                       /\ (z = x \/ low[x] < low[z]) /\ z \in Leaves /\ z \in Live /\ level[z] = 0
  <2>1. u \in Stored
    BY DEF IsTail
  <2>2. u \in Nat
    BY <2>1, StoredIsHeld
  <2>3. PICK z : Holds(z, u)
    BY <2>1, StoredIsHeld
  <2>4. z \in Leaves /\ low[z] \in Int /\ low[z] <= u /\ InRangeOf(Live, low, level, z, u)
        /\ z \in Live /\ level[z] = 0
    BY <2>3, HeldFacts, LeafFacts DEF Holds
  <2>5. low[x] <= u
    OBVIOUS
  <2>6. ~(low[z] < low[x])
    BY <1>1, <2>2, <2>4, <2>5 DEF InRangeOf
  <2>7. low[z] = low[x] => z = x
    BY <1>1, <2>4 DEF IdleTree, Shape, LowsDiffer
  <2> QED
    BY <1>1, <2>2, <2>3, <2>4, <2>6, <2>7
<1>3. CASE S # {}
  <2>1. PageOf(S)
    <3>1. S \subseteq m_nodes[x].page
      OBVIOUS
    <3> QED
      BY <1>1, <3>1, PageParts
  <2> HIDE DEF S
  <2>2. PICK e \in S : FirstOf(S) = {e} /\ \A f \in S : f # e => e.key < f.key
    BY <1>3, <2>1, SmallestOfPage
  <2>3. e.key \in U /\ e \in m_nodes[x].page /\ e = LeafTuple(e.key) /\ e.key \in Nat
        /\ InRangeOf(Live, low, level, x, e.key)
    BY LeafFacts DEF S
  <2>4. ASSUME NEW u \in U PROVE e.key <= u
    <3>1. PICK z : Holds(z, u) /\ low[z] \in Int /\ low[z] <= u
                   /\ (z = x \/ low[x] < low[z]) /\ z \in Live /\ level[z] = 0
      BY <1>2
    <3>2. CASE z = x
      <4>1. LeafTuple(u) \in S /\ LeafTuple(u).key = u
        BY <3>1, <3>2 DEF Holds, LeafTuple, S
      <4> QED
        BY <1>2, <2>2, <2>3, <4>1
    <3>3. CASE low[x] < low[z]
      <4>1. e.key < low[z]
        BY <1>1, <2>3, <3>1, <3>3 DEF InRangeOf
      <4> QED
        BY <1>2, <2>3, <3>1, <4>1
    <3> QED
      BY <3>1, <3>2, <3>3
  <2>5. Normalise(Iterator(x, FirstOf(S))) = Iterator(x, {e})
    BY <2>2 DEF Normalise, PageEnd, Iterator
  <2>6. PointsTo(Iterator(x, {e}), x, e.key)
    BY <2>3 DEF PointsTo, Holds
  <2> QED
    BY <2>3, <2>4, <2>5, <2>6 DEF Points, S
<1>4. CASE S = {} /\ RightOf(x) = NoNode
  <2>1. x = m_lastLeafID /\ \A z \in Leaves : low[z] <= low[x]
    BY <1>4, NextLeaf
  <2>2. Normalise(Iterator(x, FirstOf(S))) = end
    <3>1. FirstOf(S) = {}
      BY <1>4 DEF FirstOf
    <3> QED
      BY <1>4, <2>1, <3>1 DEF Normalise, PageEnd, Iterator, end
  <2>3. U = {}
    <3> SUFFICES ASSUME NEW u \in U PROVE FALSE
      OBVIOUS
    <3>1. PICK z : Holds(z, u) /\ low[z] \in Int
                   /\ (z = x \/ low[x] < low[z]) /\ z \in Leaves
      BY <1>2
    <3>2. z = x
      BY <1>1, <2>1, <3>1
    <3>3. LeafTuple(u) \in S
      BY <3>1, <3>2 DEF Holds, LeafTuple
    <3> QED
      BY <1>4, <3>3
  <2> QED
    BY <2>2, <2>3 DEF Points
<1>5. CASE S = {} /\ RightOf(x) # NoNode
  <2> DEFINE r == RightOf(x)
  <2>1. /\ r \in Leaves /\ low[x] < low[r] /\ m_nodes[r].page # {}
        /\ \A z \in Leaves : low[z] <= low[x] \/ low[r] <= low[z]
    BY <1>5, NextLeaf
  <2>2. r \in Live /\ level[r] = 0 /\ low[r] \in Int /\ PageOf(m_nodes[r].page)
    BY <2>1, LeafFacts
  <2>3. Normalise(Iterator(x, FirstOf(S))) = Iterator(r, FirstOf(m_nodes[r].page))
    <3>1. FirstOf(S) = {}
      BY <1>5 DEF FirstOf
    <3> QED
      BY <1>5, <3>1 DEF Normalise, PageEnd, Iterator, PageBegin
  <2>10. \A f \in m_nodes[r].page : f.key \in U
    BY <1>5
  <2> HIDE DEF r
  <2>4. PICK e \in m_nodes[r].page : FirstOf(m_nodes[r].page) = {e}
                                      /\ \A f \in m_nodes[r].page : f # e => e.key < f.key
    BY <2>1, <2>2, SmallestOfPage
  <2>5. e.key \in U /\ e = LeafTuple(e.key) /\ e.key \in Nat /\ InRangeOf(Live, low, level, r, e.key)
    BY <2>1, <2>10, LeafFacts
  <2>6. ASSUME NEW u \in U PROVE e.key <= u
    <3>1. PICK z : Holds(z, u) /\ low[z] \in Int /\ low[z] <= u
                   /\ (z = x \/ low[x] < low[z]) /\ z \in Leaves /\ z \in Live /\ level[z] = 0
      BY <1>2
    <3>2. z # x
      <4>1. z = x => LeafTuple(u) \in S
        BY <3>1 DEF Holds, LeafTuple
      <4> QED
        BY <1>5, <4>1
    <3>3. low[r] <= low[z]
      BY <1>1, <2>1, <3>1, <3>2
    <3>4. CASE z = r
      <4>1. LeafTuple(u) \in m_nodes[r].page /\ LeafTuple(u).key = u
        BY <3>1, <3>4 DEF Holds, LeafTuple
      <4> QED
        BY <1>2, <2>4, <2>5, <4>1
    <3>5. CASE z # r
      <4>1. low[z] # low[r]
        BY <2>2, <3>1, <3>5 DEF IdleTree, Shape, LowsDiffer
      <4>2. e.key < low[z]
        BY <2>2, <2>5, <3>1, <3>3, <4>1 DEF InRangeOf
      <4> QED
        BY <1>2, <2>5, <3>1, <4>2
    <3> QED
      BY <3>4, <3>5
  <2>7. PointsTo(Iterator(r, {e}), r, e.key)
    BY <2>1, <2>5 DEF PointsTo, Holds
  <2> QED
    BY <2>3, <2>4, <2>5, <2>6, <2>7 DEF Points
<1> QED
  BY <1>3, <1>4, <1>5

\* all tuples are a tail, and so is none
LEMMA WholeTails == IsTail(Stored) /\ IsTail({})
BY DEF IsTail

\* begin() points to the first tuple
LEMMA BeginPoints ==
  ASSUME NEW low, NEW level, IdleTree(low, level)
  PROVE  Points(begin, Stored) /\ m_firstLeafID \in Leaves
<1> DEFINE x == m_firstLeafID
           P == m_nodes[x].page
<1>1. x \in Leaves
  BY LeavesAreAtTheBottom DEF IdleTree, EndsOf, Leaves
<1>2. low[x] = -1 /\ PageOf(P)
  BY <1>1, NextLeaf, LeafFacts
<1>3. P = {e \in P : e.key \in Stored}
  BY <1>1, LeafFacts
<1>4. begin = Iterator(x, FirstOf(P))
  BY DEF begin, PageBegin
<1>5. \A t \in Stored : low[x] <= t
  <2> SUFFICES ASSUME NEW t \in Stored PROVE low[x] <= t
    OBVIOUS
  <2>1. t \in Nat
    BY StoredIsHeld
  <2> QED
    BY <1>2, <2>1
<1>6. RightOf(x) # NoNode => \A e \in m_nodes[RightOf(x)].page : e.key \in Stored
  <2> SUFFICES ASSUME RightOf(x) # NoNode, NEW e \in m_nodes[RightOf(x)].page PROVE e.key \in Stored
    OBVIOUS
  <2>1. RightOf(x) \in Leaves
    BY <1>1, NextLeaf
  <2> QED
    BY <2>1, LeafFacts
<1>7. Normalise(begin) = begin
  <2>1. CASE RightOf(x) = NoNode
    BY <1>4, <2>1 DEF Normalise, Iterator
  <2>2. CASE P # {}
    <3> HIDE DEF P
    <3>1. PICK e \in P : FirstOf(P) = {e}
      BY <1>2, <2>2, SmallestOfPage
    <3> QED
      BY <1>4, <3>1 DEF Normalise, Iterator, PageEnd
  <2>3. RightOf(x) # NoNode => P # {}
    BY <1>1, NextLeaf
  <2> QED
    BY <2>1, <2>2, <2>3
<1>8. Points(Normalise(Iterator(x, FirstOf({e \in P : e.key \in Stored}))), Stored)
  BY <1>1, <1>5, <1>6, WholeTails, NormalisePoints
<1> QED
  BY <1>1, <1>3, <1>4, <1>7, <1>8

\* end() points to no tuple
LEMMA EndPoints == Points(end, {})
BY DEF Points

\* and an increment leaves it there
LEMMA EndStays ==
  ASSUME NEW low, NEW level, IdleTree(low, level)
  PROVE  Increment(end) = end /\ m_lastLeafID \in Leaves
<1>1. m_lastLeafID \in Leaves
  BY LeavesAreAtTheBottom DEF IdleTree, EndsOf, Leaves
<1>2. RightOf(m_lastLeafID) = NoNode
  BY <1>1, NextLeaf
<1>3. end.leaf = m_lastLeafID /\ end.at = {}
  BY DEF end, Iterator, PageEnd
<1>4. FirstOf({e \in m_nodes[end.leaf].page : \E f \in end.at : f.key < e.key}) = {}
  <2>1. {e \in m_nodes[end.leaf].page : \E f \in end.at : f.key < e.key} = {}
    BY <1>3
  <2> QED
    BY <2>1 DEF FirstOf
<1>5. Increment(end) = Normalise(Iterator(m_lastLeafID, {}))
  BY <1>3, <1>4 DEF Increment
<1> QED
  BY <1>1, <1>2, <1>5 DEF Normalise, Iterator, end, PageEnd

\* an increment takes the first tuple from the tail
LEMMA IncrementPoints ==
  ASSUME NEW low, NEW level, IdleTree(low, level), NEW U, IsTail(U),
         NEW t \in U, \A u \in U : t <= u, NEW it, Points(it, U)
  PROVE  IsTail(U \ {t}) /\ Points(Increment(it), U \ {t})
<1>1. t \in Nat /\ \A u \in Stored : u \in Nat
  BY StoredIsHeld DEF IsTail
<1>2. IsTail(U \ {t})
  BY <1>1 DEF IsTail
<1>3. PICK x : PointsTo(it, x, t)
  <2>1. PICK s \in U : (\A u \in U : s <= u) /\ \E x : PointsTo(it, x, s)
    BY DEF Points
  <2>2. s = t
    BY <1>1, <2>1 DEF IsTail
  <2> QED
    BY <2>1, <2>2
<1>4. x \in Leaves /\ it.leaf = x /\ it.at = {LeafTuple(t)} /\ low[x] <= t /\ InRangeOf(Live, low, level, x, t)
      /\ level[x] = 0 /\ low[x] \in Int
  BY <1>3, PointedFacts
<1>5. {e \in m_nodes[x].page : \E f \in {LeafTuple(t)} : f.key < e.key}
        = {e \in m_nodes[x].page : e.key \in U \ {t}}
  <2> SUFFICES ASSUME NEW e \in m_nodes[x].page PROVE t < e.key <=> e.key \in U \ {t}
    BY DEF LeafTuple
  <2>1. e.key \in Stored /\ e.key \in Nat
    BY <1>4, LeafFacts
  <2> QED
    BY <1>1, <2>1 DEF IsTail
<1>6. Increment(it) = Normalise(Iterator(x, FirstOf({e \in m_nodes[x].page : e.key \in U \ {t}})))
  BY <1>4, <1>5 DEF Increment
<1>7. \A u \in U \ {t} : low[x] <= u
  BY <1>1, <1>4 DEF IsTail
<1>8. RightOf(x) # NoNode => \A e \in m_nodes[RightOf(x)].page : e.key \in U \ {t}
  <2> SUFFICES ASSUME RightOf(x) # NoNode, NEW e \in m_nodes[RightOf(x)].page
               PROVE  e.key \in U \ {t}
    OBVIOUS
  <2>1. RightOf(x) \in Leaves /\ low[x] < low[RightOf(x)]
    BY <1>4, NextLeaf
  <2>2. e.key \in Stored /\ e.key \in Nat /\ low[RightOf(x)] <= e.key /\ RightOf(x) \in Live
        /\ level[RightOf(x)] = 0 /\ low[RightOf(x)] \in Int
    BY <2>1, LeafFacts
  <2>3. t < low[RightOf(x)]
    BY <1>4, <2>1, <2>2 DEF InRangeOf
  <2> QED
    BY <1>1, <2>2, <2>3 DEF IsTail
<1>9. Points(Increment(it), U \ {t})
  BY <1>2, <1>4, <1>6, <1>7, <1>8, NormalisePoints
<1> QED
  BY <1>2, <1>9

\* the leaf a tail begins in, and what comes before the tail there
LEMMA TailBegins ==
  ASSUME NEW low, NEW level, IdleTree(low, level), NEW U, IsTail(U), NEW it, Points(it, U)
  PROVE  \E x \in Leaves :
           /\ it = Iterator(x, it.at) /\ it.leaf = x
           /\ {e \in m_nodes[x].page : \A f \in it.at : e.key < f.key}
                = {e \in m_nodes[x].page : e.key \notin U}
           /\ it.at = FirstOf({e \in m_nodes[x].page : e.key \in U})
           /\ \A z \in Leaves, s \in Stored : low[x] < low[z] /\ Holds(z, s) => s \in U
           /\ \A u \in U : low[x] <= u
<1>1. \A u \in Stored : u \in Nat
  BY StoredIsHeld
<1>2. CASE U = {}
  <2> DEFINE x == m_lastLeafID
  <2>1. x \in Leaves /\ it = Iterator(x, {}) /\ it.at = {} /\ it.leaf = x
    BY <1>2, EndStays DEF Points, end, Iterator, PageEnd
  <2>2. \A z \in Leaves : low[z] <= low[x] /\ low[z] \in Int
    BY <2>1, NextLeaf, LeafFacts
  <2>3. FirstOf({e \in m_nodes[x].page : e.key \in U}) = {}
    BY <1>2 DEF FirstOf
  <2>4. \A z \in Leaves, s \in Stored : low[x] < low[z] /\ Holds(z, s) => s \in U
    <3> HIDE DEF x
    <3> QED
      BY <2>1, <2>2
  <2> QED
    BY <1>2, <2>1, <2>3, <2>4
<1>3. CASE U # {}
  <2>1. PICK t \in U : (\A u \in U : t <= u) /\ \E x : PointsTo(it, x, t)
    BY <1>3 DEF Points
  <2>2. PICK x : PointsTo(it, x, t)
    BY <2>1
  <2>3. /\ x \in Leaves /\ it.leaf = x /\ it.at = {LeafTuple(t)} /\ it = Iterator(x, it.at)
        /\ LeafTuple(t) \in m_nodes[x].page /\ t \in Nat /\ t \in Stored
        /\ low[x] <= t /\ InRangeOf(Live, low, level, x, t) /\ level[x] = 0 /\ low[x] \in Int
        /\ LeafTuple(t).key = t
    BY <2>2, PointedFacts
  <2>4. \A e \in m_nodes[x].page : /\ e.key \in Nat /\ e.key \in Stored /\ e = LeafTuple(e.key)
                                   /\ (e.key < t <=> e.key \notin U)
    <3>1. \A e \in m_nodes[x].page : e.key \in Nat /\ e.key \in Stored /\ e = LeafTuple(e.key)
      BY <2>3, LeafFacts
    <3> QED
      BY <2>1, <2>3, <3>1 DEF IsTail
  <2>5. {e \in m_nodes[x].page : \A f \in it.at : e.key < f.key}
                = {e \in m_nodes[x].page : e.key \notin U}
    BY <2>3, <2>4
  <2>6. it.at = FirstOf({e \in m_nodes[x].page : e.key \in U})
    <3> DEFINE S == {e \in m_nodes[x].page : e.key \in U}
    <3>1. LeafTuple(t) \in S /\ \A e \in S : LeafTuple(t).key <= e.key
      BY <2>1, <2>3
    <3>2. PageOf(m_nodes[x].page) /\ S \subseteq m_nodes[x].page
      BY <2>3, LeafFacts
    <3> HIDE DEF S
    <3>3. PageOf(S)
      BY <3>2, PageParts
    <3>4. PICK e \in S : FirstOf(S) = {e} /\ \A f \in S : f # e => e.key < f.key
      BY <3>1, <3>3, SmallestOfPage
    <3>5. e.key \in Nat
      BY <2>4, <3>2, <3>4
    <3>6. e = LeafTuple(t)
      BY <2>3, <3>1, <3>4, <3>5
    <3> QED
      BY <2>3, <3>4, <3>6 DEF S
  <2>7. \A z \in Leaves, s \in Stored : low[x] < low[z] /\ Holds(z, s) => s \in U
    <3> SUFFICES ASSUME NEW z \in Leaves, NEW s \in Stored, low[x] < low[z], Holds(z, s) PROVE s \in U
      OBVIOUS
    <3>1. s \in Nat /\ low[z] <= s /\ z \in Live /\ level[z] = 0 /\ low[z] \in Int
      BY HeldFacts, LeafFacts
    <3>2. t < low[z]
      BY <2>3, <3>1 DEF InRangeOf
    <3> QED
      BY <2>3, <3>1, <3>2 DEF IsTail
  <2>8. \A u \in U : low[x] <= u
    <3> SUFFICES ASSUME NEW u \in U PROVE low[x] <= u
      OBVIOUS
    <3>1. u \in Nat /\ t <= u
      BY <1>1, <2>1 DEF IsTail
    <3> QED
      BY <2>3, <3>1
  <2> QED
    BY <2>3, <2>5, <2>6, <2>7, <2>8
<1> QED
  BY <1>2, <1>3

\* a decrement adds the last of those before it
LEMMA DecrementPoints ==
  ASSUME NEW low, NEW level, IdleTree(low, level), NEW U, IsTail(U), U # Stored,
         NEW it, Points(it, U)
  PROVE  \E t \in Stored \ U : /\ \A s \in Stored \ U : s <= t
                               /\ IsTail(U \cup {t}) /\ Points(Decrement(it), U \cup {t})
                               /\ Decrement(it) # it
<1>1. \A u \in Stored : u \in Nat
  BY StoredIsHeld
<1>2. PICK x \in Leaves :
           /\ it = Iterator(x, it.at) /\ it.leaf = x
           /\ {e \in m_nodes[x].page : \A f \in it.at : e.key < f.key}
                = {e \in m_nodes[x].page : e.key \notin U}
           /\ it.at = FirstOf({e \in m_nodes[x].page : e.key \in U})
           /\ \A z \in Leaves, s \in Stored : low[x] < low[z] /\ Holds(z, s) => s \in U
           /\ \A u \in U : low[x] <= u
  BY TailBegins
<1> DEFINE P == m_nodes[x].page
           B == {e \in P : e.key \notin U}
           l == LeftOf(x)
<1>3. /\ PageOf(P) /\ low[x] \in Int /\ level[x] = 0 /\ x \in Live
      /\ \A e \in P : e.key \in Nat /\ e = LeafTuple(e.key) /\ e.key \in Stored /\ low[x] <= e.key
  BY LeafFacts
<1>4. ASSUME NEW s \in Stored \ U
      PROVE  \E z \in Leaves : Holds(z, s) /\ ((z = x /\ LeafTuple(s) \in B) \/ low[z] < low[x])
  <2>1. PICK z : Holds(z, s)
    BY StoredIsHeld
  <2>2. z \in Leaves /\ low[z] \in Int /\ z \in Live /\ level[z] = 0
    BY <2>1, LeafFacts DEF Holds
  <2>3. ~(low[x] < low[z])
    BY <1>2, <2>1, <2>2
  <2>4. low[x] = low[z] => x = z
    BY <1>3, <2>2 DEF IdleTree, Shape, LowsDiffer
  <2>5. x = z => LeafTuple(s) \in B
    BY <2>1 DEF Holds, LeafTuple
  <2> QED
    BY <1>3, <2>1, <2>2, <2>3, <2>4, <2>5
<1>5. ASSUME NEW y \in Leaves, NEW e \in m_nodes[y].page, e.key \notin U,
             \A s \in Stored \ U : s <= e.key, Decrement(it) = Iterator(y, {e})
      PROVE  \E t \in Stored \ U : /\ \A s \in Stored \ U : s <= t
                               /\ IsTail(U \cup {t}) /\ Points(Decrement(it), U \cup {t})
                               /\ Decrement(it) # it
  <2> DEFINE t == e.key
  <2>1. e = LeafTuple(t) /\ t \in Stored /\ t \in Nat
    BY LeafFacts
  <2>2. Holds(y, t)
    BY <2>1 DEF Holds
  <2>3. PointsTo(Decrement(it), y, t)
    BY <1>5, <2>1, <2>2 DEF PointsTo
  <2> t \notin U /\ \A s \in Stored \ U : s <= t
    BY <1>5
  <2> HIDE DEF t
  <2>4. IsTail(U \cup {t})
    BY <1>1, <2>1 DEF IsTail
  <2>5. \A u \in U : t <= u
    BY <1>1, <2>1 DEF IsTail
  <2>6. Points(Decrement(it), U \cup {t})
    BY <2>1, <2>3, <2>5 DEF Points
  <2>7. Decrement(it) # it
    BY <2>4, <2>6, PointsToOneTail
  <2> QED
    BY <2>1, <2>4, <2>6, <2>7
<1>6. CASE B # {}
  <2>1. PageOf(B)
    <3>1. B \subseteq P
      OBVIOUS
    <3> HIDE DEF B
    <3> QED
      BY <1>3, <3>1, PageParts
  <2>2. PICK e \in B : LastOf(B) = {e} /\ \A f \in B : f # e => f.key < e.key
    <3> HIDE DEF B
    <3> QED
      BY <1>6, <2>1, LargestOfPage
  <2>3. it.at # PageBegin(x)
    <3> SUFFICES ASSUME it.at = FirstOf(P) PROVE FALSE
      BY DEF PageBegin
    <3>1. PICK f \in P : FirstOf(P) = {f} /\ \A g \in P : g # f => f.key < g.key
      <4>1. P # {}
        BY <1>6
      <4> HIDE DEF P
      <4> QED
        BY <1>3, <4>1, SmallestOfPage
    <3>2. e.key < f.key /\ e \in P
      BY <1>2, <3>1
    <3> QED
      BY <1>3, <3>1, <3>2
  <2>4. Decrement(it) = Iterator(x, {e})
    <3>1. {g \in P : \A f \in it.at : g.key < f.key} = B
      BY <1>2
    <3> QED
      BY <1>2, <2>2, <2>3, <3>1 DEF Decrement
  <2>5. \A s \in Stored \ U : s <= e.key
    <3> SUFFICES ASSUME NEW s \in Stored \ U PROVE s <= e.key
      OBVIOUS
    <3>1. PICK z \in Leaves : Holds(z, s) /\ ((z = x /\ LeafTuple(s) \in B) \/ low[z] < low[x])
      BY <1>4
    <3>2. e.key \in Nat /\ s \in Nat /\ low[x] <= e.key
      BY <1>1, <1>3
    <3>3. LeafTuple(s).key = s
      BY DEF LeafTuple
    <3>4. low[z] < low[x] => s < low[x]
      <4>1. InRangeOf(Live, low, level, z, s) /\ level[z] = 0
        BY <3>1, HeldFacts, LeafFacts
      <4> QED
        BY <1>3, <4>1 DEF InRangeOf
    <3> QED
      BY <1>3, <2>2, <3>1, <3>2, <3>3, <3>4
  <2> QED
    BY <1>5, <2>2, <2>4, <2>5
<1>7. CASE B = {}
  <2>1. it.at = PageBegin(x)
    <3>1. {e \in P : e.key \in U} = P
      BY <1>7
    <3> QED
      BY <1>2, <3>1 DEF PageBegin
  <2>2. l # NoNode
    <3> SUFFICES ASSUME l = NoNode PROVE FALSE
      OBVIOUS
    <3>1. low[x] = -1
      BY NextLeaf
    <3>2. PICK s \in Stored \ U : TRUE
      BY DEF IsTail
    <3>3. PICK z \in Leaves : low[z] < low[x]
      BY <1>4, <1>7, <3>2
    <3>4. low[z] \in Int /\ low[z] >= -1
      BY LeafFacts
    <3> QED
      BY <3>1, <3>3, <3>4
  <2>3. l \in Leaves /\ RightOf(l) = x /\ x # NoNode
    BY <1>3, <2>2, NextLeaf, NodesAreNotNone, LeafFacts
  <2>4. /\ low[l] < low[x] /\ m_nodes[l].page # {} /\ PageOf(m_nodes[l].page) /\ low[l] \in Int
        /\ \A z \in Leaves : low[z] <= low[l] \/ low[x] <= low[z]
        /\ l \in Live /\ level[l] = 0
    BY <2>3, NextLeaf, LeafFacts
  <2> HIDE DEF l
  <2>5. PICK e \in m_nodes[l].page : LastOf(m_nodes[l].page) = {e}
                                      /\ \A f \in m_nodes[l].page : f # e => f.key < e.key
    BY <2>4, LargestOfPage
  <2>6. PICK g \in m_nodes[l].page : FirstOf(m_nodes[l].page) = {g}
    BY <2>4, SmallestOfPage
  <2>7. Decrement(it) = Iterator(l, {e})
    <3>1. {f \in m_nodes[l].page : \A h \in PageEnd : f.key < h.key} = m_nodes[l].page
      BY DEF PageEnd
    <3>2. PageEnd # PageBegin(l)
      BY <2>6 DEF PageEnd, PageBegin
    <3>3. LeftOf(it.leaf) = l /\ it.at = PageBegin(it.leaf)
      BY <1>2, <2>1 DEF l
    <3>4. Iterator(l, PageEnd).leaf = l /\ Iterator(l, PageEnd).at = PageEnd
      BY DEF Iterator
    <3> QED
      BY <2>2, <2>5, <3>1, <3>2, <3>3, <3>4 DEF Decrement, l
  <2>8. /\ e.key \in Nat /\ low[l] <= e.key /\ e.key < low[x] /\ e.key \in Stored
    <3>1. e.key \in Nat /\ low[l] <= e.key /\ InRangeOf(Live, low, level, l, e.key) /\ e.key \in Stored
      BY <2>3, LeafFacts
    <3> QED
      BY <1>3, <2>4, <3>1 DEF InRangeOf
  <2>9. e.key \notin U
    BY <1>2, <1>3, <2>8
  <2>10. \A s \in Stored \ U : s <= e.key
    <3> SUFFICES ASSUME NEW s \in Stored \ U PROVE s <= e.key
      OBVIOUS
    <3>1. PICK z \in Leaves : Holds(z, s) /\ low[z] < low[x]
      BY <1>4, <1>7
    <3>2. s \in Nat /\ low[z] \in Int /\ InRangeOf(Live, low, level, z, s) /\ z \in Live /\ level[z] = 0
      BY <1>1, <3>1, HeldFacts, LeafFacts
    <3>3. low[z] <= low[l]
      BY <1>3, <2>4, <3>1, <3>2
    <3>4. CASE z = l
      <4>1. LeafTuple(s) \in m_nodes[l].page /\ LeafTuple(s).key = s
        BY <3>1, <3>4 DEF Holds, LeafTuple
      <4> QED
        BY <2>5, <2>8, <3>2, <4>1
    <3>5. CASE z # l
      <4>1. low[z] # low[l]
        BY <2>4, <3>2, <3>5 DEF IdleTree, Shape, LowsDiffer
      <4>2. s < low[l]
        BY <2>4, <3>2, <3>3, <4>1 DEF InRangeOf
      <4> QED
        BY <2>4, <2>8, <3>2, <4>2
    <3> QED
      BY <3>4, <3>5
  <2> QED
    BY <1>5, <2>3, <2>7, <2>9, <2>10
<1> QED
  BY <1>6, <1>7

\* there is nothing before the first tuple
LEMMA BeginStays ==
  ASSUME NEW low, NEW level, IdleTree(low, level), NEW it, Points(it, Stored)
  PROVE  Decrement(it) = it
<1>1. it = begin
  BY BeginPoints, WholeTails, PointsToOne
<1>2. LeftOf(m_firstLeafID) = NoNode
  BY BeginPoints, NextLeaf
<1>3. begin.leaf = m_firstLeafID /\ begin.at = PageBegin(m_firstLeafID)
  BY DEF begin, Iterator
<1> QED
  BY <1>1, <1>2, <1>3 DEF Decrement

-----------------------------------------------------------------------------
(***************************************************************************)
(* The walk down to a leaf. There are no more levels than nodes, so it has *)
(* arrived after MaxNodes steps.                                           *)
(***************************************************************************)
\* keys to the left of hi, and those to the right of the branch from lo
Between(low, level, x, lo, hi) == low[x] < hi /\ InRangeOf(Live, low, level, x, lo - 1)

\* a search that passes keys below hi and stops at keys from lo
Passes(x, before, lo, hi) ==
  /\ before \subseteq m_nodes[x].page
  /\ \A e \in before : e.key < hi
  /\ \A e \in m_nodes[x].page \ before : lo <= e.key

\* the child that such a search goes to
LEMMA SearchStep ==
  ASSUME NEW low, NEW level, IdleTree(low, level), NEW b \in Live, HasChildren(m_nodes, b),
         NEW lo \in Nat, NEW hi \in Nat, Between(low, level, b, lo, hi),
         NEW before, Passes(b, before, lo, hi)
  PROVE  LET c == LeftChildOf(m_nodes, b, before)
         IN  c \in Live /\ level[c] + 1 = level[b] /\ Between(low, level, c, lo, hi)
<1> DEFINE f == m_nodes[b].firstChildID
           c == LeftChildOf(m_nodes, b, before)
<1>1. /\ Shape(m_nodes, Live, m_rootID, low, level, NoNode)
      /\ \A z \in Live : low[z] \in Int /\ level[z] \in Nat
      /\ PageOf(m_nodes[b].page)
  BY PagesAreOrdered DEF IdleTree, Shape, Ghosts
<1>2. f # NoNode /\ level[b] > 0
  <2>1. f # NoNode
    BY DEF HasChildren
  <2> QED
    BY <1>1, <2>1 DEF Shape, RootOnTop
<1>3. f \in Live /\ m_nodes[f].parentID = b /\ low[f] = low[b] /\ level[b] = level[f] + 1
  BY <1>1, <1>2 DEF Shape, ChildrenKnow
<1>4. \A e \in m_nodes[b].page : e.key \in Nat
  BY <1>1, <1>2, EntriesOfBranch DEF IndexesChild
<1>5. lo - 1 \in Int /\ InRangeOf(Live, low, level, b, lo - 1)
  BY DEF Between
<1>6. ASSUME IsChildOf(m_nodes, Live, low, level, c, b), low[c] < hi,
             \A e \in m_nodes[b].page : low[c] < e.key => lo <= e.key
      PROVE  c \in Live /\ level[c] + 1 = level[b] /\ Between(low, level, c, lo, hi)
  <2> HIDE DEF c
  <2>1. \A e \in m_nodes[b].page : low[c] < e.key => lo - 1 < e.key
    BY <1>4, <1>6
  <2>2. InRangeOf(Live, low, level, c, lo - 1)
    BY <1>1, <1>5, <1>6, <2>1, RangeOfChild
  <2> QED
    BY <1>6, <2>2 DEF Between, IsChildOf
<1>7. CASE before = {}
  <2>1. LastOf(before) = {}
    BY <1>7 DEF LastOf
  <2>2. c = f
    BY <2>1 DEF LeftChildOf
  <2>3. IsChildOf(m_nodes, Live, low, level, c, b) /\ low[c] < hi
    BY <1>1, <1>3, <2>2 DEF IsChildOf, Between
  <2>4. \A e \in m_nodes[b].page : lo <= e.key
    BY <1>7 DEF Passes
  <2> QED
    BY <1>6, <2>3, <2>4
<1>8. CASE before # {}
  <2>1. PageOf(before)
    BY <1>1, PageParts DEF Passes
  <2>2. PICK e0 \in before : LastOf(before) = {e0} /\ \A g \in before : g # e0 => g.key < e0.key
    BY <1>8, <2>1, LargestOfPage
  <2>3. The(LastOf(before)) = e0 /\ LastOf(before) # {}
    BY <2>2, TheOne
  <2>4. c = e0.child
    BY <2>3 DEF LeftChildOf
  <2>5. e0 \in m_nodes[b].page /\ e0.key < hi
    BY <2>2 DEF Passes
  <2>6. e0.child \in Live /\ e0.key = low[e0.child] /\ level[e0.child] + 1 = level[b] /\ low[b] < e0.key
    BY <1>1, <1>2, <2>5, EntriesOfBranch DEF IndexesChild
  <2>7. m_nodes[e0.child].parentID = b
    BY <1>1, <1>2, <2>5 DEF Shape, ChildrenKnow
  <2>8. IsChildOf(m_nodes, Live, low, level, c, b) /\ low[c] < hi
    BY <1>1, <2>4, <2>5, <2>6, <2>7 DEF IsChildOf
  <2>9. \A e \in m_nodes[b].page : low[c] < e.key => lo <= e.key
    <3> SUFFICES ASSUME NEW e \in m_nodes[b].page, low[c] < e.key PROVE lo <= e.key
      OBVIOUS
    <3>1. e.key \in Nat /\ e0.key \in Nat /\ e0.key < e.key
      BY <1>4, <2>4, <2>5, <2>6
    <3>2. e \notin before
      BY <2>2, <3>1
    <3> QED
      BY <3>2 DEF Passes
  <2> QED
    BY <1>6, <2>8, <2>9
<1> QED
  BY <1>7, <1>8

\* the walk from the root ends in a leaf
LEMMA WalkReachesLeaf ==
  ASSUME NEW low, NEW level, IdleTree(low, level), NEW lo \in Nat, NEW hi \in Nat,
         NEW passed, \A x \in Live : Passes(x, passed[x], lo, hi)
  PROVE  LeafAfter(passed) \in Leaves /\ Between(low, level, LeafAfter(passed), lo, hi)
<1> DEFINE F == [id \in Live |-> IF HasChildren(m_nodes, id)
                                   THEN LeftChildOf(m_nodes, id, passed[id]) ELSE id]
           L == level[m_rootID]
           X == {x \in Live : Between(low, level, x, lo, hi)}
           G == [x \in X |-> F[x]]
           Is(walk) == walk = [d \in 0..MaxNodes |->
               IF d = 0 THEN m_rootID
               ELSE LET id == walk[d - 1]
                    IN  IF HasChildren(m_nodes, id)
                          THEN LeftChildOf(m_nodes, id, passed[id]) ELSE id]
           w == CHOOSE walk : Is(walk)
<1>1. /\ Shape(m_nodes, Live, m_rootID, low, level, NoNode)
      /\ \A z \in Live : low[z] \in Int /\ level[z] \in Nat
      /\ \A z \in Live : HasChildren(m_nodes, z) <=> level[z] # 0
      /\ Live \subseteq NodeIDs /\ MaxNodes \in Nat
  BY LeavesAreAtTheBottom, BoundsAssumption DEF IdleTree, Shape, Ghosts
<1>2. m_rootID \in X /\ L \in Nat
  <2>1. m_rootID \in Live /\ low[m_rootID] = -1 /\ \A z \in Live : level[z] <= L /\ (z # m_rootID => level[z] < L)
    <3>1. \A z \in Live : z # NoNode
      BY <1>1, NodesAreNotNone
    <3> QED
      BY <1>1, <3>1 DEF Shape, RootOnTop
  <2>2. InRangeOf(Live, low, level, m_rootID, lo - 1)
    BY <1>1, <2>1 DEF InRangeOf
  <2> QED
    BY <1>1, <2>1, <2>2 DEF Between
<1>3. ASSUME NEW x \in X
      PROVE  /\ F[x] \in X
             /\ level[x] # 0 => level[F[x]] = level[x] - 1
             /\ level[x] = 0 => F[x] = x
             /\ F[x] = IF HasChildren(m_nodes, x) THEN LeftChildOf(m_nodes, x, passed[x]) ELSE x
  <2>1. x \in Live /\ Between(low, level, x, lo, hi) /\ Passes(x, passed[x], lo, hi)
    OBVIOUS
  <2>2. CASE HasChildren(m_nodes, x)
    <3> DEFINE c == LeftChildOf(m_nodes, x, passed[x])
    <3>1. F[x] = c
      BY <2>1, <2>2
    <3>2. c \in Live /\ level[c] + 1 = level[x] /\ Between(low, level, c, lo, hi)
      BY <2>1, <2>2, SearchStep
    <3> HIDE DEF c, F
    <3> QED
      BY <1>1, <2>1, <2>2, <3>1, <3>2 DEF c
  <2>3. CASE ~HasChildren(m_nodes, x)
    BY <1>1, <2>1, <2>3
  <2> QED
    BY <2>2, <2>3
<1>4. PICK f : Iterates(f, X, G, m_rootID, MaxNodes)
  <2>1. G \in [X -> X]
    BY <1>3
  <2>2. m_rootID \in X /\ MaxNodes \in Nat
    BY <1>1, <1>2
  <2> HIDE DEF G, X, Is, w, L, F
  <2> QED
    BY <2>1, <2>2, IteratesExist
<1>5. Is(f)
  <2>1. ASSUME NEW n \in 0..MaxNodes, n # 0
        PROVE  f[n] = IF HasChildren(m_nodes, f[n - 1])
                        THEN LeftChildOf(m_nodes, f[n - 1], passed[f[n - 1]]) ELSE f[n - 1]
    <3>1. n - 1 \in 0..MaxNodes
      BY <1>1, <2>1
    <3>2. f[n - 1] \in X
      BY <1>4, <3>1 DEF Iterates
    <3>3. f[n] = G[f[n - 1]]
      BY <1>4, <2>1 DEF Iterates
    <3>4. G[f[n - 1]] = F[f[n - 1]]
      BY <3>2
    <3> QED
      BY <1>3, <3>2, <3>3, <3>4
  <2>2. f[0] = m_rootID
    BY <1>4 DEF Iterates
  <2>3. f = [d \in 0..MaxNodes |-> f[d]]
    BY <1>4 DEF Iterates
  <2>4. ASSUME NEW d \in 0..MaxNodes
        PROVE  f[d] = IF d = 0 THEN m_rootID
                      ELSE LET id == f[d - 1]
                           IN  IF HasChildren(m_nodes, id)
                                 THEN LeftChildOf(m_nodes, id, passed[id]) ELSE id
    <3> HIDE DEF X, F, G
    <3> QED
      BY <2>1, <2>2
  <2> QED
    BY ONLY <2>3, <2>4
<1>6. LeafAfter(passed) = w[MaxNodes]
  BY DEF LeafAfter
<1>7. Is(w)
  <2> HIDE DEF Is
  <2> QED
    BY <1>5
<1> HIDE DEF w
<1>8. \A n \in 0..MaxNodes : w[n] \in X /\ level[w[n]] = IF n <= L THEN L - n ELSE 0
  <2> DEFINE S == {n \in 0..MaxNodes : w[n] \in X /\ level[w[n]] = IF n <= L THEN L - n ELSE 0}
  <2>1. 0 \in S
    <3>1. w[0] = m_rootID
      BY <1>1, <1>7
    <3> HIDE DEF X
    <3> QED
      BY <1>1, <1>2, <3>1
  <2>2. ASSUME NEW n \in 0..MaxNodes, n \in S, n < MaxNodes PROVE n + 1 \in S
    <3>1. n + 1 \in 0..MaxNodes /\ n + 1 # 0 /\ n + 1 - 1 = n /\ w[n] \in X
          /\ level[w[n]] = IF n <= L THEN L - n ELSE 0
      BY <1>1, <2>2
    <3>2. w[n + 1] = IF HasChildren(m_nodes, w[n])
                       THEN LeftChildOf(m_nodes, w[n], passed[w[n]]) ELSE w[n]
      BY <1>7, <3>1
    <3> HIDE DEF L, F, X
    <3>3. w[n + 1] = F[w[n]]
      BY <1>3, <3>1, <3>2
    <3>4. /\ w[n + 1] \in X
          /\ level[w[n]] # 0 => level[w[n + 1]] = level[w[n]] - 1
          /\ level[w[n]] = 0 => w[n + 1] = w[n]
      BY <1>3, <3>1, <3>3
    <3>5. level[w[n + 1]] = IF n + 1 <= L THEN L - (n + 1) ELSE 0
      BY <1>2, <3>1, <3>4
    <3> QED
      BY <3>1, <3>4, <3>5
  <2> HIDE DEF S
  <2>3. \A n \in 0..MaxNodes : n \in S
    BY <1>1, <2>1, <2>2, UpTo
  <2> QED
    BY <2>3 DEF S
<1>9. L <= MaxNodes
  <2> SUFFICES ASSUME ~(L <= MaxNodes) PROVE FALSE
    OBVIOUS
  <2>1. X \subseteq NodeIDs
    BY <1>1
  <2> HIDE DEF L, X, Is
  <2>2. \A n \in 0..MaxNodes : w[n] \in NodeIDs /\ level[w[n]] = L - n
    <3>1. \A n \in 0..MaxNodes : n <= L
      BY <1>1, <1>2
    <3> QED
      BY <1>8, <2>1, <3>1
  <2>3. IsFiniteSet(0..MaxNodes) /\ IsFiniteSet(NodeIDs) /\ Cardinality(NodeIDs) = MaxNodes
        /\ Cardinality(0..MaxNodes) = MaxNodes + 1
    <3>1. \A m \in Int : IsFiniteSet(0..m) /\ (m >= -1 => Cardinality(0..m) = m + 1)
      BY FS_Interval
    <3>2. NodeIDs = 0..(MaxNodes - 1) /\ MaxNodes \in Int /\ MaxNodes - 1 \in Int
          /\ MaxNodes >= -1 /\ MaxNodes - 1 >= -1 /\ MaxNodes - 1 + 1 = MaxNodes
      BY <1>1 DEF NodeIDs
    <3> QED
      BY <3>1, <3>2
  <2> DEFINE v == [n \in 0..MaxNodes |-> w[n]]
  <2>4. v \in [0..MaxNodes -> NodeIDs] /\ Cardinality(0..MaxNodes) > Cardinality(NodeIDs)
        /\ \A n \in 0..MaxNodes : v[n] = w[n]
    BY <1>1, <2>2, <2>3
  <2> HIDE DEF v
  <2>5. PICK n, m \in 0..MaxNodes : n # m /\ v[n] = v[m]
    <3> DEFINE D == 0..MaxNodes
    <3>1. IsFiniteSet(D) /\ IsFiniteSet(NodeIDs) /\ v \in [D -> NodeIDs]
          /\ Cardinality(D) > Cardinality(NodeIDs)
      BY <2>3, <2>4
    <3> HIDE DEF D
    <3> QED
      BY <3>1, FS_PigeonHole DEF D
  <2> QED
    BY <1>2, <2>2, <2>4, <2>5
<1>10. w[MaxNodes] \in X /\ level[w[MaxNodes]] = 0
  <2>1. MaxNodes \in 0..MaxNodes
    BY <1>1
  <2> HIDE DEF X, L
  <2> QED
    BY <1>1, <1>2, <1>8, <1>9, <2>1
<1> QED
  BY <1>1, <1>6, <1>10 DEF Leaves

\* a search that passes the tuples below key b and stops at those from b
LEMMA SearchPoints ==
  ASSUME NEW low, NEW level, IdleTree(low, level), NEW b \in Nat, NEW passed,
         passed = [id \in NodeIDs |-> {e \in m_nodes[id].page : e.key < b}]
  PROVE  LET leaf == LeafAfter(passed)
         IN  Points(Normalise(Iterator(leaf, FirstOf(m_nodes[leaf].page \ passed[leaf]))),
                    {t \in Stored : b <= t})
<1> DEFINE U == {t \in Stored : b <= t}
           x == LeafAfter(passed)
<1>1. \A u \in Stored : u \in Nat
  BY StoredIsHeld
<1>2. IsTail(U)
  BY <1>1 DEF IsTail
<1>3. ASSUME NEW z \in Live PROVE Passes(z, passed[z], b, b)
  <2>1. z \in NodeIDs /\ m_nodes \in Table
    BY DEF IdleTree, Shape
  <2>2. passed[z] = {e \in m_nodes[z].page : e.key < b}
    BY <2>1
  <2>3. \A e \in m_nodes[z].page : e.key \in Nat
    BY <2>1, PageTypes
  <2> QED
    BY <2>2, <2>3 DEF Passes
<1>4. x \in Leaves /\ Between(low, level, x, b, b)
  BY <1>3, WalkReachesLeaf
<1> HIDE DEF x
<1>5. x \in NodeIDs /\ x \in Live /\ level[x] = 0 /\ low[x] \in Int
      /\ \A e \in m_nodes[x].page : e.key \in Nat /\ e.key \in Stored
  BY <1>4, LeafFacts
<1>6. m_nodes[x].page \ passed[x] = {e \in m_nodes[x].page : e.key \in U}
  BY <1>5
<1>7. \A t \in U : low[x] <= t
  BY <1>1, <1>4, <1>5 DEF Between
<1>8. RightOf(x) # NoNode => \A e \in m_nodes[RightOf(x)].page : e.key \in U
  <2> SUFFICES ASSUME RightOf(x) # NoNode, NEW e \in m_nodes[RightOf(x)].page
               PROVE  e.key \in Stored /\ b <= e.key
    OBVIOUS
  <2>1. RightOf(x) \in Leaves /\ low[x] < low[RightOf(x)]
    BY <1>4, NextLeaf
  <2>2. e.key \in Stored /\ e.key \in Nat /\ low[RightOf(x)] <= e.key /\ RightOf(x) \in Live
        /\ level[RightOf(x)] = 0 /\ low[RightOf(x)] \in Int
    BY <2>1, LeafFacts
  <2>3. b - 1 < low[RightOf(x)]
    BY <1>4, <1>5, <2>1, <2>2 DEF Between, InRangeOf
  <2> QED
    BY <2>2, <2>3
<1> HIDE DEF U
<1>9. Points(Normalise(Iterator(x, FirstOf(m_nodes[x].page \ passed[x]))), U)
  BY <1>2, <1>4, <1>6, <1>7, <1>8, NormalisePoints
<1> QED
  BY <1>9 DEF U, x

\* the tuples from a key, and those after it
AtOrAfter(k) == {t \in Stored : k[1] <= t}
After(k) == {t \in Stored : k[2] < t}

\* lower_bound() and upper_bound() point to them
LEMMA BoundsPoint ==
  ASSUME NEW low, NEW level, IdleTree(low, level), NEW k \in Nat \X Nat
  PROVE  /\ IsTail(AtOrAfter(k)) /\ Points(LowerBound(k), AtOrAfter(k))
         /\ IsTail(After(k)) /\ Points(UpperBound(k), After(k))
<1>1. k[1] \in Nat /\ k[2] \in Nat /\ k[2] + 1 \in Nat
  OBVIOUS
<1>2. \A u \in Stored : u \in Nat
  BY StoredIsHeld
<1>3. IsTail(AtOrAfter(k)) /\ IsTail(After(k))
  BY <1>1, <1>2 DEF IsTail, AtOrAfter, After
<1>4. Points(LowerBound(k), AtOrAfter(k))
  <2> DEFINE b == k[1]
             passed == [id \in NodeIDs |-> {e \in m_nodes[id].page : e.key < b}]
  <2>1. b \in Nat
    BY <1>1
  <2>2. LowerBound(k) = LET leaf == LeafAfter(passed)
         IN  Normalise(Iterator(leaf, FirstOf(m_nodes[leaf].page \ passed[leaf])))
    BY DEF LowerBound
  <2> HIDE DEF b
  <2>3. LET leaf == LeafAfter(passed)
         IN  Points(Normalise(Iterator(leaf, FirstOf(m_nodes[leaf].page \ passed[leaf]))),
                    {t \in Stored : b <= t})
    BY <2>1, SearchPoints
  <2> QED
    BY <2>2, <2>3 DEF AtOrAfter, b
<1>5. Points(UpperBound(k), After(k))
  <2> DEFINE b == k[2] + 1
             passed == [id \in NodeIDs |-> {e \in m_nodes[id].page : e.key < b}]
             past == [id \in NodeIDs |-> {e \in m_nodes[id].page : e.key <= k[2]}]
  <2>1. b \in Nat
    BY <1>1
  <2>2. passed = past
    <3>1. \A id \in NodeIDs : \A e \in m_nodes[id].page : e.key < b <=> e.key <= k[2]
      BY <1>1, PageTypes DEF IdleTree, Shape
    <3> QED
      BY <3>1
  <2>3. {t \in Stored : b <= t} = After(k)
    BY <1>1, <1>2 DEF After
  <2>4. UpperBound(k) = LET leaf == LeafAfter(past)
         IN  Normalise(Iterator(leaf, FirstOf(m_nodes[leaf].page \ past[leaf])))
    BY DEF UpperBound
  <2> HIDE DEF b, past
  <2>5. LET leaf == LeafAfter(passed)
         IN  Points(Normalise(Iterator(leaf, FirstOf(m_nodes[leaf].page \ passed[leaf]))),
                    {t \in Stored : b <= t})
    BY <2>1, SearchPoints
  <2> HIDE DEF passed
  <2> QED
    BY <2>2, <2>3, <2>4, <2>5
<1> QED
  BY <1>3, <1>4, <1>5

\* a single leaf tuple is the first of its kind
LEMMA FirstLeafTuple ==
  ASSUME NEW S, NEW t \in S, \A s \in S : s \in Nat /\ t <= s
  PROVE  FirstOf({LeafTuple(s) : s \in S}) = {LeafTuple(t)}
<1> DEFINE E == {LeafTuple(s) : s \in S}
<1>1. \A s \in S : LeafTuple(s).key = s /\ LeafTuple(s).child = NoNode
  BY DEF LeafTuple
<1>2. \A s, u \in S : Before(LeafTuple(s), LeafTuple(u)) <=> s < u
  BY <1>1 DEF Before, NoNode
<1>3. \A s \in S : (\A u \in S : ~Before(LeafTuple(u), LeafTuple(s))) <=> s = t
  BY <1>2
<1> QED
  BY <1>3 DEF FirstOf

\* find() finds the first tuple that matches
LEMMA FindIsExact ==
  ASSUME NEW low, NEW level, IdleTree(low, level)
  PROVE  FindsFirstMatch
<1> SUFFICES ASSUME NEW k \in SearchKeys,
                    NEW S, S = {t \in Stored : Matches(t, k)}
             PROVE  IF S = {} THEN find(k) = end
                    ELSE find(k).at = FirstOf({LeafTuple(t) : t \in S})
  BY DEF FindsFirstMatch
<1> DEFINE it == LowerBound(k)
           U == AtOrAfter(k)
<1>1. k \in Nat \X Nat /\ k[1] \in Nat /\ k[2] \in Nat
  BY SearchKeysAssumption
<1>2. \A u \in Stored : u \in Nat
  BY StoredIsHeld
<1>3. Points(it, U) /\ IsTail(U)
  BY <1>1, BoundsPoint
<1>4. find(k) = IF it # end /\ ~Matches(The(it.at).key, k) THEN end ELSE it
  BY DEF find
<1>5. \A t \in Stored : t \in S <=> t \in U /\ t <= k[2]
  BY DEF Matches, AtOrAfter
<1> HIDE DEF it, U
<1>6. CASE U = {}
  <2>1. S = {} /\ it = end
    BY <1>3, <1>5, <1>6 DEF Points
  <2> QED
    BY <1>4, <2>1
<1>7. CASE U # {}
  <2>1. PICK t \in U : (\A u \in U : t <= u) /\ \E x : PointsTo(it, x, t)
    BY <1>3, <1>7 DEF Points
  <2>2. it # end /\ it.at = {LeafTuple(t)} /\ The(it.at).key = t
    BY <2>1, PointedTo
  <2>3. t \in Stored /\ t \in Nat
    BY <1>2, <1>3 DEF IsTail
  <2>4. CASE t <= k[2]
    <3>1. Matches(t, k) /\ t \in S
      BY <1>5, <2>1, <2>3, <2>4
    <3>2. \A s \in S : s \in Nat /\ t <= s
      BY <1>2, <1>5, <2>1
    <3>3. FirstOf({LeafTuple(s) : s \in S}) = {LeafTuple(t)}
      BY <3>1, <3>2, FirstLeafTuple
    <3> QED
      BY <1>4, <2>2, <3>1, <3>3
  <2>5. CASE ~(t <= k[2])
    <3>1. S = {}
      <4> SUFFICES ASSUME NEW s \in S PROVE FALSE
        OBVIOUS
      <4>1. s \in Stored /\ s \in U /\ s <= k[2]
        BY <1>5
      <4>2. s \in Nat /\ t <= s
        BY <1>2, <2>1, <4>1
      <4> QED
        BY <1>1, <2>3, <2>5, <4>1, <4>2
    <3>2. ~Matches(t, k)
      BY <2>5 DEF Matches
    <3> QED
      BY <1>4, <2>2, <3>1, <3>2
  <2> QED
    BY <2>4, <2>5
<1> QED
  BY <1>6, <1>7

\* whatever a search passes, it ends at a stored tuple or at the end
LEMMA NormaliseEnds ==
  ASSUME NEW low, NEW level, IdleTree(low, level), NEW x \in Leaves,
         NEW S, S \subseteq m_nodes[x].page
  PROVE  LET it == Normalise(Iterator(x, FirstOf(S)))
         IN  it = end \/ \E y, t : PointsTo(it, y, t)
<1>1. ASSUME NEW y \in Leaves, NEW R, R \subseteq m_nodes[y].page, R # {}
      PROVE  FirstOf(R) # {} /\ \E t : PointsTo(Iterator(y, FirstOf(R)), y, t)
  <2>1. PageOf(R)
    BY <1>1, LeafFacts, PageParts
  <2>2. PICK e \in R : FirstOf(R) = {e}
    BY <1>1, <2>1, SmallestOfPage
  <2>3. e \in m_nodes[y].page /\ e = LeafTuple(e.key)
    BY <1>1, LeafFacts
  <2>4. PointsTo(Iterator(y, FirstOf(R)), y, e.key)
    BY <2>2, <2>3 DEF PointsTo, Holds
  <2> QED
    BY <2>2, <2>4
<1>2. CASE S # {}
  <2>1. Normalise(Iterator(x, FirstOf(S))) = Iterator(x, FirstOf(S))
    BY <1>1, <1>2 DEF Normalise, Iterator, PageEnd
  <2> QED
    BY <1>1, <1>2, <2>1
<1>3. CASE S = {} /\ RightOf(x) = NoNode
  <2>1. x = m_lastLeafID /\ FirstOf(S) = {}
    BY <1>3, NextLeaf DEF FirstOf
  <2> QED
    BY <1>3, <2>1 DEF Normalise, Iterator, PageEnd, end
<1>4. CASE S = {} /\ RightOf(x) # NoNode
  <2> DEFINE r == RightOf(x)
  <2>1. r \in Leaves /\ m_nodes[r].page # {}
    BY <1>4, NextLeaf
  <2>2. FirstOf(S) = {}
    BY <1>4 DEF FirstOf
  <2>3. Normalise(Iterator(x, FirstOf(S))) = Iterator(r, FirstOf(m_nodes[r].page))
    BY <1>4, <2>2 DEF Normalise, Iterator, PageEnd, PageBegin
  <2> HIDE DEF r
  <2> QED
    BY <1>1, <2>1, <2>3
<1> QED
  BY <1>2, <1>3, <1>4

\* a branch may take the child's ID for the last field of a long key, a leaf does not
LEMMA LongSearchEnds ==
  ASSUME NEW low, NEW level, IdleTree(low, level), NEW k, k[1] \in Nat,
         NEW passed, passed = [id \in NodeIDs |-> {e \in m_nodes[id].page : EntryBefore(id, e, k)}],
         NEW x, x = LeafAfter(passed)
  PROVE  /\ x \in Leaves /\ Between(low, level, x, k[1], k[1] + 1)
         /\ passed[x] = {e \in m_nodes[x].page : e.key < k[1] \/ (e.key = k[1] /\ Payload[e.key] < k[2])}
<1>1. ASSUME NEW z \in NodeIDs, NEW e \in m_nodes[z].page
      PROVE  EntryBefore(z, e, k) <=> e.key < k[1] \/ (e.key = k[1] /\ FieldAfterKey(z, e) < k[2])
  BY DEF EntryBefore, LongBefore
<1>2. ASSUME NEW z \in Live PROVE Passes(z, passed[z], k[1], k[1] + 1)
  <2>1. z \in NodeIDs /\ m_nodes \in Table
    BY DEF IdleTree, Shape
  <2>2. passed[z] = {e \in m_nodes[z].page : EntryBefore(z, e, k)}
    BY <2>1
  <2>3. \A e \in m_nodes[z].page : e.key \in Nat
    BY <2>1, PageTypes
  <2>4. \A e \in m_nodes[z].page : /\ EntryBefore(z, e, k) => e.key < k[1] + 1
                                   /\ ~EntryBefore(z, e, k) => k[1] <= e.key
    BY <1>1, <2>1, <2>3
  <2> QED
    BY <2>2, <2>4 DEF Passes
<1>3. k[1] + 1 \in Nat
  OBVIOUS
<1>4. x \in Leaves /\ Between(low, level, x, k[1], k[1] + 1)
  BY <1>2, <1>3, WalkReachesLeaf
<1>5. x \in NodeIDs /\ ~HasChildren(m_nodes, x)
  BY <1>4, LeafFacts DEF Leaves
<1>6. passed[x] = {e \in m_nodes[x].page : e.key < k[1] \/ (e.key = k[1] /\ Payload[e.key] < k[2])}
  <2>1. passed[x] = {e \in m_nodes[x].page : EntryBefore(x, e, k)}
    BY <1>5
  <2>2. \A e \in m_nodes[x].page : FieldAfterKey(x, e) = Payload[e.key]
    BY <1>5 DEF FieldAfterKey
  <2>3. \A e \in m_nodes[x].page :
          EntryBefore(x, e, k) <=> e.key < k[1] \/ (e.key = k[1] /\ Payload[e.key] < k[2])
    BY <1>1, <1>5, <2>2
  <2> QED
    BY <2>1, <2>3
<1> QED
  BY <1>4, <1>6

\* find() with a long key finds the tuple that has it
LEMMA LongFindIsExact ==
  ASSUME NEW low, NEW level, IdleTree(low, level)
  PROVE  FindsTheLongKey
<1> SUFFICES ASSUME NEW k \in LongKeys
             PROVE  IF \E t \in Stored : LongKeyOf(t) = k
                      THEN LongFind(k).at = {LeafTuple(k[1])} ELSE LongFind(k) = end
  BY DEF FindsTheLongKey
<1> DEFINE passed == [id \in NodeIDs |-> {e \in m_nodes[id].page : EntryBefore(id, e, k)}]
           x == LeafAfter(passed)
           it == Normalise(Iterator(x, FirstOf(m_nodes[x].page \ passed[x])))
<1>1. k[1] \in Nat /\ k[2] \in Nat /\ k = <<k[1], k[2]>>
  <2>1. k \in Nat \X Nat
    BY TuplesAssumption, PayloadAssumption DEF LongKeys
  <2> QED
    BY <2>1
<1>2. LongFind(k) = IF it # end /\ LongKeyOf(The(it.at).key) # k THEN end ELSE it
  BY DEF LongFind, LongLowerBound, Bound
<1>3. /\ x \in Leaves /\ Between(low, level, x, k[1], k[1] + 1)
      /\ passed[x] = {e \in m_nodes[x].page : e.key < k[1] \/ (e.key = k[1] /\ Payload[e.key] < k[2])}
  BY <1>1, LongSearchEnds
<1>4. it = end \/ \E y, t : PointsTo(it, y, t)
  <2>1. m_nodes[x].page \ passed[x] \subseteq m_nodes[x].page
    OBVIOUS
  <2> HIDE DEF x, passed
  <2> QED
    BY <1>3, <2>1, NormaliseEnds
<1>5. \A t : LongKeyOf(t) = k <=> t = k[1] /\ Payload[t] = k[2]
  BY <1>1 DEF LongKeyOf
<1>6. CASE \E t \in Stored : LongKeyOf(t) = k
  <2> DEFINE b == k[1]
             U == {t \in Stored : b <= t}
  <2>1. b \in Stored /\ Payload[b] = k[2] /\ LongKeyOf(b) = k
    BY <1>5, <1>6
  <2>2. \A u \in Stored : u \in Nat
    BY StoredIsHeld
  <2>3. IsTail(U) /\ b \in U /\ \A u \in U : b <= u
    BY <1>1, <2>1, <2>2 DEF IsTail
  <2>4. x \in Live /\ level[x] = 0 /\ low[x] \in Int
        /\ \A e \in m_nodes[x].page : e.key \in Nat /\ e.key \in Stored
    BY <1>3, LeafFacts
  <2>5. m_nodes[x].page \ passed[x] = {e \in m_nodes[x].page : e.key \in U}
    <3>1. \A e \in m_nodes[x].page : e \in passed[x] <=> e.key < b
      BY <1>1, <1>3, <2>1, <2>4
    <3> HIDE DEF x, passed
    <3> QED
      BY <1>1, <2>4, <3>1
  <2> HIDE DEF x, passed
  <2>6. \A t \in U : low[x] <= t
    BY <1>1, <1>3, <2>2, <2>4 DEF Between
  <2>7. RightOf(x) # NoNode => \A e \in m_nodes[RightOf(x)].page : e.key \in U
    <3> SUFFICES ASSUME RightOf(x) # NoNode, NEW e \in m_nodes[RightOf(x)].page
                 PROVE  e.key \in Stored /\ b <= e.key
      OBVIOUS
    <3>1. RightOf(x) \in Leaves /\ low[x] < low[RightOf(x)]
      BY <1>3, NextLeaf
    <3>2. e.key \in Stored /\ e.key \in Nat /\ low[RightOf(x)] <= e.key /\ RightOf(x) \in Live
          /\ level[RightOf(x)] = 0 /\ low[RightOf(x)] \in Int
      BY <3>1, LeafFacts
    <3>3. b - 1 < low[RightOf(x)]
      BY <1>3, <2>4, <3>1, <3>2 DEF Between, InRangeOf
    <3> QED
      BY <1>1, <3>2, <3>3
  <2> HIDE DEF U
  <2>8. Points(it, U)
    BY <1>3, <2>3, <2>5, <2>6, <2>7, NormalisePoints
  <2> HIDE DEF it
  <2>9. PICK t \in U : (\A u \in U : t <= u) /\ \E y : PointsTo(it, y, t)
    BY <2>3, <2>8 DEF Points
  <2>10. t = b
    BY <1>1, <2>2, <2>3, <2>9 DEF IsTail
  <2>11. it # end /\ it.at = {LeafTuple(b)} /\ The(it.at).key = b
    BY <2>9, <2>10, PointedTo
  <2> QED
    BY <1>2, <1>6, <2>1, <2>11
<1>7. CASE ~\E t \in Stored : LongKeyOf(t) = k
  <2> HIDE DEF it
  <2>1. CASE it = end
    BY <1>2, <1>7, <2>1
  <2>2. CASE it # end
    <3>1. PICK y, t : PointsTo(it, y, t)
      BY <1>4, <2>2
    <3>2. The(it.at).key = t /\ t \in Stored
      BY <3>1, PointedTo, PointedFacts
    <3> QED
      BY <1>2, <1>7, <2>2, <3>2
  <2> QED
    BY <2>1, <2>2
<1> QED
  BY <1>6, <1>7

-----------------------------------------------------------------------------
(***************************************************************************)
(* Iterating from one iterator to another, and back from the end.          *)
(***************************************************************************)
\* there is an iterator for each tail
LEMMA TailsArePointedTo ==
  ASSUME NEW low, NEW level, IdleTree(low, level), NEW U, IsTail(U)
  PROVE  \E it : Points(it, U)
<1>1. CASE U = {}
  BY <1>1, EndPoints
<1>2. CASE U # {}
  <2>1. U \subseteq Nat
    BY StoredIsHeld DEF IsTail
  <2>2. PICK t \in U : \A u \in U : t <= u
    BY <1>2, <2>1, LeastElement
  <2>3. PICK x : Holds(x, t)
    BY StoredIsHeld DEF IsTail
  <2>4. PointsTo(Iterator(x, {LeafTuple(t)}), x, t)
    BY <2>3 DEF PointsTo
  <2> QED
    BY <2>2, <2>4 DEF Points
<1> QED
  BY <1>1, <1>2

\* what is left of a tail after some steps is a tail, and a step leads from one to the next
LEMMA StepForward ==
  ASSUME NEW low, NEW level, IdleTree(low, level), NEW U, IsTail(U)
  PROVE  /\ U \subseteq Nat /\ IsFiniteSet(U)
         /\ \A n \in Int : IsTail(AfterFirst(U, n))
         /\ \A n \in Nat : \A it : Points(it, AfterFirst(U, n)) => Points(Increment(it), AfterFirst(U, n + 1))
<1>1. U \subseteq Nat /\ IsFiniteSet(U) /\ U \subseteq Stored
  <2>1. \A t \in Stored : t \in Nat
    BY StoredIsHeld
  <2> QED
    BY <2>1, FS_Subset DEF IsTail, IdleTree
<1>2. ASSUME NEW n \in Int PROVE IsTail(AfterFirst(U, n))
  <2>1. \A t \in AfterFirst(U, n), u \in U : t <= u => u \in AfterFirst(U, n)
    BY <1>1, AfterFirsts
  <2> QED
    BY <2>1 DEF IsTail, AfterFirst
<1>3. ASSUME NEW n \in Nat, NEW it, Points(it, AfterFirst(U, n))
      PROVE  Points(Increment(it), AfterFirst(U, n + 1))
  <2>1. CASE AfterFirst(U, n) = {}
    <3>1. it = end
      BY <1>3, <2>1 DEF Points
    <3>2. AfterFirst(U, n + 1) = {}
      <4> SUFFICES ASSUME NEW t \in AfterFirst(U, n + 1) PROVE FALSE
        OBVIOUS
      <4>1. t \in U /\ n + 1 <= Rank(U, t)
        BY DEF AfterFirst
      <4>2. Rank(U, t) \in Nat
        BY <1>1, <4>1, Ranks
      <4> QED
        BY <2>1, <4>1, <4>2 DEF AfterFirst
    <3> QED
      BY <3>1, <3>2, EndStays, EndPoints
  <2>2. CASE AfterFirst(U, n) # {}
    <3>1. PICK t \in AfterFirst(U, n) : \A u \in AfterFirst(U, n) : t <= u
      BY <1>3, <2>2 DEF Points
    <3>2. AfterFirst(U, n + 1) = AfterFirst(U, n) \ {t}
      BY <1>1, <3>1, TakeNext
    <3> QED
      BY <1>2, <1>3, <3>1, <3>2, IncrementPoints
  <2> QED
    BY <2>1, <2>2
<1> QED
  BY <1>1, <1>2, <1>3

\* the tuples between a tail and a smaller one are its first
LEMMA FirstsOfTail ==
  ASSUME NEW low, NEW level, IdleTree(low, level), NEW U, IsTail(U), NEW V, IsTail(V), V \subseteq U
  PROVE  /\ IsFiniteSet(U \ V) /\ Cardinality(U \ V) \in Nat
         /\ AfterFirst(U, Cardinality(U \ V)) = V
         /\ \A t \in U \ V : Rank(U \ V, t) = Rank(U, t) /\ Rank(U, t) < Cardinality(U \ V)
         /\ \A n \in Nat : n < Cardinality(U \ V) =>
              AfterFirst(U, n) # V /\ \E t \in U \ V : Rank(U, t) = n
         /\ Cardinality(U \ V) <= Cardinality(U) /\ Cardinality(U) <= Cardinality(Stored)
         /\ Cardinality(Stored) \in Nat /\ Cardinality(U) \in Nat
<1> DEFINE D == U \ V
           N == Cardinality(D)
<1>1. U \subseteq Nat /\ IsFiniteSet(U) /\ U \subseteq Stored /\ V \subseteq Nat /\ IsFiniteSet(Stored)
  BY StepForward DEF IsTail, IdleTree
<1>2. D \subseteq U /\ IsFiniteSet(D) /\ N <= Cardinality(U) /\ Cardinality(U) <= Cardinality(Stored)
  <2>1. D \in SUBSET U /\ U \in SUBSET Stored
    BY <1>1
  <2> HIDE DEF D
  <2> QED
    BY <1>1, <2>1, FS_Subset
<1>3. N \in Nat /\ Cardinality(Stored) \in Nat /\ Cardinality(U) \in Nat
  BY <1>1, <1>2, FS_CardinalityType
<1>4. ASSUME NEW d \in D, NEW v \in V PROVE d < v
  <2>1. d \in Nat /\ v \in Nat /\ d \in Stored /\ d \notin V
    BY <1>1
  <2>2. ~(v <= d)
    BY <2>1 DEF IsTail
  <2> QED
    BY <2>1, <2>2
<1>5. ASSUME NEW t \in D PROVE Rank(D, t) = Rank(U, t)
  <2>1. ASSUME NEW v \in U, v < t PROVE v \in D
    <3>1. v \in V => t < v
      BY <1>4
    <3>2. v \in Nat /\ t \in Nat
      BY <1>1
    <3> QED
      BY <2>1, <3>1, <3>2
  <2>2. {v \in D : v < t} = {v \in U : v < t}
    BY <2>1
  <2> QED
    BY <2>2 DEF Rank
<1>6. /\ \A t \in D : Rank(D, t) \in Nat /\ Rank(D, t) < N
      /\ \A n \in Nat : n < N => \E t \in D : Rank(D, t) = n
      /\ \A t \in U : Rank(U, t) \in Nat
  <2>1. D \subseteq Nat
    BY <1>1
  <2> HIDE DEF D
  <2> QED
    BY <1>1, <1>2, <2>1, Ranks
<1>7. ASSUME NEW v \in V PROVE N <= Rank(U, v)
  <2> DEFINE B == {u \in U : u < v}
  <2>1. D \in SUBSET B /\ B \in SUBSET U
    BY <1>4
  <2> HIDE DEF D, B
  <2>2. IsFiniteSet(B)
    BY <1>1, <2>1, FS_Subset
  <2>3. N <= Cardinality(B)
    BY <2>1, <2>2, FS_Subset
  <2> QED
    BY <2>3 DEF Rank, B
<1>8. AfterFirst(U, N) = V
  <2>1. ASSUME NEW u \in U PROVE N <= Rank(U, u) <=> u \in V
    <3>1. CASE u \in V
      BY <1>7, <3>1
    <3>2. CASE u \notin V
      <4>1. u \in D
        BY <3>2
      <4> HIDE DEF D, N
      <4> QED
        BY <1>3, <1>5, <1>6, <3>2, <4>1
    <3> QED
      BY <3>1, <3>2
  <2> HIDE DEF N
  <2> QED
    BY <2>1 DEF AfterFirst
<1>9. ASSUME NEW n \in Nat, n < N
      PROVE  AfterFirst(U, n) # V /\ \E t \in D : Rank(U, t) = n
  <2> HIDE DEF N
  <2>1. PICK t \in D : Rank(U, t) = n
    BY <1>5, <1>6, <1>9
  <2>2. t \in AfterFirst(U, n) /\ t \notin V
    BY <2>1 DEF AfterFirst
  <2> QED
    BY <2>1, <2>2
<1>10. \A t \in D : Rank(D, t) = Rank(U, t) /\ Rank(U, t) < N
  BY <1>5, <1>6
<1> QED
  BY <1>2, <1>3, <1>8, <1>9, <1>10

\* a walk from one tail to another visits the tuples between them in order
LEMMA ScanVisits ==
  ASSUME NEW low, NEW level, IdleTree(low, level), NEW U, IsTail(U), NEW V, IsTail(V), V \subseteq U,
         NEW from, Points(from, U), NEW to, Points(to, V)
  PROVE  Scan(from, to) = InOrder(U \ V)
<1> DEFINE N == Cardinality(U \ V)
           P(n) == AfterFirst(U, n)
           Is(at) == at = [n \in 0..MaxSteps |-> IF n = 0 THEN from ELSE Increment(at[n - 1])]
           w == CHOOSE at : Is(at)
           reached == {n \in 0..MaxSteps : w[n] = to}
           length == CHOOSE n \in reached : \A m \in reached : n <= m
<1>1. /\ N \in Nat /\ IsFiniteSet(U \ V) /\ P(N) = V
      /\ \A t \in U \ V : Rank(U \ V, t) = Rank(U, t) /\ Rank(U, t) < N
      /\ \A n \in Nat : n < N => P(n) # V /\ \E t \in U \ V : Rank(U, t) = n
      /\ N < MaxSteps /\ MaxSteps \in Nat
  <2>1. /\ N \in Nat /\ IsFiniteSet(U \ V) /\ P(N) = V
        /\ \A t \in U \ V : Rank(U \ V, t) = Rank(U, t) /\ Rank(U, t) < N
        /\ \A n \in Nat : n < N => P(n) # V /\ \E t \in U \ V : Rank(U, t) = n
    BY FirstsOfTail
  <2>2. N <= Cardinality(U) /\ Cardinality(U) <= Cardinality(Stored)
        /\ Cardinality(Stored) \in Nat /\ Cardinality(U) \in Nat /\ N \in Nat
    BY FirstsOfTail
  <2>3. N < MaxSteps /\ MaxSteps \in Nat
    <3> HIDE DEF N
    <3> QED
      BY <2>2 DEF MaxSteps
  <2> HIDE DEF N
  <2> QED
    BY <2>1, <2>3
<1>2. /\ U \subseteq Nat /\ IsFiniteSet(U) /\ \A n \in Nat : IsTail(P(n))
      /\ \A n \in Nat : \A it : Points(it, P(n)) => Points(Increment(it), P(n + 1))
      /\ P(0) = U
  BY StepForward, AfterFirsts
<1> HIDE DEF P, N
<1>3. Is(w)
  <2> DEFINE f == [n \in 0..MaxSteps |-> CHOOSE it : Points(it, P(n))]
  <2>1. \A n \in 0..MaxSteps : n \in Nat
    BY <1>1
  <2>2. \A n \in 0..MaxSteps : Points(f[n], P(n))
    BY <1>2, <2>1, TailsArePointedTo
  <2>3. f[0] = from
    <3>1. Points(f[0], U)
      BY <1>1, <1>2, <2>2
    <3> HIDE DEF f
    <3> QED
      BY <3>1, PointsToOne
  <2>4. ASSUME NEW n \in 0..MaxSteps, n # 0 PROVE f[n] = Increment(f[n - 1])
    <3>1. n - 1 \in 0..MaxSteps /\ n - 1 \in Nat /\ n - 1 + 1 = n /\ n \in Nat
      BY <1>1, <2>4
    <3> HIDE DEF f
    <3>2. Points(Increment(f[n - 1]), P(n)) /\ Points(f[n], P(n)) /\ IsTail(P(n))
      BY <1>2, <2>2, <3>1
    <3> QED
      BY <3>2, PointsToOne
  <2>5. f = [n \in 0..MaxSteps |-> f[n]]
    OBVIOUS
  <2> HIDE DEF f
  <2>6. \A n \in 0..MaxSteps : f[n] = IF n = 0 THEN from ELSE Increment(f[n - 1])
    BY <2>3, <2>4
  <2>7. Is(f)
    BY ONLY <2>5, <2>6
  <2> HIDE DEF Is
  <2> QED
    BY <2>7
<1>4. Scan(from, to) = IF reached = {} THEN <<"unreachable">> ELSE [n \in 1..length |-> w[n - 1].at]
  BY DEF Scan
<1> HIDE DEF w
<1>5. \A n \in 0..MaxSteps : Points(w[n], P(n))
  <2> DEFINE S == {n \in 0..MaxSteps : Points(w[n], P(n))}
  <2>1. 0 \in S
    <3>1. w[0] = from
      BY <1>1, <1>3
    <3> QED
      BY <1>1, <1>2, <3>1
  <2>2. ASSUME NEW n \in 0..MaxSteps, n \in S, n < MaxSteps PROVE n + 1 \in S
    <3>1. n + 1 \in 0..MaxSteps /\ n + 1 # 0 /\ n + 1 - 1 = n /\ n \in Nat
      BY <1>1, <2>2
    <3>2. w[n + 1] = Increment(w[n])
      BY <1>3, <3>1
    <3> QED
      BY <1>2, <2>2, <3>1, <3>2
  <2> HIDE DEF S
  <2>3. \A n \in 0..MaxSteps : n \in S
    BY <1>1, <2>1, <2>2, UpTo
  <2> QED
    BY <2>3 DEF S
<1> HIDE DEF Is
<1>6. N \in 0..MaxSteps /\ w[N] = to
  <2>1. N \in 0..MaxSteps
    BY <1>1
  <2>2. Points(w[N], V)
    BY <1>1, <1>5, <2>1
  <2> QED
    BY <2>1, <2>2, PointsToOne
<1>7. ASSUME NEW n \in 0..MaxSteps, w[n] = to PROVE N <= n
  <2> SUFFICES ASSUME n < N PROVE FALSE
    BY <1>1
  <2>1. n \in Nat /\ P(n) # V
    BY <1>1
  <2>2. Points(to, P(n)) /\ IsTail(P(n))
    BY <1>2, <1>5, <1>7, <2>1
  <2> QED
    BY <2>1, <2>2, PointsToOneTail
<1>8. N \in reached /\ \A m \in reached : N <= m
  BY <1>6, <1>7
<1>9. length = N
  <2>1. length \in reached /\ \A m \in reached : length <= m
    BY <1>8
  <2>2. length <= N /\ N <= length /\ length \in Nat
    BY <1>1, <1>8, <2>1
  <2> HIDE DEF length
  <2> QED
    BY <1>1, <2>2
<1> HIDE DEF length, reached
<1>10. ASSUME NEW n \in 1..N
       PROVE  w[n - 1].at = {LeafTuple(t) : t \in {u \in U \ V : Rank(U \ V, u) = n - 1}}
  <2>1. n - 1 \in Nat /\ n - 1 < N /\ n - 1 \in 0..MaxSteps
    BY <1>1
  <2>2. PICK s \in U \ V : Rank(U, s) = n - 1
    BY <1>1, <2>1
  <2>3. s \in P(n - 1) /\ Points(w[n - 1], P(n - 1)) /\ IsTail(P(n - 1))
    <3>1. s \in P(n - 1)
      BY <2>1, <2>2 DEF P, AfterFirst
    <3> QED
      BY <1>2, <1>5, <2>1, <3>1
  <2>4. PICK t \in P(n - 1) : (\A u \in P(n - 1) : t <= u) /\ \E x : PointsTo(w[n - 1], x, t)
    BY <2>3 DEF Points
  <2>5. Rank(U, t) = n - 1 /\ t \in U
    <3>1. U \subseteq Nat /\ IsFiniteSet(U) /\ n - 1 \in Nat
          /\ t \in AfterFirst(U, n - 1) /\ \A u \in AfterFirst(U, n - 1) : t <= u
      BY <1>2, <2>1, <2>4 DEF P
    <3> HIDE DEF P
    <3> QED
      BY <3>1, TakeNext
  <2>6. \A u, v \in U : Rank(U, u) = Rank(U, v) => u = v
    BY <1>2, Ranks
  <2>7. {u \in U \ V : Rank(U \ V, u) = n - 1} = {t}
    BY <1>1, <2>2, <2>5, <2>6
  <2>8. w[n - 1].at = {LeafTuple(t)}
    BY <2>4, PointedTo
  <2> QED
    BY <2>7, <2>8
<1>11. [n \in 1..N |-> w[n - 1].at] = InOrder(U \ V)
  BY <1>10 DEF InOrder, Rank, N
<1> QED
  BY <1>4, <1>8, <1>9, <1>11

\* iterating forwards and backwards
LEMMA IterationWorks ==
  ASSUME NEW low, NEW level, IdleTree(low, level)
  PROVE  IterationIsComplete
<1> DEFINE N == Cardinality(Stored)
           P(n) == AfterFirst(Stored, N - n)
           Is(back) == back = [n \in 0..N |-> IF n = 0 THEN end ELSE Decrement(back[n - 1])]
           w == CHOOSE back : Is(back)
<1>1. Scan(begin, end) = InOrder(Stored)
  <2>1. Stored \ {} = Stored /\ {} \subseteq Stored
    OBVIOUS
  <2>2. Scan(begin, end) = InOrder(Stored \ {})
    BY <2>1, BeginPoints, EndPoints, WholeTails, ScanVisits
  <2> QED
    BY <2>1, <2>2
<1>2. IsFiniteSet(Stored) /\ N \in Nat /\ IsTail(Stored) /\ Stored \subseteq Nat
  BY FS_CardinalityType, StoredIsHeld, WholeTails DEF IdleTree
<1>3. \A n \in 0..N : IsTail(P(n))
  <2> HIDE DEF N
  <2> QED
    BY <1>2, StepForward
<1>4. P(0) = {} /\ P(N) = Stored
  <2>1. N - 0 \in Int /\ N - N \in Int /\ N - N <= 0 /\ Cardinality(Stored) <= N - 0
    BY <1>2
  <2> HIDE DEF N
  <2> QED
    BY <1>2, <2>1, AfterFirsts
<1>5. ASSUME NEW n \in 0..N, n < N, NEW it, Points(it, P(n))
      PROVE  Points(Decrement(it), P(n + 1))
  <2>1. N - n \in Int /\ N - n <= N /\ 0 < N - n /\ N - (n + 1) = N - n - 1 /\ IsTail(P(n))
    BY <1>2, <1>3, <1>5
  <2>2. P(n) # Stored
    <3> DEFINE m == N - n
    <3>1. m \in Int /\ 0 < m
      BY <2>1
    <3> HIDE DEF m, N
    <3>2. PICK t \in Stored : Rank(Stored, t) = 0
      <4>1. 0 < N
        BY <1>2, <1>5
      <4> QED
        BY <1>2, <4>1, Ranks DEF N
    <3>3. t \notin P(n)
      <4>1. P(n) = AfterFirst(Stored, m)
        BY DEF m
      <4>2. ~(m <= Rank(Stored, t))
        BY <3>1, <3>2
      <4> HIDE DEF P
      <4> QED
        BY <4>1, <4>2 DEF AfterFirst
    <3> QED
      BY <3>2, <3>3
  <2> HIDE DEF P
  <2>3. PICK t \in Stored \ P(n) : /\ \A s \in Stored \ P(n) : s <= t
                                   /\ Points(Decrement(it), P(n) \cup {t})
    BY <1>5, <2>1, <2>2, DecrementPoints
  <2>4. P(n + 1) = P(n) \cup {t}
    <3>1. PICK m \in Int : m = N - n /\ m <= N /\ N - (n + 1) = m - 1
      BY <2>1
    <3>2. P(n) = AfterFirst(Stored, m) /\ P(n + 1) = AfterFirst(Stored, m - 1)
      BY <3>1 DEF P
    <3>3. IsLast(t, Stored \ AfterFirst(Stored, m)) /\ FiniteNumbers(Stored)
      BY <1>2, <2>3, <3>2 DEF IsLast, FiniteNumbers
    <3>4. AfterFirst(Stored, m - 1) = AfterFirst(Stored, m) \cup {t}
      BY <3>1, <3>3, PutLastBack
    <3> QED
      BY <3>2, <3>4
  <2> QED
    BY <2>3, <2>4
<1> HIDE DEF P, N
<1>6. Is(w)
  <2> DEFINE f == [n \in 0..N |-> CHOOSE it : Points(it, P(n))]
  <2>2. \A n \in 0..N : Points(f[n], P(n))
    <3>1. \A n \in 0..N : \E it : Points(it, P(n))
      BY <1>3, TailsArePointedTo
    <3> QED
      BY <3>1
  <2>3. f[0] = end
    <3>1. Points(f[0], {})
      BY <1>2, <1>4, <2>2
    <3> HIDE DEF f
    <3> QED
      BY <3>1, EndPoints, WholeTails, PointsToOne
  <2>4. ASSUME NEW n \in 0..N, n # 0 PROVE f[n] = Decrement(f[n - 1])
    <3>1. n - 1 \in 0..N /\ n - 1 < N /\ n - 1 + 1 = n
      BY <1>2, <2>4
    <3> HIDE DEF f
    <3>2. Points(Decrement(f[n - 1]), P(n)) /\ Points(f[n], P(n)) /\ IsTail(P(n))
      BY <1>3, <1>5, <2>2, <3>1
    <3> QED
      BY <3>2, PointsToOne
  <2>5. f = [n \in 0..N |-> f[n]]
    OBVIOUS
  <2> HIDE DEF f
  <2>6. \A n \in 0..N : f[n] = IF n = 0 THEN end ELSE Decrement(f[n - 1])
    BY <2>3, <2>4
  <2>7. Is(f)
    BY ONLY <2>5, <2>6
  <2> HIDE DEF Is
  <2> QED
    BY <2>7
<1>7. IterationIsComplete <=> (pc = "idle" => Scan(begin, end) = InOrder(Stored) /\ w[N] = begin)
  BY DEF IterationIsComplete, N
<1> HIDE DEF w
<1>8. \A n \in 0..N : Points(w[n], P(n))
  <2> DEFINE S == {n \in 0..N : Points(w[n], P(n))}
  <2>1. 0 \in S
    <3>1. w[0] = end
      BY <1>2, <1>6
    <3> QED
      BY <1>2, <1>4, <3>1, EndPoints
  <2>2. ASSUME NEW n \in 0..N, n \in S, n < N PROVE n + 1 \in S
    <3>1. n + 1 \in 0..N /\ n + 1 # 0 /\ n + 1 - 1 = n
      BY <1>2, <2>2
    <3>2. w[n + 1] = Decrement(w[n])
      BY <1>6, <3>1
    <3> QED
      BY <1>5, <2>2, <3>1, <3>2
  <2> HIDE DEF S
  <2>3. \A n \in 0..N : n \in S
    BY <1>2, <2>1, <2>2, UpTo
  <2> QED
    BY <2>3 DEF S
<1> HIDE DEF Is
<1>9. w[N] = begin
  <2>1. Points(w[N], Stored)
    BY <1>2, <1>4, <1>8
  <2> QED
    BY <2>1, BeginPoints, WholeTails, PointsToOne
<1> QED
  BY <1>1, <1>7, <1>9

-----------------------------------------------------------------------------
(***************************************************************************)
(* Searching with a range.                                                 *)
(***************************************************************************)
\* stepping over the tuples that match: what is left after n steps, or all that follow
LEMMA SkipStep ==
  ASSUME NEW low, NEW level, IdleTree(low, level), NEW k \in Nat \X Nat, k[1] <= k[2] + 1
  PROVE  LET P(n) == AfterFirst(AtOrAfter(k), n) \cup After(k)
             Step(it) == IF it # end /\ Matches(The(it.at).key, k) THEN Increment(it) ELSE it
         IN  /\ \A n \in Nat : IsTail(P(n))
             /\ \A n \in Nat : \A it : Points(it, P(n)) => Points(Step(it), P(n + 1))
             /\ P(0) = AtOrAfter(k) /\ P(MaxSteps) = After(k) /\ MaxSteps \in Nat
<1> DEFINE U == AtOrAfter(k)
           V == After(k)
           A(n) == AfterFirst(U, n)
           P(n) == A(n) \cup V
           Step(it) == IF it # end /\ Matches(The(it.at).key, k) THEN Increment(it) ELSE it
<1>1. k[1] \in Nat /\ k[2] \in Nat /\ \A t \in Stored : t \in Nat
  BY StoredIsHeld
<1>2. IsTail(U) /\ IsTail(V)
  BY BoundsPoint
<1>3. /\ \A t : t \in U <=> t \in Stored /\ k[1] <= t
      /\ \A t : t \in V <=> t \in Stored /\ k[2] < t
  BY DEF AtOrAfter, After
<1>4. V \subseteq U
  <2> SUFFICES ASSUME NEW t \in V PROVE t \in U
    OBVIOUS
  <2>1. t \in Stored /\ t \in Nat /\ k[2] < t
    BY <1>1, <1>3
  <2> QED
    BY <1>1, <1>3, <2>1
<1> HIDE DEF U, V
<1>5. U \subseteq Nat /\ IsFiniteSet(U) /\ \A n \in Nat : IsTail(A(n)) /\ A(n) \subseteq U
  BY <1>2, StepForward DEF AfterFirst
<1>6. ASSUME NEW n \in Nat PROVE A(n + 1) \subseteq A(n)
  <2> SUFFICES ASSUME NEW t \in A(n + 1) PROVE t \in A(n)
    OBVIOUS
  <2>1. t \in U /\ n + 1 <= Rank(U, t)
    BY DEF AfterFirst
  <2>2. Rank(U, t) \in Nat
    BY <1>5, <2>1, Ranks
  <2>3. n <= Rank(U, t)
    BY <2>1, <2>2
  <2> QED
    BY <2>1, <2>3 DEF AfterFirst
<1>7. A(0) = U
  <2>1. U \subseteq Nat /\ IsFiniteSet(U)
    BY <1>5
  <2> HIDE DEF A
  <2>2. AfterFirst(U, 0) = U
    <3>1. \A n \in Int : n <= 0 => AfterFirst(U, n) = U
      BY <2>1, AfterFirsts
    <3> QED
      BY <3>1
  <2> QED
    BY <2>2 DEF A
<1>8. MaxSteps \in Nat /\ A(MaxSteps) = {}
  <2>1. Cardinality(U) <= Cardinality(Stored) /\ Cardinality(Stored) \in Nat /\ Cardinality(U) \in Nat
    <3>1. U \in SUBSET Stored /\ IsFiniteSet(Stored)
      BY <1>3 DEF IdleTree
    <3> QED
      BY <1>5, <3>1, FS_Subset, FS_CardinalityType
  <2>2. MaxSteps \in Nat /\ MaxSteps \in Int /\ Cardinality(U) <= MaxSteps
    BY <2>1 DEF MaxSteps
  <2>3. U \subseteq Nat /\ IsFiniteSet(U)
    BY <1>5
  <2> HIDE DEF A
  <2>4. AfterFirst(U, MaxSteps) = {}
    BY <2>2, <2>3, AfterFirsts
  <2> QED
    BY <2>2, <2>4 DEF A
<1> HIDE DEF A
<1>9. ASSUME NEW n \in Nat PROVE IsTail(P(n))
  <2>1. IsTail(A(n)) /\ IsTail(V)
    BY <1>2, <1>5
  <2> QED
    BY <2>1 DEF IsTail
<1>10. ASSUME NEW n \in Nat, NEW it, Points(it, P(n)) PROVE Points(Step(it), P(n + 1))
  <2>1. CASE P(n) = {}
    <3>1. it = end /\ P(n + 1) = {}
      BY <1>6, <1>10, <2>1 DEF Points
    <3> QED
      BY <3>1, EndPoints
  <2>2. CASE P(n) # {}
    <3>1. PICK t \in P(n) : (\A u \in P(n) : t <= u) /\ it # end /\ The(it.at).key = t
      BY <1>10, <2>2, PointedTo DEF Points
    <3>2. t \in U /\ t \in Nat /\ k[1] <= t
      BY <1>1, <1>3, <1>4, <1>5
    <3>3. CASE t <= k[2]
      <4>1. Step(it) = Increment(it)
        BY <3>1, <3>2, <3>3 DEF Matches
      <4>2. t \notin V
        BY <1>1, <1>3, <3>2, <3>3
      <4>3. t \in A(n) /\ \A u \in A(n) : t <= u
        BY <3>1, <4>2
      <4>4. A(n + 1) = A(n) \ {t}
        BY <1>5, <4>3, TakeNext DEF A
      <4>5. P(n + 1) = P(n) \ {t}
        BY <4>2, <4>4
      <4> HIDE DEF P
      <4> QED
        BY <1>9, <1>10, <3>1, <4>1, <4>5, IncrementPoints
    <3>4. CASE ~(t <= k[2])
      <4>1. Step(it) = it
        BY <3>1, <3>4 DEF Matches
      <4>2. ASSUME NEW u \in P(n) PROVE u \in V
        <5>1. u \in Stored /\ u \in Nat /\ t <= u
          BY <1>1, <1>3, <1>5, <3>1
        <5>2. k[2] < u
          BY <1>1, <3>2, <3>4, <5>1
        <5> QED
          BY <1>3, <5>1, <5>2
      <4>3. P(n) = V
        BY <4>2
      <4>4. P(n + 1) = V
        BY <1>6, <4>3
      <4> HIDE DEF P
      <4> QED
        BY <1>10, <4>1, <4>3, <4>4
    <3> QED
      BY <3>3, <3>4
  <2> QED
    BY <2>1, <2>2
<1>11. P(0) = U /\ P(MaxSteps) = V
  BY <1>4, <1>7, <1>8
<1> QED
  BY <1>8, <1>9, <1>10, <1>11 DEF U, V, A

\* stepping back over the tuples that match
LEMMA BackStep ==
  ASSUME NEW low, NEW level, IdleTree(low, level), NEW k \in Nat \X Nat, k[1] <= k[2] + 1
  PROVE  LET N == Cardinality(AtOrAfter(k) \ After(k))
             P(n) == AfterFirst(AtOrAfter(k), N - n)
             Step(it) == IF Decrement(it) # it /\ Matches(The(Decrement(it).at).key, k)
                           THEN Decrement(it) ELSE it
         IN  /\ \A n \in Nat : IsTail(P(n))
             /\ \A n \in Nat : \A it : Points(it, P(n)) => Points(Step(it), P(n + 1))
             /\ P(0) = After(k) /\ P(MaxSteps) = AtOrAfter(k) /\ MaxSteps \in Nat
<1> DEFINE U == AtOrAfter(k)
           V == After(k)
           N == Cardinality(U \ V)
           P(n) == AfterFirst(U, N - n)
           Step(it) == IF Decrement(it) # it /\ Matches(The(Decrement(it).at).key, k)
                         THEN Decrement(it) ELSE it
<1>1. k[1] \in Nat /\ k[2] \in Nat /\ \A t \in Stored : t \in Nat
  BY StoredIsHeld
<1>2. IsTail(U) /\ IsTail(V)
  BY BoundsPoint
<1>3. /\ \A t : t \in U <=> t \in Stored /\ k[1] <= t
      /\ \A t : t \in V <=> t \in Stored /\ k[2] < t
  BY DEF AtOrAfter, After
<1>4. V \subseteq U
  <2> SUFFICES ASSUME NEW t \in V PROVE t \in U
    OBVIOUS
  <2>1. t \in Stored /\ t \in Nat /\ k[2] < t
    BY <1>1, <1>3
  <2> QED
    BY <1>1, <1>3, <2>1
<1> HIDE DEF U, V
<1>5. /\ U \subseteq Nat /\ IsFiniteSet(U) /\ N \in Nat /\ AfterFirst(U, N) = V
      /\ N <= Cardinality(U) /\ Cardinality(U) \in Nat
      /\ Cardinality(U) <= Cardinality(Stored) /\ Cardinality(Stored) \in Nat
      /\ \A v \in U \ V : Rank(U, v) < N
  <2>1. U \subseteq Nat /\ IsFiniteSet(U)
    BY <1>2, StepForward
  <2> QED
    BY <1>2, <1>4, <2>1, FirstsOfTail
<1> HIDE DEF N
<1>6. ASSUME NEW n \in Nat
      PROVE  IsTail(P(n)) /\ P(n) \subseteq U /\ N - n \in Int /\ N - n <= Cardinality(U)
             /\ N - (n + 1) = N - n - 1
  <2>1. N - n \in Int /\ N - n <= Cardinality(U) /\ N - (n + 1) = N - n - 1
    BY <1>5
  <2> QED
    BY <1>2, <2>1, StepForward DEF AfterFirst
<1>7. P(0) = V
  <2>1. N - 0 = N
    BY <1>5
  <2> QED
    BY <1>5, <2>1
<1>8. \A n \in Nat : N <= n => P(n) = U
  <2> SUFFICES ASSUME NEW n \in Nat, N <= n PROVE P(n) = U
    OBVIOUS
  <2>1. N - n \in Int /\ N - n <= 0
    BY <1>5, <1>6
  <2> QED
    BY <1>5, <2>1, AfterFirsts
<1>9. MaxSteps \in Nat /\ N <= MaxSteps
  BY <1>5 DEF MaxSteps
<1>10. ASSUME NEW n \in Nat, NEW it, Points(it, P(n)) PROVE Points(Step(it), P(n + 1))
  <2>1. ASSUME P(n) = U PROVE P(n + 1) = U
    <3>0. P(n + 1) \subseteq U
      BY <1>6
    <3> SUFFICES ASSUME NEW t \in U PROVE t \in P(n + 1)
      BY <3>0
    <3>1. t \in P(n)
      BY <2>1
    <3>2. N - n <= Rank(U, t) /\ Rank(U, t) \in Nat
      BY <1>5, <3>1, Ranks DEF AfterFirst
    <3>3. N - (n + 1) <= Rank(U, t)
      BY <1>5, <3>2
    <3> QED
      BY <3>3 DEF AfterFirst
  <2> HIDE DEF P
  <2>2. CASE P(n) = Stored
    <3>1. P(n) = U /\ U = Stored
      BY <1>3, <1>6, <2>2
    <3>2. Decrement(it) = it
      BY <1>10, <2>2, BeginStays
    <3> QED
      BY <1>10, <2>1, <3>1, <3>2
  <2>3. CASE P(n) # Stored
    <3>1. PICK t \in Stored \ P(n) :
                 /\ \A s \in Stored \ P(n) : s <= t
                 /\ Points(Decrement(it), P(n) \cup {t}) /\ Decrement(it) # it
      BY <1>6, <1>10, <2>3, DecrementPoints
    <3>2. t \in Nat /\ P(n) \cup {t} # {}
      BY <1>1
    <3>3. The(Decrement(it).at).key = t
      <4>1. PICK s \in P(n) \cup {t} : (\A u \in P(n) \cup {t} : s <= u) /\ The(Decrement(it).at).key = s
        BY <3>1, <3>2, PointedTo DEF Points
      <4>2. s \in P(n) => t \in P(n)
        BY <1>6, <4>1 DEF IsTail
      <4> QED
        BY <4>1, <4>2
    <3>4. CASE t \in U /\ t \notin V
      <4>1. t <= k[2] /\ k[1] <= t
        BY <1>1, <1>3, <3>2, <3>4
      <4>2. Step(it) = Decrement(it)
        BY <3>1, <3>3, <4>1 DEF Matches
      <4>3. P(n + 1) = P(n) \cup {t}
        <5>1. PICK m \in Int : m = N - n /\ m <= Cardinality(U) /\ N - (n + 1) = m - 1
          BY <1>6
        <5>2. P(n) = AfterFirst(U, m) /\ P(n + 1) = AfterFirst(U, m - 1)
          BY <5>1 DEF P
        <5>3. IsLast(t, U \ AfterFirst(U, m)) /\ FiniteNumbers(U)
          BY <1>3, <1>5, <3>1, <3>4, <5>2 DEF IsLast, FiniteNumbers
        <5>4. AfterFirst(U, m - 1) = AfterFirst(U, m) \cup {t}
          BY <5>1, <5>3, PutLastBack
        <5> QED
          BY <5>2, <5>4
      <4> QED
        BY <3>1, <4>2, <4>3
    <3>5. CASE t \in V
      <4>1. N - n <= Rank(U, t)
        <5>1. t \in AfterFirst(U, N)
          BY <1>5, <3>5
        <5>2. t \in U /\ N <= Rank(U, t) /\ Rank(U, t) \in Nat
          BY <1>5, <5>1, Ranks DEF AfterFirst
        <5> QED
          BY <1>5, <5>2
      <4>2. t \in P(n)
        BY <1>4, <3>5, <4>1 DEF P, AfterFirst
      <4> QED
        BY <3>1, <4>2
    <3>6. CASE t \notin U
      <4>1. Step(it) = it
        <5>1. ~(k[1] <= t)
          BY <1>3, <3>1, <3>6
        <5> QED
          BY <3>3, <5>1 DEF Matches
      <4>2. ASSUME NEW s \in U PROVE s \in P(n)
        <5>1. s \in Stored
          BY <1>3
        <5>2. s <= t => t \in U
          BY <1>2, <3>1 DEF IsTail
        <5> QED
          BY <3>1, <3>6, <5>1, <5>2
      <4>3. P(n) = U
        BY <1>6, <4>2
      <4> QED
        BY <1>10, <2>1, <4>1, <4>3
    <3> QED
      BY <3>4, <3>5, <3>6
  <2> QED
    BY <2>2, <2>3
<1>11. P(MaxSteps) = U
  BY <1>8, <1>9
<1>12. \A n \in Nat : IsTail(P(n))
  BY <1>6
<1> QED
  BY <1>7, <1>9, <1>10, <1>11, <1>12 DEF U, V, N

\* the tails that the ends of a range point to
LowTail(r) ==
  IF r.low.kind = "none" THEN Stored
  ELSE IF r.low.kind = "OPEN" THEN After(r.low.value) ELSE AtOrAfter(r.low.value)
HighTail(r) ==
  IF r.high.kind = "none" THEN {}
  ELSE IF r.high.kind = "OPEN" THEN AtOrAfter(r.high.value) ELSE After(r.high.value)

\* the endpoints of a range: keys of the same fields are one or far apart
LEMMA RangeFacts ==
  ASSUME NEW r \in AllRangeKeys
  PROVE  /\ r.low.kind \in {"none", "OPEN", "CLOSED"} /\ r.high.kind \in {"none", "OPEN", "CLOSED"}
         /\ r.low.kind # "none" =>
              r.low.value \in SearchKeys /\ r.low.value \in Nat \X Nat /\ r.low.value[1] <= r.low.value[2] + 1
         /\ r.high.kind # "none" =>
              r.high.value \in SearchKeys /\ r.high.value \in Nat \X Nat /\ r.high.value[1] <= r.high.value[2] + 1
         /\ r.low.kind # "none" /\ r.high.kind # "none" =>
              \/ r.low.value = r.high.value
              \/ Precedes(r.low.value, r.high.value) \/ Precedes(r.high.value, r.low.value)
<1>1. r \in [low : Endpoints, high : Endpoints]
      /\ (r.low.kind # "none" /\ r.high.kind # "none" =>
            r.low.value[2] - r.low.value[1] = r.high.value[2] - r.high.value[1])
  BY DEF AllRangeKeys
<1>2. r.low \in Endpoints /\ r.high \in Endpoints
  BY <1>1
<1>3. \A e \in Endpoints : /\ e.kind \in {"none", "OPEN", "CLOSED"}
                           /\ e.kind # "none" => e.value \in SearchKeys
  BY DEF Endpoints, NoEndpoint
<1>4. \A k \in SearchKeys : k \in Nat \X Nat /\ k[1] <= k[2] + 1
  BY SearchKeysAssumption, KeysAssumption
<1>5. \A k, l \in SearchKeys :
        k[2] - k[1] = l[2] - l[1] => k = l \/ Precedes(k, l) \/ Precedes(l, k)
  BY KeysAssumption
<1> QED
  BY <1>1, <1>2, <1>3, <1>4, <1>5

\* stepping over the tuples that match an open low endpoint
LEMMA LowEnds ==
  ASSUME NEW low, NEW level, IdleTree(low, level), NEW r \in AllRangeKeys
  PROVE  IsTail(LowTail(r)) /\ Points(RangeLowerBound(r), LowTail(r))
<1>1. CASE r.low.kind = "none"
  <2>1. RangeLowerBound(r) = begin
    BY <1>1 DEF RangeLowerBound
  <2> QED
    BY <1>1, <2>1, BeginPoints, WholeTails DEF LowTail
<1>2. CASE r.low.kind = "CLOSED"
  <2>1. RangeLowerBound(r) = LowerBound(r.low.value)
    BY <1>2 DEF RangeLowerBound
  <2>2. r.low.value \in Nat \X Nat
    BY <1>2, RangeFacts
  <2> QED
    BY <1>2, <2>1, <2>2, BoundsPoint DEF LowTail
<1>3. CASE r.low.kind = "OPEN"
  <2> DEFINE k == r.low.value
             P(n) == AfterFirst(AtOrAfter(k), n) \cup After(k)
             Step(it) == IF it # end /\ Matches(The(it.at).key, k) THEN Increment(it) ELSE it
             Is(skip) == skip = [n \in 0..MaxSteps |->
                IF n = 0 THEN LowerBound(r.low.value)
                ELSE LET it == skip[n - 1]
                     IN  IF it # end /\ Matches(The(it.at).key, r.low.value) THEN Increment(it) ELSE it]
             w == CHOOSE skip : Is(skip)
  <2>1. k \in Nat \X Nat /\ k[1] <= k[2] + 1
    BY <1>3, RangeFacts
  <2> HIDE DEF k
  <2>2. /\ \A n \in Nat : IsTail(P(n))
        /\ \A n \in Nat : \A it : Points(it, P(n)) => Points(Step(it), P(n + 1))
        /\ P(0) = AtOrAfter(k) /\ P(MaxSteps) = After(k) /\ MaxSteps \in Nat
    BY <2>1, SkipStep
  <2>3. Points(LowerBound(k), P(0))
    BY <2>1, <2>2, BoundsPoint
  <2>4. RangeLowerBound(r) = w[MaxSteps]
    BY <1>3 DEF RangeLowerBound
  <2>5. \A skip : Is(skip) <=> skip = [n \in 0..MaxSteps |->
                                 IF n = 0 THEN LowerBound(k) ELSE Step(skip[n - 1])]
    BY DEF k
  <2> HIDE DEF P, Step, Is
  <2>6. Is(w)
    <3> DEFINE f == [n \in 0..MaxSteps |-> CHOOSE it : Points(it, P(n))]
    <3>1. \A n \in 0..MaxSteps : Points(f[n], P(n))
      <4>1. \A n \in 0..MaxSteps : \E it : Points(it, P(n))
        <5>1. \A n \in 0..MaxSteps : n \in Nat
          BY <2>2
        <5> QED
          BY <2>2, <5>1, TailsArePointedTo
      <4> QED
        BY <4>1
    <3>2. f = [n \in 0..MaxSteps |-> f[n]]
      OBVIOUS
    <3> HIDE DEF f
    <3>3. f[0] = LowerBound(k)
      BY <2>2, <2>3, <3>1, PointsToOne
    <3>4. ASSUME NEW n \in 0..MaxSteps, n # 0 PROVE f[n] = Step(f[n - 1])
      <4>1. n - 1 \in 0..MaxSteps /\ n - 1 \in Nat /\ n - 1 + 1 = n /\ n \in Nat
        BY <2>2, <3>4
      <4>2. Points(Step(f[n - 1]), P(n)) /\ Points(f[n], P(n)) /\ IsTail(P(n))
        BY <2>2, <3>1, <4>1
      <4> QED
        BY <4>2, PointsToOne
    <3>5. \A n \in 0..MaxSteps : f[n] = IF n = 0 THEN LowerBound(k) ELSE Step(f[n - 1])
      BY <3>3, <3>4
    <3>6. f = [n \in 0..MaxSteps |-> IF n = 0 THEN LowerBound(k) ELSE Step(f[n - 1])]
      BY ONLY <3>2, <3>5
    <3>7. Is(f)
      BY <2>5, <3>6
    <3> QED
      BY <3>7
  <2> HIDE DEF w
  <2>7. w = [n \in 0..MaxSteps |-> IF n = 0 THEN LowerBound(k) ELSE Step(w[n - 1])]
    BY <2>5, <2>6
  <2>8. \A n \in 0..MaxSteps : Points(w[n], P(n))
    <3> DEFINE S == {n \in 0..MaxSteps : Points(w[n], P(n))}
    <3>1. 0 \in S
      <4>1. 0 \in 0..MaxSteps /\ w[0] = LowerBound(k)
        BY <2>2, <2>7
      <4> QED
        BY <2>3, <4>1
    <3>2. ASSUME NEW n \in 0..MaxSteps, n \in S, n < MaxSteps PROVE n + 1 \in S
      <4>1. n + 1 \in 0..MaxSteps /\ n + 1 # 0 /\ n + 1 - 1 = n /\ n \in Nat
        BY <2>2, <3>2
      <4>2. w[n + 1] = Step(w[n])
        BY <2>7, <4>1
      <4> QED
        BY <2>2, <3>2, <4>1, <4>2
    <3> HIDE DEF S
    <3>3. \A n \in 0..MaxSteps : n \in S
      BY <2>2, <3>1, <3>2, UpTo
    <3> QED
      BY <3>3 DEF S
  <2>9. MaxSteps \in 0..MaxSteps /\ Points(w[MaxSteps], After(k))
    BY <2>2, <2>8
  <2>10. IsTail(After(k)) /\ LowTail(r) = After(k)
    BY <1>3, <2>1, BoundsPoint DEF LowTail, k
  <2> QED
    BY <2>4, <2>9, <2>10
<1> QED
  BY <1>1, <1>2, <1>3, RangeFacts

\* stepping back over the tuples that match an open high endpoint
LEMMA HighEnds ==
  ASSUME NEW low, NEW level, IdleTree(low, level), NEW r \in AllRangeKeys
  PROVE  IsTail(HighTail(r)) /\ Points(RangeUpperBound(r), HighTail(r))
<1>1. CASE r.high.kind = "none"
  <2>1. RangeUpperBound(r) = end
    BY <1>1 DEF RangeUpperBound
  <2> QED
    BY <1>1, <2>1, EndPoints, WholeTails DEF HighTail
<1>2. CASE r.high.kind = "CLOSED"
  <2>1. RangeUpperBound(r) = UpperBound(r.high.value)
    BY <1>2 DEF RangeUpperBound
  <2>2. r.high.value \in Nat \X Nat
    BY <1>2, RangeFacts
  <2> QED
    BY <1>2, <2>1, <2>2, BoundsPoint DEF HighTail
<1>3. CASE r.high.kind = "OPEN"
  <2> DEFINE k == r.high.value
             N == Cardinality(AtOrAfter(k) \ After(k))
             P(n) == AfterFirst(AtOrAfter(k), N - n)
             Step(it) == IF Decrement(it) # it /\ Matches(The(Decrement(it).at).key, k)
                           THEN Decrement(it) ELSE it
             Is(back) == back = [n \in 0..MaxSteps |->
                IF n = 0 THEN UpperBound(r.high.value)
                ELSE LET it == back[n - 1]
                         test == Decrement(it)
                     IN  IF test # it /\ Matches(The(test.at).key, r.high.value) THEN test ELSE it]
             w == CHOOSE back : Is(back)
  <2>1. k \in Nat \X Nat /\ k[1] <= k[2] + 1
    BY <1>3, RangeFacts
  <2> HIDE DEF k
  <2>2. /\ \A n \in Nat : IsTail(P(n))
        /\ \A n \in Nat : \A it : Points(it, P(n)) => Points(Step(it), P(n + 1))
        /\ P(0) = After(k) /\ P(MaxSteps) = AtOrAfter(k) /\ MaxSteps \in Nat
    BY <2>1, BackStep
  <2>3. Points(UpperBound(k), P(0))
    BY <2>1, <2>2, BoundsPoint
  <2>4. RangeUpperBound(r) = w[MaxSteps]
    BY <1>3 DEF RangeUpperBound
  <2>5. \A back : Is(back) <=> back = [n \in 0..MaxSteps |->
                                 IF n = 0 THEN UpperBound(k) ELSE Step(back[n - 1])]
    BY DEF k
  <2> HIDE DEF P, Step, Is, N
  <2>6. Is(w)
    <3> DEFINE f == [n \in 0..MaxSteps |-> CHOOSE it : Points(it, P(n))]
    <3>1. \A n \in 0..MaxSteps : Points(f[n], P(n))
      <4>1. \A n \in 0..MaxSteps : \E it : Points(it, P(n))
        <5>1. \A n \in 0..MaxSteps : n \in Nat
          BY <2>2
        <5> QED
          BY <2>2, <5>1, TailsArePointedTo
      <4> QED
        BY <4>1
    <3>2. f = [n \in 0..MaxSteps |-> f[n]]
      OBVIOUS
    <3> HIDE DEF f
    <3>3. f[0] = UpperBound(k)
      BY <2>2, <2>3, <3>1, PointsToOne
    <3>4. ASSUME NEW n \in 0..MaxSteps, n # 0 PROVE f[n] = Step(f[n - 1])
      <4>1. n - 1 \in 0..MaxSteps /\ n - 1 \in Nat /\ n - 1 + 1 = n /\ n \in Nat
        BY <2>2, <3>4
      <4>2. Points(Step(f[n - 1]), P(n)) /\ Points(f[n], P(n)) /\ IsTail(P(n))
        BY <2>2, <3>1, <4>1
      <4> QED
        BY <4>2, PointsToOne
    <3>5. \A n \in 0..MaxSteps : f[n] = IF n = 0 THEN UpperBound(k) ELSE Step(f[n - 1])
      BY <3>3, <3>4
    <3>6. f = [n \in 0..MaxSteps |-> IF n = 0 THEN UpperBound(k) ELSE Step(f[n - 1])]
      BY ONLY <3>2, <3>5
    <3>7. Is(f)
      BY <2>5, <3>6
    <3> QED
      BY <3>7
  <2> HIDE DEF w
  <2>7. w = [n \in 0..MaxSteps |-> IF n = 0 THEN UpperBound(k) ELSE Step(w[n - 1])]
    BY <2>5, <2>6
  <2>8. \A n \in 0..MaxSteps : Points(w[n], P(n))
    <3> DEFINE S == {n \in 0..MaxSteps : Points(w[n], P(n))}
    <3>1. 0 \in S
      <4>1. 0 \in 0..MaxSteps /\ w[0] = UpperBound(k)
        BY <2>2, <2>7
      <4> QED
        BY <2>3, <4>1
    <3>2. ASSUME NEW n \in 0..MaxSteps, n \in S, n < MaxSteps PROVE n + 1 \in S
      <4>1. n + 1 \in 0..MaxSteps /\ n + 1 # 0 /\ n + 1 - 1 = n /\ n \in Nat
        BY <2>2, <3>2
      <4>2. w[n + 1] = Step(w[n])
        BY <2>7, <4>1
      <4> QED
        BY <2>2, <3>2, <4>1, <4>2
    <3> HIDE DEF S
    <3>3. \A n \in 0..MaxSteps : n \in S
      BY <2>2, <3>1, <3>2, UpTo
    <3> QED
      BY <3>3 DEF S
  <2>9. MaxSteps \in 0..MaxSteps /\ Points(w[MaxSteps], AtOrAfter(k))
    BY <2>2, <2>8
  <2>10. IsTail(AtOrAfter(k)) /\ HighTail(r) = AtOrAfter(k)
    BY <1>3, <2>1, BoundsPoint DEF HighTail, k
  <2> QED
    BY <2>4, <2>9, <2>10
<1> QED
  BY <1>1, <1>2, <1>3, RangeFacts

\* the tuples of a range are those between the two, and a range that is not valid has none
LEMMA RangeTuples ==
  ASSUME NEW low, NEW level, IdleTree(low, level), NEW r \in AllRangeKeys
  PROVE  LET S == {t \in Stored : InRange(t, r)}
         IN  IF IsValid(r) THEN HighTail(r) \subseteq LowTail(r) /\ S = LowTail(r) \ HighTail(r)
             ELSE S = {}
<1> DEFINE l == r.low.value
           h == r.high.value
           S == {t \in Stored : InRange(t, r)}
           a == r.low.kind
           b == r.high.kind
<1>1. \A t \in Stored : t \in Nat
  BY StoredIsHeld
<1>2. /\ a \in {"none", "OPEN", "CLOSED"} /\ b \in {"none", "OPEN", "CLOSED"}
      /\ a # "none" => l[1] \in Nat /\ l[2] \in Nat /\ l[1] <= l[2] + 1
      /\ b # "none" => h[1] \in Nat /\ h[2] \in Nat /\ h[1] <= h[2] + 1
      /\ a # "none" /\ b # "none" => l = h \/ l[2] < h[1] \/ h[2] < l[1]
  BY RangeFacts DEF Precedes
<1>3. \A t : t \in S <=> /\ t \in Stored
                         /\ (a = "OPEN" => l[2] < t) /\ (a = "CLOSED" => l[1] <= t)
                         /\ (b = "OPEN" => t < h[1]) /\ (b = "CLOSED" => t <= h[2])
  BY DEF InRange
<1>4. \A t : t \in LowTail(r) <=> /\ t \in Stored
                                  /\ (a = "OPEN" => l[2] < t) /\ (a = "CLOSED" => l[1] <= t)
  BY <1>2 DEF LowTail, After, AtOrAfter
<1>5. \A t : t \in HighTail(r) <=> /\ t \in Stored /\ b # "none"
                                   /\ (b = "OPEN" => h[1] <= t) /\ (b = "CLOSED" => h[2] < t)
  BY <1>2 DEF HighTail, After, AtOrAfter
<1>6. IsValid(r) <=> \/ a = "none" \/ b = "none"
                     \/ a = "OPEN" /\ b = "OPEN" /\ l[2] < h[1]
                     \/ ~(a = "OPEN" /\ b = "OPEN") /\ ~(h[2] < l[1])
  BY DEF IsValid, Precedes
<1> HIDE DEF S, a, b, l, h
<1>7. CASE IsValid(r)
  <2>1. ASSUME NEW t \in HighTail(r) PROVE t \in LowTail(r)
    <3>1. t \in Stored /\ t \in Nat /\ b # "none"
          /\ (b = "OPEN" => h[1] <= t) /\ (b = "CLOSED" => h[2] < t)
      BY <1>1, <1>5
    <3>2. a = "OPEN" => l[2] < t
      <4> SUFFICES ASSUME a = "OPEN" PROVE l[2] < t
        OBVIOUS
      <4>1. (b = "OPEN" /\ l[2] < h[1]) \/ (b = "CLOSED" /\ ~(h[2] < l[1]))
        BY <1>2, <1>6, <1>7, <3>1
      <4>2. l = h \/ l[2] < h[1] \/ h[2] < l[1]
        BY <1>2, <3>1
      <4> QED
        BY <1>2, <3>1, <4>1, <4>2
    <3>3. a = "CLOSED" => l[1] <= t
      <4> SUFFICES ASSUME a = "CLOSED" PROVE l[1] <= t
        OBVIOUS
      <4>1. ~(h[2] < l[1])
        BY <1>6, <1>7, <3>1
      <4>2. l = h \/ l[2] < h[1]
        BY <1>2, <3>1, <4>1
      <4> QED
        BY <1>2, <3>1, <4>1, <4>2
    <3> QED
      BY <1>4, <3>1, <3>2, <3>3
  <2>2. ASSUME NEW t \in Stored PROVE t \in S <=> t \in LowTail(r) /\ t \notin HighTail(r)
    <3>1. t \in Nat
      BY <1>1
    <3>2. t \in HighTail(r) <=> b # "none" /\ ~((b = "OPEN" => t < h[1]) /\ (b = "CLOSED" => t <= h[2]))
      BY <1>2, <1>5, <3>1
    <3> QED
      BY <1>2, <1>3, <1>4, <3>2
  <2>3. \A t : (t \in S \/ t \in LowTail(r)) => t \in Stored
    BY <1>3, <1>4
  <2>4. S = LowTail(r) \ HighTail(r)
    BY <2>2, <2>3
  <2> QED
    BY <1>7, <2>1, <2>4 DEF S
<1>8. CASE ~IsValid(r)
  <2> SUFFICES ASSUME NEW t \in S PROVE FALSE
    BY <1>8 DEF S
  <2>1. /\ t \in Nat
        /\ (a = "OPEN" => l[2] < t) /\ (a = "CLOSED" => l[1] <= t)
        /\ (b = "OPEN" => t < h[1]) /\ (b = "CLOSED" => t <= h[2])
    BY <1>1, <1>3
  <2>2. a # "none" /\ b # "none" /\ (a = "OPEN" /\ b = "OPEN" => ~(l[2] < h[1]))
        /\ (~(a = "OPEN" /\ b = "OPEN") => h[2] < l[1])
    BY <1>6, <1>8
  <2>3. l[1] \in Nat /\ l[2] \in Nat /\ h[1] \in Nat /\ h[2] \in Nat
        /\ l[1] <= l[2] + 1 /\ h[1] <= h[2] + 1
    BY <1>2, <2>2
  <2> QED
    BY <1>2, <2>1, <2>2, <2>3
<1> QED
  BY <1>7, <1>8

\* every range is searched exactly
LEMMA RangesWork ==
  ASSUME NEW low, NEW level, IdleTree(low, level)
  PROVE  RangesAreExact
<1> SUFFICES ASSUME NEW r \in AllRangeKeys
             PROVE  Scan(EqualRange(r)[1], EqualRange(r)[2]) = InOrder({t \in Stored : InRange(t, r)})
  BY DEF RangesAreExact
<1> DEFINE S == {t \in Stored : InRange(t, r)}
<1>1. /\ IsTail(LowTail(r)) /\ Points(RangeLowerBound(r), LowTail(r))
      /\ IsTail(HighTail(r)) /\ Points(RangeUpperBound(r), HighTail(r))
  BY LowEnds, HighEnds
<1>2. IF IsValid(r) THEN HighTail(r) \subseteq LowTail(r) /\ S = LowTail(r) \ HighTail(r) ELSE S = {}
  BY RangeTuples
<1> HIDE DEF S
<1>3. CASE IsValid(r)
  <2>1. EqualRange(r) = <<RangeLowerBound(r), RangeUpperBound(r)>>
    BY <1>3 DEF EqualRange
  <2>2. Scan(RangeLowerBound(r), RangeUpperBound(r)) = InOrder(LowTail(r) \ HighTail(r))
    BY <1>1, <1>2, <1>3, ScanVisits
  <2> QED
    BY <1>2, <1>3, <2>1, <2>2 DEF S
<1>4. CASE ~IsValid(r)
  <2>1. EqualRange(r) = <<RangeLowerBound(r), RangeLowerBound(r)>>
    BY <1>4 DEF EqualRange
  <2>2. Scan(RangeLowerBound(r), RangeLowerBound(r)) = InOrder(LowTail(r) \ LowTail(r))
    BY <1>1, ScanVisits
  <2>3. LowTail(r) \ LowTail(r) = S
    BY <1>2, <1>4
  <2> QED
    BY <2>1, <2>2, <2>3 DEF S
<1> QED
  BY <1>3, <1>4

-----------------------------------------------------------------------------
(***************************************************************************)
(* The theorems.                                                           *)
(***************************************************************************)
(***************************************************************************)
(* Loading never aborts: no index entry that a redistribution or a split   *)
(* looks for is missing, no page that is to take one is full, and no link  *)
(* leads nowhere.                                                          *)
(***************************************************************************)
THEOREM LoadingNeverAborts == LoadingSpec => []NeverAborts
BY LoadingInvariant, LoadedTree, PTL

(***************************************************************************)
(* Every child a branch of a loaded tree has names it as its parent, the   *)
(* children a split moved to a fresh branch included.                      *)
(***************************************************************************)
THEOREM LoadingKeepsParents == LoadingSpec => []ParentsAgree
BY LoadingInvariant, LoadedTree, PTL

(***************************************************************************)
(* Sibling links agree at every level, whatever is inserted between two    *)
(* siblings by a split.                                                    *)
(***************************************************************************)
THEOREM LoadingKeepsSiblings == LoadingSpec => []SiblingLinksAgree
BY LoadingInvariant, LoadedTree, PTL

(***************************************************************************)
(* The chain of leaves has the tuples in order, from the first leaf to the *)
(* last, as iterators need it.                                             *)
(***************************************************************************)
THEOREM LoadingKeepsOrder == LoadingSpec => []LeafChainInOrder
BY LoadingInvariant, LoadedTree, PTL

(***************************************************************************)
(* A node a split takes has never been used: there is nothing left in it.  *)
(***************************************************************************)
THEOREM LoadingKeepsFreeNodesBlank == LoadingSpec => []FreeNodesAreBlank
BY LoadingInvariant, LoadedTree, PTL

(***************************************************************************)
(* No tuple is stored twice, as insert_tuple assumes of a primary key.     *)
(***************************************************************************)
THEOREM LoadingKeepsKeysUnique == LoadingSpec => []KeysAreUnique
BY LoadingInvariant, LoadedTree, PTL

(***************************************************************************)
(* Every page but the root's is at least half full and none overflows, as  *)
(* the splits and redistributions divide them.                             *)
(***************************************************************************)
THEOREM LoadingKeepsPagesHalfFull == LoadingSpec => []PagesHalfFull
BY LoadingInvariant, LoadedTree, PTL

(***************************************************************************)
(* m_tupleCount is the number of tuples stored, modulo the width of the    *)
(* counter; on the way up the tuple stored is not counted yet.             *)
(***************************************************************************)
THEOREM LoadingKeepsCount == LoadingSpec => []CountIsExact
BY LoadingInvariant, LoadedTree, PTL

\* a new tree is an empty store
LEMMA NewTreeIsEmpty == Init => Store!Init
<1> SUFFICES ASSUME Init PROVE Store!Init
  OBVIOUS
<1>1. pc = "idle" /\ Live = {0} /\ m_nodes = [id \in NodeIDs |-> BlankNode] /\ 0 \in NodeIDs
  BY BoundsAssumption DEF Init, Live, NodeIDs
<1>2. m_nodes[0] = BlankNode /\ BlankNode.page = {}
  BY <1>1 DEF BlankNode
<1>3. Stored = {}
  BY <1>1, <1>2 DEF Stored
<1>4. Pending = [op |-> "none", key |-> <<0, 0>>]
  BY <1>1 DEF Pending
<1> QED
  BY <1>3, <1>4 DEF Store!Init, Store!NoCall

\* a step of the tree is a step of the store, or none
LEMMA LoadingStepIsServed == LoadingIInv /\ [LoadingNext]_vars => [Store!Next]_(Store!vars)
<1> SUFFICES ASSUME LoadingIInv, [LoadingNext]_vars PROVE [Store!Next]_(Store!vars)
  OBVIOUS
<1>1. /\ TypeOK /\ IDsConsistent(m_nodeIDAllocator) /\ \E low, level : LoadInv(low, level)
  BY DEF LoadingIInv
<1>2. \/ Quiet
      \/ Serves
      \/ \E t \in Tuples : /\ t \notin Stored /\ Stored' = Stored
                           /\ pc = "idle" /\ pc' = "insertDown" /\ key' = <<t, t>>
  BY <1>1, LoadingStepPreserves
<1>3. CASE Quiet
  BY <1>3 DEF Quiet, Store!vars
<1>4. CASE Serves
  <2>1. Pending = [op |-> "insert", key |-> key] /\ Stored' = Stored \cup {key[1]}
    BY <1>4 DEF Serves, Pending
  <2>2. Pending' = [op |-> "none", key |-> <<0, 0>>]
    BY <1>4 DEF Serves, Pending
  <2>3. Pending.op = "insert" /\ Pending.key = key
    BY <2>1
  <2> QED
    BY <2>1, <2>2, <2>3 DEF Store!Next, Store!Serve, Store!Insert, Store!NoCall
<1>5. ASSUME NEW t \in Tuples, t \notin Stored, Stored' = Stored,
             pc = "idle", pc' = "insertDown", key' = <<t, t>>
      PROVE  Store!Next
  <2>1. Pending = [op |-> "none", key |-> <<0, 0>>]
    BY <1>5 DEF Pending
  <2>2. Pending' = [op |-> "insert", key |-> <<t, t>>]
    BY <1>5 DEF Pending
  <2>3. Store!CallInsert(t)
    BY <1>5, <2>1, <2>2 DEF Store!CallInsert, Store!Call, Store!NoCall
  <2> QED
    BY <2>3 DEF Store!Next
<1> QED
  BY <1>2, <1>3, <1>4, <1>5

(***************************************************************************)
(* A tree that is only loaded implements the tuple store: an insertion     *)
(* stores exactly its tuple, in the step in which the leaf is dealt with,  *)
(* and no step of the way up stores or loses one.                          *)
(***************************************************************************)
THEOREM LoadingImplementsTupleStore == LoadingSpec => ImplementsTupleStoreSafely
BY LoadingInvariant, LoadingStepIsServed, NewTreeIsEmpty, PTL
   DEF LoadingSpec, ImplementsTupleStoreSafely, Store!Safety

\* between two calls it is a tree with no orphan
LEMMA LoadedIsIdle ==
  ASSUME LoadingIInv, pc = "idle"
  PROVE  \E low, level : IdleTree(low, level)
<1>1. PICK low, level : LoadInv(low, level)
  BY DEF LoadingIInv
<1>2. result = NoResult
  BY <1>1 DEF LoadInv
<1>3. OrphanOf(result) = NoNode
  BY <1>2 DEF OrphanOf, NoResult
<1>4. IdleTree(low, level)
  BY <1>1, <1>3 DEF LoadInv, IdleTree
<1> QED
  BY <1>4

\* so its queries are right, as they are asked between calls
LEMMA LoadedAnswers ==
  LoadingIInv => FindsFirstMatch /\ FindsTheLongKey /\ IterationIsComplete /\ RangesAreExact
<1>1. CASE pc # "idle"
  BY <1>1 DEF FindsFirstMatch, FindsTheLongKey, IterationIsComplete, RangesAreExact
<1>2. CASE LoadingIInv /\ pc = "idle"
  <2>1. PICK low, level : IdleTree(low, level)
    BY <1>2, LoadedIsIdle
  <2> QED
    BY <2>1, FindIsExact, LongFindIsExact, IterationWorks, RangesWork
<1> QED
  BY <1>1, <1>2

(***************************************************************************)
(* While tuples are only inserted find() returns the first tuple that      *)
(* matches its key, or end() (BTree.h:342-350).                            *)
(***************************************************************************)
THEOREM LoadingFindsFirstMatch == LoadingSpec => []FindsFirstMatch
BY LoadingInvariant, LoadedAnswers, PTL

(***************************************************************************)
(* Also when the key is longer than a branch key and a branch takes a      *)
(* child's node ID for the last field of it (BTree.cpp:618-638).           *)
(***************************************************************************)
THEOREM LoadingFindsLongKeys == LoadingSpec => []FindsTheLongKey
BY LoadingInvariant, LoadedAnswers, PTL

(***************************************************************************)
(* begin() to end() visits every tuple once, in order, and operator-- from *)
(* end() visits them in reverse (BTree.h:129-228).                         *)
(***************************************************************************)
THEOREM LoadingIterates == LoadingSpec => []IterationIsComplete
BY LoadingInvariant, LoadedAnswers, PTL

(***************************************************************************)
(* equal_range() encloses the tuples of its range, for all the open,       *)
(* closed and missing endpoints it may have (BTree.h:301-318).             *)
(***************************************************************************)
THEOREM LoadingSearchesRanges == LoadingSpec => []RangesAreExact
BY LoadingInvariant, LoadedAnswers, PTL
=============================================================================
