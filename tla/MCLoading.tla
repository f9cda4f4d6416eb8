------------------------------ MODULE MCLoading ------------------------------
(***************************************************************************)
(* A small instance of a tree that is only loaded.  What the ghosts of     *)
(* BTreeLoading are is computed from the tree: a leaf begins at its first  *)
(* tuple and a branch where its first child does.                          *)
(***************************************************************************)
EXTENDS BTreeLoading

CONSTANT N

MCTuples == 1..N

LevelNow ==
  LET above[n \in 0..MaxNodes, x \in NodeIDs] ==
        IF n = 0 \/ x \notin Live \/ ~HasChildren(m_nodes, x) THEN 0
        ELSE 1 + above[n - 1, m_nodes[x].firstChildID]
  IN  [x \in NodeIDs |-> above[MaxNodes, x]]

LowNow ==
  LET first[n \in 0..MaxNodes, x \in NodeIDs] ==
        IF n = 0 \/ x \notin Live \/ (m_nodes[x].siblingLeftID = NoNode) THEN -1
        ELSE IF HasChildren(m_nodes, x) THEN first[n - 1, m_nodes[x].firstChildID]
        ELSE The(FirstOf(m_nodes[x].page)).key
  IN  [x \in NodeIDs |-> first[MaxNodes, x]]

(***************************************************************************)
(* The invariant that LoadingIInv says some ghosts satisfy.                *)
(***************************************************************************)
InvariantHolds == LoadInv(LowNow, LevelNow)
==============================================================================
