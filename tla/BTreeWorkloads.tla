---------------------------- MODULE BTreeWorkloads ----------------------------
(***************************************************************************)
(* The B+-tree and the store of tuples it implements, and the calls its    *)
(* callers make.  BTree lets any call follow any other; the workloads      *)
(* restrict the calls, never what they do.  In all of them a key that is   *)
(* erased matches a stored tuple.  BTreeDrain and BTreeServed have others; *)
(* here are that of a primary index, in which each tuple inserted is       *)
(* larger than all that are stored (its ID is auto-incremented) and any is *)
(* erased, and that of a tree that is only loaded, in any order.           *)
(***************************************************************************)
EXTENDS BTreeLookup

AfterAll(t) == \A u \in Stored : u < t
MatchesSome(k) == \E t \in Stored : Matches(t, k)

AscendingNext ==
  \/ \E t \in Tuples : AfterAll(t) /\ InsertCall(t)
  \/ \E k \in SearchKeys : MatchesSome(k) /\ EraseCall(k)
  \/ InsertStep
  \/ EraseStep

AscendingSpec == Init /\ [][AscendingNext]_vars

LoadingNext ==
  \/ \E t \in Tuples : InsertCall(t)
  \/ InsertStep

LoadingSpec == Init /\ [][LoadingNext]_vars

-----------------------------------------------------------------------------
\* a call takes effect in the step in which the leaf is dealt with
Pending ==
  IF pc = "insertDown" THEN [op |-> "insert", key |-> key]
  ELSE IF pc = "eraseDown" THEN [op |-> "erase", key |-> key]
  ELSE [op |-> "none", key |-> <<0, 0>>]

Store == INSTANCE TupleStore WITH stored <- Stored, pending <- Pending

(***************************************************************************)
(* The tree implements the tuple store: whatever is redistributed, split   *)
(* or merged on the way, an insertion adds exactly its tuple, an erasure   *)
(* removes exactly the first tuple that matches its key, and every call is *)
(* served.  The first property leaves out the last part.                   *)
(***************************************************************************)
ImplementsTupleStoreSafely == Store!Safety
ImplementsTupleStore == Store!Spec

(***************************************************************************)
(* Every call returns: the walk down reaches a leaf and each frame on the  *)
(* stack knows what to do with what the one below it reports.              *)
(***************************************************************************)
CallsReturn == pc # "idle" ~> pc = "idle"
=============================================================================
