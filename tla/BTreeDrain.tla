------------------------------ MODULE BTreeDrain ------------------------------
(***************************************************************************)
(* The B+-tree under a caller with a history: tuples are inserted in any   *)
(* order ("load"), and then keys that match a stored tuple are erased in   *)
(* any order ("drain").                                                    *)
(***************************************************************************)
EXTENDS BTreeWorkloads

VARIABLE phase

Load(t) == phase = "load" /\ InsertCall(t) /\ UNCHANGED phase
Drain(k) == MatchesSome(k) /\ EraseCall(k) /\ phase' = "drain"

LoadThenDrainNext ==
  \/ \E t \in Tuples : Load(t)
  \/ \E k \in SearchKeys : Drain(k)
  \/ (InsertStep \/ EraseStep) /\ UNCHANGED phase

LoadThenDrainSpec == Init /\ phase = "load" /\ [][LoadThenDrainNext]_<<vars, phase>>
=============================================================================
