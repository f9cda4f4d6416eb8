------------------------------ MODULE MCLayout ------------------------------
(***************************************************************************)
(* whery's field types for TLC: their sizes in bytes, which are also what  *)
(* they ask for as alignment.                                              *)
(***************************************************************************)
EXTENDS TupleLayout

MCTypes == {"int", "double", "uuid"}
MCSize == [t \in MCTypes |-> CASE t = "int" -> 4 [] t = "double" -> 8 [] t = "uuid" -> 16]
MCSlots == 0..2
MCOffsets == {4 * n : n \in 0..13}
==============================================================================
