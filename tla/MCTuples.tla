------------------------------ MODULE MCTuples ------------------------------
(***************************************************************************)
(* A small instance of Tuples for TLC: a tuple of <int,double,uuid> and a  *)
(* second one made as a copy of it.  Of the doubles one is truncated by a  *)
(* cast to int and one is beyond all ints.                                 *)
(***************************************************************************)
EXTENDS Tuples

MCInitialBuffer ==
  <<[type |-> "int", value |-> 1], [type |-> "double", value |-> 3], [type |-> "uuid", value |-> 0]>>
MCProjections == {<<1, 2, 3>>, <<2, 1, 3>>, <<1, 3, 2>>, <<1, 1, 3>>, <<2, 1>>}
=============================================================================
