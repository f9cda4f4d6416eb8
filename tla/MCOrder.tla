------------------------------ MODULE MCOrder ------------------------------
(***************************************************************************)
(* Small instances of TupleOrder for TLC: tuples of <int,double,uuid>, keys*)
(* are prefixes of them, and keys whose only field is a double, as         *)
(* FieldTest compares one with an int.                                     *)
(***************************************************************************)
EXTENDS TupleOrder

CONSTANTS SomeDoubles, KeyDoubles

Column(i, d) == [index |-> i, direction |-> d]
MCMinInt == -1
WholeDoubles == {2 * n : n \in Ints}
MCDoubles == SomeDoubles \cup KeyDoubles
Doubled == [type : {"double"}, value : SomeDoubles]
MCTuples == {<<x, y, z>> : x \in IntFields, y \in Doubled, z \in UuidFields}
MCKeys ==
  {<<x>> : x \in IntFields} \cup {<<x>> : x \in [type : {"double"}, value : KeyDoubles]}
    \cup {<<x, y>> : x \in IntFields, y \in Doubled} \cup MCTuples
MCOrders ==
  {<<>>, <<Column(2, "DESC"), Column(1, "ASC")>>, <<Column(2, "ASC")>>,
   <<Column(1, "DESC"), Column(3, "DESC")>>, Default(2)}
=============================================================================
