------------------------------- MODULE Fields -------------------------------
(***************************************************************************)
(* The typed fields of whery's tuples: what Field and the field            *)
(* manipulators (src/db/base/Field.cpp, *FieldManipulator.cpp) read, write *)
(* and compare.  A double is counted in halves, so that there are doubles  *)
(* between two ints, or is NaN; an int has the width of a small machine.   *)
(*                                                                         *)
(* A read is the set of values it may yield: none if it throws bad_cast,   *)
(* and any if it casts a double to int that no int comes near, which is    *)
(* undefined.                                                              *)
(***************************************************************************)
EXTENDS Integers

CONSTANTS
  MinInt, MaxInt,   \* the range of int
  Doubles,          \* the doubles there are, in halves
  NaN,              \* the double that is not a number
  Uuids             \* the UUIDs there are, by their place in their order

ASSUME FieldsAssumption ==
  /\ MinInt \in Int /\ MaxInt \in Int
  /\ Doubles \subseteq Int \cup {NaN} /\ NaN \notin Int
  /\ Uuids \subseteq Int

Ints == MinInt..MaxInt

IntFields == [type : {"int"}, value : Ints]
DoubleFields == [type : {"double"}, value : Doubles]
UuidFields == [type : {"uuid"}, value : Uuids]

\* casting to int drops the fraction
Truncated(double) == IF double >= 0 THEN double \div 2 ELSE -((-double) \div 2)

CastToInt(double) ==
  IF double # NaN /\ Truncated(double) \in Ints THEN {Truncated(double)} ELSE Ints

get_int(f) ==
  CASE f.type = "int" -> {f.value}
    [] f.type = "double" -> CastToInt(f.value)
    [] f.type = "uuid" -> {}

\* mutant: the int is not made a double
get_doubleOfIntAsIs(f) == IF f.type = "uuid" THEN {} ELSE {f.value}

get_double(f) ==
  CASE f.type = "int" -> {2 * f.value}
    [] f.type = "double" -> {f.value}
    [] f.type = "uuid" -> {}

get_uuid(f) == IF f.type = "uuid" THEN {f.value} ELSE {}

\* mutant: the value is taken as it is
ConvertedNot(type, f) == {f.value}

\* a field's value as one of the given type: what set_from() writes
Converted(type, f) ==
  CASE type = "int" -> get_int(f)
    [] type = "double" -> get_double(f)
    [] type = "uuid" -> get_uuid(f)

\* std::less finds NaN neither before nor after anything
Less(x, y) == x # NaN /\ y # NaN /\ x < y
compare_with_less(x, y) == IF Less(x, y) THEN -1 ELSE IF Less(y, x) THEN 1 ELSE 0

\* the other value is converted to the type of this one, never the reverse
compare_to(f, g) == {compare_with_less(f.value, y) : y \in Converted(f.type, g)}
=============================================================================
