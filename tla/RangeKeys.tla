------------------------------ MODULE RangeKeys ------------------------------
(***************************************************************************)
(* whery's RangeKey (src/db/base/RangeKey.cpp): a low and a high endpoint, *)
(* each a search key that is open or closed, or missing.  A search key is  *)
(* the interval <<low, high>> of the tuples it compares equal to; keys     *)
(* shorter than a tuple match several.                                     *)
(***************************************************************************)
EXTENDS Integers

CONSTANT SearchKeys

NoEndpoint == [kind |-> "none", value |-> <<0, 0>>]
Endpoints == {NoEndpoint} \cup [kind : {"OPEN", "CLOSED"}, value : SearchKeys]

\* both values are made from the same fields (RangeKey.cpp:128-135), so they
\* are equally long
AllRangeKeys ==
  {r \in [low : Endpoints, high : Endpoints] :
     r.low.kind # "none" /\ r.high.kind # "none" =>
       r.low.value[2] - r.low.value[1] = r.high.value[2] - r.high.value[1]}

\* the order of PrefixTupleComparator between keys, and between tuple and key
Precedes(k, l) == k[2] < l[1]
Matches(t, k) == k[1] <= t /\ t <= k[2]

IsValid(r) ==
  \/ r.low.kind = "none" \/ r.high.kind = "none"
  \/ r.low.kind = "OPEN" /\ r.high.kind = "OPEN" /\ Precedes(r.low.value, r.high.value)
  \/ ~(r.low.kind = "OPEN" /\ r.high.kind = "OPEN") /\ ~Precedes(r.high.value, r.low.value)

\* what a range means, as a reference for those who search with it
InRange(t, r) ==
  /\ r.low.kind  = "OPEN"   => r.low.value[2] < t
  /\ r.low.kind  = "CLOSED" => r.low.value[1] <= t
  /\ r.high.kind = "OPEN"   => t < r.high.value[1]
  /\ r.high.kind = "CLOSED" => t <= r.high.value[2]
==============================================================================
