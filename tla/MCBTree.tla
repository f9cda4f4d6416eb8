------------------------------- MODULE MCBTree -------------------------------
(***************************************************************************)
(* Small instances of the B+-tree for TLC.                                 *)
(***************************************************************************)
EXTENDS BTreeLookup

CONSTANT N      \* the number of tuples

MCTuples == 1..N

\* keys as long as a tuple's key match at most one tuple; shorter ones match
\* a run of tuples (here of two, {2m, 2m+1})
PointKeys  == {<<t, t>> : t \in 1..N}
PrefixKeys == PointKeys \cup {<<2 * m, 2 * m + 1>> : m \in 0..(N \div 2)}
==============================================================================
