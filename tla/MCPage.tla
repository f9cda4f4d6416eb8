------------------------------- MODULE MCPage -------------------------------
(***************************************************************************)
(* Small instances of a page for TLC: search keys match one tuple, or two. *)
(***************************************************************************)
EXTENDS InMemorySortedPage

CONSTANT N      \* the number of tuples

MCTuples == 1..N
MCKeys == {<<t, t>> : t \in 1..N} \cup {<<t, t + 1>> : t \in 1..(N - 1)}
==============================================================================
