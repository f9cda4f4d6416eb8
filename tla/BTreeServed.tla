------------------------------ MODULE BTreeServed ------------------------------
(***************************************************************************)
(* The B+-tree under callers of which the code serves every call, in trees *)
(* of any height: one loads tuples in any order and keeps them, one uses   *)
(* the tree as a deque, and one as a log, to which only the next tuple is  *)
(* added.  Of the deque and the log only the smallest or the largest is    *)
(* erased.  Each caller has tuples of its own, those of the deque numbered *)
(* consecutively, and whoever finds the tree empty may use it.             *)
(***************************************************************************)
EXTENDS BTreeWorkloads

CONSTANTS
  Loaded,       \* the tuples that are loaded and kept,
  Logged        \* and those of the log; the others are the deque's

BeforeAll(t) == \A u \in Stored : t < u
AtEitherEnd(t) ==
  \/ Stored = {}
  \/ AfterAll(t) /\ t - 1 \in Stored
  \/ BeforeAll(t) /\ t + 1 \in Stored

MatchesFirst(k) == MatchesSome(k) /\ \A t \in Stored : k[1] <= t
MatchesLast(k)  == MatchesSome(k) /\ \A t \in Stored : t <= k[1]

IsDeque == Stored \cap (Loaded \cup Logged) = {}
IsLog   == Stored \subseteq Logged

Load == Stored \subseteq Loaded /\ \E t \in Loaded : InsertCall(t)
Push == IsDeque /\ \E t \in Tuples \ (Loaded \cup Logged) : AtEitherEnd(t) /\ InsertCall(t)
Log  == IsLog /\ \E t \in Logged : Stored = {u \in Logged : u < t} /\ InsertCall(t)
Pop  == (IsDeque \/ IsLog) /\ \E k \in SearchKeys : (MatchesFirst(k) \/ MatchesLast(k)) /\ EraseCall(k)

ServedNext ==
  \/ pc = "idle" /\ (Load \/ Push \/ Log \/ Pop)
  \/ InsertStep
  \/ EraseStep

\* a call runs on one thread and does not stop by itself
ServedSpec == Init /\ [][ServedNext]_vars /\ WF_vars(InsertStep \/ EraseStep)
================================================================================
