------------------------------- MODULE MCServed -------------------------------
(***************************************************************************)
(* A small instance for TLC: the first tuples are the deque's, the next    *)
(* are loaded and the last are those of the log.                           *)
(***************************************************************************)
EXTENDS BTreeServed, MCBTree

CONSTANTS
  Queued,     \* how many tuples the deque may hold,
  Kept        \* and how many are loaded; the others are the log's

MCLoaded == (Queued + 1)..(Queued + Kept)
MCLogged == (Queued + Kept + 1)..N
===============================================================================
