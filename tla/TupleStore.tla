------------------------------ MODULE TupleStore ------------------------------
(***************************************************************************)
(* What whery's B+-tree promises its callers (the comments on insert_tuple *)
(* and erase_tuple in BTree.h:320-326 and 352-357): a set of tuples, to    *)
(* which a call adds the tuple it was given, or from which it removes the  *)
(* first tuple that matches its key.  One call is served at a time, and    *)
(* each one eventually.                                                    *)
(***************************************************************************)
EXTENDS Naturals

CONSTANTS
  Tuples,       \* the tuples that may be inserted
  SearchKeys    \* the keys that may be erased, as <<low, high>>

VARIABLES
  stored,       \* the tuples in the store
  pending       \* the call to be served, if there is one

vars == <<stored, pending>>

NoCall == [op |-> "none", key |-> <<0, 0>>]

Matching(k) == {t \in stored : k[1] <= t /\ t <= k[2]}
FirstMatching(k) == {t \in Matching(k) : \A u \in Matching(k) : t <= u}

Init == stored = {} /\ pending = NoCall

Call(op, k) == pending = NoCall /\ pending' = [op |-> op, key |-> k] /\ UNCHANGED stored

CallInsert(t) == t \notin stored /\ Call("insert", <<t, t>>)
CallErase(k)  == Call("erase", k)

Insert ==
  /\ pending.op = "insert"
  /\ stored' = stored \cup {pending.key[1]}
  /\ pending' = NoCall

Erase ==
  /\ pending.op = "erase"
  /\ stored' = stored \ FirstMatching(pending.key)
  /\ pending' = NoCall

Serve == Insert \/ Erase

Next ==
  \/ \E t \in Tuples : CallInsert(t)
  \/ \E k \in SearchKeys : CallErase(k)
  \/ Serve

Safety == Init /\ [][Next]_vars
Spec == Safety /\ WF_vars(Serve)
===============================================================================
