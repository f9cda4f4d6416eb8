------------------------------- MODULE MCDrain -------------------------------
(***************************************************************************)
(* Small instances of loading and draining for TLC.                        *)
(***************************************************************************)
EXTENDS BTreeDrain, MCBTree
==============================================================================
