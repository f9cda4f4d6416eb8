------------------------------ MODULE MCLongKeys ------------------------------
(***************************************************************************)
(* A small instance of searches with long keys for TLC: payloads below,    *)
(* among and above the node IDs.                                           *)
(***************************************************************************)
EXTENDS BTreeLongKeys, MCBTree

MCPayloadValues == 0..4
MCPayload == [t \in MCTuples |-> (2 * t) % 5]
==============================================================================
