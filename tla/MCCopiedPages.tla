---------------------------- MODULE MCCopiedPages ----------------------------
(***************************************************************************)
(* Small instances of a page and its copy for TLC.                         *)
(***************************************************************************)
EXTENDS CopiedPages, MCPage
==============================================================================
