---------------------------- MODULE MCFoldedLoop ----------------------------
(* Small instances of FoldedLoop for TLC. *)
EXTENDS FoldedLoop, TLC
=============================================================================
