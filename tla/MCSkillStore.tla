---------------------------- MODULE MCSkillStore ----------------------------
(* Small instances of SkillStore for TLC. *)
EXTENDS SkillStore, TLC

Symmetry == Permutations(Proc)
=============================================================================
