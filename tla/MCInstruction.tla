---------------------------- MODULE MCInstruction ----------------------------
(* Small instances of Instruction for TLC. *)
EXTENDS Instruction

CONSTANT n
=============================================================================
