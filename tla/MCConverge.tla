----------------------------- MODULE MCConverge -----------------------------
(* A flow of two steps and one the recording did beside them. *)
EXTENDS Converge

CONSTANTS a, b, c, d

MCProc == {a, b, c, d}
MCFirst == [s \in Steps |-> IF s = 1 THEN a ELSE IF s = 2 THEN b ELSE NoProc]
=============================================================================
