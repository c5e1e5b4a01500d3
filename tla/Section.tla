------------------------------ MODULE Section ------------------------------
(***************************************************************************)
(* What a file lock promises its callers: at most one of them is inside    *)
(* the section at a time.  The procedure store is written against this     *)
(* promise; FileLock is the protocol that is meant to keep it.             *)
(***************************************************************************)
CONSTANT Proc

VARIABLE inside

Init == inside = {}

Enter(p) == inside = {} /\ inside' = {p}

Leave(p) == p \in inside /\ inside' = inside \ {p}

Next == \E p \in Proc : Enter(p) \/ Leave(p)

Spec == Init /\ [][Next]_inside
=============================================================================
