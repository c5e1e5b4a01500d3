------------------------------ MODULE MCRepair ------------------------------
(* A name, a locator with a slot that missed once, a position, and a spare    *)
(* a heal or a patch may bring.                                             *)
EXTENDS Repair, TLC

CONSTANTS name, slot, row, spare

E(c, hit, miss) == [c |-> c, hit |-> hit, miss |-> miss]

MCRank == (name :> 1) @@ (slot :> 1) @@ (row :> 2) @@ (spare :> 1)
\* The position and the spare match one element or none.
MCPages == {p \in [{name, slot, row, spare} -> {"one", "several", "none"}] : p[row] # "several" /\ p[spare] # "several"}
MCChains == {<<E(name, 0, 0), E(slot, 0, 1), E(row, 0, 0)>>}
=============================================================================
