----------------------------- MODULE MCSessions -----------------------------
(* Two jobs whose projects have two stores, and a stop.                      *)
EXTENDS Sessions

CONSTANTS j1, j2, x, s1, s2

MCCmd == {j1, j2, x}
MCWant == [c \in MCCmd |-> CASE c = j1 -> s1 [] c = j2 -> s2 [] OTHER -> None]
=============================================================================
