---------------------------- MODULE MCFlowRunner ----------------------------
(***************************************************************************)
(* An assertion chk, then two steps over a chain walk that changes         *)
(* something in its last segment, past a detour, and a procedure look that *)
(* only reads; new is the name of what is compiled.                        *)
(***************************************************************************)
EXTENDS FlowRunner

CONSTANTS chk, walk, look, new

MCProcs == {chk, walk, look}
MCFresh == {new}
MCLength == [x \in {chk, walk, look, new} |-> IF x = walk THEN 3 ELSE 1]
MCActs == {<<walk, 3>>, <<new, 1>>}
MCDetours == {<<walk, 2>>}
MCStep == [kind |-> "do", pin |-> None, asks |-> FALSE, adopted |-> FALSE]
MCFlow == << [MCStep EXCEPT !.pin = <<chk, 1>>, !.kind = "assert"],
             [MCStep EXCEPT !.pin = <<walk, 1>>, !.asks = TRUE],
             [MCStep EXCEPT !.pin = <<look, 1>>, !.adopted = TRUE] >>
MCStores == {[s \in {<<x, k>> \in (MCProcs \cup MCFresh) \X (1..3) : k <= MCLength[x]} |->
                IF s[1] = new \/ s = gap THEN "absent" ELSE IF s[1] = look THEN "provisional" ELSE "validated"] :
              gap \in {<<new, 1>>, <<walk, 3>>}}
=============================================================================
