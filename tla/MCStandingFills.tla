--------------------------- MODULE MCStandingFills ---------------------------
EXTENDS StandingFills

S(tool, on, value) == [tool |-> tool, on |-> on, value |-> value]
On(f) == IF f = "b" THEN {"a"} ELSE {}
MCEmpties == [f \in {"a", "b"} |-> On(f)]

Few == {S("fill", "a", "u"), S("fill", "a", "-"), S("fill", "b", "v"), S("type", "a", "v"), S("pick", "-", "-")}
Many == Few \cup {S("fill", "b", "u"), S("type", "a", "u"), S("fill", "b", "-"), S("type", "b", "v"), S("check", "-", "-")}
Ends == {S("save", "-", "-"), S("press", "a", "-"), S("press", "b", "-")}
Starts == [1..4 -> Few] \cup UNION {[1..k -> Many] : k \in 1..3}
\* The gestures g, each with the page it leaves.
Record(g) ==
    LET after[i \in 0..Len(g)] == IF i = 0 THEN Document(1, Fields, FALSE) ELSE Gesture(after[i - 1], g[i])
    IN  [i \in DOMAIN g |-> [tool |-> g[i].tool, on |-> g[i].on, value |-> g[i].value, seen |-> after[i]]]
Sendable == {r \in {Record(Append(s, e)) : s \in Starts, e \in Ends} : Takes(Sent(r))}
\* The amount filled, emptied by the account, and typed again (refill.ts).
Emptied == {<<S("fill", "a", "u"), S("fill", "b", "v"), S("pick", "-", "-"), S("type", "a", v), S("save", "-", "-")>> : v \in {"u", "v"}}
    \cup {<<S("fill", "a", "u"), S("fill", "b", "v"), S("pick", "-", "-"), S("check", "-", "-"), S("type", "a", v), S("save", "-", "-")>> : v \in {"u", "v"}}
MCRecordings == Sendable \cup {Record(g) : g \in Emptied}
=============================================================================
