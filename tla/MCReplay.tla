------------------------------ MODULE MCReplay ------------------------------
(* Every procedure of one or two steps over eleven kinds of step, which       *)
(* between them carry every tool and mark, and some of three.                 *)
EXTENDS Replay

S(tool, marks) == [tool |-> tool, marks |-> marks]

MCBody == S("click", {})
Kinds == {
    S("goto", {}), S("read", {}), S("read", {"anywhere", "heals"}), S("wait", {}), S("wait", {"assert"}),
    S("fill", {"heals"}), S("click", {"again", "anywhere"}), S("click", {"links", "mints"}), S("click", {"reopens", "again"}),
    S("click", {"heals"}), S("loop", {})}
MCSkills ==
    {<<a>> : a \in Kinds} \cup (Kinds \X Kinds) \cup
    {<<S("goto", {}), S("fill", {}), S("click", {"mints"})>>,
     <<S("goto", {}), S("read", {}), S("read", {"heals"})>>,
     <<S("click", {"again", "anywhere"}), S("goto", {}), S("wait", {"assert"})>>}
=============================================================================
