-------------------------- MODULE MCPlanLifecycle --------------------------
(* An Aminet disk, a commercial disk and one with an unsafe member *)
EXTENDS PlanLifecycle, TLC

MCSuffix == [tool |-> ".lha", icon |-> ".info", escape |-> ".lha"]

Disk(container, members, unsafe, aminet, license) ==
  [container |-> container, members |-> members, unsafe |-> unsafe, repeated |-> FALSE,
   aminet |-> aminet, license |-> license]

MCImage ==
  [aminet_cd |-> Disk("zip", {"tool", "icon"}, {}, TRUE, "redistributable"),
   game      |-> Disk("adf", {"tool"}, {}, FALSE, "commercial"),
   mixed     |-> Disk("zip", {"tool", "escape"}, {"escape"}, TRUE, "unknown")]

MCMedia == DOMAIN MCImage
MCSelections == {{"tool"}}

Interchangeable == Permutations(Commands)
=============================================================================
