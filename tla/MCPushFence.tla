----------------------------- MODULE MCPushFence -----------------------------
(* One task, one code file, .stallion-base, two branches. *)
EXTENDS FenceRemedies

CONSTANTS c1, x1, tool, pinfile, doc, tools, fence

CodeFile     == {tool}
AllFiles     == {tool, pinfile, doc}
BaseFiles    == {pinfile}
Executable   == {tool}
NoFiles      == {}
AllPatterns  == {tools, fence}
FenceOnly    == {fence}
Coverage     == {<<tools, tool>>, <<fence, pinfile>>}
Authored     == {{tool}, {pinfile}, {}}
CodeOnly     == {{tool}}
OneCommand   == {c1}
OneExpect    == {x1}
OneBranch    == {"main"}
TwoBranches  == {"main", "wave"}
MainBranch   == "main"
Protected    == {"protected"}

(* A protected task, at each point of its life. *)
Life ==
    <<Created, Approval, Transition("planned"), Scope({tools}),
      Transition("executing"), Pin(c1, x1, {}), Transition("verified"),
      Transition("adversarial"), Transition("done")>>

Prefixes == {SubSeq(Life, 1, n) : n \in {0, 8}}

NoPaths      == {}
NoSeverity   == {}
NoRange      == {}
NoClaims     == {}
=============================================================================
