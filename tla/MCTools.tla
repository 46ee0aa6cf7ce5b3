------------------------------ MODULE MCTools ------------------------------
(***************************************************************************)
(* The tools that share no state with the lifecycle, side by side: four    *)
(* state machines - the fact gate, a record's event chain, guard-reach, a  *)
(* workspace that lands - and the judgements that are functions of one     *)
(* input, over every small input.  A behaviour is one machine's or one     *)
(* input's; the variables of the others stay where they start.             *)
(***************************************************************************)
EXTENDS GuardReach, Landing, TaskGate, EventChain, MCJudgements, TLC

vars == <<gateVars, chainVars, reachVars, landVars, input>>

-----------------------------------------------------------------------------
(* Values of the model *)
MCWhat     == {"plan", "scope", "done"}
MCBranches == {"main", "topic"}
MCRoots    == {<<<<"g", "h">>>>, <<<<"d">>, <<"g">>>>}
MCSurface  == {<<"b">>}
MCFlags    == {"--x", "--y", "--self-test"}
Symmetry   == Permutations(Calls) \cup Permutations(Targets)

(* Hook scripts: a gate in every form, and what may stand around it. *)
GateForms == {f \in Shell!Form :
    IF Shell!Probe(f) THEN f.tail = "" /\ ~f.chain ELSE f.body = "warn"}

Blocks ==
    {<<Shell!Command(c)>> : c \in {"set -e", "set +e", "set -- -e", "other", "exit 0"}} \cup
    {<<Shell!Command("if false")>>, <<Shell!Line("other", TRUE, FALSE, TRUE)>>,
     <<Shell!Command("if false"), Shell!Line("exit 0", FALSE, FALSE, FALSE), Shell!Command("fi")>>,
     <<Shell!Command("if false"), Shell!Line("set -e", FALSE, FALSE, FALSE), Shell!Command("fi")>>,
     <<Shell!Line("other", TRUE, TRUE, FALSE), Shell!Command("set -e"), Shell!Line("other", TRUE, TRUE, FALSE)>>,
     <<Shell!Line("other", TRUE, FALSE, TRUE), Shell!Command("set -e")>>}

Quoted(s) == <<Shell!Line("other", TRUE, TRUE, FALSE)>> \o s \o <<Shell!Line("other", TRUE, TRUE, FALSE)>>

(* Scope patterns and paths of up to three segments over a small alphabet.   *)
Names == {<<"g">>, <<"g", "h">>, <<"d">>, <<"b">>, <<"x">>}
Globs ==
    {<<a>> : a \in {"g", "d", "b", "*", "?"}} \cup {<<a, b>> : a \in {"g", "*", "?"}, b \in {"g", "h", "*"}} \cup
    {<<"b", "*">>, <<"*", "*", "b">>, <<"d", "*", "*">>, <<"g", "*", "*">>, <<"*", "*", "h">>}
PathsOf(S) == UpTo(S, 3) \ {<<>>}

(* The gate registry: up to two gates of one script, a transport's commands. *)
Rows ==
    [script : {"s"}, args : {<<>>, <<"--x">>, <<"p">>}, advisory : BOOLEAN,
     transports : {{"ci"}, {"battery"}, {"pre-commit", "ci"}}]
Registries == {{a, b} : a, b \in Rows}
BlockingRegistries == {{a, b} : a, b \in {r \in Rows : ~r.advisory}}

Words == [script : {"s"}, decides : BOOLEAN,
          args : {<<>>, <<"--x">>, <<"p">>, <<"--x", "--y">>, <<"--self-test">>}]
         \cup {[script |-> "u", decides |-> TRUE, args |-> <<>>]}

Workflow(tracked, on, swallows, c) ==
    [tracked |-> tracked, on |-> {on}, swallows |-> swallows, commands |-> {c}]
Dead(c) == {Workflow(FALSE, "push", FALSE, c), Workflow(TRUE, "workflow_dispatch", FALSE, c),
            Workflow(TRUE, "push", TRUE, c)}

Batteries == UpTo([script : {"a", "b"}, args : {<<>>, <<"--self-test">>}, join : {"&&", ";"}], 3)

Manifests ==
    [pre : UpTo([dispatches : BOOLEAN, resolves : BOOLEAN,
                 matches : {Wired!EditTools, {"Edit", "Write"}, {"ApplyPatch"}, {}}], 2),
     banner : [{"SessionStart", "UserPromptSubmit"} -> {"resolves", "missing"}]]

(* A clone; its checklist has seven to nine classes, text, another section.  *)
Lane(n) == [kind |-> "lane", n |-> n]
Text    == [kind |-> "text", n |-> 0]
Other   == [kind |-> "section", n |-> 0]
Classes(n) == [i \in 1..(2 * n) |-> IF i % 2 = 1 THEN Lane((i + 1) \div 2) ELSE Text]
Checklists == {<<Text>> \o Classes(7) \o more : more \in
    {<<>>, <<Lane(8)>>, <<Lane(7), Text>>, <<Lane(8), Text, Lane(9)>>, <<Other, Text, Lane(8), Text, Text>>, <<Lane(8), Other, Text>>}}
Clone(hooks, live, inCI, gates, registry, n, checklist) ==
    [committed |-> hooks, live |-> live, fenceInCI |-> inCI, gates |-> gates, registry |-> registry,
     headings |-> n, checklist |-> checklist,
     batteryComplete |-> TRUE, pluginWired |-> TRUE, classifies |-> TRUE, baseResolves |-> TRUE]
Parsing(readable, parses) == [readable |-> readable, parses |-> parses]
Registry(vendored, exit)  == [vendored |-> vendored, exit |-> exit]
Clones ==
    LET every == Wired!HookModes
        full  == <<Text>> \o Classes(8)
    IN  {Clone(hooks, live, ci, Parsing(TRUE, <<TRUE>>), Registry(TRUE, 0), 1, full) :
            hooks \in {every, every \ {"staged"}}, live \in SUBSET every, ci \in BOOLEAN}
        \cup {Clone(every, live, TRUE, g, r, h, c) : live \in {every, {}}, h \in 0..1, c \in Checklists,
            r \in {Registry(FALSE, 0), Registry(TRUE, 0), Registry(TRUE, 1)},
            g \in {Parsing(FALSE, <<>>)} \cup {Parsing(TRUE, p) : p \in UpTo(BOOLEAN, 2)}}

(* A message's paragraphs after the footer; the scissors of an earlier        *)
(* editor are there only under --verbose.                                     *)
Composed == [editor : BOOLEAN, verbose : BOOLEAN, kept : BOOLEAN,
             cleanup : {"default", "strip", "scissors", "whitespace", "verbatim"}]
(* Sources, upstream clones, corpora. *)
Contents == {<<>>, <<9>>, <<12>>, <<12, 9>>, <<12, 12>>}
Stored   == Contents \cup {Absent}
Sources  == {s \in [head : Stored, index : Stored, added : Stored, disk : Stored \cup {Dangling}] :
                s.added # Absent => s.index = Absent}

Tree(a, b) == [p \in {"a", "b"} |-> IF p = "a" THEN a ELSE b]
Trees      == {Tree(a, b) : a \in {Absent, 1, 2}, b \in {Absent, 1}}
Upstreams  ==
    [trees : {<<first, g, h>> : first \in {Tree(1, Absent), Tree(1, 2)}, g, h \in Trees},
     pin : 1..3, head : 1..3, local : {Absent, Tree(Absent, Absent), Tree(1, 1)},
     tips : {<<0, 0>>, <<0, 2>>, <<0, 3>>, <<2, 0>>, <<3, 2>>, <<2, 3>>}]

Lines == [file : {"f", "g"}, declares : {"none", "S", "T"}, uses : {"m"}, test : BOOLEAN,
          roles : {{"PRODUCER"}, {"CONSUMER"}, {"AMBIGUOUS"}}]
Contract(f, s) == [file |-> f, symbol |-> s, members |-> {"m"}]
Contracts == {<<Contract("f", "S")>>} \cup {<<Contract("f", "S"), Contract(g, "T")>> : g \in {"f", "g"}}

Tails == UpTo({"text", "comment"}, 2)
         \cup {Append(tail, "scissors") : tail \in UpTo({"text", "comment"}, 1)}

AnInput ==
    \/ \E before \in {<<>>} \cup Blocks \cup {a \o b : a, b \in Blocks}, f \in GateForms, quoted \in BOOLEAN,
           after \in {<<>>, <<Shell!Command("other")>>, <<Shell!Command("set -e")>>, <<Shell!Command("exit 0")>>, <<Shell!Command("fi")>>} :
            input = <<"hook", before \o (IF quoted THEN Quoted(<<Shell!GateLine(f)>>) ELSE <<Shell!GateLine(f)>>) \o after>>
    \/ \E p \in PathsOf(Globs) : input = <<"scope", p, PathsOf(Names)>>
    \/ \E g \in Registries, t \in {"battery", "pre-commit"}, c, d \in Words : input = <<"wire", g, t, {c, d}, {c, d}>>
    \/ \E g \in BlockingRegistries, c, d \in Words : \E off \in Dead(d) :
            LET flows == {Workflow(TRUE, "pull_request", FALSE, c), off}
            IN  input = <<"wire", g, "ci", Wired!WorkflowsText(flows), Wired!CarriedWorkflows(flows)>>
    \/ \E s \in Batteries, tools \in SUBSET {"a", "b"} : input = <<"battery", s, tools>>
    \/ \E m \in Manifests : input = <<"plugin", m>>
    \/ \E c \in Clones, inCI \in BOOLEAN : input = <<"clone", c, inCI>>
    \/ \E tail \in Tails, c \in Composed :
            ("scissors" \in Range(tail) => c.verbose) /\ input = <<"message", tail, c>>
    \/ \E s \in Sources, rows \in Contents, named \in BOOLEAN : input = <<"source", s, rows, named>>
    \/ \E c \in Upstreams, sources \in {{"a"}, {"a", "b"}} : input = <<"upstream", c, sources>>
    \/ \E ct \in Contracts, a, b, d \in Lines : input = <<"corpus", ct, {a, b, d}>>

-----------------------------------------------------------------------------
GateOff  == clock = 0 /\ state = Fresh /\ call = "off" /\ denials = <<>> /\ last = Nothing
ChainOff == events = <<>> /\ born = "before" /\ tampers = 0 /\ written = {} /\ adopted = {}
ReachOff == sight = "none" /\ modes = "none" /\ ReachInit
LandOff  == phase = "none" /\ writes = FALSE /\ head = [branch |-> "main", tree |-> {}] /\ LandInit

Init ==
    \/ input = <<"gate">>  /\ GateInit /\ ChainOff   /\ ReachOff   /\ LandOff
    \/ input = <<"chain">> /\ GateOff   /\ ChainInit /\ ReachOff   /\ LandOff
    \/ input = <<"reach">> /\ GateOff   /\ ChainOff   /\ ReachInit /\ LandOff
    \/ input = <<"land">>  /\ GateOff   /\ ChainOff   /\ ReachOff   /\ LandInit
    \/ (AnInput \/ AJudgement \/ AReading) /\ IsInput /\ GateOff   /\ ChainOff   /\ ReachOff   /\ LandOff

GateStep  == input = <<"gate">>  /\ GateNext  /\ UNCHANGED <<chainVars, reachVars, landVars, input>>
ChainStep == input = <<"chain">> /\ ChainNext /\ UNCHANGED <<gateVars, reachVars, landVars, input>>
ReachStep == input = <<"reach">> /\ ReachNext /\ UNCHANGED <<gateVars, chainVars, landVars, input>>
LandStep  == input = <<"land">>  /\ LandNext  /\ UNCHANGED <<gateVars, chainVars, reachVars, input>>

Next == GateStep \/ ChainStep \/ ReachStep \/ LandStep

Spec == Init /\ [][Next]_vars

-----------------------------------------------------------------------------
(* Commands, RemoteStrings, TestCode, MemberUses: a text is judged by what   *)
(* runs of it: a command by what the shell runs, a remote string by what is  *)
(* expanded, a line by whether it is test code and by the roles it was       *)
(* written with.                                                             *)
TextReadAsRun ==
    CASE input[1] = "command" -> Sh!ReadAsRun(input[2], input[3])
      [] input[1] = "remote"  -> Remote!ReportsWhatIsExpanded(input[2], input[3], input[4], input[5], input[6])
      [] input[1] = "program" -> Cut!CutIsTestCode(input[2])
      [] input[1] = "uses"    -> Use!ClassifiedAsMeant(input[2], input[3], input[4], input[5], input[6], input[7])
      [] OTHER                -> TRUE
=============================================================================
