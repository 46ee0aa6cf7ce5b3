------------------------------- MODULE Wiring -------------------------------
(***************************************************************************)
(* What the gate registry (tools/gate-registry.mjs) and the wiring doctor  *)
(* (tools/task-coverage.mjs --doctor) conclude from the texts that run the *)
(* gates: the three hooks, the workflows, package.json and the ZCode       *)
(* manifest.  Whether one line's verdict decides its script is HookShell's *)
(* question; here a line is a command with the answer.                     *)
(***************************************************************************)
EXTENDS Naturals, Sequences, SequencesExt, FiniteSets, FiniteSetsExt

CONSTANTS Flags     \* the argument words that are flags

(* command: [script, args, decides]; gate: [script, args, transports, advisory]; *)
(* workflow: [tracked, on, swallows, commands].                              *)
Transports == {"pre-commit", "commit-msg", "pre-push", "ci", "battery", "npm-alias"}

(* registryShapeError = null: every gate names known transports, and no id   *)
(* or invocation is declared twice (a gate is its row; invocations are ids). *)
RegistryShapeLawful(gates) ==
    /\ gates # {}
    /\ \A g \in gates :
        /\ g.transports # {} /\ g.transports \subseteq Transports
        /\ \A h \in gates : (g.script = h.script /\ g.args = h.args) => g = h

(* wholeInvocation: the invocation, and after it neither a flag nor a word   *)
(* character.                                                                *)
WholeInvocation(g, c) ==
    /\ g.script = c.script /\ IsPrefix(g.args, c.args)
    /\ Len(c.args) > Len(g.args) => c.args[Len(g.args) + 1] \notin Flags

Extends(g, c) == g.script = c.script /\ IsPrefix(g.args, c.args)

(* carriedWorkflowsText: tracked, run on a push, and no failed step swallowed. *)
CarriedWorkflows(workflows) ==
    UNION {w.commands : w \in {v \in workflows :
        v.tracked /\ v.on \cap {"push", "pull_request"} # {} /\ ~v.swallows}}

WorkflowsText(workflows) == UNION {w.commands : w \in workflows}

(* missingErrors: a declared gate its transport does not carry. *)
MissingErrors(gates, t, carried) ==
    {g \in gates : t \in g.transports /\
        ~\E c \in carried : WholeInvocation(g, c) /\ (c.decides \/ g.advisory)}

BatterySelfTest(t, c) == t = "battery" /\ c.args = <<"--self-test">>

AccountsFor(g, t, c) == WholeInvocation(g, c) \/ (t \in g.transports /\ Extends(g, c))

(* shadowErrors: an invocation where it is not declared, or of no gate. *)
ShadowErrors(gates, t, text) ==
    {c \in text :
        \/ \E g \in gates : t \notin g.transports /\ WholeInvocation(g, c)
        \/ ~BatterySelfTest(t, c) /\ ~\E g \in gates : AccountsFor(g, t, c)}

(* batteryChainErrors: package.json's selftest script, a sequence of         *)
(* commands each with the operator after it, is one && chain.                *)
CleanChain(script) == \A i \in DOMAIN script : i < Len(script) => script[i].join = "&&"

(* checkDeclarations, for one transport: `carried` is narrower than `text`   *)
(* for ci alone.                                                             *)
TransportLawful(gates, t, text, carried) ==
    MissingErrors(gates, t, carried) = {} /\ ShadowErrors(gates, t, text) = {}

-----------------------------------------------------------------------------
(* missingSelfTests: over the tools that dispatch on --self-test. *)
MissingSelfTests(script, tools) ==
    {f \in tools : ~\E i \in DOMAIN script :
        script[i].script = f /\ script[i].args # <<>> /\ script[i].args[1] = "--self-test"}

(* What the battery's shell returns when exactly `failing` commands fail: a  *)
(* command is passed over after a failure in its own && chain, and the last  *)
(* one that runs decides.                                                    *)
BatteryFails(script, failing) ==
    LET chained(j, i) == \A k \in j..(i - 1) : script[k].join = "&&"
        runs == {i \in DOMAIN script : \A j \in 1..(i - 1) : chained(j, i) => script[j] \notin failing}
    IN  runs # {} /\ script[Max(runs)] \in failing

(* pluginWiringRefusal = null: the first entry that dispatches the gate is   *)
(* the one judged; an omitted matcher matches all, an invalid one nothing.   *)
EditTools == {"Edit", "Write", "ApplyPatch"}

Dispatching(pre) == {i \in DOMAIN pre : pre[i].dispatches}

PluginWired(m) ==
    /\ Dispatching(m.pre) # {}
    /\ LET entry == m.pre[CHOOSE i \in Dispatching(m.pre) : \A j \in Dispatching(m.pre) : i <= j]
       IN  entry.resolves /\ EditTools \subseteq entry.matches
    /\ \A event \in {"SessionStart", "UserPromptSubmit"} : m.banner[event] = "resolves"

-----------------------------------------------------------------------------
(* lanesFromChecklist: a line opens a lane ([kind |-> "lane", n]), ends the   *)
(* classes ("section") or is text, which the open lane takes.                *)
LanesFromChecklist(lines) ==
    {[at |-> i, n |-> lines[i].n,
      body |-> {j \in DOMAIN lines : j > i /\ \A k \in (i + 1)..j : lines[k].kind = "text"}] :
        i \in {j \in DOMAIN lines : lines[j].kind = "lane"}}
EscapeClasses == 8
ChecklistHolds(lines) == Cardinality(LanesFromChecklist(lines)) = EscapeClasses     \* checklistLanes
LaneLawful(lane, count) == lane \in 1..count                                        \* laneRefusal

(* gatesFamilyRefusal: docs/gates as a map from its files to whether each    *)
(* parses, or unreadable; gateRegistryRefusal: the tool is there and exits 0.*)
GatesFamilyHolds(gates) == gates.readable /\ DOMAIN gates.parses # {} /\ \A f \in DOMAIN gates.parses : gates.parses[f]
GateRegistryHolds(registry) == registry.vendored /\ registry.exit = 0

(* cmdDoctor: `clone` says which modes the committed hooks and the ones at   *)
(* core.hooksPath invoke, and the facts of the other checks.                 *)
HookModes == {"pre-push", "staged", "detached-head-guard", "commit-msg"}

(* A mutant: the committed hooks are judged, the ones git runs are not. *)
DoctorPassesCommitted(clone, inCI) ==
    clone.committed = HookModes /\ clone.fenceInCI /\ clone.batteryComplete
    /\ clone.pluginWired /\ GatesFamilyHolds(clone.gates) /\ GateRegistryHolds(clone.registry)
    /\ clone.classifies /\ clone.baseResolves /\ clone.headings > 0 /\ ChecklistHolds(clone.checklist)

DoctorPasses(clone, inCI) ==
    /\ clone.committed = HookModes
    /\ inCI \/ clone.live = HookModes
    /\ clone.fenceInCI /\ clone.batteryComplete /\ clone.pluginWired
    /\ GatesFamilyHolds(clone.gates) /\ GateRegistryHolds(clone.registry)
    /\ clone.classifies /\ clone.baseResolves /\ clone.headings > 0
    /\ ChecklistHolds(clone.checklist)

(* What a push meets: its own hooks at core.hooksPath, and the fence in CI. *)
PushIsJudged(clone)   == "pre-push" \in clone.live \/ clone.fenceInCI
CommitIsJudged(clone) == {"staged", "commit-msg", "detached-head-guard"} \subseteq clone.live

-----------------------------------------------------------------------------
(* Properties of one input *)

(* A transport without a drift error runs every gate declared for it so that *)
(* the gate decides it, and nothing else: each of its commands is a gate     *)
(* declared there, or a self-test of the battery                             *)
(* (tools/gate-registry.mjs:428, :476, :510).                                *)
TransportWired(gates, t, text, carried) ==
    RegistryShapeLawful(gates) /\ TransportLawful(gates, t, text, carried) =>
        /\ \A g \in gates : t \in g.transports =>
            \E c \in carried : Extends(g, c) /\ (c.decides \/ g.advisory)
        /\ \A c \in text : BatterySelfTest(t, c) \/ \E g \in gates : t \in g.transports /\ Extends(g, c)

(* A battery that passes both readers fails when any of the self-tests       *)
(* fails (tools/gate-registry.mjs:463, tools/task-coverage.mjs:286).         *)
BatteryDecides(script, tools) ==
    CleanChain(script) /\ MissingSelfTests(script, tools) = {} =>
        \A f \in tools : BatteryFails(script, {c \in Range(script) : c.script = f})

(* Whatever tool edits a file, a wired plugin runs the authoring gate, at a  *)
(* path that exists (tools/task-coverage.mjs:330).                           *)
EditsAreGated(m) ==
    PluginWired(m) => \A tool \in EditTools :
        \E i \in DOMAIN m.pre : m.pre[i].dispatches /\ m.pre[i].resolves /\ tool \in m.pre[i].matches

(* A clone the doctor passes is judged where its own commits and pushes are; *)
(* in CI, where core.hooksPath cannot be seen, the push is still judged; and *)
(* the checklist in it is one that prepare hands out whole and record takes  *)
(* findings for: a line of the classes is in exactly one lane, and, where    *)
(* they are numbered in order, a lane is recordable when it was handed out   *)
(* (tools/task-coverage.mjs:1291, tools/adversarial-runner.mjs:132).         *)
CertifiedIsEnforced(clone, inCI) ==
    LET lines   == clone.checklist
        lanes   == LanesFromChecklist(lines)
        starts  == {i \in DOMAIN lines : lines[i].kind = "lane"}
        opened(j) == \E i \in starts : i < j /\ \A k \in i..j : lines[k].kind # "section"
        ordered == {lane.n : lane \in lanes} = 1..Cardinality(lanes)
    IN  DoctorPasses(clone, inCI) =>
        /\ PushIsJudged(clone) /\ (inCI \/ CommitIsJudged(clone))
        /\ \A j \in DOMAIN lines : lines[j].kind = "text" /\ opened(j) =>
                Cardinality({lane \in lanes : j \in lane.body}) = 1
        /\ ordered => \A n \in 0..(Len(lines) + 1) :
                LaneLawful(n, Cardinality(lanes)) <=> \E lane \in lanes : lane.n = n
=============================================================================
