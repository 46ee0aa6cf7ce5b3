------------------------------ MODULE PushFence ------------------------------
(***************************************************************************)
(* The two transports of tools/task-coverage.mjs over one clone: commits   *)
(* made through the hooks or around them, merged between branches, and     *)
(* pushed through the fence, while the task they cite travels through its  *)
(* lifecycle (tools/task-state.mjs) in the working tree.                   *)
(*                                                                         *)
(* A revision is the place of its commit in `commits`; a commit carries    *)
(* what the fence asks git of it: its ancestors, the files it authors, its *)
(* footer, and what its tree says of .stallion-base and of the task.  The  *)
(* fence reads the record from the working tree and the anchor's copy from *)
(* the remote tip; the two are rarely the same.                            *)
(***************************************************************************)
EXTENDS CommitLaw

CONSTANTS
    Classes,         \* the risk class of the task
    Branches,        \* local branches; each may have its origin/<branch>
    Main,            \* where origin/HEAD points
    BaseFile,        \* .stallion-base
    OwnSets,         \* the sets of files a commit may author
    Sneaked,         \* those of commits made around the hooks
    Records,         \* records a task may have when the exploration starts
    MaxWork          \* bound: events and commits after that

Task == "t1"

ASSUME PushFenceAssumption ==
    /\ None # Task
    /\ Classes \subseteq RiskClasses
    /\ Main \in Branches
    /\ BaseFile \in SurfaceFiles \ UnlistedFiles
    /\ Sneaked \subseteq OwnSets /\ OwnSets \subseteq SUBSET Files
    /\ Records \subseteq Seq(Events)
    /\ MaxWork \in Nat

VARIABLES
    class,       \* the task's risk class
    events,      \* its record in the working tree; <<>> until `new`
    start,       \* how many events and commits were there at the start
    commits,     \* every commit of the clone, parents before children
    tip,         \* branch -> its revision
    origin,      \* branch -> origin/<branch>, or NoRev
    judged       \* history: the revisions some push judged lawful

repo == <<commits, tip>>
vars == <<class, events, start, commits, tip, origin, judged>>

Load == IF events = <<>> THEN [id \in {} |-> None]
        ELSE [id \in {Task} |-> RecordOf(id, class, events)]

Anc(r) == IF r = NoRev THEN {} ELSE commits[r].anc
PinAt(r) == IF r = NoRev THEN NoRev ELSE commits[r].pin

(* anchorRecordPhase, of a tree that holds the working tree's record. *)
PhaseThere ==
    IF events = <<>> THEN "first-landing"
    ELSE IF DerivePhase(events) = "done" THEN "settled-done" ELSE "in-flight-there"

Root == [anc |-> {1}, own |-> {}, cites |-> None, there |-> PhaseThere,
         pin |-> NoRev, hooked |-> FALSE]

(* A repository that has adopted the lifecycle: its base is committed. *)
Adopted == [Root EXCEPT !.anc = {1, 2}, !.pin = 1]

Init ==
    /\ class \in Classes
    /\ events \in Records
    /\ commits \in {<<Root>>, <<Root, Adopted>>}
    /\ start = Len(events) + Len(commits)
    /\ tip = [b \in Branches |-> Len(commits)]
    /\ origin = [b \in Branches |-> IF b = Main THEN Len(commits) ELSE NoRev]
    /\ judged = {}

-----------------------------------------------------------------------------
(* The record, in the steps TaskLaw admits; advance's other guards (battery, *)
(* pin re-runs, register) only take some of these steps away.                *)

Room == Len(commits) + Len(events) < start + MaxWork

Write(e) ==
    events' = Append(events, e) /\ UNCHANGED <<class, start, repo, origin, judged>>

NewTask == Room /\ events = <<>> /\ Write(Created)

ApproveTask ==
    /\ Room
    /\ events # <<>> /\ AppendLawful(events) /\ ~HasApproval(events)
    /\ Write(Approval)

ScopeTask ==
    Room /\ \E ps \in (SUBSET Patterns) \ {{}} :
        ScopeLawful(class, events, ps) /\ Write(Scope(ps \ ScopeOf(events)))

PinTask ==
    /\ Room
    /\ events # <<>> /\ AppendLawful(events) /\ CommandPins(events) = {}
    /\ \E c \in Commands, x \in Expects : Write(Pin(c, x, {}))

RetireTask == Room /\ events # <<>> /\ RetirementLawful(events) /\ Write(Retired)

AdvanceTask ==
    Room /\ \E target \in Phases :
        /\ events # <<>> /\ AppendLawful(events)
        /\ Rank[target] = Rank[DerivePhase(events)] + 1
        /\ target = "executing" => ExecutionGuard(class, events)
        /\ target = "verified" =>
              \/ CommandPins(events) # {}
              \/ class \in NonCodeClasses
        /\ target = "done" => PinnedForDone(class, events)
        /\ Write(Transition(target))

RecordStep ==
    NewTask \/ ApproveTask \/ ScopeTask \/ PinTask \/ RetireTask \/ AdvanceTask

-----------------------------------------------------------------------------
(* Commits *)

Add(b, c) ==
    /\ commits' = Append(commits, c)
    /\ tip' = [tip EXCEPT ![b] = Len(commits) + 1]
    /\ UNCHANGED <<class, events, start, origin, judged>>

(* The pin a commit leaves in its tree: pinBaseFix writes a revision of the  *)
(* branch's own history, a deletion none; no commit keeps it by accident.    *)
Pins(b, own, inherited) ==
    IF BaseFile \in own THEN (Anc(tip[b]) \cup {NoRev}) \ inherited ELSE inherited

(* What a commit's tree says of the task: a commit may stage the record.     *)
Theres(inherited) == inherited \cup {PhaseThere}

Commit(b, own, cites, hooked) ==
    \E pin \in Pins(b, own, {PinAt(tip[b])}), there \in Theres({commits[tip[b]].there}) :
        Add(b, [anc |-> Anc(tip[b]) \cup {Len(commits) + 1}, own |-> own, cites |-> cites,
                there |-> there, pin |-> pin, hooked |-> hooked])

Footers(own) == IF CodeFiles(own) = {} THEN {None} ELSE {Task, None}

(* pre-commit's staged gate, then commit-msg. *)
HooksPass(own, cites) ==
    /\ StagedLawful(own, {Load[id] : id \in DOMAIN Load})
    /\ CommitMsgLawful(cites, CodeFiles(own), Load)

CommitThroughHooks(b) ==
    Room /\ \E own \in OwnSets : \E cites \in Footers(own) :
        HooksPass(own, cites) /\ Commit(b, own, cites, TRUE)

(* What they refuse, from an unwired clone or with --no-verify. *)
CommitAroundHooks(b) ==
    Room /\ \E own \in Sneaked : \E cites \in Footers(own) :
        ~HooksPass(own, cites) /\ Commit(b, own, cites, FALSE)

(* A merge runs commit-msg, not pre-commit; it authors what filesIntroducedBy*)
(* says, nothing when git merged by itself.                                  *)
Merge(b, side) ==
    /\ Room
    /\ tip[side] \notin Anc(tip[b]) /\ tip[b] \notin Anc(tip[side])
    /\ \E own \in OwnSets \cup {{}} :
          LET cites == IF CodeFiles(own) = {} THEN None ELSE Task
              sides == {tip[b], tip[side]}
          IN  \E pin \in Pins(b, own, {PinAt(r) : r \in sides}),
                    there \in Theres({commits[r].there : r \in sides}) :
                    Add(b, [anc |-> {Len(commits) + 1} \cup UNION {Anc(r) : r \in sides},
                            own |-> own, cites |-> cites, there |-> there, pin |-> pin,
                            hooked |-> CommitMsgLawful(cites, CodeFiles(own), Load)])

-----------------------------------------------------------------------------
(* The push fence, as the pre-push hook runs it on branch `b`: without       *)
(* --base, under a local stallion.push-base `config` (NoRev when unset).     *)

(* baseNarrows, negated: a local base widens the audit or matches the pin.   *)
Widens(config, committed) ==
    config # NoRev /\ committed # NoRev => config \in Anc(committed)

(* The anchor: origin/<b>, else that of origin/HEAD's branch.                *)
Anchor(b) == IF origin[b] # NoRev THEN origin[b] ELSE origin[Main]

AnchorPhase(b) == IF Anchor(b) = NoRev THEN "no-anchor" ELSE commits[Anchor(b)].there

JudgedLawful(b, r) ==
    FenceLawful(commits[r].cites, CodeFiles(commits[r].own), Load,
                AnchorPhase(b), r \in Anc(Anchor(b)))

PushBase(b, config) == PickBase(NoRev, config, PinAt(tip[b]), origin[b])

Range(b, base) == Anc(tip[b]) \ Anc(base)

(* resolvePushBase, the moved-base law, then the range check against the     *)
(* revisions that are `lawful`.                                              *)
FencePasses(b, config, lawful) ==
    LET base == PushBase(b, config)
    IN  /\ base # NoRev
        /\ Widens(config, PinAt(tip[b]))
        /\ Range(b, base) # {}
        /\ BaseMoveJudged(config, PinAt(Anchor(b)), PinAt(tip[b]))
        /\ Range(b, base) \subseteq lawful

(* unfencedPushTips: a pushed tip lies in the history that is judged. *)
FencedTip(b, pushed) == tip[pushed] \in Anc(tip[b])

(* git itself refuses what is no fast-forward. *)
Push(b, pushed) ==
    /\ FencedTip(b, pushed)
    /\ tip[pushed] # origin[pushed] /\ Anc(origin[pushed]) \subseteq Anc(tip[pushed])
    /\ LET lawful == {r \in Anc(tip[b]) : JudgedLawful(b, r)}
       IN  \E config \in DOMAIN commits \cup {NoRev} :
              /\ FencePasses(b, config, lawful)
              /\ judged' = judged \cup Range(b, PushBase(b, config))
    /\ origin' = [origin EXCEPT ![pushed] = tip[pushed]]
    /\ UNCHANGED <<class, events, start, repo>>

-----------------------------------------------------------------------------
Next ==
    \/ RecordStep
    \/ \E b \in Branches :
          \/ CommitThroughHooks(b) \/ CommitAroundHooks(b)
          \/ \E side \in Branches : Merge(b, side) \/ Push(b, side)

Spec == Init /\ [][Next]_vars

-----------------------------------------------------------------------------
(* Properties *)

Snapshot ==
    [anc: SUBSET Nat, own: OwnSets \cup {{}}, cites: {Task, None},
     there: {"first-landing", "in-flight-there", "settled-done"},
     pin: Nat, hooked: BOOLEAN]

TypeOK ==
    /\ class \in Classes
    /\ events \in Seq(Events) /\ start \in Nat
    /\ commits \in Seq(Snapshot)
    /\ tip \in [Branches -> DOMAIN commits]
    /\ origin \in [Branches -> DOMAIN commits \cup {NoRev}]
    /\ judged \subseteq DOMAIN commits

Code(r) == CodeFiles(commits[r].own) # {}

Revs == DOMAIN commits

(* The revisions a step lands on a branch. *)
Landing(b) == Anc(origin[b])' \ Anc(origin[b])

AdoptedEverywhere == \A b \in Branches : origin[b] # NoRev => PinAt(origin[b]) # NoRev

(* "A finished task never authorizes new code": once the remote tips show    *)
(* the task done, no push lands code that cites it, by whatever route the    *)
(* commit was made, and although the record in the working tree, which is    *)
(* what the fence reads, accepts the citation of a wave's own tail.          *)
DoneAuthorizesNothingNew ==
    [][AdoptedEverywhere
       /\ (\A b \in Branches : origin[b] # NoRev => commits[origin[b]].there = "settled-done")
          => \A b \in Branches, r \in Revs : r \in Landing(b) /\ Code(r)' =>
                \E a \in Branches : r \in Anc(origin[a])]_vars

(* Once the remote has adopted a base, nothing lands that no fence judged:   *)
(* neither a local base nor a pin that moves within the push hides a commit  *)
(* from the audit, whichever branch is pushed and from which.                *)
AdoptedBranchLandsJudged ==
    [][AdoptedEverywhere => \A b \in Branches :
          Landing(b) \subseteq judged' \cup UNION {Anc(origin[a]) : a \in Branches}]_vars

(* Settled history is never accused: however the task went on, what a fence  *)
(* judged lawful and the remote holds passes the same fence again.           *)
SettledStaysLawful ==
    \A b \in Branches : \A r \in judged \cap Anc(origin[b]) :
        FenceLawful(commits[r].cites, CodeFiles(commits[r].own), Load,
                    commits[origin[b]].there, TRUE)

(* The transports cannot drift: a commit the hooks let through is one the    *)
(* fence lets through, at any later point of the task's life, as long as the *)
(* task has not landed done before it.                                       *)
HookedPassesFence ==
    \A r \in DOMAIN commits : commits[r].hooked =>
        \A phase \in {"no-anchor", "first-landing", "in-flight-there"} :
            FenceLawful(commits[r].cites, CodeFiles(commits[r].own), Load, phase, FALSE)

(* The third transport agrees with the two: the editor's hook admits an edit *)
(* exactly when the file can be committed through the hooks, under a footer  *)
(* some task justifies.                                                      *)
EditedIsCommittable ==
    \A f \in Files :
        EditLawful(f, {Load[id] : id \in DOMAIN Load}) <=>
            \E cites \in DOMAIN Load \cup {None} : HooksPass({f}, cites)
=============================================================================
