------------------------------ MODULE Landing ------------------------------
(***************************************************************************)
(* A task's jj workspace (tools/task-workspace.mjs) and the primary copy   *)
(* it lands in, whose commits the detached-HEAD guard judges               *)
(* (tools/detached-head-guard.mjs).  A draft is made of edits: not yet     *)
(* snapshotted, in the tip, or below it after a split.  jj and git are     *)
(* external; a commit is the set of edits its tree holds.                  *)
(***************************************************************************)
EXTENDS Naturals, FiniteSets

CONSTANTS
    Edits,          \* the edits of the draft
    Branches        \* branches of the primary copy

(* The words for a detached HEAD and for no rebase name no branch. *)
WordsAreNoBranches == {"detached", "none", "detached HEAD"} \cap Branches = {}

ASSUME LandAssumption == WordsAreNoBranches

Phases   == {"none", "intake", "planned", "executing", "verified", "adversarial", "done"}
Following == [intake |-> "planned", planned |-> "executing", executing |-> "verified",
              verified |-> "adversarial", adversarial |-> "done"]
Drafting == {"planned", "executing", "verified", "adversarial"}

VARIABLES
    phase,      \* the task's phase; "none" has no readable record, "done" is every end
    writes,     \* the risk class may write code
    dir,        \* the workspace directory exists
    ws,         \* jj tracks the workspace
    draft,      \* [below, tip, unsnapped]: disjoint parts of the stack
    index,      \* edits staged in the primary copy
    tips,       \* branch -> the edits its tree holds
    head,       \* [branch, tree]: the branch HEAD is attached to, or "detached"
    onDraft,    \* what the primary's @ is based on: "trunk", the draft's "below" or
                \* "tip", or a tip rewritten since: "stale"
    rebase,     \* a rebase in progress: its head-name, or "none"
    forget,     \* a forget under way: [step, had], or NoForget
    unlanded,   \* history: edits a landed forget dropped and HEAD did not hold
    stray       \* history: edits the guard let in that no branch ever got

landVars == <<phase, writes, dir, ws, draft, index, tips, head, onDraft, rebase, forget, unlanded, stray>>

Empty    == [below |-> {}, tip |-> {}, unsnapped |-> {}]
NoForget == [step |-> "none", had |-> {}]
All(d)   == d.below \cup d.tip \cup d.unsnapped

Attached  == head.branch \in Branches
HeadEdits == IF Attached THEN tips[head.branch] ELSE head.tree

Task      == <<phase, writes>>
Primary   == <<index, tips, head, rebase, stray>>
Workspace == <<dir, ws, draft>>

-----------------------------------------------------------------------------
CanAddWorkspace == phase \in Drafting /\ writes /\ ~dir

(* A mutant: the tip commit alone, what a bare `jj diff` exports. *)
DraftRangeTip(d) == d.tip

(* draftRange: from the fork point with the primary's @ to the tip. *)
DraftRange(d) == (d.below \cup d.tip) \ (IF onDraft = "below" THEN head.tree ELSE {})

(* landingCheck, after its snapshot: a tip at or below @ is refused, and so   *)
(* is a copy jj calls stale; an empty range passes, any other must            *)
(* reverse-apply to HEAD's tree.                                              *)
LandingHeld == onDraft \in {"trunk", "below"} /\ DraftRange(draft) \subseteq HeadEdits

(* A mutant: any rebase state dir counts. *)
RebaseBranchAny(name) == name # "none"

(* rebaseBranch: only a head-name that names a branch. *)
RebaseBranch(name) == name \in Branches

(* readHeadState, detachedHeadVerdict, without the override. *)
Refuses == ~Attached /\ ~RebaseBranch(rebase)

-----------------------------------------------------------------------------
LandInit ==
    /\ phase \in Phases /\ writes \in BOOLEAN
    /\ dir = FALSE /\ ws = FALSE /\ draft = Empty
    /\ index = {} /\ tips = [b \in Branches |-> {}]
    /\ \E b \in Branches : head = [branch |-> b, tree |-> {}]
    /\ onDraft = "trunk" /\ rebase = "none" /\ forget = NoForget
    /\ unlanded = {} /\ stray = {}

Advance ==
    /\ phase \in DOMAIN Following /\ phase' = Following[phase]
    /\ UNCHANGED <<writes, dir, ws, draft, index, tips, head, onDraft, rebase, forget, unlanded, stray>>

Add ==
    /\ CanAddWorkspace /\ ~ws
    /\ ws' = TRUE /\ dir' = TRUE /\ draft' = Empty /\ onDraft' = "trunk"
    /\ UNCHANGED <<Task, Primary, forget, unlanded>>

(* In the workspace: an edit; any jj command, which snapshots; `jj commit`,  *)
(* which puts what was the tip below a new one; the directory deleted.       *)
Edit ==
    /\ ws /\ dir
    /\ \E e \in Edits \ All(draft) : draft' = [draft EXCEPT !.unsnapped = @ \cup {e}]
    /\ UNCHANGED <<Task, Primary, dir, ws, onDraft, forget, unlanded>>

Snapshotted(d) == [below |-> d.below, tip |-> d.tip \cup d.unsnapped, unsnapped |-> {}]

(* What rewrites the tip leaves a primary that stands on it stale. *)
Rewritten == IF onDraft = "tip" THEN "stale" ELSE onDraft

Split ==
    /\ ws /\ dir
    /\ draft' = [below |-> All(draft), tip |-> {}, unsnapped |-> {}]
    /\ onDraft' = Rewritten
    /\ UNCHANGED <<Task, Primary, dir, ws, forget, unlanded>>

DeleteDir ==
    /\ dir /\ dir' = FALSE
    /\ draft' = [draft EXCEPT !.unsnapped = {}]
    /\ UNCHANGED <<Task, Primary, ws, onDraft, forget, unlanded>>

(* In the primary copy: a patch is applied to the index - the whole range,   *)
(* or the tip alone -; jj moves @ and leaves HEAD detached on a commit that  *)
(* holds what HEAD held, or on the draft; HEAD is attached again.            *)
Apply ==
    /\ ws /\ index' \in {draft.tip, draft.tip \cup draft.below}
    /\ UNCHANGED <<Task, Workspace, tips, head, rebase, stray, onDraft, forget, unlanded>>

JjMove ==
    /\ rebase = "none"
    /\ \/ onDraft # "stale" /\ onDraft' = onDraft /\ head' = [branch |-> "detached", tree |-> HeadEdits]
       \/ ws /\ onDraft' = "tip" /\ head' = [branch |-> "detached", tree |-> draft.below \cup draft.tip]
       \/ ws /\ onDraft' = "below" /\ head' = [branch |-> "detached", tree |-> draft.below]
    /\ index' = {}
    /\ UNCHANGED <<Task, Workspace, tips, rebase, stray, forget, unlanded>>

Switch ==
    /\ rebase = "none"
    /\ \E b \in Branches : head' = [branch |-> b, tree |-> {}]
    /\ onDraft' = "trunk" /\ index' = {}
    /\ UNCHANGED <<Task, Workspace, tips, rebase, stray, forget, unlanded>>

(* `git commit`, judged by the guard. *)
Commit ==
    /\ ~Refuses /\ index # {}
    /\ IF Attached
       THEN tips' = [tips EXCEPT ![head.branch] = @ \cup index] /\ UNCHANGED <<head, stray>>
       ELSE /\ head' = [head EXCEPT !.tree = @ \cup index] /\ UNCHANGED tips
            /\ stray' = stray \cup (index \ UNION {tips[b] : b \in Branches})
    /\ index' = {}
    /\ UNCHANGED <<Task, Workspace, rebase, onDraft, forget, unlanded>>

(* A rebase detaches HEAD onto another branch; it ends by moving the branch  *)
(* it started on - none, when it started on a detached HEAD.  Giving it up   *)
(* gives up its commits.                                                     *)
StartRebase ==
    /\ rebase = "none" /\ index = {}
    /\ rebase' = IF Attached THEN head.branch ELSE "detached HEAD"
    /\ \E b \in Branches : head' = [branch |-> "detached", tree |-> tips[b]]
    /\ onDraft' = "trunk"
    /\ UNCHANGED <<Task, Workspace, index, tips, stray, forget, unlanded>>

FinishRebase ==
    /\ rebase # "none" /\ rebase' = "none"
    /\ IF rebase \in Branches
       THEN /\ tips' = [tips EXCEPT ![rebase] = head.tree]
            /\ head' = [branch |-> rebase, tree |-> {}] /\ stray' = stray \ head.tree
       ELSE UNCHANGED <<tips, head, stray>>
    /\ UNCHANGED <<Task, Workspace, index, onDraft, forget, unlanded>>

AbortRebase ==
    /\ rebase \in Branches /\ rebase' = "none"
    /\ head' = [branch |-> rebase, tree |-> {}] /\ stray' = {} /\ index' = {}
    /\ UNCHANGED <<Task, Workspace, tips, onDraft, forget, unlanded>>

-----------------------------------------------------------------------------
(* `forget`: --landed snapshots the workspace, then judges its range, then    *)
(* forgets; --yes-discard-unlanded-work forgets.                              *)
ForgetLanded ==
    /\ phase # "none" /\ ws /\ forget = NoForget
    /\ forget' = [step |-> "snapshotted", had |-> All(draft)]
    /\ draft' = IF dir THEN Snapshotted(draft) ELSE draft
    /\ onDraft' = IF draft' = draft THEN onDraft ELSE Rewritten
    /\ UNCHANGED <<Task, Primary, dir, ws, unlanded>>

(* `had` becomes what HEAD did not hold when it was asked. *)
CheckLanding ==
    /\ forget.step = "snapshotted"
    /\ forget' = IF LandingHeld THEN [step |-> "held", had |-> forget.had \ HeadEdits] ELSE NoForget
    /\ UNCHANGED <<Task, Primary, Workspace, onDraft, unlanded>>

ForgetHeld ==
    /\ forget.step = "held"
    /\ ws' = FALSE /\ draft' = Empty /\ forget' = NoForget
    /\ unlanded' = unlanded \cup forget.had
    /\ UNCHANGED <<Task, Primary, dir, onDraft>>

Discard ==
    /\ phase # "none" /\ ws /\ forget = NoForget
    /\ ws' = FALSE /\ draft' = Empty
    /\ UNCHANGED <<Task, Primary, dir, onDraft, forget, unlanded>>

LandNext ==
    \/ Advance \/ Add \/ Edit \/ Split \/ DeleteDir \/ Apply \/ JjMove \/ Switch \/ Commit
    \/ StartRebase \/ FinishRebase \/ AbortRebase
    \/ ForgetLanded \/ CheckLanding \/ ForgetHeld \/ Discard

LandSpec == LandInit /\ [][LandNext]_landVars

-----------------------------------------------------------------------------
(* `forget --landed` drops no edit that the workspace held when it was asked *)
(* and HEAD does not hold: not one below a split, not one jj had not yet     *)
(* seen, not one that is applied and uncommitted, and not because the        *)
(* primary stands on the draft itself (tools/task-workspace.mjs:65, :106).   *)
ForgetLosesNothing == unlanded = {}

(* A commit the guard lets through lands on a branch: unless a branch's       *)
(* rebase is still running, nothing that was committed is left on a HEAD no   *)
(* branch follows (tools/detached-head-guard.mjs:74, :92).                    *)
CommitsReachABranch == rebase \notin Branches => stray = {}
=============================================================================
