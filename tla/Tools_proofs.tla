----------------------------- MODULE Tools_proofs -----------------------------
(***************************************************************************)
(* What four tools promise, proved machine by machine: they share no       *)
(* state, and the run `tools` (MCTools) checks them side by side.          *)
(***************************************************************************)
EXTENDS GuardReach, Landing, TaskGate, EventChain, NatOrder_proofs, FiniteSetTheorems, SequenceTheorems

-----------------------------------------------------------------------------
(***************************************************************************)
(* GuardReach: one run per checkout, and a reach that never narrows, for   *)
(* any number of runs, kills and edits.  Of Runs the proofs assume only    *)
(* PidsAreNumbers.                                                         *)
(***************************************************************************)

(* Who may be in: a run that is past the create holds the lock, and its text *)
(* is the run's once the pid is written.                                     *)
Holds ==
    \A r \in Runs :
        /\ step[r] = "pid" => lock.by = r /\ lock.text = "empty"
        /\ step[r] \in Inside => lock.by = r /\ lock.text = r

(* What is recorded, unless another entry was put in its place: the file     *)
(* holds the last record or is damaged, and a run about to record the index  *)
(* was judged against a record that is not the disk.                         *)
Judgement ==
    replaced \/ /\ modes \in {"unreadable", recorded}
                /\ \A r \in Runs : step[r] = "record" /\ seen[r] = "index" => recorded # "disk"

ReachTyped ==
    /\ step \in [Runs -> Outside \cup Inside]
    /\ seen \in [Runs -> RecordedModes]
    /\ tries \in [Runs -> Nat]
    /\ lock \in [by : Runs \cup {"nobody"}, text : Runs \cup {"none", "empty"}]
    /\ takenOver \in BOOLEAN /\ replaced \in BOOLEAN /\ recorded \in RecordedModes

RInv == ReachTyped /\ (takenOver \/ (Holds /\ Judgement))

(* The initial state has nobody in, and the entry that stands at first. *)
LEMMA RInit == PidsAreNumbers /\ ReachInit => RInv
<1> SUFFICES ASSUME PidsAreNumbers, ReachInit PROVE RInv
  OBVIOUS
<1>1. ReachTyped
  BY DEF ReachInit, ReachTyped, NoLock, Outside, RecordedModes
<1>2. \A r \in Runs : step[r] = "idle" /\ seen[r] = "none"
  BY DEF ReachInit
<1>3. Holds
  BY <1>2 DEF Holds, Inside
<1>4. Judgement
  BY <1>2 DEF Judgement, ReachInit
<1>5. QED
  BY <1>1, <1>3, <1>4 DEF RInv

(* Every step keeps the runs, the lock and the pids what they are. *)
LEMMA RTyped == ASSUME PidsAreNumbers, ReachTyped, [ReachNext]_reachVars PROVE ReachTyped'
<1> USE DEF ReachTyped, Go, Again, Released, NoLock, Outcome, RecordedModes
<1>0. CASE UNCHANGED reachVars
  BY <1>0 DEF reachVars
<1>1. CASE EditGuard
  BY <1>1 DEF EditGuard
<1>2. ASSUME NEW r \in Runs, Create(r) PROVE ReachTyped'
  BY <1>2 DEF Create, Outside, Inside
<1>3. ASSUME NEW r \in Runs, WritePid(r) PROVE ReachTyped'
  BY <1>3 DEF WritePid, Outside, Inside
<1>4. ASSUME NEW r \in Runs, ReadHolder(r) PROVE ReachTyped'
  BY <1>4 DEF ReadHolder, Outside, Inside
<1>5. ASSUME NEW r \in Runs, RemoveStale(r) PROVE ReachTyped'
  BY <1>5 DEF RemoveStale, Outside, Inside, HolderAlive
<1>6. ASSUME NEW r \in Runs, SweepResidue(r) PROVE ReachTyped'
  BY <1>6 DEF SweepResidue, Outside, Inside
<1>7. ASSUME NEW r \in Runs, Baseline(r) \/ Plant(r) \/ Unstaged(r) \/ Staged(r) PROVE ReachTyped'
  BY <1>7 DEF Baseline, Plant, Unstaged, Staged, Outside, Inside
<1>8. ASSUME NEW r \in Runs, Judge(r) \/ Record(r) \/ Exit(r) PROVE ReachTyped'
  <2>1. CASE Judge(r)
    BY <2>1 DEF Judge, Outside, Inside
  <2>2. CASE Record(r)
    BY <2>2 DEF Record, Outside, Inside
  <2>3. CASE Exit(r)
    BY <2>3 DEF Exit, Outside, Inside
  <2>4. QED
    BY <1>8, <2>1, <2>2, <2>3
<1>9. ASSUME NEW r \in Runs, Killed(r) PROVE ReachTyped'
  BY <1>9 DEF Killed, Outside, Inside
<1> QED
  BY <1>0, <1>1, <1>2, <1>3, <1>4, <1>5, <1>6, <1>7, <1>8, <1>9 DEF ReachNext

(* No step but a takeover lets two runs hold the lock: a create finds none,  *)
(* a stale lock names a dead run, and a release is of the run's own.         *)
LEMMA RHolds == ASSUME PidsAreNumbers, ReachTyped, Holds, [ReachNext]_reachVars, ~takenOver' PROVE Holds'
<1> USE DEF PidsAreNumbers, ReachTyped, Holds, Go, Again, Released, NoLock, Outcome, Inside, Outside
<1>0. CASE UNCHANGED reachVars
  BY <1>0 DEF reachVars
<1>1. CASE EditGuard
  BY <1>1 DEF EditGuard
<1>2. ASSUME NEW r \in Runs, Create(r) PROVE Holds'
  BY <1>2 DEF Create
<1>3. ASSUME NEW r \in Runs, WritePid(r) PROVE Holds'
  BY <1>3 DEF WritePid
<1>4. ASSUME NEW r \in Runs, ReadHolder(r) PROVE Holds'
  BY <1>4 DEF ReadHolder
<1>5. ASSUME NEW r \in Runs, RemoveStale(r) PROVE Holds'
  BY <1>5 DEF RemoveStale, HolderAlive
<1>6. ASSUME NEW r \in Runs, SweepResidue(r) PROVE Holds'
  BY <1>6 DEF SweepResidue
<1>7. ASSUME NEW r \in Runs, Baseline(r) \/ Plant(r) \/ Unstaged(r) \/ Staged(r) PROVE Holds'
  BY <1>7 DEF Baseline, Plant, Unstaged, Staged
<1>8. ASSUME NEW r \in Runs, Judge(r) \/ Record(r) \/ Exit(r) PROVE Holds'
  BY <1>8 DEF Judge, Record, Exit
<1>9. ASSUME NEW r \in Runs, Killed(r) PROVE Holds'
  BY <1>9 DEF Killed
<1> QED
  BY <1>0, <1>1, <1>2, <1>3, <1>4, <1>5, <1>6, <1>7, <1>8, <1>9 DEF ReachNext

(* The entry stays the last record, damaged or replaced, and nobody records  *)
(* under a run that is about to: there is only one inside.                   *)
LEMMA RJudgement == ASSUME PidsAreNumbers, ReachTyped, Holds, Judgement, [ReachNext]_reachVars PROVE Judgement'
<1> USE DEF ReachTyped, Judgement, Go, Again, Outcome, RecordedModes
<1>0. CASE UNCHANGED reachVars
  BY <1>0 DEF reachVars
<1>1. CASE EditGuard
  <2>1. /\ UNCHANGED <<step, seen, recorded>>
        /\ UNCHANGED <<modes, replaced>> \/ replaced' = (replaced \/ modes' \notin {recorded, "unreadable"})
    BY <1>1 DEF EditGuard
  <2>2. QED
    BY <2>1
<1>2. ASSUME NEW r \in Runs, Create(r) \/ WritePid(r) \/ ReadHolder(r) \/ RemoveStale(r) \/ SweepResidue(r)
      PROVE  Judgement'
  BY <1>2 DEF Create, WritePid, ReadHolder, RemoveStale, SweepResidue
<1>3. ASSUME NEW r \in Runs, Baseline(r) \/ Plant(r) \/ Unstaged(r) \/ Staged(r) PROVE Judgement'
  BY <1>3 DEF Baseline, Plant, Unstaged, Staged
<1>4. ASSUME NEW r \in Runs, Judge(r) PROVE Judgement'
  BY <1>4 DEF Judge, RatchetRefuses
<1>5. ASSUME NEW r \in Runs, Record(r) PROVE Judgement'
  <2>1. \A q \in Runs : step'[q] # "record"
    BY <1>5 DEF Record, Holds, Inside
  <2>2. (modes' = recorded' /\ ~replaced') \/ UNCHANGED <<modes, recorded, replaced>>
    BY <1>5 DEF Record
  <2>3. QED
    BY <2>1, <2>2
<1>6. ASSUME NEW r \in Runs, Exit(r) \/ Killed(r) PROVE Judgement'
  BY <1>6 DEF Exit, Killed
<1> QED
  BY <1>0, <1>1, <1>2, <1>3, <1>4, <1>5, <1>6 DEF ReachNext

(* A takeover is never taken back. *)
LEMMA TakenOverStays == ASSUME [ReachNext]_reachVars, takenOver PROVE takenOver'
  BY DEF ReachNext, reachVars, EditGuard, Create, WritePid, ReadHolder, RemoveStale, SweepResidue, Baseline,
         Plant, Unstaged, Staged, Judge, Record, Exit, Killed

LEMMA RNext == PidsAreNumbers /\ RInv /\ [ReachNext]_reachVars => RInv'
<1> SUFFICES ASSUME PidsAreNumbers, RInv, [ReachNext]_reachVars PROVE RInv'
  OBVIOUS
<1>1. ReachTyped'
  BY RTyped DEF RInv
<1>2. ASSUME ~takenOver' PROVE Holds' /\ Judgement'
  BY <1>2, TakenOverStays, RHolds, RJudgement DEF RInv
<1>3. QED
  BY <1>1, <1>2 DEF RInv

(* The runs inside all hold the one lock. *)
LEMMA HoldersAreOne == ASSUME RInv PROVE OneRunPerCheckout
<1> DEFINE In == {r \in Runs : step[r] \in Inside}
<1> SUFFICES ASSUME Holds PROVE Cardinality(In) <= 1
  BY DEF RInv, OneRunPerCheckout
<1>1. In \subseteq {lock.by}
  BY DEF Holds
<1>2. IsFiniteSet({lock.by}) /\ Cardinality({lock.by}) = 1
  BY FS_Singleton
<1>3. QED
  BY <1>1, <1>2, FS_Subset, FS_CardinalityType

(* However many runs start, die and take dead runs' locks over, one is in    *)
(* the checkout, unless a takeover removed a lock that was not a dead run's  *)
(* (tools/guard-reach.mjs:219).                                              *)
THEOREM OneRunInside == ReachSpec => []OneRunPerCheckout
<1>0. PidsAreNumbers
  BY ReachAssumption
<1>1. ReachInit => RInv
  BY <1>0, RInit
<1>2. RInv /\ [ReachNext]_reachVars => RInv'
  BY <1>0, RNext
<1>3. RInv => OneRunPerCheckout
  BY HoldersAreOne
<1>4. QED
  BY <1>1, <1>2, <1>3, PTL DEF ReachSpec

(* The same for what is recorded: a record of a disk walk is not followed by *)
(* one of an index walk, unless another entry was put in the file between    *)
(* them (tools/guard-reach.mjs:923).                                         *)
THEOREM ReachNeverNarrows == ReachSpec => RatchetNeverNarrows
<1>0. PidsAreNumbers
  BY ReachAssumption
<1> DEFINE Narrow == takenOver' \/ replaced \/ ~(recorded = "disk" /\ recorded' = "index")
<1>1. ReachInit => RInv
  BY <1>0, RInit
<1>2. RInv /\ [ReachNext]_reachVars => RInv'
  BY <1>0, RNext
<1>3. RInv /\ [ReachNext]_reachVars => [Narrow]_reachVars
  <2> SUFFICES ASSUME RInv, [ReachNext]_reachVars, ~takenOver', ~replaced, recorded = "disk", recorded' = "index"
               PROVE  FALSE
    OBVIOUS
  <2>1. ~takenOver /\ Judgement
    BY TakenOverStays DEF RInv
  <2>2. \E r \in Runs : Record(r)
    BY DEF ReachNext, reachVars, EditGuard, Create, WritePid, ReadHolder, RemoveStale, SweepResidue, Baseline,
           Plant, Unstaged, Staged, Judge, Exit, Killed
  <2>3. QED
    BY <2>1, <2>2 DEF Judgement, Record
<1>4. QED
  BY <1>1, <1>2, <1>3, PTL DEF ReachSpec, RatchetNeverNarrows

-----------------------------------------------------------------------------
(***************************************************************************)
(* Landing: landing a workspace loses nothing, and what the detached-HEAD  *)
(* guard lets in reaches a branch, for any edits and branches.  The words  *)
(* of the model name no branch: that is all the proofs assume.             *)
(***************************************************************************)

Drafts == [below : SUBSET Edits, tip : SUBSET Edits, unsnapped : SUBSET Edits]
Heads  == [branch : Branches \cup {"detached"}, tree : SUBSET Edits]
Forgets  == [step : {"none", "snapshotted", "held"}, had : SUBSET Edits]

LandTyped ==
    /\ draft \in Drafts /\ index \in SUBSET Edits
    /\ tips \in [Branches -> SUBSET Edits] /\ head \in Heads
    /\ forget \in Forgets

(* The range the check reads is all of the draft that was there: a snapshot  *)
(* put it in the stack, only a directory holds what no snapshot saw, and the *)
(* primary stands below the draft only on a detached HEAD.                   *)
Drafted ==
    /\ ~dir => draft.unsnapped = {}
    /\ onDraft = "below" => ~Attached
    /\ forget.step = "snapshotted" => ws /\ forget.had \subseteq draft.below \cup draft.tip
    /\ forget.step = "held" => forget.had = {}
    /\ unlanded = {}

(* What no branch got yet is in the HEAD of a branch's rebase.               *)
Followed ==
    /\ rebase # "none" => onDraft = "trunk"
    /\ rebase \in Branches => ~Attached /\ stray \subseteq head.tree
    /\ rebase \notin Branches => stray = {}

LInv == LandTyped /\ Drafted /\ Followed

(* At the start there is no draft, no rebase and no forget. *)
LEMMA LInit == WordsAreNoBranches /\ LandInit => LInv
<1> SUFFICES ASSUME WordsAreNoBranches, LandInit PROVE LInv
  OBVIOUS
<1>0. PICK b \in Branches : head = [branch |-> b, tree |-> {}]
  BY DEF LandInit
<1>1. LandTyped
  <2>1. draft \in Drafts
    BY DEF LandInit, Empty, Drafts
  <2>2. head \in Heads
    BY <1>0 DEF Heads
  <2>3. forget \in Forgets
    BY DEF LandInit, NoForget, Forgets
  <2>4. QED
    BY <2>1, <2>2, <2>3 DEF LandTyped, LandInit
<1>2. Drafted
  BY DEF LandInit, Empty, NoForget, Drafted
<1>3. Followed
  BY DEF LandInit, Followed, WordsAreNoBranches
<1>4. QED
  BY <1>1, <1>2, <1>3 DEF LInv

(* An edit or a deletion changes one part of the draft. *)
LEMMA EditShape ==
    ASSUME NEW d \in Drafts, NEW U \in SUBSET Edits
    PROVE  [d EXCEPT !.unsnapped = U] = [below |-> d.below, tip |-> d.tip, unsnapped |-> U]
  BY DEF Drafts

LEMMA HeadInEdits == ASSUME LandTyped PROVE HeadEdits \in SUBSET Edits
  BY DEF LandTyped, HeadEdits, Attached, Heads

(* Every step of jj, git and the two tools keeps the shapes. *)
LEMMA LTyped == ASSUME WordsAreNoBranches, LandTyped, LandNext PROVE LandTyped'
<1> USE DEF Task, Primary, Workspace
<1>1. draft' \in Drafts
  <2> USE DEF LandTyped
  <2>1. CASE Add \/ ForgetHeld \/ Discard
    BY <2>1 DEF Add, ForgetHeld, Discard, Empty, Drafts
  <2>2. CASE Edit
    BY <2>2, EditShape DEF Edit, Drafts
  <2>3. CASE Split
    BY <2>3 DEF Split, All, Drafts
  <2>4. CASE DeleteDir
    BY <2>4, EditShape DEF DeleteDir, Drafts
  <2>5. CASE ForgetLanded
    BY <2>5 DEF ForgetLanded, Snapshotted, Drafts
  <2>6. CASE UNCHANGED draft
    BY <2>6
  <2>7. QED
    BY <2>1, <2>2, <2>3, <2>4, <2>5, <2>6 DEF LandNext, Advance, Apply, JjMove, Switch, Commit,
       StartRebase, FinishRebase, AbortRebase, CheckLanding
<1>2. index' \in SUBSET Edits
  BY DEF LandTyped, Drafts, LandNext, Advance, Add, Edit, Split, DeleteDir, Apply, JjMove, Switch, Commit,
     StartRebase, FinishRebase, AbortRebase, ForgetLanded, CheckLanding, ForgetHeld, Discard
<1>3. head' \in Heads /\ tips' \in [Branches -> SUBSET Edits]
  <2> USE DEF LandTyped, Heads
  <2>1. CASE Commit
    BY <2>1 DEF Commit, Attached
  <2>2. CASE JjMove
    BY <2>2, HeadInEdits DEF JjMove, Drafts
  <2>3. CASE Switch
    <3>1. PICK b \in Branches : head' = [branch |-> b, tree |-> {}]
      BY <2>3 DEF Switch
    <3>2. QED
      BY <2>3, <3>1 DEF Switch
  <2>7. CASE StartRebase
    <3>1. PICK b \in Branches : head' = [branch |-> "detached", tree |-> tips[b]]
      BY <2>7 DEF StartRebase
    <3>2. QED
      BY <2>7, <3>1 DEF StartRebase
  <2>8. CASE AbortRebase
    BY <2>8 DEF AbortRebase
  <2>4. CASE FinishRebase
    BY <2>4 DEF FinishRebase
  <2>5. CASE UNCHANGED <<head, tips>>
    BY <2>5
  <2>6. QED
    BY <2>1, <2>2, <2>3, <2>4, <2>5, <2>7, <2>8 DEF LandNext, Advance, Add, Edit, Split, DeleteDir, Apply,
       ForgetLanded, CheckLanding, ForgetHeld, Discard
<1>4. forget' \in Forgets
  <2> USE DEF LandTyped, Forgets
  <2>1. CASE ForgetLanded
    BY <2>1 DEF ForgetLanded, All, Drafts
  <2>2. CASE CheckLanding
    BY <2>2 DEF CheckLanding, NoForget
  <2>3. CASE ForgetHeld
    BY <2>3 DEF ForgetHeld, NoForget
  <2>4. CASE UNCHANGED forget
    BY <2>4
  <2>5. QED
    BY <2>1, <2>2, <2>3, <2>4 DEF LandNext, Advance, Add, Edit, Split, DeleteDir, Apply, JjMove, Switch,
       Commit, StartRebase, FinishRebase, AbortRebase, Discard
<1>5. QED
  BY <1>1, <1>2, <1>3, <1>4 DEF LandTyped

(* A landing that is held covers all that was there when it was asked. *)
LEMMA RangeIsTheDraft ==
    ASSUME LandTyped, Drafted, LandingHeld, forget.step = "snapshotted"
    PROVE  forget.had \ HeadEdits = {}
<1>1. draft.below \cup draft.tip \subseteq HeadEdits
  <2>1. CASE onDraft = "trunk"
    BY <2>1 DEF LandingHeld, DraftRange
  <2>2. CASE onDraft = "below"
    BY <2>2 DEF LandingHeld, DraftRange, Drafted, HeadEdits
  <2>3. QED
    BY <2>1, <2>2 DEF LandingHeld
<1>2. QED
  BY <1>1 DEF Drafted

(* The parts of Drafted that a step can disturb, action by action. *)
LEMMA LDrafted == ASSUME WordsAreNoBranches, LInv, LandNext PROVE Drafted'
<1> USE DEF Task, Primary, Workspace
<1>0. Drafted /\ draft \in Drafts /\ (rebase # "none" => onDraft = "trunk")
  BY DEF LInv, LandTyped, Followed
<1>1. "detached" \notin Branches
  BY DEF WordsAreNoBranches
<1>2. CASE Advance \/ Apply
  BY <1>0, <1>2 DEF Advance, Apply, Drafted, Attached
<1>3. CASE Add
  BY <1>0, <1>3 DEF Add, CanAddWorkspace, Empty, Drafted
<1>4. CASE Edit
  BY <1>0, <1>4, EditShape DEF Edit, Drafted, Drafts, Attached, All
<1>5. CASE Split
  BY <1>0, <1>5 DEF Split, Rewritten, All, Drafted, Attached
<1>6. CASE DeleteDir
  <2>1. draft' = [below |-> draft.below, tip |-> draft.tip, unsnapped |-> {}]
    BY <1>0, <1>6, EditShape DEF DeleteDir
  <2>2. QED
    BY <1>0, <1>6, <2>1 DEF DeleteDir, Drafted, Attached
<1>7. CASE Switch
  BY <1>0, <1>7 DEF Switch, Drafted
<1>8. CASE Commit
  <2>1. head'.branch = head.branch
    BY <1>8 DEF Commit, LInv, LandTyped, Heads
  <2>2. QED
    BY <1>0, <1>8, <2>1 DEF Commit, Drafted, Attached
<1>9. CASE JjMove
  <2>1. head'.branch = "detached"
    BY <1>9 DEF JjMove
  <2>2. QED
    BY <1>0, <1>1, <1>9, <2>1 DEF JjMove, Drafted, Attached
<1>10. CASE StartRebase \/ FinishRebase \/ AbortRebase
  <2>1. onDraft' = "trunk" /\ UNCHANGED <<dir, draft, ws, forget, unlanded>>
    BY <1>0, <1>1, <1>10 DEF StartRebase, FinishRebase, AbortRebase, WordsAreNoBranches
  <2>2. QED
    BY <1>0, <2>1 DEF Drafted
<1>11. CASE ForgetLanded
  BY <1>0, <1>11 DEF ForgetLanded, All, Snapshotted, Rewritten, NoForget, Drafted, Attached
<1>12. CASE CheckLanding
  <2>1. forget.step = "snapshotted" /\ forget' \in {NoForget, [step |-> "held", had |-> forget.had \ HeadEdits]}
    BY <1>12 DEF CheckLanding
  <2>2. LandingHeld => forget.had \ HeadEdits = {}
    BY <1>0, <2>1, RangeIsTheDraft DEF LInv
  <2>3. forget'.step # "snapshotted" /\ (forget'.step = "held" => forget'.had = {})
    BY <1>12, <2>2 DEF CheckLanding, NoForget
  <2>4. QED
    BY <1>0, <1>12, <2>3 DEF CheckLanding, Drafted, Attached
<1>13. CASE ForgetHeld
  <2>1. unlanded' = {} /\ forget'.step = "none" /\ draft'.unsnapped = {}
    BY <1>0, <1>13 DEF ForgetHeld, NoForget, Empty, Drafted
  <2>2. QED
    BY <1>0, <1>13, <2>1 DEF ForgetHeld, Drafted, Attached
<1>14. CASE Discard
  <2>1. forget'.step = "none" /\ draft'.unsnapped = {}
    BY <1>14 DEF Discard, NoForget, Empty
  <2>2. QED
    BY <1>0, <1>14, <2>1 DEF Discard, Drafted, Attached
<1>15. QED
  BY <1>2, <1>3, <1>4, <1>5, <1>6, <1>7, <1>8, <1>9, <1>10, <1>11, <1>12, <1>13, <1>14 DEF LandNext

(* What is committed on a detached HEAD is in it until its branch moves. *)
LEMMA LFollowed == ASSUME WordsAreNoBranches, LInv, LandNext PROVE Followed'
<1> USE DEF Task, Primary, Workspace
<1>0. Followed /\ head \in Heads
  BY DEF LInv, LandTyped
<1>1. {"detached", "none", "detached HEAD"} \cap Branches = {}
  BY DEF WordsAreNoBranches
<1>2. CASE Advance \/ Add \/ Edit \/ Split \/ DeleteDir \/ Apply
  BY <1>0, <1>2 DEF Advance, Add, Edit, Split, DeleteDir, Apply, Rewritten, Followed, Attached
<1>3. CASE Switch \/ JjMove
  BY <1>0, <1>1, <1>3 DEF Switch, JjMove, Followed
<1>4. CASE Commit
  <2>1. head'.branch = head.branch /\ rebase' = rebase /\ onDraft' = onDraft
    BY <1>0, <1>4 DEF Commit, Heads
  <2>2. CASE Attached
    BY <1>0, <1>4, <2>1, <2>2 DEF Commit, Followed, Attached
  <2>3. CASE ~Attached
    <3>1. rebase \in Branches
      BY <1>4, <2>3 DEF Commit, Refuses, RebaseBranch
    <3>2. head'.tree = head.tree \cup index /\ stray' \subseteq stray \cup index
      BY <1>0, <1>4, <2>3 DEF Commit, Heads
    <3>3. QED
      BY <1>0, <2>1, <2>3, <3>1, <3>2 DEF Followed, Attached
  <2>4. QED
    BY <2>2, <2>3
<1>5. CASE StartRebase
  <2>0. PICK b \in Branches : head' = [branch |-> "detached", tree |-> tips[b]]
    BY <1>5 DEF StartRebase
  <2>1. head'.branch = "detached" /\ stray' = {} /\ onDraft' = "trunk"
    <3>1. rebase = "none" /\ stray' = stray /\ onDraft' = "trunk"
      BY <1>5 DEF StartRebase
    <3>2. QED
      BY <1>0, <1>1, <2>0, <3>1 DEF Followed
  <2>2. QED
    BY <1>1, <2>1 DEF Followed, Attached
<1>6. CASE FinishRebase
  <2>1. stray' = {} /\ rebase' = "none"
    BY <1>0, <1>6 DEF FinishRebase, Followed
  <2>2. QED
    BY <1>1, <2>1 DEF Followed
<1>7. CASE AbortRebase
  BY <1>1, <1>7 DEF AbortRebase, Followed
<1>8. CASE ForgetLanded \/ CheckLanding \/ ForgetHeld \/ Discard
  BY <1>0, <1>8 DEF ForgetLanded, CheckLanding, ForgetHeld, Discard, Rewritten, Followed, Attached
<1>9. QED
  BY <1>2, <1>3, <1>4, <1>5, <1>6, <1>7, <1>8 DEF LandNext

LEMMA LNext == WordsAreNoBranches /\ LInv /\ [LandNext]_landVars => LInv'
<1> SUFFICES ASSUME WordsAreNoBranches, LInv, [LandNext]_landVars PROVE LInv'
  OBVIOUS
<1>1. CASE UNCHANGED landVars
  BY <1>1 DEF landVars, LInv, LandTyped, Drafted, Followed, Attached
<1>2. CASE LandNext
  BY <1>2, LTyped, LDrafted, LFollowed DEF LInv
<1>3. QED
  BY <1>1, <1>2

(* However edits, splits, moves of the primary and the deletion of the       *)
(* directory interleave with `forget --landed`, it drops nothing HEAD does   *)
(* not hold (tools/task-workspace.mjs:106).                                  *)
THEOREM LandedForgetLosesNothing == LandSpec => []ForgetLosesNothing
<1>0. WordsAreNoBranches
  BY LandAssumption
<1>1. LandInit => LInv
  BY <1>0, LInit
<1>2. LInv /\ [LandNext]_landVars => LInv'
  BY <1>0, LNext
<1>3. LInv => ForgetLosesNothing
  BY DEF LInv, Drafted, ForgetLosesNothing
<1>4. QED
  BY <1>1, <1>2, <1>3, PTL DEF LandSpec

(* Over any number of commits, moves and rebases, what the guard let in is   *)
(* on a branch once no branch's rebase runs                                  *)
(* (tools/detached-head-guard.mjs:74).                                       *)
THEOREM JudgedCommitsLand == LandSpec => []CommitsReachABranch
<1>0. WordsAreNoBranches
  BY LandAssumption
<1>1. LandInit => LInv
  BY <1>0, LInit
<1>2. LInv /\ [LandNext]_landVars => LInv'
  BY <1>0, LNext
<1>3. LInv => CommitsReachABranch
  BY DEF LInv, Followed, CommitsReachABranch
<1>4. QED
  BY <1>1, <1>2, <1>3, PTL DEF LandSpec

-----------------------------------------------------------------------------
(***************************************************************************)
(* TaskGate: a demand is made once, and no two refusals read alike, for    *)
(* any calls, targets, bounds and clocks.  "bypass" is no file.            *)
(***************************************************************************)

Books   == UNION {[asked -> 0..MaxTime] : asked \in SUBSET Keys}
Files   == [entries : Books, sessionDenials : Nat, fullShown : Nat, sessionDenialsAt : 0..NoDenialYet]
Denials == [target : Keys \cup {"bypass"}, ordinal : Nat, full : BOOLEAN, at : 0..MaxTime]
Pending == [kind : {"idle", "gate", "bypass"}, target : Keys, nowMs : 0..MaxTime]
Decided == [refuse : BOOLEAN, bypass : BOOLEAN, target : Keys, nowMs : 0..MaxTime]

GateTyped ==
    /\ clock \in 0..MaxTime
    /\ state \in Files /\ IsFiniteSet(DOMAIN state.entries)
    /\ call \in [Calls -> Pending]
    /\ denials \in Seq(Denials)
    /\ last \in Decided

(* A call decides at most Skew after the clock it read. *)
Waited == \A c \in Calls : call[c].kind # "idle" => call[c].nowMs <= clock /\ clock <= call[c].nowMs + Skew

(* Why a demand no longer stands. *)
Gone(i) == Lapsed(denials[i].at, clock) \/ PushedOut(i, Len(denials))

(* An entry is a demand's, and a demand has its entry until it is gone. *)
Entries ==
    /\ \A k \in DOMAIN state.entries : \E i \in DOMAIN denials :
        denials[i].target = k /\ denials[i].at = state.entries[k]
    /\ \A i \in DOMAIN denials :
        \/ denials[i].target = "bypass" \/ Gone(i)
        \/ denials[i].target \in DOMAIN state.entries /\ state.entries[denials[i].target] >= denials[i].at

(* Three full demands, for a count of three, and no silence since the first. *)
Shown(n) ==
    \E i \in DOMAIN denials :
        /\ Cardinality({k \in i..Len(denials) : denials[k].full}) >= n
        /\ \A k \in i..(Len(denials) - 1) : ~Lapsed(denials[k].at, denials[k + 1].at)

(* The counters speak of the denials since the last silence of the TTL. *)
Counters ==
    /\ \A i \in DOMAIN denials :
        /\ denials[i].at <= clock
        /\ denials[i].ordinal <= state.sessionDenials \/ clock + Skew > denials[i].at + Ttl
    /\ state.sessionDenialsAt = NoDenialYet => state.sessionDenials = 0 /\ state.fullShown = 0
    /\ state.sessionDenialsAt # NoDenialYet =>
        /\ Len(denials) > 0 /\ denials[Len(denials)].at = state.sessionDenialsAt
        /\ \A i \in DOMAIN denials : denials[i].at <= state.sessionDenialsAt + Skew
        /\ Shown(state.fullShown)

GateInv == GateTyped /\ Waited /\ Entries /\ Counters /\ AskedOnce /\ DenialsDiffer

-----------------------------------------------------------------------------
LEMMA FiniteImage ==
    ASSUME NEW S, IsFiniteSet(S), NEW f, S \subseteq DOMAIN f
    PROVE  IsFiniteSet({f[x] : x \in S})
<1> DEFINE g == [x \in S |-> f[x]]
           T == {f[x] : x \in S}
<1>1. g \in Surjection(S, T)
  BY DEF Surjection
<1>2. QED
  BY <1>1, FS_Surjection

(* The demands that count against demand i, in a list of denials. *)
Pushing(ds, i, upTo) ==
    {j \in 1..upTo : ds[j].target \notin {ds[i].target, "bypass"} /\ ds[j].at >= ds[i].at}

Pushers(ds, i, upTo) == {ds[j].target : j \in Pushing(ds, i, upTo)}

LEMMA PushersFinite == ASSUME NEW ds, NEW i, NEW u \in Nat PROVE IsFiniteSet(Pushers(ds, i, u))
<1>1. IsFiniteSet(Pushing(ds, i, u))
  <2>1. Pushing(ds, i, u) \in SUBSET (1..u)
    BY DEF Pushing
  <2>2. IsFiniteSet(1..u)
    BY FS_Interval
  <2>3. QED
    BY <2>1, <2>2, FS_Subset
<1> DEFINE f == [j \in Pushing(ds, i, u) |-> ds[j].target]
<1>2. IsFiniteSet({f[j] : j \in Pushing(ds, i, u)})
  BY <1>1, FiniteImage
<1>3. Pushers(ds, i, u) = {f[j] : j \in Pushing(ds, i, u)}
  BY DEF Pushers
<1>4. QED
  BY <1>2, <1>3

(* Enough of them push demand i out. *)
LEMMA EnoughPush ==
    ASSUME GateConstants, NEW ds, NEW i, NEW u \in Nat, NEW by \in SUBSET Pushers(ds, i, u),
           Cardinality(by) >= MaxTargets
    PROVE  Cardinality(Pushers(ds, i, u)) >= MaxTargets
<1>1. IsFiniteSet(Pushers(ds, i, u))
  BY PushersFinite
<1>2. IsFiniteSet(by) /\ Cardinality(by) <= Cardinality(Pushers(ds, i, u))
  BY <1>1, FS_Subset
<1>3. Cardinality(by) \in Nat /\ Cardinality(Pushers(ds, i, u)) \in Nat
  BY <1>1, <1>2, FS_CardinalityType
<1>4. QED
  BY <1>2, <1>3 DEF GateConstants

(* What a new denial leaves of the earlier ones. *)
LEMMA Earlier ==
    ASSUME denials \in Seq(Denials), NEW d \in Denials, denials' = Append(denials, d)
    PROVE  /\ denials' \in Seq(Denials) /\ Len(denials') = Len(denials) + 1
           /\ DOMAIN denials = 1..Len(denials) /\ DOMAIN denials' = DOMAIN denials \cup {Len(denials) + 1}
           /\ Len(denials) \in Nat
           /\ \A i \in DOMAIN denials : denials'[i] = denials[i] /\ denials[i] \in Denials
           /\ denials'[Len(denials) + 1] = d
  OBVIOUS

(* Later demands push out what earlier ones did. *)
LEMMA PushedOutStays ==
    ASSUME GateConstants, denials \in Seq(Denials), NEW d \in Denials, denials' = Append(denials, d),
           NEW i \in DOMAIN denials, NEW u \in 0..Len(denials), NEW v \in u..(Len(denials) + 1),
           PushedOut(i, u)
    PROVE  PushedOut(i, v)'
<1>1. Pushing(denials, i, u) \subseteq Pushing(denials', i, v)
  BY Earlier DEF Pushing
<1>2. \A j \in Pushing(denials, i, u) : denials'[j] = denials[j]
  BY Earlier DEF Pushing
<1>3. Pushers(denials, i, u) \in SUBSET Pushers(denials', i, v)
  BY <1>1, <1>2 DEF Pushers
<1>4. Cardinality(Pushers(denials, i, u)) >= MaxTargets
  BY Zenon DEF PushedOut, Pushers, Pushing
<1>5. v \in Nat
  BY Earlier
<1>6. Cardinality(Pushers(denials', i, v)) >= MaxTargets
  BY <1>3, <1>4, <1>5, EnoughPush
<1>7. QED
  BY <1>6, Zenon DEF PushedOut, Pushers, Pushing

LEMMA GoneStays ==
    ASSUME GateConstants, GateTyped, clock' \in 0..MaxTime, clock' >= clock, NEW i \in DOMAIN denials, Gone(i),
           NEW d \in Denials, denials' \in {denials, Append(denials, d)}
    PROVE  Gone(i)'
<1>1. denials \in Seq(Denials) /\ clock \in 0..MaxTime
  BY DEF GateTyped
<1>2. denials'[i] = denials[i] /\ denials[i].at \in Nat
  <2>1. denials[i] \in Denials
    BY <1>1
  <2>2. denials'[i] = denials[i]
    BY <1>1, Earlier
  <2>3. QED
    BY <2>1, <2>2 DEF Denials
<1>3. CASE Lapsed(denials[i].at, clock)
  BY <1>1, <1>2, <1>3 DEF Gone, Lapsed, GateConstants
<1>4. CASE PushedOut(i, Len(denials)) /\ denials' = denials
  BY <1>4 DEF Gone, PushedOut
<1>5. CASE PushedOut(i, Len(denials)) /\ denials' = Append(denials, d)
  <2>1. Len(denials) \in Nat
    BY <1>1
  <2>2. PICK u \in Nat, v \in Nat : u = Len(denials) /\ v = Len(denials) + 1
    BY <2>1
  <2>3. PushedOut(i, v)'
    <3>1. u \in 0..Len(denials) /\ v \in u..(Len(denials) + 1)
      BY <2>2
    <3>2. PushedOut(i, u)
      BY <1>5, <2>2
    <3>3. QED
      BY <1>1, <1>5, <3>1, <3>2, PushedOutStays
  <2>4. Len(denials') = v
    BY <1>1, <1>5, <2>2, Earlier
  <2>5. QED
    BY <2>3, <2>4 DEF Gone, PushedOut
<1>6. QED
  BY <1>3, <1>4, <1>5 DEF Gone

-----------------------------------------------------------------------------
(* What a call reads: the entries within the TTL, and the counters unless    *)
(* the last denial is older than it.                                         *)
Reads(s, nowMs) ==
    /\ s \in Files /\ IsFiniteSet(DOMAIN s.entries)
    /\ DOMAIN s.entries = {k \in DOMAIN state.entries : ~Lapsed(state.entries[k], nowMs)}
    /\ \A k \in DOMAIN s.entries : s.entries[k] = state.entries[k]
    /\ \/ /\ state.sessionDenialsAt # NoDenialYet /\ ~Lapsed(state.sessionDenialsAt, nowMs)
          /\ s.sessionDenials = state.sessionDenials /\ s.fullShown = state.fullShown
          /\ s.sessionDenialsAt = state.sessionDenialsAt
       \/ /\ state.sessionDenialsAt = NoDenialYet \/ Lapsed(state.sessionDenialsAt, nowMs)
          /\ s.sessionDenials = 0 /\ s.fullShown = 0 /\ s.sessionDenialsAt = NoDenialYet

LEMMA Loaded ==
    ASSUME GateConstants, GateTyped, NEW nowMs \in 0..MaxTime
    PROVE  Reads(LoadState(state, nowMs), nowMs)
<1> DEFINE live == {k \in DOMAIN state.entries : ~Lapsed(state.entries[k], nowMs)}
           kept == [k \in live |-> state.entries[k]]
           s == LoadState(state, nowMs)
<1>1. PICK asked \in SUBSET Keys : state.entries \in [asked -> 0..MaxTime]
  BY DEF GateTyped, Files, Books
<1>2. live \in SUBSET DOMAIN state.entries
  OBVIOUS
<1>3. IsFiniteSet(live)
  BY <1>2, FS_Subset DEF GateTyped
<1>4. kept \in [live -> 0..MaxTime] /\ live \in SUBSET Keys
  BY <1>1
<1>5. kept \in Books
  BY <1>4 DEF Books
<1>6. CASE state.sessionDenialsAt = NoDenialYet \/ Lapsed(state.sessionDenialsAt, nowMs)
  <2>1. s = [entries |-> kept, sessionDenials |-> 0, fullShown |-> 0, sessionDenialsAt |-> NoDenialYet]
    BY <1>6 DEF LoadState, FreshCounters, Fresh, GateTyped, Files
  <2>2. NoDenialYet \in 0..NoDenialYet
    BY DEF NoDenialYet, GateConstants
  <2>3. QED
    BY <1>3, <1>4, <1>5, <1>6, <2>1, <2>2 DEF Reads, Files
<1>7. CASE ~(state.sessionDenialsAt = NoDenialYet \/ Lapsed(state.sessionDenialsAt, nowMs))
  <2>1. s = [state EXCEPT !.entries = kept]
    BY <1>7 DEF LoadState, FreshCounters, GateTyped, Files
  <2>2. s = [entries |-> kept, sessionDenials |-> state.sessionDenials, fullShown |-> state.fullShown,
             sessionDenialsAt |-> state.sessionDenialsAt]
    BY <2>1 DEF GateTyped, Files
  <2>3. QED
    BY <1>3, <1>4, <1>5, <1>7, <2>2 DEF Reads, Files, GateTyped
<1>8. QED
  BY <1>6, <1>7

(* What a save keeps of the entries: all of them, or MaxTargets of which     *)
(* none is older than an evicted one.                                        *)
LEMMA Saved ==
    ASSUME GateConstants, NEW s \in Files, IsFiniteSet(DOMAIN s.entries), SaveState(s)
    PROVE  /\ state' \in Files /\ IsFiniteSet(DOMAIN state'.entries)
           /\ DOMAIN state'.entries \subseteq DOMAIN s.entries
           /\ \A k \in DOMAIN state'.entries : state'.entries[k] = s.entries[k]
           /\ \A g \in (DOMAIN s.entries) \ DOMAIN state'.entries :
                /\ Cardinality(DOMAIN state'.entries) = MaxTargets
                /\ \A k \in DOMAIN state'.entries : s.entries[k] >= s.entries[g]
           /\ state'.sessionDenials = s.sessionDenials /\ state'.fullShown = s.fullShown
           /\ state'.sessionDenialsAt = s.sessionDenialsAt
<1>1. PICK kept \in BoundTargets(s.entries) : state' = [s EXCEPT !.entries = [k \in kept |-> s.entries[k]]]
  BY DEF SaveState
<1>2. PICK asked \in SUBSET Keys : s.entries \in [asked -> 0..MaxTime]
  BY DEF Files, Books
<1>3. kept \in SUBSET DOMAIN s.entries
  BY DEF BoundTargets
<1>4. IsFiniteSet(kept) /\ (Cardinality(kept) = Cardinality(DOMAIN s.entries) => kept = DOMAIN s.entries)
  BY <1>3, FS_Subset
<1>5. \A g \in (DOMAIN s.entries) \ kept :
        Cardinality(kept) = MaxTargets /\ \A k \in kept : s.entries[k] >= s.entries[g]
  BY <1>4 DEF BoundTargets
<1>6. [k \in kept |-> s.entries[k]] \in Books
  BY <1>2, <1>3 DEF Books
<1>7. state' = [entries |-> [k \in kept |-> s.entries[k]], sessionDenials |-> s.sessionDenials,
                fullShown |-> s.fullShown, sessionDenialsAt |-> s.sessionDenialsAt]
  BY <1>1 DEF Files
<1>8. QED
  BY <1>3, <1>4, <1>5, <1>6, <1>7 DEF Files

-----------------------------------------------------------------------------
(* A save keeps every demand, or pushes it out by MaxTargets later ones.     *)
LEMMA SaveEntries ==
    ASSUME GateConstants, denials' \in Seq(Denials),
           NEW s \in Files, IsFiniteSet(DOMAIN s.entries), SaveState(s),
           \A k \in DOMAIN s.entries : \E i \in DOMAIN denials' :
              denials'[i].target = k /\ denials'[i].at = s.entries[k],
           \A i \in DOMAIN denials' :
              \/ denials'[i].target = "bypass" \/ Gone(i)'
              \/ denials'[i].target \in DOMAIN s.entries /\ s.entries[denials'[i].target] >= denials'[i].at
    PROVE  Entries'
<1>1. /\ DOMAIN state'.entries \subseteq DOMAIN s.entries
      /\ \A k \in DOMAIN state'.entries : state'.entries[k] = s.entries[k]
      /\ \A g \in (DOMAIN s.entries) \ DOMAIN state'.entries :
            /\ Cardinality(DOMAIN state'.entries) = MaxTargets
            /\ \A k \in DOMAIN state'.entries : s.entries[k] >= s.entries[g]
  BY Saved
<1>2. ASSUME NEW i \in DOMAIN denials', denials'[i].target # "bypass", ~Gone(i)',
             denials'[i].target \notin DOMAIN state'.entries
      PROVE  FALSE
  <2>1. PICK g \in DOMAIN s.entries : g = denials'[i].target /\ s.entries[g] >= denials'[i].at
    BY <1>2
  <2>2. PICK u \in Nat : u = Len(denials')
    OBVIOUS
  <2>3. ASSUME NEW k \in DOMAIN state'.entries PROVE k \in Pushers(denials', i, u)
    <3>1. PICK j \in DOMAIN denials' : denials'[j].target = k /\ denials'[j].at = s.entries[k]
      BY <1>1
    <3>2. k \in Keys /\ s.entries[k] \in Nat /\ s.entries[g] \in Nat
      <4>1. PICK asked \in SUBSET Keys : s.entries \in [asked -> 0..MaxTime]
        BY DEF Files, Books
      <4>2. QED
        BY <1>1, <4>1
    <3>3. s.entries[k] >= s.entries[g] /\ k # g /\ k # "bypass"
      BY <1>1, <1>2, <2>1, <3>2 DEF GateConstants
    <3>4. denials'[i].at \in Nat
      <4>1. denials'[i] \in Denials
        OBVIOUS
      <4>2. QED
        BY <4>1 DEF Denials
    <3>5. j \in Pushing(denials', i, u)
      BY <2>1, <2>2, <3>1, <3>2, <3>3, <3>4 DEF Pushing
    <3>6. QED
      BY <3>1, <3>5 DEF Pushers
  <2>4. Cardinality(DOMAIN state'.entries) = MaxTargets
    BY <1>1, <1>2, <2>1
  <2>5. Cardinality(DOMAIN state'.entries) >= MaxTargets /\ DOMAIN state'.entries \in SUBSET Pushers(denials', i, u)
    BY <2>3, <2>4 DEF GateConstants
  <2>6. Cardinality(Pushers(denials', i, u)) >= MaxTargets
    BY <2>5, EnoughPush
  <2>7. PushedOut(i, u)'
    BY <2>6, Zenon DEF PushedOut, Pushers, Pushing
  <2>8. QED
    BY <1>2, <2>2, <2>7 DEF Gone
<1>3. ASSUME NEW k \in DOMAIN state'.entries
      PROVE  \E i \in DOMAIN denials' : denials'[i].target = k /\ denials'[i].at = state'.entries[k]
  BY <1>1
<1>4. ASSUME NEW i \in DOMAIN denials', denials'[i].target # "bypass", ~Gone(i)'
      PROVE  denials'[i].target \in DOMAIN state'.entries /\ state'.entries[denials'[i].target] >= denials'[i].at
  BY <1>1, <1>2, <1>4
<1>5. QED
  BY <1>3, <1>4, Zenon DEF Entries

(* A read drops an entry only past its TTL: its demand is gone. *)
LEMMA ReadEntries ==
    ASSUME GateConstants, GateTyped, Entries, NEW now \in 0..clock, NEW s, Reads(s, now)
    PROVE  /\ \A k \in DOMAIN s.entries : \E i \in DOMAIN denials :
                 denials[i].target = k /\ denials[i].at = s.entries[k]
           /\ \A i \in DOMAIN denials :
                 \/ denials[i].target = "bypass" \/ Gone(i)
                 \/ denials[i].target \in DOMAIN s.entries /\ s.entries[denials[i].target] >= denials[i].at
<1>1. \A k \in DOMAIN s.entries : k \in DOMAIN state.entries /\ s.entries[k] = state.entries[k]
  BY DEF Reads
<1>2. ASSUME NEW i \in DOMAIN denials, denials[i].target # "bypass", ~Gone(i)
      PROVE  denials[i].target \in DOMAIN s.entries /\ s.entries[denials[i].target] >= denials[i].at
  <2>1. PICK g \in DOMAIN state.entries : g = denials[i].target /\ state.entries[g] >= denials[i].at
    BY <1>2 DEF Entries
  <2>2. denials[i].at \in Nat /\ state.entries[g] \in Nat /\ clock \in Nat
    <3>1. PICK asked \in SUBSET Keys : state.entries \in [asked -> 0..MaxTime]
      BY DEF GateTyped, Files, Books
    <3>2. denials[i] \in Denials
      BY DEF GateTyped
    <3>3. QED
      BY <3>1, <3>2 DEF Denials, GateTyped
  <2>3. ~Lapsed(state.entries[g], now)
    BY <1>2, <2>1, <2>2 DEF Gone, Lapsed, GateConstants
  <2>4. QED
    BY <1>1, <2>1, <2>3 DEF Reads
<1>3. \A k \in DOMAIN s.entries : \E i \in DOMAIN denials :
         denials[i].target = k /\ denials[i].at = s.entries[k]
  BY <1>1 DEF Entries
<1>4. QED
  BY <1>2, <1>3, Zenon

-----------------------------------------------------------------------------
(* What a refusal makes of the file it read, s, and the denial it writes: t, *)
(* before the save bounds it, and d.                                         *)
Denies(s, t, d, nowMs) ==
    /\ d.at = nowMs /\ d.ordinal = s.sessionDenials + 1
    /\ t.sessionDenials = s.sessionDenials + 1 /\ t.sessionDenialsAt = nowMs
    /\ t.fullShown = IF d.full THEN s.fullShown + 1 ELSE s.fullShown
    /\ \/ d.target = "bypass" /\ ~d.full /\ t.entries = s.entries
       \/ /\ d.target \in Keys \ DOMAIN s.entries
          /\ DOMAIN t.entries = DOMAIN s.entries \cup {d.target} /\ t.entries[d.target] = nowMs
          /\ \A k \in DOMAIN s.entries : t.entries[k] = s.entries[k]
          /\ d.full \/ s.fullShown >= 3

(* A call in the gate read the clock, and not long ago. *)
LEMMA CallShape ==
    ASSUME GateConstants, GateTyped, Waited, NEW c \in Calls, call[c].kind # "idle"
    PROVE  /\ call[c].nowMs \in 0..clock /\ call[c].nowMs \in 0..MaxTime /\ clock <= call[c].nowMs + Skew
           /\ call[c].target \in Keys /\ call[c] \in Pending /\ clock \in Nat
<1>1. call[c] \in Pending /\ clock \in 0..MaxTime
  BY DEF GateTyped
<1>2. call[c].nowMs <= clock /\ clock <= call[c].nowMs + Skew
  BY DEF Waited
<1>3. QED
  BY <1>1, <1>2 DEF Pending, GateConstants

(* An edit's refusal, and a bypass's. *)
LEMMA RefuseDenies ==
    ASSUME GateConstants, GateTyped, Waited, NEW c \in Calls, Refuse(c)
    PROVE  \E s \in Files, t \in Files, d \in Denials :
              /\ Reads(s, call[c].nowMs) /\ Denies(s, t, d, call[c].nowMs)
              /\ IsFiniteSet(DOMAIN t.entries) /\ SaveState(t) /\ denials' = Append(denials, d)
<1> DEFINE now == call[c].nowMs
           k == call[c].target
           s == LoadState(state, now)
           t == Denied(s, k, now)
           d == [target |-> k, ordinal |-> s.sessionDenials + 1, full |-> IsFull(s, k), at |-> now]
<1>1. /\ k \notin DOMAIN s.entries /\ SaveState(t) /\ denials' = Append(denials, d)
      /\ call[c].kind # "idle"
  BY DEF Refuse
<1>2. now \in 0..MaxTime /\ k \in Keys /\ now \in Nat
  BY <1>1, CallShape
<1>3. Reads(s, now)
  BY <1>2, Loaded
<1> HIDE DEF now, k, s
<1>4. s \in Files /\ IsFiniteSet(DOMAIN s.entries) /\ s.sessionDenials \in Nat /\ s.fullShown \in Nat
  BY <1>3 DEF Reads, Files
<1>5. PICK asked \in SUBSET Keys : s.entries \in [asked -> 0..MaxTime]
  BY <1>4 DEF Files, Books
<1> DEFINE book == [j \in DOMAIN s.entries \cup {k} |-> IF j = k THEN now ELSE s.entries[j]]
<1>6. book \in [asked \cup {k} -> 0..MaxTime] /\ asked \cup {k} \in SUBSET Keys /\ DOMAIN book = asked \cup {k}
  BY <1>2, <1>5
<1>7. book \in Books /\ IsFiniteSet(DOMAIN book)
  <2>1. book \in Books
    BY <1>6 DEF Books
  <2>2. IsFiniteSet(DOMAIN s.entries \cup {k})
    BY <1>4, FS_AddElement
  <2>3. QED
    BY <1>5, <1>6, <2>1, <2>2
<1>8. t.entries = book /\ t.sessionDenials = s.sessionDenials + 1 /\ t.sessionDenialsAt = now
      /\ t.fullShown = IF IsFull(s, k) THEN s.fullShown + 1 ELSE s.fullShown
  BY DEF Denied
<1>9. t \in Files
  <2>1. now \in 0..NoDenialYet
    BY <1>2 DEF NoDenialYet, GateConstants
  <2>2. QED
    BY <1>4, <1>7, <2>1 DEF Denied, Files
<1>10. d \in Denials /\ d.full = IsFull(s, k) /\ d.at = now /\ d.target = k /\ d.ordinal = s.sessionDenials + 1
  <2>1. IsFull(s, k) \in BOOLEAN
    BY DEF IsFull
  <2>2. QED
    BY <1>2, <1>4, <2>1 DEF Denials
<1>11. IsFull(s, k) \/ s.fullShown >= 3
  BY <1>4 DEF IsFull
<1> HIDE DEF t, d, book
<1>12. /\ k \in Keys \ DOMAIN s.entries
       /\ DOMAIN book = DOMAIN s.entries \cup {k} /\ book[k] = now
       /\ \A j \in DOMAIN s.entries : book[j] = s.entries[j]
  BY <1>1, <1>2 DEF book
<1>13. Denies(s, t, d, now)
  BY <1>8, <1>10, <1>11, <1>12 DEF Denies
<1>14. QED
  BY <1>1, <1>3, <1>4, <1>7, <1>8, <1>9, <1>10, <1>13 DEF now

LEMMA BypassDenies ==
    ASSUME GateConstants, GateTyped, Waited, NEW c \in Calls, RefuseBypass(c)
    PROVE  \E s \in Files, t \in Files, d \in Denials :
              /\ Reads(s, call[c].nowMs) /\ Denies(s, t, d, call[c].nowMs)
              /\ IsFiniteSet(DOMAIN t.entries) /\ SaveState(t) /\ denials' = Append(denials, d)
<1> DEFINE now == call[c].nowMs
           s == LoadState(state, now)
           t == BypassDenied(s, now)
           d == [target |-> "bypass", ordinal |-> s.sessionDenials + 1, full |-> FALSE, at |-> now]
<1>1. SaveState(t) /\ denials' = Append(denials, d) /\ call[c].kind # "idle"
  BY DEF RefuseBypass
<1>2. now \in 0..MaxTime /\ now \in Nat
  BY <1>1, CallShape
<1>3. Reads(s, now)
  BY <1>2, Loaded
<1> HIDE DEF now, s
<1>4. s \in Files /\ IsFiniteSet(DOMAIN s.entries) /\ s.sessionDenials \in Nat /\ s.fullShown \in Nat
  BY <1>3 DEF Reads, Files
<1>5. now \in 0..NoDenialYet
  BY <1>2 DEF NoDenialYet, GateConstants
<1>6. t = [entries |-> s.entries, sessionDenials |-> s.sessionDenials + 1, fullShown |-> s.fullShown,
           sessionDenialsAt |-> now]
  BY DEF BypassDenied
<1>7. t \in Files /\ d \in Denials
  BY <1>2, <1>4, <1>5, <1>6 DEF Files, Denials
<1>8. Denies(s, t, d, now)
  BY <1>6 DEF Denies
<1>9. IsFiniteSet(DOMAIN t.entries)
  BY <1>4, <1>6
<1> HIDE DEF t, d
<1>10. QED
  BY <1>1, <1>3, <1>4, <1>7, <1>8, <1>9 DEF now

-----------------------------------------------------------------------------
(* The counters a call reads still speak of every denial: those of an older  *)
(* count are more than the TTL ago.                                          *)
LEMMA ReadCounters ==
    ASSUME GateConstants, GateTyped, Counters, NEW now \in 0..clock, clock <= now + Skew, NEW s, Reads(s, now)
    PROVE  /\ \A i \in DOMAIN denials :
                 denials[i].ordinal <= s.sessionDenials \/ clock + Skew > denials[i].at + Ttl
           /\ s.sessionDenialsAt = NoDenialYet => s.sessionDenials = 0 /\ s.fullShown = 0
           /\ s.sessionDenialsAt # NoDenialYet =>
                 /\ state.sessionDenialsAt # NoDenialYet /\ s.sessionDenialsAt = state.sessionDenialsAt
                 /\ s.fullShown = state.fullShown /\ ~Lapsed(s.sessionDenialsAt, now)
<1>0. clock \in Nat /\ Ttl \in Nat /\ Skew \in Nat /\ state.sessionDenialsAt \in Nat
  BY DEF GateTyped, GateConstants, Files, NoDenialYet
<1>1. CASE /\ state.sessionDenialsAt # NoDenialYet /\ ~Lapsed(state.sessionDenialsAt, now)
           /\ s.sessionDenials = state.sessionDenials /\ s.fullShown = state.fullShown
           /\ s.sessionDenialsAt = state.sessionDenialsAt
  BY <1>1 DEF Counters
<1>2. CASE state.sessionDenialsAt = NoDenialYet /\ s.sessionDenials = 0 /\ s.fullShown = 0
           /\ s.sessionDenialsAt = NoDenialYet
  BY <1>2 DEF Counters
<1>3. CASE /\ state.sessionDenialsAt # NoDenialYet /\ Lapsed(state.sessionDenialsAt, now)
           /\ s.sessionDenials = 0 /\ s.fullShown = 0 /\ s.sessionDenialsAt = NoDenialYet
  <2>1. ASSUME NEW i \in DOMAIN denials PROVE clock + Skew > denials[i].at + Ttl
    <3>1. denials[i].at <= state.sessionDenialsAt + Skew
      BY <1>3 DEF Counters
    <3>2. denials[i].at \in Nat
      <4>1. denials[i] \in Denials
        BY DEF GateTyped
      <4>2. QED
        BY <4>1 DEF Denials
    <3>3. now > state.sessionDenialsAt + Ttl
      BY <1>3 DEF Lapsed
    <3>4. QED
      BY <1>0, <3>1, <3>2, <3>3
  <2>2. QED
    BY <1>3, <2>1
<1>4. QED
  BY <1>1, <1>2, <1>3 DEF Reads

(* The full demands among a list of denials, from one to another. *)
Fulls(ds, i, n) == {k \in i..n : ds[k].full}

LEMMA FullsGrow ==
    ASSUME denials \in Seq(Denials), NEW d \in Denials, denials' = Append(denials, d),
           NEW i \in 1..(Len(denials) + 1)
    PROVE  /\ Cardinality(Fulls(denials, i, Len(denials))) \in Nat
           /\ Cardinality(Fulls(denials', i, Len(denials) + 1)) =
                Cardinality(Fulls(denials, i, Len(denials))) + (IF d.full THEN 1 ELSE 0)
<1> DEFINE L == Len(denials)
<1>1. Fulls(denials, i, L) \in SUBSET (i..L) /\ L \in Nat
  BY DEF Fulls
<1>2. IsFiniteSet(i..L)
  BY FS_Interval
<1>3. IsFiniteSet(Fulls(denials, i, L)) /\ Cardinality(Fulls(denials, i, L)) \in Nat
  BY <1>1, <1>2, FS_Subset, FS_CardinalityType
<1>4. \A k \in i..(L + 1) : k = L + 1 \/ (k \in i..L /\ denials'[k] = denials[k])
  BY Earlier
<1>5. denials'[L + 1] = d /\ L + 1 \in i..(L + 1) /\ L + 1 \notin i..L /\ i..L \subseteq i..(L + 1)
  BY Earlier
<1> HIDE DEF L
<1>6. CASE d.full
  <2>1. Fulls(denials', i, L + 1) = Fulls(denials, i, L) \cup {L + 1}
    BY <1>4, <1>5, <1>6 DEF Fulls
  <2>2. L + 1 \notin Fulls(denials, i, L)
    BY <1>5 DEF Fulls
  <2>3. QED
    BY <1>3, <1>6, <2>1, <2>2, FS_AddElement DEF L
<1>7. CASE ~d.full
  <2>1. Fulls(denials', i, L + 1) = Fulls(denials, i, L)
    BY <1>4, <1>5, <1>7 DEF Fulls
  <2>2. QED
    BY <1>3, <1>7, <2>1 DEF L
<1>8. QED
  BY <1>6, <1>7

(* A refusal is counted, and is the last there is. *)
LEMMA DeniedCounters ==
    ASSUME GateConstants, GateTyped, Counters, clock' = clock,
           NEW now \in 0..clock, clock <= now + Skew, NEW s \in Files, Reads(s, now),
           NEW t \in Files, IsFiniteSet(DOMAIN t.entries), SaveState(t),
           NEW d \in Denials, Denies(s, t, d, now), denials' = Append(denials, d)
    PROVE  Counters' /\ Shown(state.fullShown)'
<1>0. /\ clock \in Nat /\ Ttl \in Nat /\ Skew \in Nat /\ now \in Nat /\ now # NoDenialYet
      /\ denials \in Seq(Denials) /\ s.sessionDenials \in Nat /\ s.fullShown \in Nat
  BY DEF GateTyped, GateConstants, Files, NoDenialYet
<1>1. /\ state'.sessionDenials = s.sessionDenials + 1 /\ state'.sessionDenialsAt = now
      /\ state'.fullShown = IF d.full THEN s.fullShown + 1 ELSE s.fullShown
  BY Saved DEF Denies
<1>2. PICK n \in Nat : n = Len(denials)
  BY <1>0
<1>3. /\ Len(denials') = n + 1 /\ DOMAIN denials = 1..n /\ DOMAIN denials' = DOMAIN denials \cup {n + 1}
      /\ \A i \in DOMAIN denials : denials'[i] = denials[i] /\ denials[i] \in Denials
      /\ denials'[n + 1] = d
  BY <1>0, <1>2, Earlier
<1>4. d.at = now /\ d.ordinal = s.sessionDenials + 1
  BY DEF Denies
<1>5. ASSUME NEW i \in DOMAIN denials'
      PROVE  /\ denials'[i].at <= clock /\ denials'[i].at <= now + Skew
             /\ denials'[i].ordinal <= s.sessionDenials + 1 \/ clock + Skew > denials'[i].at + Ttl
  <2>1. CASE i \in DOMAIN denials
    <3>1. denials[i].at \in Nat /\ denials[i].ordinal \in Nat /\ denials'[i] = denials[i]
      BY <1>3, <2>1 DEF Denials
    <3>2. denials[i].at <= clock
      BY <2>1 DEF Counters
    <3>3. denials[i].ordinal <= s.sessionDenials \/ clock + Skew > denials[i].at + Ttl
      BY <2>1, ReadCounters
    <3>4. QED
      BY <1>0, <3>1, <3>2, <3>3, SMTT(30)
  <2>2. CASE i = n + 1
    BY <1>0, <1>3, <1>4, <2>2
  <2>3. QED
    BY <1>3, <2>1, <2>2
<1>6. Shown(state.fullShown)'
  <2>1. ASSUME NEW i \in DOMAIN denials',
               Cardinality(Fulls(denials', i, n + 1)) >= state'.fullShown,
               \A k \in i..n : ~Lapsed(denials'[k].at, denials'[k + 1].at)
        PROVE  Shown(state.fullShown)'
    <3>1. Len(denials') = n + 1 /\ Len(denials') - 1 = n
      BY <1>3
    <3>2. Fulls(denials', i, n + 1) = {k \in i..Len(denials') : denials'[k].full}
      BY <3>1 DEF Fulls
    <3>3. \A k \in i..(Len(denials') - 1) : ~Lapsed(denials'[k].at, denials'[k + 1].at)
      BY <2>1, <3>1
    <3>4. Cardinality({k \in i..Len(denials') : denials'[k].full}) >= state'.fullShown
      BY <2>1, <3>2
    <3>5. QED
      BY <2>1, <3>3, <3>4, Zenon DEF Shown
  <2>2. CASE s.sessionDenialsAt = NoDenialYet
    <3>1. s.fullShown = 0
      BY <2>2, ReadCounters
    <3>2. n + 1 \in DOMAIN denials' /\ n + 1 \in 1..(Len(denials) + 1) /\ (n + 1)..n = {}
      BY <1>2, <1>3
    <3>3. Cardinality(Fulls(denials', n + 1, n + 1)) >= IF d.full THEN 1 ELSE 0
      BY <1>0, <1>2, <3>2, FullsGrow
    <3>4. QED
      BY <1>0, <1>1, <2>1, <3>1, <3>2, <3>3
  <2>3. CASE s.sessionDenialsAt # NoDenialYet
    <3>1. /\ s.sessionDenialsAt = state.sessionDenialsAt /\ s.fullShown = state.fullShown
          /\ ~Lapsed(s.sessionDenialsAt, now) /\ denials[n].at = state.sessionDenialsAt
          /\ Shown(state.fullShown) /\ n > 0
      BY <1>2, <2>3, ReadCounters DEF Counters
    <3>2. PICK i \in DOMAIN denials :
              /\ Cardinality(Fulls(denials, i, n)) >= s.fullShown
              /\ \A k \in i..(n - 1) : ~Lapsed(denials[k].at, denials[k + 1].at)
      BY <1>2, <3>1 DEF Shown, Fulls
    <3>3. i \in 1..(Len(denials) + 1) /\ i \in DOMAIN denials' /\ i \in 1..n
      BY <1>2, <1>3
    <3>4. Cardinality(Fulls(denials', i, n + 1)) >= state'.fullShown
      BY <1>0, <1>1, <1>2, <3>2, <3>3, FullsGrow
    <3>5. ASSUME NEW k \in i..n PROVE ~Lapsed(denials'[k].at, denials'[k + 1].at)
      <4>1. CASE k = n
        BY <1>3, <1>4, <3>1, <3>3, <4>1
      <4>2. CASE k \in i..(n - 1)
        <5>1. k \in DOMAIN denials /\ k + 1 \in DOMAIN denials
          BY <1>2, <1>3, <3>3, <4>2
        <5>2. denials'[k] = denials[k] /\ denials'[k + 1] = denials[k + 1]
          BY <1>3, <5>1
        <5>3. QED
          BY <3>2, <4>2, <5>2
      <4>3. k = n \/ k \in i..(n - 1)
        BY <3>3
      <4>4. QED
        BY <4>1, <4>2, <4>3
    <3>6. QED
      BY <2>1, <3>3, <3>4, <3>5
  <2>4. QED
    BY <2>2, <2>3
<1>7. state'.sessionDenials = s.sessionDenials + 1 /\ state'.sessionDenialsAt = now /\ now # NoDenialYet
  BY <1>0, <1>1
<1>8. Len(denials') > 0 /\ denials'[Len(denials')].at = state'.sessionDenialsAt
  BY <1>0, <1>2, <1>3, <1>4, <1>7
<1>9. \A i \in DOMAIN denials' :
          /\ denials'[i].at <= clock' /\ denials'[i].at <= state'.sessionDenialsAt + Skew
          /\ denials'[i].ordinal <= state'.sessionDenials \/ clock' + Skew > denials'[i].at + Ttl
  BY <1>5, <1>7
<1>10. QED
  BY <1>6, <1>7, <1>8, <1>9 DEF Counters, NoDenialYet

-----------------------------------------------------------------------------
(* A demand is repeated only when the earlier one is gone. *)
LEMMA DeniedOnce ==
    ASSUME GateConstants, GateTyped, Entries, AskedOnce, last'.refuse,
           NEW now \in 0..clock, clock <= now + Skew, NEW s \in Files, Reads(s, now), NEW t,
           NEW d \in Denials, Denies(s, t, d, now), denials' = Append(denials, d)
    PROVE  AskedOnce'
<1>0. clock \in Nat /\ Ttl \in Nat /\ Skew \in Nat /\ denials \in Seq(Denials)
  BY DEF GateTyped, GateConstants
<1>2. PICK n \in Nat : n = Len(denials)
  BY <1>0
<1>3. /\ Len(denials') = n + 1 /\ DOMAIN denials = 1..n /\ DOMAIN denials' = DOMAIN denials \cup {n + 1}
      /\ \A i \in DOMAIN denials : denials'[i] = denials[i] /\ denials[i] \in Denials
      /\ denials'[n + 1] = d
  BY <1>0, <1>2, Earlier
<1>4. ASSUME NEW i \in DOMAIN denials, NEW u \in Nat, u <= n, PushedOut(i, u) PROVE PushedOut(i, u)'
  <2>1. u \in 0..Len(denials) /\ u \in u..(Len(denials) + 1)
    BY <1>2, <1>4
  <2>2. QED
    BY <1>0, <1>4, <2>1, PushedOutStays
<1>5. ASSUME NEW i \in DOMAIN denials', NEW j \in DOMAIN denials', i < j, denials'[j].target # "bypass",
             denials'[i].target = denials'[j].target, ~Lapsed(denials'[i].at, denials'[j].at + Skew)
      PROVE  PushedOut(i, j - 1)'
  <2>0. i \in 1..n /\ denials'[i] = denials[i] /\ denials[i].at \in Nat
    BY <1>3, <1>5 DEF Denials
  <2>1. CASE j \in DOMAIN denials
    <3>1. denials[j].target # "bypass" /\ Asked(i, denials[j].target, denials[j].at + Skew)
      BY <1>3, <1>5, <2>0, <2>1 DEF Asked
    <3>2. PushedOut(i, j - 1)
      BY <1>3, <1>5, <2>0, <2>1, <3>1 DEF AskedOnce
    <3>3. j - 1 \in Nat /\ j - 1 <= n
      BY <1>3, <2>1
    <3>4. QED
      BY <1>3, <1>4, <2>0, <3>2, <3>3
  <2>2. CASE j = n + 1
    <3>1. d.target # "bypass" /\ denials[i].target = d.target /\ ~Lapsed(denials[i].at, now + Skew)
      BY <1>3, <1>5, <2>0, <2>2 DEF Denies
    <3>2. d.target \notin DOMAIN s.entries
      BY <3>1 DEF Denies
    <3>3. Gone(i)
      BY <1>3, <2>0, <3>1, <3>2, ReadEntries
    <3>4. ~Lapsed(denials[i].at, clock)
      BY <1>0, <2>0, <3>1 DEF Lapsed
    <3>5. PushedOut(i, n)
      BY <1>2, <3>3, <3>4 DEF Gone
    <3>6. PushedOut(i, n)'
      BY <1>3, <1>4, <2>0, <3>5
    <3>7. j - 1 = n
      BY <2>2
    <3>8. QED
      BY <3>6, <3>7
  <2>3. QED
    BY <1>3, <2>1, <2>2
<1>6. QED
  BY <1>5, Zenon DEF AskedOnce, Asked

(* A call proceeds on a demand that its own clock finds standing. *)
LEMMA ProceedsAsked ==
    ASSUME GateConstants, GateTyped, Entries, AskedOnce, denials' = denials,
           NEW now \in 0..clock, NEW s, Reads(s, now), last'.target \in DOMAIN s.entries, last'.nowMs = now
    PROVE  AskedOnce'
<1>1. PICK i \in DOMAIN denials : denials[i].target = last'.target /\ denials[i].at = s.entries[last'.target]
  BY ReadEntries
<1>2. ~Lapsed(denials[i].at, now)
  BY <1>1 DEF Reads
<1>3. Asked(i, last.target, last.nowMs)'
  BY <1>1, <1>2 DEF Asked
<1>4. QED
  BY <1>3 DEF AskedOnce, Asked, PushedOut

(* A refusal repeats an ordinal only after a silence, and condenses only     *)
(* when the file it read counts three full demands.                          *)
LEMMA DeniedDiffers ==
    ASSUME GateConstants, GateTyped, Counters, DenialsDiffer,
           NEW now \in 0..clock, clock <= now + Skew, NEW s \in Files, Reads(s, now),
           NEW t \in Files, IsFiniteSet(DOMAIN t.entries), SaveState(t), clock' = clock,
           NEW d \in Denials, Denies(s, t, d, now), denials' = Append(denials, d)
    PROVE  DenialsDiffer'
<1>0. clock \in Nat /\ Ttl \in Nat /\ Skew \in Nat /\ denials \in Seq(Denials) /\ s.fullShown \in Nat
      /\ s.sessionDenials \in Nat
  BY DEF GateTyped, GateConstants, Files
<1>2. PICK n \in Nat : n = Len(denials)
  BY <1>0
<1>3. /\ Len(denials') = n + 1 /\ DOMAIN denials = 1..n /\ DOMAIN denials' = DOMAIN denials \cup {n + 1}
      /\ \A i \in DOMAIN denials : denials'[i] = denials[i] /\ denials[i] \in Denials
      /\ denials'[n + 1] = d
  BY <1>0, <1>2, Earlier
<1>4. ASSUME NEW i \in DOMAIN denials', NEW j \in DOMAIN denials', i < j, denials'[i].ordinal = denials'[j].ordinal
      PROVE  denials'[j].at + 2 * Skew > denials'[i].at + Ttl
  <2>0. i \in 1..n /\ denials'[i] = denials[i] /\ denials[i].at \in Nat /\ denials[i].ordinal \in Nat
    BY <1>3, <1>4 DEF Denials
  <2>1. CASE j \in DOMAIN denials
    BY <1>3, <1>4, <2>0, <2>1 DEF DenialsDiffer
  <2>2. CASE j = n + 1
    <3>1. denials[i].ordinal = s.sessionDenials + 1 /\ denials'[j].at = now
      BY <1>3, <1>4, <2>0, <2>2 DEF Denies
    <3>2. clock + Skew > denials[i].at + Ttl
      <4>1. i \in DOMAIN denials
        BY <1>3, <2>0
      <4>2. denials[i].ordinal <= s.sessionDenials \/ clock + Skew > denials[i].at + Ttl
        BY <4>1, ReadCounters
      <4>3. QED
        BY <1>0, <3>1, <4>2
    <3>3. QED
      BY <1>0, <2>0, <3>1, <3>2, SMTT(30)
  <2>3. QED
    BY <1>3, <2>1, <2>2
<1>5. ASSUME NEW j \in DOMAIN denials', denials'[j].target # "bypass", ~denials'[j].full
      PROVE  \E i \in 1..j : /\ Cardinality({k \in i..j : denials'[k].full}) >= 3
                             /\ \A k \in i..(j - 1) : ~Lapsed(denials'[k].at, denials'[k + 1].at)
  <2>1. CASE j \in DOMAIN denials
    <3>1. denials[j].target # "bypass" /\ ~denials[j].full
      BY <1>3, <1>5, <2>1
    <3>2. PICK i \in 1..j : /\ Cardinality({k \in i..j : denials[k].full}) >= 3
                            /\ \A k \in i..(j - 1) : ~Lapsed(denials[k].at, denials[k + 1].at)
      BY <2>1, <3>1 DEF DenialsDiffer
    <3>3. \A k \in i..j : denials'[k] = denials[k]
      BY <1>3, <2>1
    <3>4. {k \in i..j : denials'[k].full} = {k \in i..j : denials[k].full}
      BY <3>3
    <3>5. \A k \in i..(j - 1) : k \in i..j /\ k + 1 \in i..j
      BY <1>3, <2>1
    <3>6. QED
      BY <3>2, <3>3, <3>4, <3>5
  <2>2. CASE j = n + 1
    <3>1. s.fullShown >= 3 /\ d.target # "bypass" /\ ~d.full
      BY <1>3, <1>5, <2>2 DEF Denies
    <3>2. state'.fullShown = s.fullShown
      BY <3>1, Saved DEF Denies
    <3>3. Shown(state.fullShown)'
      BY DeniedCounters
    <3>4. PICK i \in DOMAIN denials' :
              /\ Cardinality({k \in i..Len(denials') : denials'[k].full}) >= state'.fullShown
              /\ \A k \in i..(Len(denials') - 1) : ~Lapsed(denials'[k].at, denials'[k + 1].at)
      BY <3>3, Zenon DEF Shown
    <3>5. i \in 1..(n + 1) /\ Len(denials') = j /\ i \in 1..(Len(denials) + 1)
      BY <1>2, <1>3, <2>2
    <3>6. Cardinality({k \in i..j : denials'[k].full}) \in Nat
      <4>1. Cardinality(Fulls(denials', i, n + 1)) \in Nat
        BY <1>0, <1>2, <3>5, FullsGrow
      <4>2. QED
        BY <2>2, <4>1 DEF Fulls
    <3>7. Cardinality({k \in i..j : denials'[k].full}) >= 3
      <4>1. Cardinality({k \in i..j : denials'[k].full}) >= s.fullShown
        BY <3>2, <3>4, <3>5
      <4>2. \A c \in Nat : c >= s.fullShown => c >= 3
        BY <1>0, <3>1
      <4>3. QED
        BY <3>6, <4>1, <4>2, Zenon
    <3>8. i \in 1..j /\ \A k \in i..(j - 1) : ~Lapsed(denials'[k].at, denials'[k + 1].at)
      BY <2>2, <3>4, <3>5
    <3>9. QED
      BY <3>7, <3>8
  <2>3. QED
    BY <1>3, <2>1, <2>2
<1>6. QED
  BY <1>4, <1>5, Zenon DEF DenialsDiffer

-----------------------------------------------------------------------------
LEMMA GateStart == ASSUME GateConstants, GateInit PROVE GateInv
<1>0. DOMAIN <<>> = {} /\ <<>> \in [{} -> 0..MaxTime] /\ Len(<<>>) = 0
  OBVIOUS
<1>1. GateTyped
  <2>1. state \in Files
    <3>1. <<>> \in Books
      BY <1>0 DEF Books
    <3>2. NoDenialYet \in 0..NoDenialYet
      BY DEF NoDenialYet, GateConstants
    <3>3. QED
      BY <3>1, <3>2 DEF GateInit, Fresh, Files
  <2>2. call \in [Calls -> Pending] /\ last \in Decided /\ clock \in 0..MaxTime
    BY DEF GateInit, Idle, Nothing, Pending, Decided, Keys, GateConstants
  <2>3. IsFiniteSet(DOMAIN state.entries)
    BY <1>0, FS_EmptySet DEF GateInit, Fresh
  <2>4. QED
    BY <2>1, <2>2, <2>3 DEF GateTyped, GateInit
<1>2. Waited
  BY DEF GateInit, Idle, Waited
<1>3. Entries /\ Counters
  BY <1>0 DEF GateInit, Fresh, Entries, Counters
<1>4. AskedOnce /\ DenialsDiffer
  BY <1>0 DEF GateInit, Nothing, AskedOnce, DenialsDiffer
<1>5. QED
  BY <1>1, <1>2, <1>3, <1>4 DEF GateInv

(* A decision ends its call, in the state its save leaves. *)
LEMMA AnswerTyped ==
    ASSUME GateConstants, GateTyped, Waited, NEW c \in Calls, call[c].kind # "idle",
           NEW refuse \in BOOLEAN, Answer(c, refuse),
           NEW s \in Files, IsFiniteSet(DOMAIN s.entries), SaveState(s), denials' \in Seq(Denials)
    PROVE  GateTyped' /\ Waited'
<1>1. state' \in Files /\ IsFiniteSet(DOMAIN state'.entries)
  BY Saved
<1>2. Idle \in Pending /\ Idle.kind = "idle"
  BY DEF Idle, Pending, Keys, GateConstants
<1>3. call' \in [Calls -> Pending] /\ \A b \in Calls : call'[b] = call[b] \/ call'[b].kind = "idle"
  BY <1>2 DEF GateTyped, Answer
<1>4. last' \in Decided
  <2>1. call[c].target \in Keys /\ call[c].nowMs \in 0..MaxTime
    BY CallShape
  <2>2. (call[c].kind = "bypass") \in BOOLEAN
    OBVIOUS
  <2>3. QED
    BY <2>1, <2>2 DEF Answer, Decided
<1>5. clock' = clock /\ clock \in 0..MaxTime
  BY DEF Answer, GateTyped
<1>6. GateTyped'
  BY <1>1, <1>3, <1>4, <1>5 DEF GateTyped
<1>7. Waited'
  BY <1>3, <1>5 DEF Waited
<1>8. QED
  BY <1>6, <1>7

(* The two promises speak of the denials and the last decision only. *)
LEMMA DemandsToldAlike ==
    ASSUME AskedOnce, DenialsDiffer, UNCHANGED <<denials, last>> PROVE AskedOnce' /\ DenialsDiffer'
<1>1. \A i, t, n : Asked(i, t, n)' <=> Asked(i, t, n)
  BY DEF Asked
<1>2. \A i, u : PushedOut(i, u)' <=> PushedOut(i, u)
  BY DEF PushedOut
<1>3. AskedOnce'
  BY <1>1, <1>2 DEF AskedOnce
<1>4. DenialsDiffer'
  BY DEF DenialsDiffer
<1>5. QED
  BY <1>3, <1>4

(* What is told of the demands and counters is told of these variables. *)
LEMMA NothingTold ==
    ASSUME Entries, Counters, AskedOnce, DenialsDiffer, UNCHANGED <<clock, state, denials, last>>
    PROVE  Entries' /\ Counters' /\ AskedOnce' /\ DenialsDiffer'
<1>1. \A i : Gone(i)' <=> Gone(i)
  BY DEF Gone, PushedOut
<1>2. \A n : Shown(n)' <=> Shown(n)
  BY DEF Shown
<1>3. Entries'
  BY <1>1 DEF Entries
<1>4. Counters'
  BY <1>2 DEF Counters
<1>5. QED
  BY <1>3, <1>4, DemandsToldAlike

LEMMA TickKeeps == ASSUME GateConstants, GateInv, Tick PROVE GateInv'
<1> USE DEF GateInv
<1>1. /\ clock' = clock + 1 /\ clock' \in 0..MaxTime /\ clock \in 0..MaxTime /\ Skew \in Nat /\ Ttl \in Nat
      /\ UNCHANGED <<state, call, denials, last>>
  BY DEF Tick, GateTyped, GateConstants
<1>2. GateTyped'
  BY <1>1 DEF GateTyped
<1>3. Waited'
  <2>1. \A c \in Calls : call[c].kind # "idle" => clock < call[c].nowMs + Skew /\ call[c].nowMs \in Nat
    BY DEF Tick, GateTyped, Pending
  <2>2. QED
    BY <1>1, <2>1 DEF Waited
<1>4. ASSUME NEW i \in DOMAIN denials PROVE denials[i].at \in Nat
  <2>1. denials[i] \in Denials
    BY DEF GateTyped
  <2>2. QED
    BY <2>1 DEF Denials
<1>5. Entries'
  <2>1. \A i \in DOMAIN denials : Gone(i) => Gone(i)'
    <3> SUFFICES ASSUME NEW i \in DOMAIN denials, Gone(i) PROVE Gone(i)'
      OBVIOUS
    <3>1. PICK d \in Denials : d = denials[i]
      BY DEF GateTyped
    <3>2. QED
      BY <1>1, <3>1, GoneStays
  <2>2. QED
    BY <1>1, <2>1 DEF Entries
<1>6. Counters'
  <2>1. \A n : Shown(n)' <=> Shown(n)
    BY <1>1 DEF Shown
  <2>2. QED
    BY <1>1, <1>4, <2>1 DEF Counters
<1>7. AskedOnce' /\ DenialsDiffer'
  BY <1>1, DemandsToldAlike
<1>8. QED
  BY <1>2, <1>3, <1>5, <1>6, <1>7

LEMMA ArriveKeeps == ASSUME GateConstants, GateInv, NEW c \in Calls, Arrive(c) PROVE GateInv'
<1> USE DEF GateInv
<1>1. PICK k \in Keys, kind \in {"gate", "bypass"} :
          call' = [call EXCEPT ![c] = [kind |-> kind, target |-> k, nowMs |-> clock]]
  BY DEF Arrive
<1>2. UNCHANGED <<clock, state, denials, last>> /\ clock \in 0..MaxTime /\ Skew \in Nat
  BY DEF Arrive, GateTyped, GateConstants
<1>3. GateTyped' /\ Waited'
  <2>1. call' \in [Calls -> Pending]
    BY <1>1, <1>2 DEF GateTyped, Pending
  <2>2. \A b \in Calls : call'[b] = call[b] \/ call'[b].nowMs = clock
    BY <1>1 DEF GateTyped
  <2>3. QED
    BY <1>2, <2>1, <2>2 DEF GateTyped, Waited
<1>4. Entries' /\ Counters' /\ AskedOnce' /\ DenialsDiffer'
  BY <1>2, NothingTold
<1>5. QED
  BY <1>3, <1>4

LEMMA ProceedKeeps == ASSUME GateConstants, GateInv, NEW c \in Calls, Proceed(c) PROVE GateInv'
<1> USE DEF GateInv
<1>1. PICK now, s :
          /\ now \in 0..clock /\ now = call[c].nowMs /\ s = LoadState(state, now) /\ call[c].target \in DOMAIN s.entries
          /\ SaveState(s) /\ clock <= now + Skew /\ now \in 0..MaxTime
  BY CallShape DEF Proceed
<1>2. /\ Answer(c, FALSE) /\ denials' = denials /\ clock' = clock /\ call[c].kind # "idle"
      /\ last'.target = call[c].target /\ last'.nowMs = now
  BY <1>1 DEF Proceed, Answer
<1>3. Reads(s, now) /\ s \in Files /\ IsFiniteSet(DOMAIN s.entries)
  BY <1>1, Loaded DEF Reads
<1>4. GateTyped' /\ Waited'
  BY <1>1, <1>2, <1>3, AnswerTyped DEF GateTyped
<1>5. Entries'
  <2>1. \A i : Gone(i) => Gone(i)'
    BY <1>2 DEF Gone, PushedOut
  <2>2. QED
    BY <1>1, <1>2, <1>3, <1>4, <2>1, ReadEntries, SaveEntries DEF GateTyped
<1>6. Counters'
  <2>1. /\ state'.sessionDenials = s.sessionDenials /\ state'.fullShown = s.fullShown
        /\ state'.sessionDenialsAt = s.sessionDenialsAt
    BY <1>1, <1>3, Saved
  <2>2. /\ \A i \in DOMAIN denials : denials[i].ordinal <= s.sessionDenials \/ clock + Skew > denials[i].at + Ttl
        /\ s.sessionDenialsAt = NoDenialYet => s.sessionDenials = 0 /\ s.fullShown = 0
        /\ s.sessionDenialsAt # NoDenialYet =>
              /\ state.sessionDenialsAt # NoDenialYet /\ s.sessionDenialsAt = state.sessionDenialsAt
              /\ s.fullShown = state.fullShown
    BY <1>1, <1>3, ReadCounters
  <2>3. \A n : Shown(n)' <=> Shown(n)
    BY <1>2 DEF Shown
  <2>4. QED
    BY <1>2, <2>1, <2>2, <2>3 DEF Counters
<1>7. AskedOnce'
  BY <1>1, <1>2, <1>3, ProceedsAsked
<1>8. DenialsDiffer'
  BY <1>2 DEF DenialsDiffer
<1>9. QED
  BY <1>4, <1>5, <1>6, <1>7, <1>8

LEMMA RefuseKeeps == ASSUME GateConstants, GateInv, NEW c \in Calls, Refuse(c) \/ RefuseBypass(c) PROVE GateInv'
<1> USE DEF GateInv
<1>1. /\ Answer(c, TRUE) /\ clock' = clock /\ call[c].kind # "idle" /\ last'.refuse = TRUE
  BY DEF Refuse, RefuseBypass, Answer
<1>2. PICK now \in 0..clock : now = call[c].nowMs /\ clock <= now + Skew /\ now \in 0..MaxTime
  BY <1>1, CallShape
<1>3. PICK s \in Files, t \in Files, d \in Denials :
          /\ Reads(s, now) /\ Denies(s, t, d, now)
          /\ IsFiniteSet(DOMAIN t.entries) /\ SaveState(t) /\ denials' = Append(denials, d)
  BY <1>2, RefuseDenies, BypassDenies
<1>4. denials' \in Seq(Denials) /\ denials \in Seq(Denials)
  BY <1>3 DEF GateTyped
<1>5. GateTyped' /\ Waited'
  BY <1>1, <1>3, <1>4, AnswerTyped
<1>6. PICK n \in Nat : n = Len(denials)
  BY <1>4
<1>7. /\ DOMAIN denials' = DOMAIN denials \cup {n + 1} /\ denials'[n + 1] = d
      /\ \A i \in DOMAIN denials : denials'[i] = denials[i]
  BY <1>3, <1>4, <1>6, Earlier
<1>8. Entries'
  <2>1. \A i \in DOMAIN denials : Gone(i) => Gone(i)'
    BY <1>1, <1>3, <1>5, GoneStays DEF GateTyped
  <2>2. /\ \A k \in DOMAIN s.entries : \E i \in DOMAIN denials :
              denials[i].target = k /\ denials[i].at = s.entries[k]
        /\ \A i \in DOMAIN denials :
              \/ denials[i].target = "bypass" \/ Gone(i)
              \/ denials[i].target \in DOMAIN s.entries /\ s.entries[denials[i].target] >= denials[i].at
    BY <1>3, ReadEntries
  <2>3. \A k \in DOMAIN s.entries : k \in DOMAIN t.entries /\ t.entries[k] = s.entries[k]
    BY <1>3 DEF Denies
  <2>4. \A k \in DOMAIN t.entries : k \in DOMAIN s.entries \/ (k = d.target /\ t.entries[k] = d.at)
    BY <1>3 DEF Denies
  <2>5. d.target = "bypass" \/ (d.target \in DOMAIN t.entries /\ t.entries[d.target] >= d.at)
    BY <1>2, <1>3 DEF Denies
  <2>6. ASSUME NEW k \in DOMAIN t.entries
        PROVE  \E i \in DOMAIN denials' : denials'[i].target = k /\ denials'[i].at = t.entries[k]
    BY <1>7, <2>2, <2>3, <2>4
  <2>7. ASSUME NEW i \in DOMAIN denials'
        PROVE  \/ denials'[i].target = "bypass" \/ Gone(i)'
               \/ denials'[i].target \in DOMAIN t.entries /\ t.entries[denials'[i].target] >= denials'[i].at
    <3>1. CASE i \in DOMAIN denials
      BY <1>7, <2>1, <2>2, <2>3, <3>1
    <3>2. CASE i = n + 1
      BY <1>7, <2>5, <3>2
    <3>3. QED
      BY <1>7, <3>1, <3>2
  <2>8. QED
    BY <1>3, <1>4, <2>6, <2>7, SaveEntries
<1>9. Counters'
  BY <1>1, <1>2, <1>3, DeniedCounters
<1>10. AskedOnce'
  BY <1>1, <1>2, <1>3, DeniedOnce
<1>11. DenialsDiffer'
  BY <1>1, <1>2, <1>3, DeniedDiffers
<1>12. QED
  BY <1>5, <1>8, <1>9, <1>10, <1>11

(* However many calls arrive, wait and decide out of order, a demand is made *)
(* once while it stands, only a demanded target proceeds, and no two         *)
(* refusals of a session read alike (tools/task-gate.mjs:393, :404).         *)
THEOREM DemandsAlwaysStand == GateSpec => []DemandsStand
<1>0. GateConstants
  BY GateAssumption
<1>1. GateInit => GateInv
  BY <1>0, GateStart
<1>2. GateInv /\ [GateNext]_gateVars => GateInv'
  <2> SUFFICES ASSUME GateInv, [GateNext]_gateVars PROVE GateInv'
    OBVIOUS
  <2>1. CASE UNCHANGED gateVars
    <3>1. GateTyped' /\ Waited'
      BY <2>1 DEF gateVars, GateInv, GateTyped, Waited
    <3>2. QED
      BY <2>1, <3>1, <1>0, NothingTold DEF gateVars, GateInv
  <2>2. CASE Tick
    BY <1>0, <2>2, TickKeeps
  <2>3. ASSUME NEW c \in Calls, Arrive(c) \/ Proceed(c) \/ Refuse(c) \/ RefuseBypass(c) PROVE GateInv'
    BY <1>0, <2>3, ArriveKeeps, ProceedKeeps, RefuseKeeps
  <2>4. QED
    BY <2>1, <2>2, <2>3 DEF GateNext
<1>3. GateInv => DemandsStand
  BY DEF GateInv, DemandsStand
<1>4. QED
  BY <1>1, <1>2, <1>3, PTL DEF GateSpec

-----------------------------------------------------------------------------
(***************************************************************************)
(* EventChain: for any events, any number of edits by hand and any order of *)
(* edits, appends and adoptions, no edit is laundered.                     *)
(***************************************************************************)
Said == What \cup {"chain-adopt"}

Hash == Seq(Said \X Nat)

Event == [what: Said, seq: Nat, parent_hash: Hash, entry_hash: Hash, stamped: BOOLEAN]

-----------------------------------------------------------------------------
(* One event *)

LEMMA HashTyped ==
    ASSUME NEW e \in Event
    PROVE  /\ e.parent_hash \in Hash /\ e.entry_hash \in Hash
           /\ EntryHashOf(e) \in Hash
<1>1. e.parent_hash \in Hash /\ e.entry_hash \in Hash /\ <<e.what, e.seq>> \in Said \X Nat
  BY DEF Event
<1> QED BY <1>1, AppendProperties DEF EntryHashOf, Hash

(* No two contents share a digest. *)
LEMMA HashInjective ==
    ASSUME NEW d \in Event, NEW e \in Event, EntryHashOf(d) = EntryHashOf(e)
    PROVE  d.what = e.what /\ d.seq = e.seq /\ d.parent_hash = e.parent_hash
<1>1. /\ d.parent_hash \in Seq(Said \X Nat) /\ <<d.what, d.seq>> \in Said \X Nat
      /\ e.parent_hash \in Seq(Said \X Nat) /\ <<e.what, e.seq>> \in Said \X Nat
  BY DEF Event, Hash
<1>2. d.parent_hash = e.parent_hash /\ <<d.what, d.seq>> = <<e.what, e.seq>>
  <2> DEFINE T == Said \X Nat
             x == <<d.what, d.seq>>
             y == <<e.what, e.seq>>
  <2>1. /\ x \in T /\ y \in T /\ d.parent_hash \in Seq(T) /\ e.parent_hash \in Seq(T)
        /\ Append(d.parent_hash, x) = Append(e.parent_hash, y)
    BY <1>1 DEF EntryHashOf
  <2> HIDE DEF T, x, y
  <2>2. d.parent_hash = e.parent_hash /\ x = y
    BY <2>1, AppendInjective, SMTT(20)
  <2> QED BY <2>2 DEF x, y
<1> QED BY <1>2

LEMMA UnstampedTyped ==
    ASSUME NEW w \in Said
    PROVE  Unstamped(w) \in Event /\ ~Unstamped(w).stamped
<1>1. Genesis \in Hash
  BY DEF Genesis, Hash
<1> QED BY <1>1 DEF Unstamped, Event

LEMMA StampedOnTyped ==
    ASSUME NEW e \in Event, NEW seq \in Nat, NEW parent \in Hash
    PROVE  LET s == StampedOn(e, seq, parent)
           IN  /\ s \in Event /\ s.stamped
               /\ s.seq = seq /\ s.parent_hash = parent /\ s.entry_hash = EntryHashOf(s)
<1> DEFINE s == [e EXCEPT !.seq = seq, !.parent_hash = parent, !.stamped = TRUE]
           t == [s EXCEPT !.entry_hash = EntryHashOf(s)]
<1>1. /\ s \in Event /\ s.stamped
      /\ s.what = e.what /\ s.seq = seq /\ s.parent_hash = parent
  BY DEF Event
<1>2. EntryHashOf(s) \in Hash
  BY <1>1, HashTyped
<1> HIDE DEF s
<1>3. /\ t \in Event /\ t.stamped /\ t.what = s.what
      /\ t.seq = seq /\ t.parent_hash = parent /\ t.entry_hash = EntryHashOf(s)
  BY <1>1, <1>2 DEF Event
<1>4. EntryHashOf(t) = EntryHashOf(s)
  BY <1>1, <1>3 DEF EntryHashOf
<1>5. StampedOn(e, seq, parent) = t
  BY DEF StampedOn, s
<1> QED BY <1>3, <1>4, <1>5

-----------------------------------------------------------------------------
(* Stamping *)

(* An event sits where it belongs on the events before it. *)
Joins(e, before) ==
    /\ e.stamped
    /\ e.seq = Len(before)
    /\ e.parent_hash = IF before = <<>> THEN Genesis ELSE Last(before).entry_hash
    /\ e.entry_hash = EntryHashOf(e)

LEMMA StampKeeps ==
    ASSUME NEW done \in Seq(Event), ChainVerifies(done), NEW e \in Event,
           e.stamped => Joins(e, done)
    PROVE  /\ Stamp(done, e) \in Seq(Event)
           /\ Len(Stamp(done, e)) = Len(done) + 1
           /\ ChainVerifies(Stamp(done, e))
           /\ e.stamped => Stamp(done, e)[Len(done) + 1] = e
<1> DEFINE parent == IF done = <<>> THEN Genesis ELSE Last(done).entry_hash
           s == IF e.stamped THEN e ELSE StampedOn(e, Len(done), parent)
           new == Stamp(done, e)
<1>0. Len(done) \in Nat /\ (done # <<>> => Len(done) > 0) /\ (done = <<>> => Len(done) = 0)
  OBVIOUS
<1>1. parent \in Hash
  <2>1. CASE done = <<>>
    BY <2>1 DEF Genesis, Hash
  <2>2. CASE done # <<>>
    <3>1. done[Len(done)] \in Event
      BY <1>0, <2>2
    <3> QED BY <2>2, <3>1, HashTyped DEF Last
  <2> QED BY <2>1, <2>2
<1>2. s \in Event /\ Joins(s, done)
  BY <1>0, <1>1, StampedOnTyped DEF Joins
<1>3. new = Append(done, s)
  BY DEF Stamp
<1> HIDE DEF s, new
<1>4. /\ new \in Seq(Event) /\ Len(new) = Len(done) + 1
      /\ \A i \in 1 .. Len(done) : new[i] = done[i]
      /\ new[Len(done) + 1] = s
  BY <1>2, <1>3, AppendProperties
<1>5. ChainVerifies(new)
  <2> SUFFICES ASSUME NEW i \in DOMAIN new
               PROVE  /\ new[i].stamped
                      /\ new[i].seq = i - 1
                      /\ new[i].parent_hash = IF i = 1 THEN Genesis ELSE new[i - 1].entry_hash
                      /\ new[i].entry_hash = EntryHashOf(new[i])
    BY DEF ChainVerifies
  <2>1. CASE i \in 1 .. Len(done)
    <3>1. i \in DOMAIN done /\ (i # 1 => i - 1 \in 1 .. Len(done))
      BY <1>0, <2>1
    <3> QED BY <1>4, <2>1, <3>1 DEF ChainVerifies
  <2>2. CASE i = Len(done) + 1
    <3>1. CASE done = <<>>
      BY <1>0, <1>2, <1>4, <2>2, <3>1 DEF Joins
    <3>2. CASE done # <<>>
      BY <1>0, <1>2, <1>4, <2>2, <3>2 DEF Joins, Last
    <3> QED BY <3>1, <3>2
  <2> QED BY <1>0, <1>4, <2>1, <2>2
<1> QED BY <1>4, <1>5 DEF new, s

(* The recursion of chainStampEvents, unrolled. *)
LEMMA StampsUnroll ==
    ASSUME NEW list, Len(list) \in Nat
    PROVE  \E done : /\ done[0] = <<>>
                     /\ \A n \in 1 .. Len(list) : done[n] = Stamp(done[n - 1], list[n])
                     /\ ChainStampEvents(list) = done[Len(list)]
<1> DEFINE Unrolled(f, n) ==
               f = [i \in 0 .. n |-> IF i = 0 THEN <<>> ELSE Stamp(f[i - 1], list[i])]
           S == {n \in Nat : \E f : Unrolled(f, n)}
<1>1. 0 \in S
  <2> DEFINE f == [i \in 0 .. 0 |-> <<>>]
  <2>1. Unrolled(f, 0)
    OBVIOUS
  <2> QED BY <2>1
<1>2. ASSUME NEW n \in S PROVE n + 1 \in S
  <2>1. n \in Nat
    OBVIOUS
  <2>2. PICK f : Unrolled(f, n)
    OBVIOUS
  <2> DEFINE g == [i \in 0 .. (n + 1) |-> IF i <= n THEN f[i] ELSE Stamp(f[n], list[n + 1])]
  <2>3. \A i \in 0 .. (n + 1) : g[i] = IF i = 0 THEN <<>> ELSE Stamp(g[i - 1], list[i])
    <3> TAKE i \in 0 .. (n + 1)
    <3>1. CASE i <= n
      BY <2>1, <2>2, <3>1
    <3>2. CASE i = n + 1
      BY <2>1, <3>2
    <3> QED BY <2>1, <3>1, <3>2
  <2>4. Unrolled(g, n + 1)
    BY <2>3
  <2> HIDE DEF g, Unrolled
  <2> QED BY <2>1, <2>4
<1>3. S = Nat
  <2>1. S \in SUBSET Nat
    OBVIOUS
  <2> HIDE DEF S
  <2> QED BY <1>1, <1>2, <2>1, SetInduction
<1> DEFINE done == CHOOSE f : Unrolled(f, Len(list))
<1>4. Unrolled(done, Len(list))
  <2>1. \E f : Unrolled(f, Len(list))
    BY <1>3
  <2> HIDE DEF Unrolled
  <2> QED BY <2>1
<1>5. ChainStampEvents(list) = done[Len(list)]
  BY DEF ChainStampEvents
<1> HIDE DEF done
<1> QED BY <1>4, <1>5

(* Stamping a list of events yields a chain that verifies, whenever those    *)
(* that come stamped sit where they belong.                                  *)
LEMMA StampedVerifies ==
    ASSUME NEW list \in Seq(Event),
           \A i \in DOMAIN list : list[i].stamped =>
               /\ list[i].seq = i - 1 /\ list[i].entry_hash = EntryHashOf(list[i])
               /\ i = 1 => list[i].parent_hash = Genesis
               /\ i > 1 => list[i - 1].stamped /\ list[i].parent_hash = list[i - 1].entry_hash
    PROVE  /\ ChainStampEvents(list) \in Seq(Event)
           /\ ChainVerifies(ChainStampEvents(list))
<1>0. Len(list) \in Nat /\ DOMAIN list = 1 .. Len(list)
  OBVIOUS
<1>1. PICK done : /\ done[0] = <<>>
                  /\ \A n \in 1 .. Len(list) : done[n] = Stamp(done[n - 1], list[n])
                  /\ ChainStampEvents(list) = done[Len(list)]
  BY <1>0, StampsUnroll
<1> DEFINE Good(n) ==
               /\ done[n] \in Seq(Event) /\ Len(done[n]) = n /\ ChainVerifies(done[n])
               /\ n > 0 => (list[n].stamped => done[n][n] = list[n])
           S == {n \in Nat : n <= Len(list) => Good(n)}
<1>2. 0 \in S
  <2>1. \A s : s = <<>> => s \in Seq(Event) /\ Len(s) = 0 /\ ChainVerifies(s)
    BY DEF ChainVerifies
  <2>2. Good(0)
    BY <1>1, <2>1
  <2> QED BY <2>2
<1>3. ASSUME NEW n \in S PROVE n + 1 \in S
  <2>1. n \in Nat
    OBVIOUS
  <2> SUFFICES ASSUME n + 1 <= Len(list) PROVE Good(n + 1)
    BY <2>1
  <2>2. Good(n)
    BY <1>0, <2>1
  <2>3. n + 1 \in DOMAIN list /\ list[n + 1] \in Event
    BY <1>0, <2>1
  <2>4. done[n + 1] = Stamp(done[n], list[n + 1])
    BY <1>0, <1>1, <2>1
  <2>5. list[n + 1].stamped => Joins(list[n + 1], done[n])
    <3> SUFFICES ASSUME list[n + 1].stamped PROVE Joins(list[n + 1], done[n])
      OBVIOUS
    <3>1. CASE n = 0
      BY <1>1, <2>3, <3>1 DEF Joins
    <3>2. CASE n > 0
      <4>1. list[n].stamped /\ list[n + 1].parent_hash = list[n].entry_hash
        BY <2>1, <2>3, <3>2
      <4>2. done[n] # <<>> /\ Last(done[n]) = list[n]
        BY <2>1, <2>2, <3>2, <4>1 DEF Last
      <4> QED BY <2>1, <2>2, <2>3, <4>1, <4>2 DEF Joins
    <3> QED BY <2>1, <3>1, <3>2
  <2> HIDE DEF S
  <2> QED BY <2>1, <2>2, <2>3, <2>4, <2>5, StampKeeps
<1>4. S = Nat
  <2>1. S \in SUBSET Nat
    OBVIOUS
  <2> HIDE DEF S
  <2> QED BY <1>2, <1>3, <2>1, SetInduction
<1>5. Good(Len(list))
  BY <1>0, <1>4
<1> QED BY <1>1, <1>5

-----------------------------------------------------------------------------
(* The record *)

Versions == written \cup adopted

(* A stamp comes from a version that verified, for what the event said there *)
(* (a hand edit may have reworded the event, not its stamp).                 *)
StampOf(e, v) ==
    \E k \in DOMAIN v :
        /\ v[k].seq = e.seq /\ v[k].parent_hash = e.parent_hash
        /\ v[k].entry_hash = e.entry_hash

Traceable(e) == e.stamped => \E v \in Versions : ChainVerifies(v) /\ StampOf(e, v)

ChainInv ==
    /\ events \in Seq(Event)
    /\ written # {} /\ Versions \subseteq Seq(Event)
    /\ adopted # {} => born = "window"
    /\ RecordMustChain => \A i \in DOMAIN events : Traceable(events[i])

(* A chain is its last event: two chains that verify and share the digest of *)
(* one event share all that comes before it.                                 *)
LEMMA SameHash ==
    ASSUME NEW d \in Event, NEW e \in Event, d.stamped, e.stamped,
           d.entry_hash = EntryHashOf(d), e.entry_hash = EntryHashOf(e),
           d.entry_hash = e.entry_hash
    PROVE  d = e
<1>1. d.what = e.what /\ d.seq = e.seq /\ d.parent_hash = e.parent_hash
  BY HashInjective
<1>2. d.stamped = e.stamped
  BY DEF Event
<1> QED BY <1>1, <1>2 DEF Event

(* Every event of a chain but the first names the one before it. *)
LEMMA Linked ==
    ASSUME NEW list, ChainVerifies(list), NEW k \in DOMAIN list, k # 1
    PROVE  list[k].parent_hash = list[k - 1].entry_hash
BY DEF ChainVerifies

LEMMA SharedHistory ==
    ASSUME NEW list \in Seq(Event), NEW v \in Seq(Event),
           ChainVerifies(list), ChainVerifies(v),
           list # <<>>, StampOf(list[Len(list)], v)
    PROVE  IsPrefix(list, v)
<1> DEFINE n == Len(list)
           Differs == {i \in 1 .. n : list[i] # v[i]}
<1>0. n \in Nat /\ n > 0 /\ DOMAIN list = 1 .. n /\ Len(v) \in Nat /\ DOMAIN v = 1 .. Len(v)
  OBVIOUS
<1> HIDE DEF n
<1>1. /\ \A i \in 1 .. n : list[i] \in Event
      /\ \A i \in 1 .. Len(v) : v[i] \in Event
  BY <1>0
<1>2. n <= Len(v) /\ list[n] = v[n]
  <2>1. PICK k \in DOMAIN v : v[k].seq = list[n].seq /\ v[k].entry_hash = list[n].entry_hash
    BY DEF StampOf, n
  <2>2. v[k] = list[n]
    BY <1>0, <1>1, <2>1, SameHash DEF ChainVerifies
  <2>3. k - 1 = n - 1
    BY <1>0, <2>1 DEF ChainVerifies
  <2> QED BY <1>0, <2>2, <2>3
<1>3. Differs = {}
  <2> SUFFICES ASSUME Differs # {} PROVE FALSE
    OBVIOUS
  <2>1. Differs \in SUBSET Nat /\ \A i \in Differs : i <= n
    BY <1>0
  <2>2. PICK i \in Differs : \A j \in Differs : j <= i
    <3> HIDE DEF Differs
    <3> QED BY <1>0, <2>1, GreatestElement
  <2>3. i \in 1 .. n /\ i # n /\ list[i] # v[i]
    BY <1>2, <2>2
  <2>4. i + 1 \in 1 .. n /\ i + 1 # 1 /\ i + 1 - 1 = i /\ i + 1 \notin Differs
    BY <1>0, <2>2, <2>3
  <2>5. list[i + 1] = v[i + 1]
    BY <2>4
  <2>6. list[i + 1].parent_hash = list[i].entry_hash
    <3>1. i + 1 \in DOMAIN list
      BY <1>0, <2>4
    <3>2. list[i + 1].parent_hash = list[i + 1 - 1].entry_hash
      BY <2>4, <3>1, Linked
    <3> QED BY <2>4, <3>2
  <2>7. v[i + 1].parent_hash = v[i].entry_hash /\ i \in DOMAIN v
    <3>1. i + 1 \in DOMAIN v /\ i \in DOMAIN v
      BY <1>0, <1>2, <2>3, <2>4
    <3>2. v[i + 1].parent_hash = v[i + 1 - 1].entry_hash
      BY <2>4, <3>1, Linked
    <3> QED BY <2>4, <3>1, <3>2
  <2>8. list[i] = v[i]
    BY <1>0, <1>1, <2>3, <2>5, <2>6, <2>7, SameHash DEF ChainVerifies
  <2> QED BY <2>3, <2>8
<1>4. \A i \in 1 .. n : list[i] = v[i]
  BY <1>3
<1>5. /\ \A i \in 1 .. n : v[i] \in Event
      /\ 1 \in Int /\ n \in Int
  BY <1>0, <1>1, <1>2
<1>6. /\ SubSeq(list, 1, n) \in Seq(Event) /\ Len(SubSeq(list, 1, n)) = n
      /\ \A i \in 1 .. n : SubSeq(list, 1, n)[i] = list[i]
  BY <1>0, <1>1, <1>5, SubSeqProperties
<1>7. /\ SubSeq(v, 1, n) \in Seq(Event) /\ Len(SubSeq(v, 1, n)) = n
      /\ \A i \in 1 .. n : SubSeq(v, 1, n)[i] = v[i]
  BY <1>0, <1>5, SubSeqProperties
<1>8. SubSeq(list, 1, n) = SubSeq(v, 1, n)
  BY <1>0, <1>4, <1>6, <1>7
<1> QED BY <1>2, <1>8 DEF IsPrefix, n

LEMMA InvWritten == ChainInv => ChainedIsWritten
<1> SUFFICES ASSUME ChainInv, RecordMustChain, ChainVerifies(events)
             PROVE  \E v \in Versions : IsPrefix(events, v)
  BY DEF ChainedIsWritten, ChainInv, Versions
<1>1. events \in Seq(Event) /\ Versions \subseteq Seq(Event) /\ written # {}
  BY DEF ChainInv
<1>2. CASE events = <<>>
  <2>1. PICK v \in Versions : v \in Seq(Event)
    BY <1>1 DEF Versions
  <2>2. /\ Len(events) = 0 /\ Len(v) \in Nat
        /\ SubSeq(events, 1, 0) = <<>> /\ SubSeq(v, 1, 0) = <<>>
    BY <1>2, <2>1, SubSeqEmpty
  <2> QED BY <2>1, <2>2 DEF IsPrefix
<1>3. CASE events # <<>>
  <2>1. Len(events) \in DOMAIN events
    BY <1>1, <1>3
  <2>2. events[Len(events)].stamped
    BY <2>1 DEF ChainVerifies
  <2>3. PICK v \in Versions : ChainVerifies(v) /\ StampOf(events[Len(events)], v)
    BY <2>1, <2>2 DEF ChainInv, Traceable
  <2> QED BY <1>1, <1>3, <2>3, SharedHistory
<1> QED BY <1>2, <1>3

-----------------------------------------------------------------------------
(* The steps *)

(* An edit by hand rewords, drops, puts in, swaps or strips: of a set of     *)
(* events that is closed under rewording and holds every unstamped event, it *)
(* makes no event that is not in the set.                                    *)
LEMMA TamperStays ==
    ASSUME NEW T \in SUBSET Event, events \in Seq(T), Tamper,
           \A e \in T, w \in What : [e EXCEPT !.what = w] \in T,
           \A w \in Said : Unstamped(w) \in T
    PROVE  events' \in Seq(T)
<1>0. Len(events) \in Nat /\ DOMAIN events = 1 .. Len(events) /\ \A i \in DOMAIN events : events[i] \in T
  OBVIOUS
<1>1. ASSUME NEW m \in Int, NEW n \in Int, m >= 1, n <= Len(events)
      PROVE  SubSeq(events, m, n) \in Seq(T)
  <2>1. \A i \in m .. n : events[i] \in T
    BY <1>0, <1>1
  <2> QED BY <2>1, SubSeqProperties
<1>2. ASSUME NEW i \in DOMAIN events, NEW w \in What, events' = [events EXCEPT ![i].what = w]
      PROVE  events' \in Seq(T)
  <2>1. [events[i] EXCEPT !.what = w] \in T
    BY <1>0
  <2>2. events' = [events EXCEPT ![i] = [events[i] EXCEPT !.what = w]]
    BY <1>2
  <2> QED BY <2>1, <2>2
<1>3. ASSUME NEW i \in DOMAIN events, events' = RemoveAt(events, i) PROVE events' \in Seq(T)
  <2>1. SubSeq(events, 1, i - 1) \in Seq(T) /\ SubSeq(events, i + 1, Len(events)) \in Seq(T)
    BY <1>0, <1>1
  <2> QED BY <1>3, <2>1, ConcatProperties DEF RemoveAt
<1>4. ASSUME NEW i \in DOMAIN events, NEW w \in What,
             events' = InsertAt(events, i + 1, Unstamped(w))
      PROVE  events' \in Seq(T)
  <2>1. SubSeq(events, 1, i + 1 - 1) \in Seq(T) /\ SubSeq(events, i + 1, Len(events)) \in Seq(T)
    BY <1>0, <1>1
  <2>2. <<Unstamped(w)>> \in Seq(T)
    BY DEF Said
  <2>3. SubSeq(events, 1, i + 1 - 1) \o <<Unstamped(w)>> \in Seq(T)
    BY <2>1, <2>2, ConcatProperties
  <2> QED BY <1>4, <2>1, <2>3, ConcatProperties DEF InsertAt
<1>5. ASSUME NEW i \in DOMAIN events, i > 1,
             events' = [events EXCEPT ![i] = events[i - 1], ![i - 1] = events[i]]
      PROVE  events' \in Seq(T)
  <2>1. i - 1 \in DOMAIN events
    BY <1>0, <1>5
  <2> QED BY <1>0, <1>5, <2>1
<1>6. ASSUME events' = [i \in DOMAIN events |-> Unstamped(events[i].what)] PROVE events' \in Seq(T)
  <2>1. \A i \in DOMAIN events : Unstamped(events[i].what) \in T
    BY <1>0 DEF Event
  <2> QED BY <1>0, <1>6, <2>1
<1> QED BY <1>2, <1>3, <1>4, <1>5, <1>6 DEF Tamper

LEMMA InitChainInv == ChainInit => ChainInv
<1> SUFFICES ASSUME ChainInit PROVE ChainInv
  OBVIOUS
<1>1. PICK w \in What :
         events = IF born = "after" THEN ChainStampEvents(<<Unstamped(w)>>) ELSE <<Unstamped(w)>>
  BY DEF ChainInit
<1>2. Unstamped(w) \in Event /\ ~Unstamped(w).stamped
  BY UnstampedTyped DEF Said
<1> DEFINE list == <<Unstamped(w)>>
<1>3. /\ list \in Seq(Event) /\ \A i \in DOMAIN list : ~list[i].stamped
  BY <1>2
<1>4. ChainStampEvents(list) \in Seq(Event) /\ ChainVerifies(ChainStampEvents(list))
  <2> HIDE DEF list
  <2> QED BY <1>3, StampedVerifies
<1>5. events \in Seq(Event) /\ written = {events} /\ adopted = {}
  BY <1>1, <1>3, <1>4 DEF ChainInit
<1>6. \A i \in DOMAIN events : Traceable(events[i])
  <2>1. CASE born = "after"
    <3>1. ChainVerifies(events) /\ events \in Versions
      BY <1>1, <1>4, <1>5, <2>1 DEF Versions
    <3> QED BY <3>1 DEF Traceable, StampOf
  <2>2. CASE born # "after"
    <3>1. events = list
      BY <1>1, <2>2
    <3> HIDE DEF list
    <3> QED BY <1>3, <3>1 DEF Traceable
  <2> QED BY <2>1, <2>2
<1> QED BY <1>5, <1>6 DEF ChainInv, Versions

LEMMA StepChainInv == ChainInv /\ [ChainNext]_chainVars => ChainInv'
<1> SUFFICES ASSUME ChainInv, [ChainNext]_chainVars PROVE ChainInv'
  OBVIOUS
<1>0. /\ events \in Seq(Event) /\ written # {} /\ Versions \subseteq Seq(Event)
      /\ adopted # {} => born = "window"
      /\ RecordMustChain => \A i \in DOMAIN events : Traceable(events[i])
  BY DEF ChainInv
<1>1. ASSUME NEW w \in Said
      PROVE  /\ Append(events, Unstamped(w)) \in Seq(Event)
             /\ Len(Append(events, Unstamped(w))) = Len(events) + 1
             /\ \A i \in 1 .. Len(events) : Append(events, Unstamped(w))[i] = events[i]
             /\ ~Append(events, Unstamped(w))[Len(events) + 1].stamped
  <2>1. Unstamped(w) \in Event /\ ~Unstamped(w).stamped
    BY UnstampedTyped
  <2> QED BY <1>0, <2>1, AppendProperties
<1>2. CASE AppendEvent
  <2>1. PICK w \in What :
           events' = IF RecordMustChain THEN ChainStampEvents(Append(events, Unstamped(w)))
                     ELSE Append(events, Unstamped(w))
    BY <1>2 DEF AppendEvent
  <2>2. /\ written' = written \cup {events'} /\ born' = born /\ adopted' = adopted
        /\ RecordMustChain => ChainVerifies(events)
    BY <1>2 DEF AppendEvent, AppendLawful
  <2> DEFINE next == Append(events, Unstamped(w))
  <2>3. /\ next \in Seq(Event) /\ Len(next) = Len(events) + 1 /\ Len(events) \in Nat
        /\ \A i \in 1 .. Len(events) : next[i] = events[i]
        /\ ~next[Len(events) + 1].stamped
    BY <1>0, <1>1 DEF Said
  <2> HIDE DEF next
  <2>4. ASSUME ChainVerifies(events)
        PROVE  ChainStampEvents(next) \in Seq(Event) /\ ChainVerifies(ChainStampEvents(next))
    <3>1. DOMAIN next = 1 .. Len(events) + 1 /\ DOMAIN events = 1 .. Len(events)
      BY <1>0, <2>3
    <3>2. ASSUME NEW i \in DOMAIN next, next[i].stamped
          PROVE  /\ next[i].seq = i - 1 /\ next[i].entry_hash = EntryHashOf(next[i])
                 /\ i = 1 => next[i].parent_hash = Genesis
                 /\ i > 1 => next[i - 1].stamped /\ next[i].parent_hash = next[i - 1].entry_hash
      <4>1. i \in 1 .. Len(events) /\ next[i] = events[i]
        BY <2>3, <3>1, <3>2
      <4>2. i > 1 => i - 1 \in 1 .. Len(events) /\ next[i - 1] = events[i - 1]
        BY <2>3, <4>1
      <4> QED BY <2>3, <2>4, <3>1, <4>1, <4>2 DEF ChainVerifies
    <3> QED BY <2>3, <3>2, StampedVerifies
  <2>5. events' \in Seq(Event) /\ (RecordMustChain => ChainVerifies(events'))
    BY <2>1, <2>2, <2>3, <2>4 DEF next
  <2>6. RecordMustChain => \A i \in DOMAIN events' : Traceable(events[i])'
    <3>1. events' \in Versions'
      BY <2>2 DEF Versions
    <3> QED BY <2>5, <3>1 DEF Traceable, StampOf
  <2> QED BY <1>0, <2>2, <2>5, <2>6 DEF ChainInv, Versions, RecordMustChain
<1>3. CASE Adopt
  <2> DEFINE next == Append(events, Unstamped("chain-adopt"))
  <2>1. /\ events' = ChainStampEvents(next) /\ born = "window" /\ born' = born
        /\ adopted' = adopted \cup {events'} /\ written' = written
        /\ \A i \in DOMAIN events : ~events[i].stamped
    BY <1>3 DEF Adopt, AdoptionLawful
  <2>2. /\ next \in Seq(Event) /\ Len(next) = Len(events) + 1 /\ Len(events) \in Nat
        /\ \A i \in 1 .. Len(events) : next[i] = events[i]
        /\ ~next[Len(events) + 1].stamped
    BY <1>0, <1>1 DEF Said
  <2> HIDE DEF next
  <2>3. \A i \in DOMAIN next : ~next[i].stamped
    BY <1>0, <2>1, <2>2
  <2>4. events' \in Seq(Event) /\ ChainVerifies(events')
    BY <2>1, <2>2, <2>3, StampedVerifies
  <2>5. \A i \in DOMAIN events' : Traceable(events[i])'
    <3>1. events' \in Versions'
      BY <2>1 DEF Versions
    <3> QED BY <2>4, <3>1 DEF Traceable, StampOf
  <2> QED BY <1>0, <2>1, <2>4, <2>5 DEF ChainInv, Versions
<1>4. CASE Tamper
  <2>1. UNCHANGED <<born, written, adopted>>
    BY <1>4 DEF Tamper
  <2>2. \A e \in Event, w \in What :
           LET d == [e EXCEPT !.what = w]
           IN  /\ d \in Event /\ d.stamped = e.stamped /\ d.seq = e.seq
               /\ d.parent_hash = e.parent_hash /\ d.entry_hash = e.entry_hash
    BY DEF Event, Said
  <2>3. events' \in Seq(Event)
    BY <1>0, <1>4, <2>2, TamperStays, UnstampedTyped
  <2>4. ASSUME RecordMustChain PROVE \A i \in DOMAIN events' : Traceable(events'[i])
    <3> DEFINE T == {e \in Event : Traceable(e)}
    <3>1. T \in SUBSET Event /\ events \in Seq(T)
      BY <1>0, <2>4
    <3>2. ASSUME NEW e \in T, NEW w \in What PROVE [e EXCEPT !.what = w] \in T
      <4> DEFINE d == [e EXCEPT !.what = w]
      <4>1. /\ d \in Event /\ d.stamped = e.stamped /\ d.seq = e.seq
            /\ d.parent_hash = e.parent_hash /\ d.entry_hash = e.entry_hash
        BY <2>2
      <4> HIDE DEF d
      <4>2. Traceable(d)
        BY <4>1 DEF Traceable, StampOf
      <4> QED BY <4>1, <4>2 DEF d
    <3>3. \A w \in Said : Unstamped(w) \in T
      BY UnstampedTyped DEF Traceable
    <3> HIDE DEF T
    <3>4. events' \in Seq(T)
      BY <1>4, <3>1, <3>2, <3>3, TamperStays
    <3> QED BY <3>4 DEF T
  <2>5. \A e : Traceable(e) => Traceable(e)'
    BY <2>1 DEF Traceable, Versions
  <2> QED BY <1>0, <2>1, <2>3, <2>4, <2>5 DEF ChainInv, Versions, RecordMustChain
<1>5. CASE UNCHANGED chainVars
  BY <1>0, <1>5 DEF chainVars, ChainInv, Versions, RecordMustChain, Traceable
<1> QED BY <1>2, <1>3, <1>4, <1>5 DEF ChainNext

(* Whatever hands and commands did in between, a record that owes a chain    *)
(* and verifies is a version the machine wrote, or the start of one: neither *)
(* an append nor an adoption launders an edit.                               *)
THEOREM ChainedAreWritten == ChainSpec => []ChainedIsWritten
<1> QED BY InitChainInv, StepChainInv, InvWritten, PTL DEF ChainSpec
===============================================================================
