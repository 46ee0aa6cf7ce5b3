---------------------------- MODULE TaskLifecycle ----------------------------
(***************************************************************************)
(* One task: its record (tools/task-state.mjs) and its findings register   *)
(* (tools/adversarial-runner.mjs over tools/task-findings.mjs), written by *)
(* several sessions at once.                                               *)
(*                                                                         *)
(* Each file is written under its own lock (module LockFile), so a locked  *)
(* section is one step.  What a command reads or runs before it takes the  *)
(* lock is a step of its own, and the command carries it along in          *)
(* `session`: the red-check's run, advance's battery and pin re-runs, the  *)
(* runner's look at the record.  A command that reads nothing earlier is a *)
(* single step, whoever issues it.                                         *)
(*                                                                         *)
(* The outcome of a run of the battery or of a pin is nondeterministic, as *)
(* is which files exist: the working tree is edited all the time.          *)
(***************************************************************************)
EXTENDS TaskLaw, FiniteSets

CONSTANTS
    Sessions,        \* the shells that have a command in flight
    Classes,         \* the risk classes of new tasks
    MaxExtras,       \* bound: events that are neither created nor a transition
    MaxFindings      \* bound: findings in the register

ASSUME TaskLifecycleAssumption ==
    /\ Classes \subseteq RiskClasses
    /\ MaxExtras \in Nat
    /\ MaxFindings \in Nat

VARIABLES
    riskClass,   \* the record's class; None until `new`
    events,      \* the record's events; <<>> until `new`
    register,    \* the findings register, or None
    bundles,     \* the range the bundles on disk were written for, or None
    disk,        \* the evidence files that exist
    session,     \* session -> the command it has in flight
    judged       \* history: what was run for the transitions that were granted

record == <<riskClass, events>>
vars == <<riskClass, events, register, bundles, disk, session, judged>>

Idle == [op |-> "idle"]

RedChecking(e) == [op |-> "red-check", event |-> e]

(* `snap` is the record the runs were chosen from; battery is "none" when    *)
(* the battery was not run; `pins` were re-run and `failures` of them failed.*)
Advancing(target, snap, battery, pins, failures) ==
    [op |-> "advance", target |-> target, snap |-> snap,
     battery |-> battery, pins |-> pins, failures |-> failures]

Preparing(r)  == [op |-> "prepare", swept |-> r]     \* before the bundles
Minting(r)    == [op |-> "mint", swept |-> r]        \* bundles written
Recording     == [op |-> "record"]
Resolving(ps) == [op |-> "resolve", evidence |-> ps]
WontFixing    == [op |-> "wont-fix"]

Init ==
    /\ riskClass = None
    /\ events = <<>>
    /\ register = None
    /\ bundles = None
    /\ disk = {}
    /\ session = [s \in Sessions |-> Idle]
    /\ judged = [battery |-> FALSE, pins |-> {}]

-----------------------------------------------------------------------------
Exists == events # <<>>

Extras == Len(events) - Cardinality(OfType(events, "transition"))
            + Cardinality({s \in Sessions : session[s].op = "red-check"})

(* The bound leaves room for the created event. *)
Room == Extras <= MaxExtras

AppendEvent(e) == events' = Append(events, e)

Begin(s, command) == session[s] = Idle /\ session' = [session EXCEPT ![s] = command]
End(s)            == session' = [session EXCEPT ![s] = Idle]

(***************************************************************************)
(* task-state: the commands that are one locked step.  mutateTask judges   *)
(* the append law inside the lock.                                         *)
(***************************************************************************)

(* A mutant: the class is not checked against the taxonomy. *)
NewUnclassified ==
    /\ ~Exists
    /\ riskClass' = "code" /\ AppendEvent(Created)
    /\ UNCHANGED <<register, bundles, disk, session, judged>>

New ==
    /\ ~Exists
    /\ riskClass' \in Classes /\ AppendEvent(Created)
    /\ UNCHANGED <<register, bundles, disk, session, judged>>

(* mutateTask, around a command's own judgement of the locked record. *)
Mutate(lawful, e) ==
    /\ Exists /\ Room /\ AppendLawful(events)
    /\ lawful
    /\ AppendEvent(e)
    /\ UNCHANGED <<riskClass, register, bundles, disk, session, judged>>

(* approve cites a heading of DECISIONS.md: whether it is there is open. *)
Approve == Mutate(TRUE, Approval)

AmendScope ==
    \E ps \in (SUBSET Patterns) \ {{}} :
        Mutate(ScopeLawful(riskClass, events, ps), Scope(ps \ ScopeOf(events)))

RetirePin ==
    \E c \in Commands, x \in Expects \cup {None} :
        Mutate(PinRetireLawful(events, c, x), PinRetire(c, x))

ExemptPin == Mutate(TRUE, PinExemption)

Retire == Mutate(RetirementLawful(events), Retired)

(***************************************************************************)
(* red-check: evidence and append law are judged, the command is run, and  *)
(* then the event is appended, under the lock.  A run that passes, shows   *)
(* no --expect signature or delivers no verdict records nothing.           *)
(***************************************************************************)
RedCheckRun(s) ==
    /\ Exists /\ Room /\ AppendLawful(events)
    /\ \E ps \in SUBSET disk :
          \/ \E c \in Commands, x \in Expects : Begin(s, RedChecking(Pin(c, x, ps)))
          \/ ps # {} /\ Begin(s, RedChecking(PathCheck(ps)))
    /\ UNCHANGED <<record, register, bundles, disk, judged>>

(* A mutant: the append law is judged before the run only. *)
RedCheckAppendUnjudged(s) ==
    /\ session[s].op = "red-check"
    /\ AppendEvent(session[s].event)
    /\ End(s)
    /\ UNCHANGED <<riskClass, register, bundles, disk, judged>>

RedCheckAppend(s) ==
    /\ session[s].op = "red-check"
    /\ Exists /\ AppendLawful(events)
    /\ AppendEvent(session[s].event)
    /\ End(s)
    /\ UNCHANGED <<riskClass, register, bundles, disk, judged>>

(***************************************************************************)
(* advance: one snapshot chooses the runs, which happen outside the lock;  *)
(* then the locked judge refuses a record that moved since, reads the      *)
(* register and the disk, and evaluates the transition.                    *)
(***************************************************************************)
AdvanceRun(s, target) ==
    /\ Exists /\ AppendLawful(events)
    /\ LET phase == DerivePhase(events)
           pins  == IF target = "done" /\ phase = "adversarial"
                    THEN CommandPins(events) ELSE {}
       IN  \E battery \in IF target = "verified" /\ phase = "executing"
                          THEN {"green", "red"} ELSE {"none"},
              failures \in SUBSET pins :
                 Begin(s, Advancing(target, events, battery, pins, failures))
    /\ UNCHANGED <<record, register, bundles, disk, judged>>

(* refuseMovedRecord, and a mutant without it. *)
MayHaveMoved(s) == TRUE
Unmoved(s) == session[s].snap = events

AdvanceCommit(s) ==
    /\ session[s].op = "advance"
    /\ Exists /\ Unmoved(s)
    /\ LET a == session[s]
       IN  /\ EvaluateTransition(riskClass, events, register, disk, a.target,
                                 a.battery # "red", a.failures)
           /\ AppendEvent(Transition(a.target))
           /\ judged' = [battery |-> IF a.target = "verified" THEN a.battery = "green"
                                     ELSE judged.battery,
                         pins |-> IF a.target = "done" THEN a.pins ELSE judged.pins]
    /\ End(s)
    /\ UNCHANGED <<riskClass, register, bundles, disk>>

(***************************************************************************)
(* adversarial-runner: requireOpenTask looks at the record before the      *)
(* register's lock is taken; the write follows, under that lock.           *)
(***************************************************************************)

(* A mutant: the doors ask for a record, not for one that is open. *)
OpenDoorAnyTask(s) ==
    /\ Exists
    /\ \/ \E r \in Ranges : Begin(s, Preparing(r))
       \/ Begin(s, Recording)
       \/ \E ps \in (SUBSET disk) \ {{}} : Begin(s, Resolving(ps))
       \/ Begin(s, WontFixing)
    /\ UNCHANGED <<record, register, bundles, disk, judged>>

(* The files a resolve cites are looked at right after its door. *)
OpenDoor(s) ==
    /\ Exists /\ AppendLawful(events)
    /\ \/ \E r \in Ranges : Begin(s, Preparing(r))
       \/ Begin(s, Recording)
       \/ \E ps \in (SUBSET disk) \ {{}} : Begin(s, Resolving(ps))
       \/ Begin(s, WontFixing)
    /\ UNCHANGED <<record, register, bundles, disk, judged>>

(* prepare writes the lane bundles, outside any lock ... *)
WriteBundles(s) ==
    /\ session[s].op = "prepare"
    /\ bundles' = session[s].swept
    /\ session' = [session EXCEPT ![s] = Minting(session[s].swept)]
    /\ UNCHANGED <<record, register, disk, judged>>

(* ... and mints, or re-pins, the pass marker; the findings stay. *)
MintPassMarker(s) ==
    /\ session[s].op = "mint"
    /\ register' = [swept |-> session[s].swept,
                    findings |-> IF register = None THEN <<>> ELSE register.findings]
    /\ End(s)
    /\ UNCHANGED <<record, bundles, disk, judged>>

(* parseRegisterForWrite: a write needs a register that prepare minted. *)
WriteFindings(s, op, fs) ==
    /\ session[s].op = op
    /\ register' = [register EXCEPT !.findings = fs]
    /\ End(s)
    /\ UNCHANGED <<record, bundles, disk, judged>>

RecordFinding(s) ==
    /\ register # None
    /\ LET fs == register.findings
       IN  \E c \in Candidate :
              \/ /\ Len(fs) < MaxFindings
                 /\ AppendFindingLawful(fs, c)
                 /\ WriteFindings(s, "record", AppendFinding(fs, c))
              \/ \E i \in SameEscape(fs, c) :
                    /\ RaiseLawful(fs[i], c)
                    /\ WriteFindings(s, "record", [fs EXCEPT ![i] = Raise(@, c)])

ResolveFinding(s) ==
    /\ register # None
    /\ LET fs == register.findings
       IN  \E i \in DOMAIN fs :
              /\ ResolveLawful(fs[i], disk)
              /\ WriteFindings(s, "resolve",
                               [fs EXCEPT ![i] = Resolve(@, session[s].evidence)])

WontFixFinding(s) ==
    /\ register # None
    /\ LET fs == register.findings
       IN  \E i \in DOMAIN fs :
              /\ WontFixLawful(fs[i])
              /\ WriteFindings(s, "wont-fix", [fs EXCEPT ![i] = WontFix(@)])

-----------------------------------------------------------------------------
(* A command in flight is refused, or killed: it writes nothing (more). *)
GiveUp(s) ==
    /\ session[s] # Idle
    /\ End(s)
    /\ UNCHANGED <<record, register, bundles, disk, judged>>

(* The working tree moves under everybody. *)
EditTree ==
    /\ \E p \in Paths : disk' = IF p \in disk THEN disk \ {p} ELSE disk \cup {p}
    /\ UNCHANGED <<record, register, bundles, session, judged>>

(* A finished task at rest: nothing is left to do, which is no deadlock. *)
AtRest ==
    /\ Terminal(events)
    /\ \A s \in Sessions : session[s] = Idle
    /\ UNCHANGED vars

Issue(s) ==
    \/ RedCheckRun(s)
    \/ \E target \in Phases : AdvanceRun(s, target)
    \/ OpenDoor(s)

Finish(s) ==
    \/ RedCheckAppend(s) \/ AdvanceCommit(s)
    \/ WriteBundles(s) \/ MintPassMarker(s)
    \/ RecordFinding(s) \/ ResolveFinding(s) \/ WontFixFinding(s)
    \/ GiveUp(s)

Next ==
    \/ New \/ Approve \/ AmendScope \/ RetirePin \/ ExemptPin \/ Retire
    \/ EditTree \/ AtRest
    \/ \E s \in Sessions : Issue(s) \/ Finish(s)

Spec == Init /\ [][Next]_vars

(* A command that was started ends, by its write, a refusal or a kill: its   *)
(* runs have a timeout and its lock attempts a bound.                        *)
FairSpec == Spec /\ \A s \in Sessions : WF_vars(Finish(s))

-----------------------------------------------------------------------------
(* Properties *)

InFlight ==
    {Idle, Recording, WontFixing}
        \cup {RedChecking(e) : e \in {r \in Events : r.type = "red-check"}}
        \cup {Preparing(r) : r \in Ranges} \cup {Minting(r) : r \in Ranges}
        \cup {Resolving(ps) : ps \in SUBSET Paths}
        \cup [op: {"advance"}, target: Phases, snap: Seq(Events),
              battery: {"none", "green", "red"}, pins: SUBSET Nat, failures: SUBSET Nat]

TypeOK ==
    /\ riskClass \in Classes \cup {None}
    /\ events \in Seq(Events)
    /\ register \in Register \cup {None}
    /\ bundles \in Ranges \cup {None}
    /\ disk \subseteq Paths
    /\ session \in [Sessions -> InFlight]
    /\ judged \in [battery: BOOLEAN, pins: SUBSET Nat]

(* "No command appends to a done or retired record", whatever it read or ran *)
(* while the record was still open.                                          *)
TerminalFrozen == [][Terminal(events) => UNCHANGED record]_vars

(* Phases are recorded one at a time and in order, each once, however many   *)
(* advances race each other.                                                 *)
MovesInOrder ==
    LET moves == OfType(events, "transition")
    IN  \A i \in moves :
            Rank[events[i].to] = Cardinality({j \in moves : j <= i})

(* A record has one creation, its first event; what ends it is its last.     *)
EndsInPlace ==
    /\ OfType(events, "created") = IF Exists THEN {1} ELSE {}
    /\ \A i \in DOMAIN events :
          events[i] \in {Retired, Transition("done")} => i = Len(events)

(* The phases of a record read as one walk, from its creation to its end,    *)
(* whatever the sessions race to append: no phase skipped or doubled, no     *)
(* second creation, nothing after done or retired.                           *)
PhasesInOrder == MovesInOrder /\ EndsInPlace

(* The done gate judges the record that becomes done: every pin that is live *)
(* in it was re-run by the advance that got there, none was slipped in or    *)
(* left out while the runs were under way.                                   *)
DoneEveryLivePinReran ==
    DerivePhase(events) = "done" => CommandPins(events) \subseteq judged.pins

(* No task is verified without its battery: an advance that skipped it,      *)
(* because the task was not executing yet, cannot use a phase that came      *)
(* meanwhile.                                                                *)
VerifiedOnBattery ==
    (\E i \in DOMAIN events : events[i] = Transition("verified")) => judged.battery

(* What advance ran is what the record it wrote calls for. *)
GatesJudgedWhatRan == DoneEveryLivePinReran /\ VerifiedOnBattery

(* A class that forbids implementation never executes, and one that needs    *)
(* approval had it recorded before it did.                                   *)
ApprovedBeforeExecuting ==
    \A i \in DOMAIN events : events[i] = Transition("executing") =>
        /\ riskClass \notin ImplementationForbidden
        /\ riskClass \in ApprovalRequired =>
              \E j \in 1 .. i - 1 : events[j] = Approval

(* Nobody scopes over the fence's own surface without a protected tier and   *)
(* an approval that came first.                                              *)
FenceScopeApproved ==
    \A i \in OfType(events, "scope") : events[i].patterns \cap FencePatterns # {} =>
        /\ riskClass \in ApprovalRequired
        /\ \E j \in 1 .. i - 1 : events[j] = Approval

(* Retirement is for tasks that never executed: no commit is orphaned.       *)
RetiredNeverExecuted ==
    OfType(events, "retired") # {} =>
        \A i \in DOMAIN events : events[i] # Transition("executing")

(* Approval, scope over the fence, execution and retirement are recorded in  *)
(* the one order the fence accepts later, whoever records them.              *)
ApprovalsComeInOrder == ApprovedBeforeExecuting /\ FenceScopeApproved /\ RetiredNeverExecuted

(* The fence refuses a pin-less done record of a code task: task-state never *)
(* writes one, even when pins are retired after the verified gate.           *)
CodeDonePinned ==
    DerivePhase(events) = "done" =>
        \/ riskClass \in NonCodeClasses
        \/ CommandPins(events) # {} \/ HasPinExemption(events)

(* A pin that red-check reported as recorded is live, even when the same     *)
(* command was retired before: the gates will read it.                       *)
RecordedPinIsLive ==
    [][\A c \in Commands, x \in Expects, ps \in SUBSET Paths :
          events' = Append(events, Pin(c, x, ps)) =>
              Len(events') \in CommandPins(events')]_vars

(* The register is append-only under every interleaving of its writers: a    *)
(* finding is never dropped, moved or rewritten, severity only rises, a      *)
(* closed finding stays closed, and only evidence that is gone is replaced.  *)
Stands(f, g) ==
    /\ g.claim = f.claim /\ g.place = f.place
    /\ g.severity >= f.severity
    /\ f.status # "UNRESOLVED" =>
          /\ g.status = f.status /\ g.severity = f.severity
          /\ g.evidence # f.evidence => f.evidence \ disk # {}

FindingsAppendOnly ==
    [][register # None =>
          /\ register' # None
          /\ DOMAIN register.findings \subseteq DOMAIN register'.findings
          /\ \A i \in DOMAIN register.findings :
                Stands(register.findings[i], register'.findings[i])]_vars

(* One escape is one finding: no two share their normalized evidence, so no  *)
(* resolution is spent twice.                                                *)
DistinctEscapes ==
    register # None =>
        \A i, j \in DOMAIN register.findings :
            DedupKey(register.findings[i]) = DedupKey(register.findings[j]) => i = j

(* "A finished task's register is closed like its record": a writer that     *)
(* passed its door in time may still land, but after the last of those the   *)
(* register never moves again.                                               *)
RegisterSettles == <>Terminal(events) => <>[][UNCHANGED register]_vars

(* What docs/TASK-LIFECYCLE.md says of done: the register aggregates clean.  *)
DoneRegisterClean ==
    DerivePhase(events) = "done" => register # None /\ Clean(register.findings)
=============================================================================
