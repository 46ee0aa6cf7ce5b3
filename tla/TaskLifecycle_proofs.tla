------------------------ MODULE TaskLifecycle_proofs ------------------------
(***************************************************************************)
(* A task's record and its findings register, for any number of sessions,  *)
(* commands, files, findings and events: nothing is appended to a terminal *)
(* record, the phases come one by one and in order, a done task had every  *)
(* live pin re-run by the advance that finished it, a verified task had    *)
(* its battery run, the register is append-only, and every printed remedy  *)
(* leads out of the refusal it came with.                                  *)
(***************************************************************************)
EXTENDS Remedies, TaskLaw_proofs, FiniteSetTheorems

USE FindingsLawAssumption, TaskLawAssumption, TaskLifecycleAssumption

(***************************************************************************)
(* Typing of what the actions build.                                       *)
(***************************************************************************)
LEMMA PinsTyped ==
    ASSUME NEW ev \in Seq(Events) PROVE CommandPins(ev) \subseteq Nat
BY DEF CommandPins, OfType

LEMMA InFlightTyped ==
    /\ Idle \in InFlight /\ Recording \in InFlight /\ WontFixing \in InFlight
    /\ \A e \in Events : e.type = "red-check" => RedChecking(e) \in InFlight
    /\ \A r \in Ranges : Preparing(r) \in InFlight /\ Minting(r) \in InFlight
    /\ \A ps \in SUBSET Paths : Resolving(ps) \in InFlight
BY DEF InFlight

LEMMA AdvancingTyped ==
    ASSUME NEW t \in Phases, NEW ev \in Seq(Events), NEW b \in {"none", "green", "red"},
           NEW ps \in SUBSET Nat, NEW fs \in SUBSET Nat
    PROVE  Advancing(t, ev, b, ps, fs) \in InFlight
BY DEF InFlight, Advancing

(* What a session that has a command of some kind in flight carries.         *)
LEMMA InFlightShape ==
    ASSUME NEW a \in InFlight
    PROVE  /\ a.op = "red-check" => a.event \in Events /\ a.event.type = "red-check"
           /\ a.op \in {"prepare", "mint"} => a.swept \in Ranges
           /\ a.op = "resolve" => a.evidence \in SUBSET Paths
           /\ a.op = "advance" => /\ a.target \in Phases /\ a.snap \in Seq(Events)
                                  /\ a.battery \in {"none", "green", "red"}
                                  /\ a.pins \in SUBSET Nat
BY DEF InFlight, Idle, Recording, WontFixing, RedChecking, Preparing, Minting, Resolving

LEMMA FindingsTyped ==
    ASSUME NEW fs \in Seq(Finding)
    PROVE  /\ \A c \in Candidate : AppendFinding(fs, c) \in Seq(Finding)
           /\ \A c \in Candidate, i \in DOMAIN fs :
                 [fs EXCEPT ![i] = Raise(@, c)] \in Seq(Finding)
           /\ \A ps \in SUBSET Paths, i \in DOMAIN fs :
                 [fs EXCEPT ![i] = Resolve(@, ps)] \in Seq(Finding)
           /\ \A i \in DOMAIN fs : [fs EXCEPT ![i] = WontFix(@)] \in Seq(Finding)
<1>1. \A c \in Candidate : AppendFinding(fs, c) \in Seq(Finding)
  BY DEF AppendFinding, Candidate, Finding, Statuses
<1>2. \A f \in Finding, c \in Candidate : Raise(f, c) \in Finding
  BY DEF Raise, Candidate, Finding
<1>3. \A f \in Finding, ps \in SUBSET Paths : Resolve(f, ps) \in Finding
  BY DEF Resolve, Finding, Statuses
<1>4. \A f \in Finding : WontFix(f) \in Finding
  BY DEF WontFix, Finding, Statuses
<1>5. \A i \in DOMAIN fs, g \in Finding : [fs EXCEPT ![i] = g] \in Seq(Finding)
  OBVIOUS
<1>6. \A i \in DOMAIN fs : fs[i] \in Finding
  OBVIOUS
<1> QED BY <1>1, <1>2, <1>3, <1>4, <1>5, <1>6

(***************************************************************************)
(* Type correctness.                                                       *)
(***************************************************************************)
LEMMA InitTyped == Init => TypeOK
<1> SUFFICES ASSUME Init PROVE TypeOK OBVIOUS
<1>1. <<>> \in Seq(Events) OBVIOUS
<1> QED BY <1>1, InFlightTyped DEF Init, TypeOK

LEMMA MutateTyped ==
    ASSUME TypeOK, NEW lawful, NEW e \in Events, Mutate(lawful, e) PROVE TypeOK'
BY DEF TypeOK, Mutate, AppendEvent

LEMMA EndTyped ==
    ASSUME TypeOK, NEW s \in Sessions, End(s) PROVE session' \in [Sessions -> InFlight]
BY InFlightTyped DEF TypeOK, End

LEMMA BeginTyped ==
    ASSUME TypeOK, NEW s \in Sessions, NEW a \in InFlight, Begin(s, a),
           UNCHANGED <<record, register, bundles, disk, judged>>
    PROVE  TypeOK'
BY DEF TypeOK, Begin, record

LEMMA WriteTyped ==
    ASSUME TypeOK, register # None, NEW s \in Sessions, NEW op,
           NEW fs \in Seq(Finding), WriteFindings(s, op, fs)
    PROVE  TypeOK'
<1>1. register' \in Register \cup {None}
  BY DEF TypeOK, WriteFindings, Register
<1> QED BY <1>1, EndTyped DEF TypeOK, WriteFindings, record

LEMMA OneStepTyped ==
    ASSUME TypeOK,
           \/ New \/ Approve \/ AmendScope \/ RetirePin \/ ExemptPin \/ Retire
           \/ EditTree
    PROVE  TypeOK'
<1>1. CASE New
  BY <1>1, EventsTyped DEF TypeOK, New, AppendEvent
<1>2. CASE Approve \/ ExemptPin \/ Retire
  BY <1>2, EventsTyped, MutateTyped DEF Approve, ExemptPin, Retire
<1>3. CASE AmendScope
  BY <1>3, EventsTyped, MutateTyped DEF AmendScope
<1>4. CASE RetirePin
  BY <1>4, EventsTyped, MutateTyped DEF RetirePin
<1>5. CASE EditTree
  BY <1>5 DEF TypeOK, EditTree, record
<1> QED BY <1>1, <1>2, <1>3, <1>4, <1>5

LEMMA IssueTyped ==
    ASSUME TypeOK, NEW s \in Sessions, Issue(s) PROVE TypeOK'
<1>0. events \in Seq(Events) /\ disk \in SUBSET Paths
  BY DEF TypeOK
<1>1. CASE RedCheckRun(s)
  <2>1. /\ \A c \in Commands, x \in Expects, ps \in SUBSET Paths :
               Pin(c, x, ps).type = "red-check"
        /\ \A ps \in SUBSET Paths : PathCheck(ps).type = "red-check"
    BY DEF Pin, PathCheck
  <2>2. PICK a \in InFlight : Begin(s, a)
    BY <1>0, <1>1, <2>1, EventsTyped, InFlightTyped DEF RedCheckRun
  <2> QED BY <1>1, <2>2, BeginTyped DEF RedCheckRun
<1>2. ASSUME NEW t \in Phases, AdvanceRun(s, t) PROVE TypeOK'
  <2> DEFINE pins == IF t = "done" /\ DerivePhase(events) = "adversarial"
                     THEN CommandPins(events) ELSE {}
  <2>1. pins \in SUBSET Nat
    BY <1>0, PinsTyped
  <2>2. PICK battery \in {"none", "green", "red"}, failures \in SUBSET pins :
            Begin(s, Advancing(t, events, battery, pins, failures))
    BY <1>2 DEF AdvanceRun
  <2>3. failures \in SUBSET Nat
    BY <2>1
  <2> HIDE DEF pins
  <2>4. Advancing(t, events, battery, pins, failures) \in InFlight
    BY <1>0, <2>1, <2>3, AdvancingTyped
  <2> QED BY <1>2, <2>2, <2>4, BeginTyped DEF AdvanceRun
<1>3. CASE OpenDoor(s)
  <2>1. PICK a \in InFlight : Begin(s, a)
    BY <1>0, <1>3, InFlightTyped DEF OpenDoor
  <2> QED BY <1>3, <2>1, BeginTyped DEF OpenDoor
<1> QED BY <1>1, <1>2, <1>3 DEF Issue

LEMMA FinishTyped ==
    ASSUME TypeOK, NEW s \in Sessions, Finish(s) PROVE TypeOK'
<1>0. session[s] \in InFlight
  BY DEF TypeOK
<1>1. CASE RedCheckAppend(s)
  <2>1. session[s].event \in Events
    BY <1>0, <1>1, InFlightShape DEF RedCheckAppend
  <2> QED BY <1>1, <2>1, EndTyped DEF TypeOK, RedCheckAppend, AppendEvent
<1>2. CASE AdvanceCommit(s)
  <2>1. /\ Transition(session[s].target) \in Events
        /\ session[s].pins \in SUBSET Nat
    BY <1>0, <1>2, InFlightShape, EventsTyped DEF AdvanceCommit
  <2>2. events' \in Seq(Events)
    BY <1>2, <2>1 DEF TypeOK, AdvanceCommit, AppendEvent
  <2>3. judged' \in [battery: BOOLEAN, pins: SUBSET Nat]
    BY <1>2, <2>1 DEF TypeOK, AdvanceCommit
  <2> QED BY <1>2, <2>2, <2>3, EndTyped DEF TypeOK, AdvanceCommit
<1>3. CASE WriteBundles(s)
  <2>1. session[s].swept \in Ranges
    BY <1>0, <1>3, InFlightShape DEF WriteBundles
  <2>2. Minting(session[s].swept) \in InFlight
    BY <2>1, InFlightTyped
  <2> QED BY <1>3, <2>1, <2>2 DEF TypeOK, WriteBundles, record
<1>4. CASE MintPassMarker(s)
  <2>1. session[s].swept \in Ranges
    BY <1>0, <1>4, InFlightShape DEF MintPassMarker
  <2>2. <<>> \in Seq(Finding)
    OBVIOUS
  <2>3. register' \in Register
    BY <1>4, <2>1, <2>2 DEF TypeOK, MintPassMarker, Register
  <2> QED BY <1>4, <2>3, EndTyped DEF TypeOK, MintPassMarker, record
<1>5. CASE RecordFinding(s) \/ ResolveFinding(s) \/ WontFixFinding(s)
  <2>1. register # None /\ register.findings \in Seq(Finding)
    BY <1>5 DEF TypeOK, Register, RecordFinding, ResolveFinding, WontFixFinding
  <2>2. CASE RecordFinding(s)
    <3>1. PICK fs \in Seq(Finding) : WriteFindings(s, "record", fs)
      BY <2>1, <2>2, FindingsTyped DEF RecordFinding, SameEscape
    <3> QED BY <2>1, <3>1, WriteTyped
  <2>3. CASE ResolveFinding(s)
    <3>1. session[s].evidence \in SUBSET Paths
      BY <1>0, <2>3, InFlightShape DEF ResolveFinding, WriteFindings
    <3>2. PICK fs \in Seq(Finding) : WriteFindings(s, "resolve", fs)
      BY <2>1, <2>3, <3>1, FindingsTyped DEF ResolveFinding
    <3> QED BY <2>1, <3>2, WriteTyped
  <2>4. CASE WontFixFinding(s)
    <3>1. PICK fs \in Seq(Finding) : WriteFindings(s, "wont-fix", fs)
      BY <2>1, <2>4, FindingsTyped DEF WontFixFinding
    <3> QED BY <2>1, <3>1, WriteTyped
  <2> QED BY <1>5, <2>2, <2>3, <2>4
<1>6. CASE GiveUp(s)
  BY <1>6, EndTyped DEF TypeOK, GiveUp, record
<1> QED BY <1>1, <1>2, <1>3, <1>4, <1>5, <1>6 DEF Finish

LEMMA StepTyped == TypeOK /\ [Next]_vars => TypeOK'
<1> SUFFICES ASSUME TypeOK, [Next]_vars PROVE TypeOK' OBVIOUS
<1>1. CASE UNCHANGED vars
  BY <1>1 DEF vars, TypeOK
<1> QED BY <1>1, OneStepTyped, IssueTyped, FinishTyped DEF Next, AtRest

(* Every state is well formed: records hold events, registers findings.      *)
THEOREM TypeCorrect == Spec => []TypeOK
<1> QED BY InitTyped, StepTyped, PTL DEF Spec

(***************************************************************************)
(* How a record grows.  Granted(e) lists the judgements behind an appended *)
(* event; GrantedBy(s) is the locked half of advance, seen from the record.*)
(***************************************************************************)
GrantedBy(s, e) ==
    LET a == session[s]
    IN  /\ a.op = "advance" /\ a.snap = events
        /\ e = Transition(a.target)
        /\ EvaluateTransition(riskClass, events, register, disk, a.target,
                              a.battery # "red", a.failures)
        /\ judged'.battery = IF a.target = "verified" THEN a.battery = "green"
                             ELSE judged.battery
        /\ judged'.pins = IF a.target = "done" THEN a.pins ELSE judged.pins

Granted(e) ==
    \/ /\ e.type \in {"approval", "pin-exemption", "red-check", "pin-retire"}
       /\ UNCHANGED judged
    \/ e = Retired /\ RetirementLawful(events) /\ UNCHANGED judged
    \/ /\ e.type = "scope" /\ FenceSurfaceLawful(riskClass, events, e.patterns)
       /\ UNCHANGED judged
    \/ \E s \in Sessions : GrantedBy(s, e)

EventAppended ==
    /\ Exists /\ AppendLawful(events)
    /\ riskClass' = riskClass
    /\ \E e \in Events : events' = Append(events, e) /\ Granted(e)

Opened == events = <<>> /\ events' = Append(events, Created) /\ UNCHANGED judged

LEMMA OneStepGrows ==
    ASSUME TypeOK, Approve \/ AmendScope \/ RetirePin \/ ExemptPin \/ Retire
    PROVE  EventAppended
<1>1. CASE Approve
  BY <1>1, EventsTyped DEF Approve, Mutate, AppendEvent, EventAppended, Granted, Approval
<1>2. CASE ExemptPin
  BY <1>2, EventsTyped DEF ExemptPin, Mutate, AppendEvent, EventAppended, Granted, PinExemption
<1>3. CASE Retire
  BY <1>3, EventsTyped DEF Retire, Mutate, AppendEvent, EventAppended, Granted
<1>4. CASE RetirePin
  <2>1. PICK c \in Commands, x \in Expects \cup {None} :
            Mutate(PinRetireLawful(events, c, x), PinRetire(c, x))
    BY <1>4 DEF RetirePin
  <2>2. PinRetire(c, x) \in Events /\ PinRetire(c, x).type = "pin-retire"
    BY EventsTyped DEF PinRetire
  <2> QED BY <2>1, <2>2 DEF Mutate, AppendEvent, EventAppended, Granted
<1>5. CASE AmendScope
  <2>1. PICK ps \in (SUBSET Patterns) \ {{}} :
            Mutate(ScopeLawful(riskClass, events, ps), Scope(ps \ ScopeOf(events)))
    BY <1>5 DEF AmendScope
  <2> DEFINE e == Scope(ps \ ScopeOf(events))
  <2>2. e \in Events /\ e.type = "scope" /\ e.patterns = ps \ ScopeOf(events)
    BY EventsTyped DEF Scope
  <2>3. FenceSurfaceLawful(riskClass, events, e.patterns)
    BY <2>1, <2>2 DEF Mutate, ScopeLawful, FenceSurfaceLawful
  <2> QED BY <2>1, <2>2, <2>3 DEF Mutate, AppendEvent, EventAppended, Granted
<1> QED BY <1>1, <1>2, <1>3, <1>4, <1>5

LEMMA FinishGrows ==
    ASSUME TypeOK, NEW s \in Sessions, Finish(s)
    PROVE  EventAppended \/ UNCHANGED <<record, judged>>
<1>0. session[s] \in InFlight
  BY DEF TypeOK
<1>1. CASE RedCheckAppend(s)
  <2>1. session[s].event \in Events /\ session[s].event.type = "red-check"
    BY <1>0, <1>1, InFlightShape DEF RedCheckAppend
  <2> QED BY <1>1, <2>1 DEF RedCheckAppend, AppendEvent, EventAppended, Granted
<1>2. CASE AdvanceCommit(s)
  <2> DEFINE e == Transition(session[s].target)
  <2>1. e \in Events
    BY <1>0, <1>2, InFlightShape, EventsTyped DEF AdvanceCommit
  <2>2. GrantedBy(s, e)
    BY <1>2 DEF AdvanceCommit, Unmoved, GrantedBy
  <2>3. AppendLawful(events)
    BY <1>2 DEF AdvanceCommit, EvaluateTransition
  <2> QED BY <1>2, <2>1, <2>2, <2>3 DEF AdvanceCommit, AppendEvent, EventAppended, Granted
<1>3. CASE ~RedCheckAppend(s) /\ ~AdvanceCommit(s)
  BY <1>3 DEF Finish, WriteBundles, MintPassMarker, RecordFinding, ResolveFinding,
             WontFixFinding, WriteFindings, GiveUp, record
<1> QED BY <1>1, <1>2, <1>3

LEMMA RecordGrows ==
    ASSUME TypeOK, [Next]_vars
    PROVE  Opened \/ EventAppended \/ UNCHANGED <<record, judged>>
<1>1. CASE New
  BY <1>1 DEF New, Exists, AppendEvent, Opened
<1>2. CASE EditTree \/ AtRest \/ UNCHANGED vars
  BY <1>2 DEF EditTree, AtRest, vars, record
<1>3. ASSUME NEW s \in Sessions, Issue(s) PROVE UNCHANGED <<record, judged>>
  BY <1>3 DEF Issue, RedCheckRun, AdvanceRun, OpenDoor, record
<1> QED BY <1>1, <1>2, <1>3, OneStepGrows, FinishGrows DEF Next

(***************************************************************************)
(* "No command appends to a done or retired record": neither the one-step  *)
(* commands nor those that judged the record before they ran something.    *)
(***************************************************************************)
LEMMA EmptyRecordOpen == ~Terminal(<<>>)
BY DEF Terminal, DerivePhase, OfType

THEOREM TerminalIsFinal == Spec => TerminalFrozen
<1>1. TypeOK /\ [Next]_vars => [Terminal(events) => UNCHANGED record]_vars
  <2> SUFFICES ASSUME TypeOK, [Next]_vars, Terminal(events) PROVE UNCHANGED record
    OBVIOUS
  <2>1. ~Opened
    BY EmptyRecordOpen DEF Opened
  <2>2. ~EventAppended
    BY DEF EventAppended, AppendLawful
  <2> QED BY <2>1, <2>2, RecordGrows
<1> QED BY <1>1, TypeCorrect, PTL DEF Spec, TerminalFrozen

(***************************************************************************)
(* The inductive invariant of the record.  Latest: the phase is read off a *)
(* real event.  Snapshots: an advance in flight ran what its snapshot      *)
(* called for.  Climbed: no recorded transition is above the phase.        *)
(***************************************************************************)
SnapshotRan(a) ==
    a.op = "advance" =>
        /\ a.target = "done" /\ DerivePhase(a.snap) = "adversarial"
              => a.pins = CommandPins(a.snap)
        /\ a.target = "verified" /\ DerivePhase(a.snap) = "executing"
              => a.battery # "none"

Snapshots == \A s \in Sessions : SnapshotRan(session[s])

Climbed ==
    DerivePhase(events) # "retired" =>
        \A i \in OfType(events, "transition") :
            Rank[events[i].to] <= Rank[DerivePhase(events)]

RecordInv ==
    /\ TypeOK
    /\ Snapshots
    /\ Climbed
    /\ DoneEveryLivePinReran
    /\ VerifiedOnBattery
    /\ ApprovedBeforeExecuting
    /\ FenceScopeApproved
    /\ RetiredNeverExecuted
    /\ CodeDonePinned

LEMMA InitRecordInv == Init => RecordInv
<1> SUFFICES ASSUME Init PROVE RecordInv OBVIOUS
<1>1. events = <<>> /\ \A t : OfType(events, t) = {}
  BY DEF Init, OfType
<1>2. DerivePhase(events) = "intake"
  BY <1>1 DEF DerivePhase
<1>3. Snapshots
  BY DEF Init, Snapshots, SnapshotRan, Idle
<1> QED
  BY <1>1, <1>2, <1>3, InitTyped
  DEF RecordInv, Climbed, DoneEveryLivePinReran, VerifiedOnBattery,
      ApprovedBeforeExecuting, FenceScopeApproved, RetiredNeverExecuted, CodeDonePinned

LEMMA SnapshotsKept ==
    ASSUME TypeOK, Snapshots, [Next]_vars PROVE Snapshots'
<1>0. session \in [Sessions -> InFlight]
  BY DEF TypeOK
<1>1. ASSUME NEW s \in Sessions, NEW a, SnapshotRan(a),
             session' = [session EXCEPT ![s] = a]
      PROVE  Snapshots'
  BY <1>0, <1>1 DEF Snapshots, SnapshotRan
<1>2. \A e, r, ps : /\ SnapshotRan(Idle) /\ SnapshotRan(Recording) /\ SnapshotRan(WontFixing)
                    /\ SnapshotRan(RedChecking(e)) /\ SnapshotRan(Preparing(r))
                    /\ SnapshotRan(Minting(r)) /\ SnapshotRan(Resolving(ps))
  BY DEF SnapshotRan, Idle, Recording, WontFixing, RedChecking, Preparing, Minting, Resolving
<1>3. ASSUME NEW s \in Sessions, Finish(s) PROVE Snapshots'
  BY <1>1, <1>2, <1>3 DEF Finish, RedCheckAppend, AdvanceCommit, WriteBundles,
     MintPassMarker, RecordFinding, ResolveFinding, WontFixFinding, WriteFindings, GiveUp, End
<1>4. ASSUME NEW s \in Sessions, NEW t \in Phases, AdvanceRun(s, t) PROVE Snapshots'
  <2> DEFINE pins == IF t = "done" /\ DerivePhase(events) = "adversarial"
                     THEN CommandPins(events) ELSE {}
             batteries == IF t = "verified" /\ DerivePhase(events) = "executing"
                          THEN {"green", "red"} ELSE {"none"}
  <2>1. PICK battery \in batteries, failures \in SUBSET pins :
            Begin(s, Advancing(t, events, battery, pins, failures))
    BY <1>4 DEF AdvanceRun
  <2>2. SnapshotRan(Advancing(t, events, battery, pins, failures))
    BY DEF SnapshotRan, Advancing
  <2> QED BY <1>1, <2>1, <2>2 DEF Begin
<1>5. ASSUME NEW s \in Sessions, RedCheckRun(s) \/ OpenDoor(s) PROVE Snapshots'
  BY <1>1, <1>2, <1>5 DEF RedCheckRun, OpenDoor, Begin
<1>6. CASE UNCHANGED session
  BY <1>6 DEF Snapshots
<1> QED BY <1>3, <1>4, <1>5, <1>6
  DEF Next, Issue, New, Approve, AmendScope, RetirePin, ExemptPin, Retire, Mutate,
      EditTree, AtRest, vars

(***************************************************************************)
(* One appended event, by the judgement behind it.                         *)
(***************************************************************************)
LEMMA OpenPhase ==
    ASSUME TypeOK, AppendLawful(events)
    PROVE  DerivePhase(events) \in Phases \ {"done"}
BY PhaseTyped DEF TypeOK, AppendLawful, Terminal

(* The phases before the two whose gates run something.                      *)
LEMMA Predecessor ==
    ASSUME NEW p \in Phases
    PROVE  /\ Rank[p] \in Nat
           /\ Rank["done"] = Rank[p] + 1 => p = "adversarial"
           /\ Rank["verified"] = Rank[p] + 1 => p = "executing"
           /\ p \in {"intake", "planned"} => Rank[p] < Rank["executing"]
BY DEF Phases, Rank

LEMMA QuietPhase ==
    ASSUME TypeOK, AppendLawful(events), NEW e \in Events,
           events' = Append(events, e), Granted(e), e.type # "transition"
    PROVE  \/ DerivePhase(events') = DerivePhase(events) /\ e.type # "retired"
           \/ DerivePhase(events') = "retired" /\ RetirementLawful(events)
<1>0. events \in Seq(Events)
  BY DEF TypeOK
<1>1. CASE e = Retired /\ RetirementLawful(events)
  BY <1>0, <1>1, PhaseRetired
<1>2. CASE e.type \in {"approval", "pin-exemption", "red-check", "pin-retire", "scope"}
  BY <1>0, <1>2, PhaseQuiet
<1>3. ~ \E s \in Sessions : GrantedBy(s, e)
  BY DEF GrantedBy, Transition
<1> QED BY <1>1, <1>2, <1>3 DEF Granted

LEMMA MovedPhase ==
    ASSUME TypeOK, AppendLawful(events),
           NEW s \in Sessions, NEW e \in Events, GrantedBy(s, e), events' = Append(events, e)
    PROVE  /\ session[s].target \in Phases
           /\ e = Transition(session[s].target) /\ e.type = "transition"
           /\ Rank[session[s].target] = Rank[DerivePhase(events)] + 1
           /\ DerivePhase(events') = session[s].target
           /\ CommandPins(events') = CommandPins(events)
<1>0. events \in Seq(Events) /\ session[s] \in InFlight
  BY DEF TypeOK
<1>1. session[s].target \in Phases
  BY <1>0, InFlightShape DEF GrantedBy
<1>2. e = Transition(session[s].target) /\ e.type = "transition"
  BY DEF GrantedBy, Transition
<1>3. Rank[session[s].target] = Rank[DerivePhase(events)] + 1
  BY DEF GrantedBy, EvaluateTransition
<1>4. DerivePhase(events') = session[s].target
  BY <1>0, <1>1, <1>2, PhaseMove, OpenNotRetired
<1>5. CommandPins(events') = CommandPins(events)
  BY <1>0, <1>2, PinsQuiet
<1> QED BY <1>1, <1>2, <1>3, <1>4, <1>5

LEMMA ClimbedKept ==
    ASSUME RecordInv, AppendLawful(events), NEW e \in Events,
           events' = Append(events, e), Granted(e)
    PROVE  Climbed'
<1>0. /\ TypeOK /\ events \in Seq(Events)
      /\ DerivePhase(events) \in Phases /\ Climbed /\ DerivePhase(events) # "retired"
  BY OpenPhase DEF RecordInv, TypeOK, AppendLawful, Terminal
<1>1. \A i \in OfType(events, "transition") :
         /\ events'[i] = events[i] /\ events[i].to \in Phases
         /\ Rank[events[i].to] \in Nat
         /\ Rank[events[i].to] <= Rank[DerivePhase(events)]
  BY <1>0, AppendShape, EventShape, Predecessor DEF OfType, Climbed
<1>2. CASE e.type # "transition"
  <2>1. OfType(events', "transition") = OfType(events, "transition")
    BY <1>0, <1>2, OfTypeAppend
  <2> QED BY <1>0, <1>1, <1>2, <2>1, QuietPhase DEF Climbed
<1>3. ASSUME NEW s \in Sessions, GrantedBy(s, e) PROVE Climbed'
  <2>1. OfType(events', "transition") = OfType(events, "transition") \cup {Len(events) + 1}
    BY <1>0, <1>3, MovedPhase, OfTypeAppend
  <2>2. /\ Rank[DerivePhase(events')] = Rank[DerivePhase(events)] + 1
        /\ events'[Len(events) + 1].to = DerivePhase(events')
        /\ Rank[DerivePhase(events)] \in Nat
    BY <1>0, <1>3, MovedPhase, AppendShape, Predecessor DEF Transition
  <2>3. \A i \in OfType(events', "transition") :
           Rank[events'[i].to] <= Rank[DerivePhase(events')]
    <3> TAKE i \in OfType(events', "transition")
    <3>1. CASE i \in OfType(events, "transition")
      <4> DEFINE low == Rank[events[i].to]
                 old == Rank[DerivePhase(events)]
      <4>1. low \in Nat /\ old \in Nat /\ low <= old
        BY <1>1, <2>2, <3>1
      <4>2. Rank[events'[i].to] = low /\ Rank[DerivePhase(events')] = old + 1
        BY <1>1, <2>2, <3>1
      <4> HIDE DEF low, old
      <4> QED BY <4>1, <4>2
    <3>2. CASE i = Len(events) + 1
      <4>1. Rank[DerivePhase(events')] \in Nat
        BY <2>2
      <4> QED BY <2>2, <3>2, <4>1
    <3> QED BY <2>1, <3>1, <3>2
  <2> QED BY <2>3 DEF Climbed
<1>4. e.type = "transition" => \E s \in Sessions : GrantedBy(s, e)
  BY DEF Granted, Retired
<1> QED BY <1>2, <1>3, <1>4

(* The done gate and the verified gate judge what their advance ran.         *)
LEMMA GatesKept ==
    ASSUME RecordInv, AppendLawful(events), NEW e \in Events, riskClass' = riskClass,
           events' = Append(events, e), Granted(e)
    PROVE  DoneEveryLivePinReran' /\ VerifiedOnBattery' /\ CodeDonePinned'
<1>0. /\ TypeOK /\ events \in Seq(Events) /\ Snapshots
      /\ DerivePhase(events) \in Phases \ {"done"} /\ VerifiedOnBattery
  BY OpenPhase DEF RecordInv, TypeOK
<1>1. \A i \in DOMAIN events' :
         \/ i \in DOMAIN events /\ events'[i] = events[i]
         \/ events'[i] = e
  BY <1>0, AppendShape
<1>2. CASE e.type # "transition"
  <2>1. DerivePhase(events') # "done"
    BY <1>0, <1>2, QuietPhase
  <2>2. UNCHANGED judged
    BY <1>2 DEF Granted, GrantedBy, Transition
  <2>3. e # Transition("verified")
    BY <1>2 DEF Transition
  <2> QED BY <1>0, <1>1, <2>1, <2>2, <2>3
          DEF DoneEveryLivePinReran, VerifiedOnBattery, CodeDonePinned
<1>3. ASSUME NEW s \in Sessions, GrantedBy(s, e)
      PROVE  DoneEveryLivePinReran' /\ VerifiedOnBattery' /\ CodeDonePinned'
  <2> DEFINE a == session[s]
  <2>1. /\ a.op = "advance" /\ a.snap = events /\ SnapshotRan(a)
        /\ a.target \in Phases /\ e = Transition(a.target)
        /\ Rank[a.target] = Rank[DerivePhase(events)] + 1
        /\ DerivePhase(events') = a.target
        /\ CommandPins(events') = CommandPins(events)
        /\ a.battery \in {"none", "green", "red"}
    BY <1>0, <1>3, MovedPhase, InFlightShape DEF GrantedBy, Snapshots, TypeOK
  <2>2. ASSUME a.target = "done"
        PROVE  a.pins = CommandPins(events') /\ judged'.pins = a.pins
    BY <1>0, <1>3, <2>1, <2>2, Predecessor DEF GrantedBy, SnapshotRan
  <2>3. ASSUME a.target = "verified" PROVE judged'.battery
    <3>1. a.battery # "red" /\ judged'.battery = (a.battery = "green")
      BY <1>3, <2>3 DEF GrantedBy, EvaluateTransition, VerificationGuard
    <3>2. a.battery # "none"
      BY <1>0, <2>1, <2>3, Predecessor DEF SnapshotRan
    <3> QED BY <2>1, <3>1, <3>2
  <2>4. ASSUME a.target # "verified"
        PROVE  judged'.battery = judged.battery /\ e # Transition("verified")
    BY <1>3, <2>1, <2>4 DEF GrantedBy, Transition
  <2>5. DoneEveryLivePinReran'
    BY <2>1, <2>2 DEF DoneEveryLivePinReran
  <2>6. VerifiedOnBattery'
    BY <1>0, <1>1, <2>3, <2>4 DEF VerifiedOnBattery
  <2>7. CodeDonePinned'
    <3>1. ASSUME a.target = "done" PROVE PinnedForDone(riskClass, events)
      BY <1>3, <3>1 DEF GrantedBy, EvaluateTransition, DoneGuard
    <3>2. HasPinExemption(events) => HasPinExemption(events')
      BY <1>0, OfTypeAppend DEF HasPinExemption
    <3> QED BY <2>1, <3>1, <3>2 DEF CodeDonePinned, PinnedForDone
  <2> QED BY <2>5, <2>6, <2>7
<1>4. e.type = "transition" => \E s \in Sessions : GrantedBy(s, e)
  BY DEF Granted, Retired
<1> QED BY <1>2, <1>3, <1>4

LEMMA ApprovalIn ==
    ASSUME NEW e \in Events, e.type = "approval" PROVE e = Approval
BY DEF Events, Created, Approval, PinExemption, Retired, Transition, Scope, Pin, PinRetire

(* Approvals come before what needs them; retirement comes only before       *)
(* execution.                                                                *)
LEMMA OrderKept ==
    ASSUME RecordInv, AppendLawful(events), NEW e \in Events, riskClass' = riskClass,
           events' = Append(events, e), Granted(e)
    PROVE  ApprovedBeforeExecuting' /\ FenceScopeApproved' /\ RetiredNeverExecuted'
<1>0. /\ TypeOK /\ events \in Seq(Events) /\ Climbed
      /\ ApprovedBeforeExecuting /\ FenceScopeApproved
      /\ DerivePhase(events) # "retired"
  BY DEF RecordInv, TypeOK, AppendLawful, Terminal
<1>1. /\ DOMAIN events = 1 .. Len(events) /\ Len(events) \in Nat
      /\ DOMAIN events' = 1 .. Len(events) + 1
      /\ \A i \in DOMAIN events : events'[i] = events[i]
      /\ events'[Len(events) + 1] = e
  BY <1>0, AppendShape
<1>2. HasApproval(events) => \E j \in 1 .. Len(events) : events'[j] = Approval
  <2> SUFFICES ASSUME NEW j \in DOMAIN events, events[j].type = "approval"
               PROVE  \E k \in 1 .. Len(events) : events'[k] = Approval
    BY DEF HasApproval, OfType
  <2>1. events[j] \in Events
    BY <1>0
  <2> QED BY <1>1, <2>1, ApprovalIn
<1>3. ASSUME NEW i \in DOMAIN events, NEW j \in 1 .. i - 1, events[j] = Approval
      PROVE  events'[j] = Approval
  BY <1>1, <1>3
<1>4. e.type = "transition" => \E s \in Sessions : GrantedBy(s, e)
  BY DEF Granted, Retired
<1>5. ApprovedBeforeExecuting'
  <2> SUFFICES ASSUME NEW i \in DOMAIN events', events'[i] = Transition("executing")
               PROVE  /\ riskClass \notin ImplementationForbidden
                      /\ riskClass \in ApprovalRequired =>
                            \E j \in 1 .. i - 1 : events'[j] = Approval
    BY DEF ApprovedBeforeExecuting
  <2>1. CASE i \in DOMAIN events
    BY <1>0, <1>1, <1>3, <2>1 DEF ApprovedBeforeExecuting
  <2>2. CASE i = Len(events) + 1
    <3>1. e = Transition("executing") /\ e.type = "transition"
      BY <1>1, <2>2 DEF Transition
    <3>2. PICK s \in Sessions : GrantedBy(s, e)
      BY <1>4, <3>1
    <3>3. session[s].target = "executing"
      BY <3>1, <3>2 DEF GrantedBy, Transition
    <3>4. ExecutionGuard(riskClass, events)
      BY <3>2, <3>3 DEF GrantedBy, EvaluateTransition
    <3>5. i - 1 = Len(events)
      BY <1>1, <2>2
    <3> QED BY <1>2, <3>4, <3>5 DEF ExecutionGuard
  <2> QED BY <1>1, <2>1, <2>2
<1>6. FenceScopeApproved'
  <2> SUFFICES ASSUME NEW i \in DOMAIN events', events'[i].type = "scope",
                      events'[i].patterns \cap FencePatterns # {}
               PROVE  /\ riskClass \in ApprovalRequired
                      /\ \E j \in 1 .. i - 1 : events'[j] = Approval
    BY DEF FenceScopeApproved, OfType
  <2>1. CASE i \in DOMAIN events
    <3>1. i \in OfType(events, "scope") /\ events[i].patterns \cap FencePatterns # {}
      BY <1>1, <2>1 DEF OfType
    <3> QED BY <1>0, <1>3, <2>1, <3>1 DEF FenceScopeApproved
  <2>2. CASE i = Len(events) + 1
    <3>1. FenceSurfaceLawful(riskClass, events, e.patterns)
      BY <1>1, <2>2 DEF Granted, GrantedBy, Transition, Retired
    <3>2. i - 1 = Len(events)
      BY <1>1, <2>2
    <3> QED BY <1>1, <1>2, <2>2, <3>1, <3>2 DEF FenceSurfaceLawful
  <2> QED BY <1>1, <2>1, <2>2
<1>7. RetiredNeverExecuted'
  <2> SUFFICES ASSUME OfType(events', "retired") # {},
                      NEW i \in DOMAIN events', events'[i] = Transition("executing")
               PROVE  FALSE
    BY DEF RetiredNeverExecuted
  <2>1. e.type = "retired"
    BY <1>0, OpenNotRetired, OfTypeAppend
  <2>2. DerivePhase(events) \in {"intake", "planned"}
    BY <2>1 DEF Granted, GrantedBy, Transition, RetirementLawful
  <2>3. i \in DOMAIN events /\ events[i] = Transition("executing")
    <3>1. i # Len(events) + 1
      BY <1>1, <2>1 DEF Transition
    <3> QED BY <1>1, <3>1
  <2>4. i \in OfType(events, "transition") /\ events[i].to = "executing"
    BY <2>3 DEF OfType, Transition
  <2>5. Rank["executing"] <= Rank[DerivePhase(events)]
    BY <1>0, <2>4 DEF Climbed
  <2> QED BY <2>2, <2>5 DEF Rank
<1> QED BY <1>5, <1>6, <1>7

(* `new` starts a record in which nothing has happened. *)
LEMMA OpenedInv ==
    ASSUME RecordInv, Opened, TypeOK', Snapshots' PROVE RecordInv'
<1>1. events = <<>> /\ events' = <<Created>>
  BY DEF Opened
<1>2. \A t : t # "created" => OfType(events', t) = {}
  BY <1>1 DEF OfType, Created
<1>3. DOMAIN events' = {1} /\ events'[1] = Created
  BY <1>1
<1>4. \A t : Created # Transition(t)
  BY DEF Created, Transition
<1>5. DerivePhase(events') = "intake"
  BY <1>2 DEF DerivePhase
<1>6. Climbed'
  BY <1>2 DEF Climbed
<1> QED BY <1>2, <1>3, <1>4, <1>5, <1>6
        DEF RecordInv, DoneEveryLivePinReran, VerifiedOnBattery, ApprovedBeforeExecuting,
            FenceScopeApproved, RetiredNeverExecuted, CodeDonePinned

LEMMA StepRecordInv == RecordInv /\ [Next]_vars => RecordInv'
<1> SUFFICES ASSUME RecordInv, [Next]_vars PROVE RecordInv' OBVIOUS
<1>1. TypeOK' /\ Snapshots'
  BY StepTyped, SnapshotsKept DEF RecordInv
<1>2. CASE Opened
  BY <1>1, <1>2, OpenedInv
<1>3. CASE EventAppended
  <2>1. PICK e \in Events : events' = Append(events, e) /\ Granted(e)
    BY <1>3 DEF EventAppended
  <2>2. Climbed'
    BY <1>3, <2>1, ClimbedKept DEF EventAppended
  <2>3. DoneEveryLivePinReran' /\ VerifiedOnBattery' /\ CodeDonePinned'
    BY <1>3, <2>1, GatesKept DEF EventAppended
  <2>4. ApprovedBeforeExecuting' /\ FenceScopeApproved' /\ RetiredNeverExecuted'
    BY <1>3, <2>1, OrderKept DEF EventAppended
  <2> QED BY <1>1, <2>2, <2>3, <2>4 DEF RecordInv
<1>4. CASE UNCHANGED <<record, judged>>
  <2>1. UNCHANGED <<riskClass, events, judged>>
    BY <1>4 DEF record
  <2> QED BY <1>1, <2>1
          DEF RecordInv, Climbed, DoneEveryLivePinReran, VerifiedOnBattery,
              ApprovedBeforeExecuting, FenceScopeApproved, RetiredNeverExecuted, CodeDonePinned
<1> QED BY <1>2, <1>3, <1>4, RecordGrows DEF RecordInv

THEOREM RecordInvariant == Spec => []RecordInv
<1> QED BY InitRecordInv, StepRecordInv, PTL DEF Spec

(* What the gates ran is what the record they wrote calls for: whatever the  *)
(* other sessions appended while advance ran its battery and its pins.       *)
THEOREM GatesHold ==
    Spec => [](GatesJudgedWhatRan /\ CodeDonePinned)
<1>1. RecordInv => GatesJudgedWhatRan /\ CodeDonePinned
  BY DEF RecordInv, GatesJudgedWhatRan
<1> QED BY <1>1, RecordInvariant, PTL

(* Execution and scoping over the fence wait for their approval, and         *)
(* retirement is out of reach after execution, for any number of events.     *)
THEOREM ApprovalsComeFirst == Spec => []ApprovalsComeInOrder
<1>1. RecordInv => ApprovalsComeInOrder
  BY DEF RecordInv, ApprovalsComeInOrder
<1> QED BY <1>1, RecordInvariant, PTL

(***************************************************************************)
(* Phases in order: the phase is the number of transitions, and each of    *)
(* them was recorded when the phase was one below it.                      *)
(***************************************************************************)
PhaseCounted ==
    DerivePhase(events) # "retired" =>
        Rank[DerivePhase(events)] = Cardinality(OfType(events, "transition"))

OrderInv == MovesInOrder /\ PhaseCounted

(* An event that is no transition counts for nothing; a retirement frees the *)
(* phase of its count.                                                       *)
LEMMA OrderQuiet ==
    ASSUME TypeOK, OrderInv, AppendLawful(events),
           NEW e \in Events, e.type # "transition", events' = Append(events, e)
    PROVE  OrderInv'
<1>0. events \in Seq(Events)
  BY DEF TypeOK
<1>1. OfType(events', "transition") = OfType(events, "transition")
  BY <1>0, OfTypeAppend
<1>2. \A i \in OfType(events, "transition") : events'[i] = events[i]
  BY <1>0, AppendShape DEF OfType
<1>3. MovesInOrder'
  <2> DEFINE moves == OfType(events, "transition")
  <2>1. \A i \in moves : Rank[events[i].to] = Cardinality({j \in moves : j <= i})
    BY DEF OrderInv, MovesInOrder
  <2>2. moves' = moves /\ \A i \in moves : events'[i].to = events[i].to
    BY <1>1, <1>2
  <2> HIDE DEF moves
  <2>3. \A i \in moves' : Rank[events'[i].to] = Cardinality({j \in moves' : j <= i})
    BY <2>1, <2>2
  <2> USE DEF moves
  <2> QED BY <2>3 DEF MovesInOrder
<1>4. PhaseCounted'
  <2>1. CASE e.type = "retired"
    <3>1. OfType(events', "retired") # {}
      BY <1>0, <2>1, OfTypeAppend
    <3> QED BY <3>1 DEF PhaseCounted, DerivePhase
  <2>2. CASE e.type # "retired"
    <3>1. DerivePhase(events') = DerivePhase(events)
      BY <1>0, <2>2, PhaseQuiet
    <3> QED BY <1>1, <3>1 DEF OrderInv, PhaseCounted
  <2> QED BY <2>1, <2>2
<1> QED BY <1>3, <1>4 DEF OrderInv

(* A transition is granted to the phase above the last, and counts for one.  *)
LEMMA OrderMove ==
    ASSUME TypeOK, OrderInv, AppendLawful(events), NEW t \in Phases,
           Rank[t] = Rank[DerivePhase(events)] + 1,
           events' = Append(events, Transition(t))
    PROVE  OrderInv'
<1> DEFINE moves == OfType(events, "transition")
           n     == Len(events) + 1
<1>0. /\ events \in Seq(Events) /\ Transition(t) \in Events
      /\ Transition(t).type = "transition" /\ Transition(t).to = t
  BY EventsTyped DEF TypeOK, Transition
<1>1. OfType(events', "transition") = moves \cup {n}
  BY <1>0, OfTypeAppend
<1>2. /\ moves \subseteq 1 .. Len(events) /\ Len(events) \in Nat
      /\ events'[n] = Transition(t)
      /\ \A i \in moves : events'[i] = events[i]
  BY <1>0, AppendShape DEF OfType
<1>3. IsFiniteSet(moves) /\ Cardinality(moves) \in Nat
  <2>1. IsFiniteSet(1 .. Len(events))
    BY <1>2, FS_Interval
  <2> QED BY <1>2, <2>1, FS_Subset, FS_CardinalityType
<1>4. Cardinality(moves \cup {n}) = Cardinality(moves) + 1
  <2>1. n \notin moves
    BY <1>2
  <2> QED BY <1>3, <2>1, FS_AddElement
<1>5. Rank[DerivePhase(events)] = Cardinality(moves)
  BY DEF OrderInv, PhaseCounted, AppendLawful, Terminal
<1>6. Rank[t] = Cardinality(moves \cup {n})
  BY <1>4, <1>5
<1>7. MovesInOrder'
  <2>1. ASSUME NEW i \in moves
        PROVE  Rank[events'[i].to] = Cardinality({j \in moves \cup {n} : j <= i})
    <3>1. {j \in moves \cup {n} : j <= i} = {j \in moves : j <= i}
      BY <1>2
    <3>2. Rank[events[i].to] = Cardinality({j \in moves : j <= i})
      BY DEF OrderInv, MovesInOrder
    <3> HIDE DEF moves, n
    <3> QED BY <1>2, <3>1, <3>2
  <2>2. Rank[events'[n].to] = Cardinality({j \in moves \cup {n} : j <= n})
    <3>1. {j \in moves \cup {n} : j <= n} = moves \cup {n}
      BY <1>2
    <3> HIDE DEF moves, n
    <3> QED BY <1>0, <1>2, <1>6, <3>1
  <2> HIDE DEF moves, n
  <2> QED BY <1>1, <2>1, <2>2 DEF MovesInOrder
<1>8. PhaseCounted'
  <2>1. DerivePhase(events') = t
    BY <1>0, PhaseMove, OpenNotRetired
  <2> HIDE DEF moves, n
  <2> QED BY <1>1, <1>6, <2>1 DEF PhaseCounted
<1> QED BY <1>7, <1>8 DEF OrderInv

LEMMA StepOrderInv == RecordInv /\ OrderInv /\ [Next]_vars => OrderInv'
<1> SUFFICES ASSUME RecordInv, OrderInv, [Next]_vars PROVE OrderInv' OBVIOUS
<1>0. TypeOK
  BY DEF RecordInv
<1>1. CASE Opened
  <2>1. events' = <<Created>>
    BY <1>1 DEF Opened
  <2>2. \A t : t # "created" => OfType(events', t) = {}
    BY <2>1 DEF OfType, Created
  <2>3. DerivePhase(events') = "intake" /\ Rank["intake"] = 0
    BY <2>2 DEF DerivePhase, Rank
  <2> QED BY <2>2, <2>3, FS_EmptySet DEF OrderInv, MovesInOrder, PhaseCounted
<1>2. CASE EventAppended
  <2>1. PICK e \in Events : events' = Append(events, e) /\ Granted(e)
    BY <1>2 DEF EventAppended
  <2>2. AppendLawful(events)
    BY <1>2 DEF EventAppended
  <2>3. CASE e.type # "transition"
    BY <1>0, <2>1, <2>2, <2>3, OrderQuiet
  <2>4. CASE e.type = "transition"
    <3>1. PICK s \in Sessions : GrantedBy(s, e)
      BY <2>1, <2>4 DEF Granted, Retired
    <3> DEFINE t == session[s].target
    <3>2. e = Transition(t) /\ Rank[t] = Rank[DerivePhase(events)] + 1
      BY <3>1 DEF GrantedBy, EvaluateTransition
    <3>3. t \in Phases
      BY <2>4, <3>2, EventShape DEF Transition
    <3> HIDE DEF t
    <3> QED BY <1>0, <2>1, <2>2, <3>2, <3>3, OrderMove
  <2> QED BY <2>3, <2>4
<1>3. CASE UNCHANGED <<record, judged>>
  BY <1>3 DEF record, OrderInv, MovesInOrder, PhaseCounted
<1> QED BY <1>0, <1>1, <1>2, <1>3, RecordGrows

(* What ends a record is not in one that may still be appended to.           *)
LEMMA OpenNotEnded ==
    ASSUME RecordInv, AppendLawful(events)
    PROVE  \A i \in DOMAIN events : events[i] \notin {Retired, Transition("done")}
<1>1. /\ DerivePhase(events) \in Phases \ {"done"}
      /\ DerivePhase(events) # "retired"
  BY OpenPhase DEF RecordInv, AppendLawful, Terminal
<1>2. OfType(events, "retired") = {}
  BY <1>1 DEF DerivePhase
<1>3. ASSUME NEW i \in DOMAIN events, events[i] = Transition("done") PROVE FALSE
  <2>1. i \in OfType(events, "transition") /\ events[i].to = "done"
    BY <1>3 DEF OfType, Transition
  <2>2. Rank["done"] <= Rank[DerivePhase(events)]
    BY <1>1, <2>1 DEF RecordInv, Climbed
  <2> QED BY <1>1, <2>2 DEF Phases, Rank
<1>4. ASSUME NEW i \in DOMAIN events, events[i] = Retired PROVE FALSE
  BY <1>2, <1>4 DEF OfType, Retired
<1> QED BY <1>3, <1>4

(* Creation is the first event of a record and no appended one: only `new`   *)
(* grants it, to a task that has no record.                                  *)
LEMMA StepEnds == RecordInv /\ EndsInPlace /\ [Next]_vars => EndsInPlace'
<1> SUFFICES ASSUME RecordInv, EndsInPlace, [Next]_vars PROVE EndsInPlace' OBVIOUS
<1>0. TypeOK /\ events \in Seq(Events)
  BY DEF RecordInv, TypeOK
<1>1. CASE Opened
  <2>1. DOMAIN events' = {1} /\ events'[1] = Created /\ Len(events') = 1 /\ events' # <<>>
    BY <1>1 DEF Opened
  <2> QED BY <2>1 DEF EndsInPlace, Exists, OfType, Created
<1>2. CASE EventAppended
  <2>1. PICK e \in Events : events' = Append(events, e) /\ Granted(e)
    BY <1>2 DEF EventAppended
  <2>2. /\ DOMAIN events = 1 .. Len(events) /\ Len(events) \in Nat
        /\ DOMAIN events' = 1 .. Len(events) + 1 /\ Len(events') = Len(events) + 1
        /\ \A i \in DOMAIN events : events'[i] = events[i]
    BY <1>0, <2>1, AppendShape
  <2>3. e.type # "created"
    BY <2>1 DEF Granted, GrantedBy, Retired, Transition
  <2>4. OfType(events', "created") = OfType(events, "created")
    BY <1>0, <2>1, <2>3, OfTypeAppend
  <2>5. Exists /\ Exists'
    <3>1. events' # <<>>
      BY <2>2
    <3> QED BY <1>2, <3>1 DEF EventAppended, Exists
  <2>6. ASSUME NEW i \in DOMAIN events', events'[i] \in {Retired, Transition("done")}
        PROVE  i = Len(events')
    <3>1. i \notin DOMAIN events
      BY <1>2, <2>2, <2>6, OpenNotEnded DEF EventAppended
    <3> QED BY <2>2, <3>1
  <2> QED BY <2>4, <2>5, <2>6 DEF EndsInPlace
<1>3. CASE UNCHANGED <<record, judged>>
  BY <1>3 DEF record, EndsInPlace, Exists
<1> QED BY <1>0, <1>1, <1>2, <1>3, RecordGrows

(* A record is one walk through the phases, however many advances race: it   *)
(* starts with its only creation, records each phase once and in order, and  *)
(* nothing follows its done or its retirement.                               *)
THEOREM PhasesAreInOrder == Spec => []PhasesInOrder
<1>1. Init => OrderInv /\ EndsInPlace
  <2> SUFFICES ASSUME Init PROVE OrderInv /\ EndsInPlace OBVIOUS
  <2>1. events = <<>> /\ DOMAIN events = {} /\ \A t : OfType(events, t) = {}
    BY DEF Init, OfType
  <2>2. DerivePhase(events) = "intake" /\ Rank["intake"] = 0
    BY <2>1 DEF DerivePhase, Rank
  <2>3. OrderInv
    BY <2>1, <2>2, FS_EmptySet DEF OrderInv, MovesInOrder, PhaseCounted
  <2>4. EndsInPlace
    BY <2>1 DEF EndsInPlace, Exists
  <2> QED BY <2>3, <2>4
<1>2. OrderInv /\ EndsInPlace => PhasesInOrder
  BY DEF OrderInv, PhasesInOrder
<1> QED BY <1>1, <1>2, RecordInvariant, StepOrderInv, StepEnds, PTL DEF Spec

(* A pin that was just recorded is live, whatever was retired before.        *)
THEOREM PinsStayLive == Spec => RecordedPinIsLive
<1>1. TypeOK => [\A c \in Commands, x \in Expects, ps \in SUBSET Paths :
          events' = Append(events, Pin(c, x, ps)) =>
              Len(events') \in CommandPins(events')]_vars
  <2> SUFFICES ASSUME TypeOK, NEW c \in Commands, NEW x \in Expects, NEW ps \in SUBSET Paths,
                      events' = Append(events, Pin(c, x, ps))
               PROVE  Len(events') \in CommandPins(events')
    OBVIOUS
  <2>1. events \in Seq(Events) /\ Pin(c, x, ps) \in Events
    BY DEF TypeOK, Events
  <2>2. Len(events') = Len(events) + 1
    BY <2>1, AppendShape
  <2> QED BY <2>1, <2>2, PinIsLive
<1> QED BY <1>1, TypeCorrect, PTL DEF Spec, RecordedPinIsLive

-----------------------------------------------------------------------------
(* The findings register, for any number of sessions, claims and files: it is  *)
(* append-only but for the repair of vanished evidence, and one escape is one  *)
(* finding.                                                                    *)

USE FindingsLawAssumption, RegisterAssumption

(* What a write may do to the findings: add one escape that is new, or       *)
(* rewrite one finding into one that stands for it.                          *)
Grown(fs, gs) ==
    \E c \in Candidate : AppendFindingLawful(fs, c) /\ gs = AppendFinding(fs, c)

Rewritten(fs, gs) ==
    \E i \in DOMAIN fs, g \in Finding :
        gs = [fs EXCEPT ![i] = g] /\ Stands(fs[i], g)

(* The three rewrites yield findings that stand for the old ones. *)
LEMMA RankedSeverities == \A f \in Finding \cup Candidate : f.severity \in 0 .. 3
<1>1. \A f \in Finding \cup Candidate : f.severity \in Severities
  BY DEF Finding, Candidate
<1> QED BY <1>1 DEF FindingsLawAssumption

LEMMA RaiseStands ==
    ASSUME NEW f \in Finding, NEW c \in Candidate, RaiseLawful(f, c)
    PROVE  Raise(f, c) \in Finding /\ Stands(f, Raise(f, c))
<1>1. Raise(f, c) \in Finding
  BY DEF Raise, Candidate, Finding
<1>2. /\ Raise(f, c).claim = f.claim /\ Raise(f, c).place = f.place
      /\ Raise(f, c).severity = c.severity
  BY DEF Raise, Finding
<1>3. f.severity \in 0 .. 3 /\ c.severity \in 0 .. 3
  BY RankedSeverities
<1> QED BY <1>1, <1>2, <1>3 DEF Stands, RaiseLawful

LEMMA ResolveStands ==
    ASSUME NEW f \in Finding, NEW ps \in SUBSET Paths, ResolveLawful(f, disk)
    PROVE  Resolve(f, ps) \in Finding /\ Stands(f, Resolve(f, ps))
<1>1. Resolve(f, ps) \in Finding
  BY DEF Resolve, Finding, Statuses
<1>2. LET g == Resolve(f, ps)
      IN  /\ g.claim = f.claim /\ g.place = f.place /\ g.severity = f.severity
          /\ g.status = "RESOLVED"
  BY DEF Resolve, Finding
<1>3. f.severity \in 0 .. 3
  BY RankedSeverities
<1> QED BY <1>1, <1>2, <1>3 DEF Stands, ResolveLawful, Repairable

LEMMA WontFixStands ==
    ASSUME NEW f \in Finding, WontFixLawful(f)
    PROVE  WontFix(f) \in Finding /\ Stands(f, WontFix(f))
<1>1. WontFix(f) \in Finding
  BY DEF WontFix, Finding, Statuses
<1>2. LET g == WontFix(f)
      IN  g.claim = f.claim /\ g.place = f.place /\ g.severity = f.severity
  BY DEF WontFix, Finding
<1>3. f.severity \in 0 .. 3
  BY RankedSeverities
<1> QED BY <1>1, <1>2, <1>3 DEF Stands, WontFixLawful

LEMMA WrittenFindings ==
    ASSUME TypeOK, register # None, NEW s \in Sessions, NEW op, NEW fs,
           WriteFindings(s, op, fs)
    PROVE  register'.findings = fs
BY DEF TypeOK, Register, WriteFindings

(* The steps of the runner, one by one. *)
LEMMA FinishRegister ==
    ASSUME TypeOK, register # None, NEW s \in Sessions, Finish(s)
    PROVE  \/ register'.findings = register.findings
           \/ Grown(register.findings, register'.findings)
           \/ Rewritten(register.findings, register'.findings)
<1>0. /\ register \in Register /\ register.findings \in Seq(Finding)
      /\ session[s] \in InFlight
  BY DEF TypeOK, Register
<1>1. CASE RedCheckAppend(s) \/ AdvanceCommit(s) \/ WriteBundles(s) \/ GiveUp(s)
  BY <1>1 DEF RedCheckAppend, AdvanceCommit, WriteBundles, GiveUp
<1>2. CASE MintPassMarker(s)
  BY <1>2 DEF MintPassMarker
<1>3. CASE RecordFinding(s)
  <2> DEFINE fs == register.findings
  <2>1. PICK c \in Candidate :
           \/ /\ AppendFindingLawful(fs, c)
              /\ WriteFindings(s, "record", AppendFinding(fs, c))
           \/ \E i \in SameEscape(fs, c) :
                 /\ RaiseLawful(fs[i], c)
                 /\ WriteFindings(s, "record", [fs EXCEPT ![i] = Raise(@, c)])
    BY <1>3 DEF RecordFinding
  <2>2. CASE AppendFindingLawful(fs, c) /\ WriteFindings(s, "record", AppendFinding(fs, c))
    BY <2>2, WrittenFindings DEF Grown
  <2>3. ASSUME NEW i \in SameEscape(fs, c), RaiseLawful(fs[i], c),
               WriteFindings(s, "record", [fs EXCEPT ![i] = Raise(@, c)])
        PROVE  Rewritten(fs, register'.findings)
    <3>1. i \in DOMAIN fs /\ fs[i] \in Finding
      BY <1>0 DEF SameEscape
    <3>2. register'.findings = [fs EXCEPT ![i] = Raise(fs[i], c)]
      BY <2>3, WrittenFindings
    <3> QED BY <2>3, <3>1, <3>2, RaiseStands DEF Rewritten
  <2> QED BY <2>1, <2>2, <2>3
<1>4. CASE ResolveFinding(s)
  <2> DEFINE fs == register.findings
  <2>1. PICK i \in DOMAIN fs :
           /\ ResolveLawful(fs[i], disk)
           /\ WriteFindings(s, "resolve", [fs EXCEPT ![i] = Resolve(@, session[s].evidence)])
    BY <1>4 DEF ResolveFinding
  <2>2. fs[i] \in Finding /\ session[s].evidence \in SUBSET Paths
    BY <1>0, <2>1, InFlightShape DEF WriteFindings
  <2>3. register'.findings = [fs EXCEPT ![i] = Resolve(fs[i], session[s].evidence)]
    BY <2>1, WrittenFindings
  <2> QED BY <2>1, <2>2, <2>3, ResolveStands DEF Rewritten
<1>5. CASE WontFixFinding(s)
  <2> DEFINE fs == register.findings
  <2>1. PICK i \in DOMAIN fs :
           WontFixLawful(fs[i]) /\ WriteFindings(s, "wont-fix", [fs EXCEPT ![i] = WontFix(@)])
    BY <1>5 DEF WontFixFinding
  <2>2. fs[i] \in Finding
    BY <1>0, <2>1
  <2>3. register'.findings = [fs EXCEPT ![i] = WontFix(fs[i])]
    BY <2>1, WrittenFindings
  <2> QED BY <2>1, <2>2, <2>3, WontFixStands DEF Rewritten
<1> QED BY <1>1, <1>2, <1>3, <1>4, <1>5 DEF Finish

LEMMA RegisterStep ==
    ASSUME TypeOK, [Next]_vars
    PROVE  /\ register # None =>
                 \/ register' = register
                 \/ register'.findings = register.findings
                 \/ Grown(register.findings, register'.findings)
                 \/ Rewritten(register.findings, register'.findings)
           /\ register = None => register' = None \/ register'.findings = <<>>
<1>1. CASE UNCHANGED register
  BY <1>1
<1>2. ASSUME NEW s \in Sessions, Finish(s), register # None
      PROVE  \/ register'.findings = register.findings
             \/ Grown(register.findings, register'.findings)
             \/ Rewritten(register.findings, register'.findings)
  BY <1>2, FinishRegister
<1>3. ASSUME NEW s \in Sessions, Finish(s), register = None
      PROVE  register' = None \/ register'.findings = <<>>
  <2>1. CASE MintPassMarker(s)
    BY <1>3, <2>1 DEF MintPassMarker
  <2>2. CASE ~MintPassMarker(s)
    BY <1>3, <2>2 DEF Finish, RedCheckAppend, AdvanceCommit, WriteBundles, GiveUp,
                      RecordFinding, ResolveFinding, WontFixFinding
  <2> QED BY <2>1, <2>2
<1>4. ASSUME NEW s \in Sessions, Issue(s) PROVE UNCHANGED register
  BY <1>4 DEF Issue, RedCheckRun, AdvanceRun, OpenDoor
<1>5. ASSUME New \/ Approve \/ AmendScope \/ RetirePin \/ ExemptPin \/ Retire \/ EditTree \/ AtRest
      PROVE  UNCHANGED register
  BY <1>5 DEF New, Approve, AmendScope, RetirePin, ExemptPin, Retire, Mutate, EditTree, AtRest, vars
<1> QED BY <1>1, <1>2, <1>3, <1>4, <1>5 DEF Next, vars

LEMMA StandsItself ==
    ASSUME NEW f \in Finding PROVE Stands(f, f)
BY RankedSeverities DEF Stands

(* Each finding of the register stands in the next one, at its own place.   *)
LEMMA FindingsStand ==
    ASSUME NEW fs \in Seq(Finding), NEW gs,
           gs = fs \/ Grown(fs, gs) \/ Rewritten(fs, gs)
    PROVE  /\ DOMAIN fs \subseteq DOMAIN gs
           /\ \A i \in DOMAIN fs : Stands(fs[i], gs[i])
<1>0. \A i \in DOMAIN fs : fs[i] \in Finding
  OBVIOUS
<1>1. CASE gs = fs
  BY <1>0, <1>1, StandsItself
<1>2. CASE Grown(fs, gs)
  <2>1. PICK e : gs = Append(fs, e)
    BY <1>2 DEF Grown, AppendFinding
  <2>2. DOMAIN fs \subseteq DOMAIN gs /\ \A i \in DOMAIN fs : gs[i] = fs[i]
    BY <2>1
  <2> QED BY <1>0, <2>2, StandsItself
<1>3. CASE Rewritten(fs, gs)
  <2>1. PICK i \in DOMAIN fs, g \in Finding : gs = [fs EXCEPT ![i] = g] /\ Stands(fs[i], g)
    BY <1>3 DEF Rewritten
  <2>2. DOMAIN gs = DOMAIN fs /\ gs[i] = g /\ \A j \in DOMAIN fs \ {i} : gs[j] = fs[j]
    BY <2>1
  <2> QED BY <1>0, <2>1, <2>2, StandsItself
<1> QED BY <1>1, <1>2, <1>3

(* What is written is findings again. *)
LEMMA FindingsStayTyped ==
    ASSUME NEW fs \in Seq(Finding), NEW gs,
           gs = fs \/ Grown(fs, gs) \/ Rewritten(fs, gs)
    PROVE  gs \in Seq(Finding)
<1>1. CASE Grown(fs, gs)
  BY <1>1, FindingsTyped DEF Grown
<1>2. CASE Rewritten(fs, gs)
  BY <1>2 DEF Rewritten
<1> QED BY <1>1, <1>2

(* A register that is there stays there: no step of anyone removes it.      *)
LEMMA RegisterStays ==
    ASSUME TypeOK, [Next]_vars, register # None PROVE register' # None
<1>1. register \in Register /\ register.findings \in Seq(Finding)
  BY DEF TypeOK, Register
<1>2. ASSUME NEW s \in Sessions, MintPassMarker(s) PROVE register' \in Register
  <2>1. session[s] \in InFlight /\ session[s].op = "mint"
    BY <1>2 DEF TypeOK, MintPassMarker
  <2>2. session[s].swept \in Ranges
    BY <2>1, InFlightShape
  <2>3. register' = [swept |-> session[s].swept, findings |-> register.findings]
    BY <1>2 DEF MintPassMarker
  <2> QED BY <1>1, <2>2, <2>3 DEF Register
<1>3. ASSUME NEW s \in Sessions, NEW op, NEW fs, WriteFindings(s, op, fs), Finish(s)
      PROVE  register' \in Register
  <2>1. register'.findings = fs
    BY <1>3, WrittenFindings
  <2>2. fs \in Seq(Finding)
    BY <1>1, <1>3, <2>1, FinishRegister, FindingsStayTyped
  <2>3. register' = [register EXCEPT !.findings = fs]
    BY <1>3 DEF WriteFindings
  <2> QED BY <1>1, <2>2, <2>3 DEF Register
<1>4. ASSUME NEW s \in Sessions, Finish(s) PROVE register' \in Register
  <2>1. CASE RecordFinding(s) \/ ResolveFinding(s) \/ WontFixFinding(s)
    <3>1. PICK op, fs : WriteFindings(s, op, fs)
      BY <2>1 DEF RecordFinding, ResolveFinding, WontFixFinding
    <3> QED BY <1>3, <1>4, <3>1
  <2>2. CASE RedCheckAppend(s) \/ AdvanceCommit(s) \/ WriteBundles(s) \/ GiveUp(s)
    BY <1>1, <2>2 DEF RedCheckAppend, AdvanceCommit, WriteBundles, GiveUp
  <2> QED BY <1>2, <1>4, <2>1, <2>2 DEF Finish
<1>5. ASSUME NEW s \in Sessions, Issue(s) PROVE UNCHANGED register
  BY <1>5 DEF Issue, RedCheckRun, AdvanceRun, OpenDoor
<1>6. ASSUME New \/ Approve \/ AmendScope \/ RetirePin \/ ExemptPin \/ Retire \/ EditTree \/ AtRest
      PROVE  UNCHANGED register
  BY <1>6 DEF New, Approve, AmendScope, RetirePin, ExemptPin, Retire, Mutate, EditTree, AtRest, vars
<1> QED BY <1>1, <1>4, <1>5, <1>6 DEF Next, vars

(* The register is append-only, whoever writes it and in whatever order: a  *)
(* finding is never dropped, moved or rewritten but for the evidence of its *)
(* resolution, and that only when some of it is gone.                       *)
THEOREM RegisterAppendOnly == Spec => FindingsAppendOnly
<1>1. ASSUME TypeOK, [Next]_vars, register # None
      PROVE  /\ register' # None
             /\ DOMAIN register.findings \subseteq DOMAIN register'.findings
             /\ \A i \in DOMAIN register.findings :
                   Stands(register.findings[i], register'.findings[i])
  <2>1. register.findings \in Seq(Finding)
    BY <1>1 DEF TypeOK, Register
  <2>2. \/ register'.findings = register.findings
        \/ Grown(register.findings, register'.findings)
        \/ Rewritten(register.findings, register'.findings)
    BY <1>1, RegisterStep
  <2> QED BY <1>1, <2>1, <2>2, RegisterStays, FindingsStand
<1> QED BY <1>1, TypeCorrect, PTL DEF Spec, FindingsAppendOnly

(* Distinctness survives what a write may do to the findings.               *)
LEMMA DistinctKept ==
    ASSUME NEW fs \in Seq(Finding), NEW gs,
           gs = fs \/ Grown(fs, gs) \/ Rewritten(fs, gs),
           \A i, j \in DOMAIN fs : DedupKey(fs[i]) = DedupKey(fs[j]) => i = j
    PROVE  \A i, j \in DOMAIN gs : DedupKey(gs[i]) = DedupKey(gs[j]) => i = j
<1>1. CASE Grown(fs, gs)
  <2>1. PICK c \in Candidate : AppendFindingLawful(fs, c) /\ gs = AppendFinding(fs, c)
    BY <1>1 DEF Grown
  <2>2. PICK e : gs = Append(fs, e) /\ e.claim = c.claim /\ e.place = c.place
    BY <2>1 DEF AppendFinding
  <2>3. DedupKey(e) = DedupKey(c)
    BY <2>2 DEF DedupKey
  <2>4. \A i \in DOMAIN fs : DedupKey(fs[i]) # DedupKey(e)
    BY <2>1, <2>3 DEF AppendFindingLawful, SameEscape
  <2>5. /\ \A i \in DOMAIN gs : i \in DOMAIN fs \/ i = Len(fs) + 1
        /\ \A i \in DOMAIN fs : gs[i] = fs[i]
        /\ gs[Len(fs) + 1] = e
    BY <2>2
  <2> QED BY <2>4, <2>5
<1>2. CASE Rewritten(fs, gs)
  <2>1. PICK k \in DOMAIN fs, g \in Finding : gs = [fs EXCEPT ![k] = g] /\ Stands(fs[k], g)
    BY <1>2 DEF Rewritten
  <2>2. DedupKey(g) = DedupKey(fs[k])
    BY <2>1 DEF DedupKey, Stands
  <2>3. DOMAIN gs = DOMAIN fs /\ gs[k] = g /\ \A j \in DOMAIN fs \ {k} : gs[j] = fs[j]
    BY <2>1
  <2>4. \A j \in DOMAIN fs : DedupKey(gs[j]) = DedupKey(fs[j])
    BY <2>2, <2>3
  <2> QED BY <2>3, <2>4
<1> QED BY <1>1, <1>2

(* One escape is one finding, however many sessions record at once.         *)
THEOREM EscapesDistinct == Spec => []DistinctEscapes
<1>1. Init => DistinctEscapes
  BY DEF Init, DistinctEscapes
<1>2. TypeOK /\ DistinctEscapes /\ [Next]_vars => DistinctEscapes'
  <2> SUFFICES ASSUME TypeOK, DistinctEscapes, [Next]_vars, register' # None
               PROVE  \A i, j \in DOMAIN register'.findings :
                          DedupKey(register'.findings[i]) = DedupKey(register'.findings[j]) => i = j
    BY DEF DistinctEscapes, DedupKey
  <2>1. CASE register = None
    <3>1. register'.findings = <<>>
      BY <2>1, RegisterStep
    <3> QED BY <3>1
  <2>2. CASE register # None
    <3>1. register.findings \in Seq(Finding)
      BY <2>2 DEF TypeOK, Register
    <3>2. \/ register'.findings = register.findings
          \/ Grown(register.findings, register'.findings)
          \/ Rewritten(register.findings, register'.findings)
      BY <2>2, RegisterStep
    <3> QED BY <2>2, <3>1, <3>2, DistinctKept DEF DistinctEscapes
  <2> QED BY <2>1, <2>2
<1> QED BY <1>1, <1>2, TypeCorrect, PTL DEF Spec

-----------------------------------------------------------------------------
(***************************************************************************)
(* The printed remedies: whatever blocks a task, each fix leaves less.     *)
(***************************************************************************)

(* Any task that a fix may be printed for, reached or not.                   *)
Blockable ==
    {t \in [class: RiskClasses \cup {None}, events: Seq(Events), register: Register \cup {None},
            disk: SUBSET Paths, green: BOOLEAN, failing: SUBSET Nat] :
        /\ AppendLawful(t.events)
        /\ t.failing \subseteq CommandPins(t.events)
        /\ NextPhase(t.events) # "done" => t.failing = {}}

(* The red-checks that no retirement reached.                                *)
Live(ev) == OfType(ev, "red-check") \ RetiredPins(ev)

LEMMA OfTypeGrows ==
    ASSUME NEW ev \in Seq(Events), NEW e \in Events
    PROVE  OfType(Append(ev, e), e.type) # {}
<1>1. OfType(Append(ev, e), e.type) = OfType(ev, e.type) \cup {Len(ev) + 1}
  BY OfTypeAppend
<1> QED BY <1>1

LEMMA LiveAppend ==
    ASSUME NEW ev \in Seq(Events), NEW e \in Events
    PROVE  LET new == Append(ev, e)
           IN  /\ e.type \notin {"red-check", "pin-retire"} => Live(new) = Live(ev)
               /\ e.type = "red-check" => Live(new) = Live(ev) \cup {Len(ev) + 1}
               /\ e.type = "pin-retire" =>
                     Live(new) = {i \in Live(ev) : ~RetireReaches(e, ev[i])}
               /\ \A i \in Live(ev) : new[i] = ev[i]
               /\ new[Len(ev) + 1] = e
<1> DEFINE new == Append(ev, e)
           n == Len(ev) + 1
<1>1. /\ DOMAIN ev = 1 .. Len(ev) /\ DOMAIN new = 1 .. n /\ Len(ev) \in Nat
      /\ \A i \in DOMAIN ev : new[i] = ev[i]
      /\ new[n] = e
  BY AppendShape
<1>2. \A i \in Live(ev) : i \in DOMAIN ev
  BY DEF Live, OfType
<1>3. ASSUME NEW i \in 1 .. Len(ev)
      PROVE  i \in RetiredPins(new) <=>
                \/ i \in RetiredPins(ev)
                \/ e.type = "pin-retire" /\ RetireReaches(e, ev[i])
  <2>1. i \in DOMAIN new /\ i \in DOMAIN ev /\ new[i] = ev[i] /\ i < n
    BY <1>1
  <2>2. \A j : j \in OfType(new, "pin-retire") <=>
                  j \in OfType(ev, "pin-retire") \/ (j = n /\ e.type = "pin-retire")
    BY OfTypeAppend
  <2>3. \A j \in OfType(ev, "pin-retire") : new[j] = ev[j]
    BY <1>1 DEF OfType
  <2> HIDE DEF new, n
  <2> QED BY <1>1, <2>1, <2>2, <2>3 DEF RetiredPins
<1>4. n \notin RetiredPins(new)
  BY <1>1 DEF RetiredPins, OfType
<1>5. \A i : i \in OfType(new, "red-check") <=>
               i \in OfType(ev, "red-check") \/ (i = n /\ e.type = "red-check")
  BY OfTypeAppend
<1>6. OfType(ev, "red-check") \subseteq 1 .. Len(ev)
  BY <1>1 DEF OfType
<1>7. \A i : i \in Live(new) <=>
               \/ i = n /\ e.type = "red-check"
               \/ i \in Live(ev) /\ ~(e.type = "pin-retire" /\ RetireReaches(e, ev[i]))
  <2> HIDE DEF new
  <2> QED BY <1>1, <1>3, <1>4, <1>5, <1>6 DEF Live
<1> HIDE DEF new, n
<1>8. /\ e.type \notin {"red-check", "pin-retire"} => Live(new) = Live(ev)
      /\ e.type = "red-check" => Live(new) = Live(ev) \cup {n}
      /\ e.type = "pin-retire" => Live(new) = {i \in Live(ev) : ~RetireReaches(e, ev[i])}
  BY <1>7
<1>9. \A i \in Live(ev) : new[i] = ev[i]
  BY <1>1, <1>2
<1> QED BY <1>1, <1>8, <1>9 DEF new, n

(* What a task derives from its live red-checks. *)
LEMMA LiveMeans ==
    ASSUME NEW t
    PROVE  /\ CommandPins(t.events) = {i \in Live(t.events) : t.events[i].command # None}
           /\ RedCheckEvidence(t.events) = UNION {t.events[i].evidence : i \in Live(t.events)}
           /\ Citing(t) = {i \in Live(t.events) : ~(t.events[i].evidence \subseteq t.disk)}
BY DEF CommandPins, RedCheckEvidence, Citing, Live

LEMMA FiniteLive ==
    ASSUME NEW ev \in Seq(Events), NEW S \in SUBSET Live(ev)
    PROVE  IsFiniteSet(S) /\ Cardinality(S) \in Nat
<1>1. Len(ev) \in Nat /\ S \in SUBSET (1 .. Len(ev))
  BY DEF Live, OfType
<1>2. IsFiniteSet(1 .. Len(ev))
  BY <1>1, FS_Interval
<1>3. IsFiniteSet(S)
  BY <1>1, <1>2, FS_Subset
<1> QED BY <1>3, FS_CardinalityType

(* The evidence is lost exactly when some live red-check cites a lost file. *)
LEMMA LostEvidence ==
    ASSUME NEW t
    PROVE  RedCheckEvidence(t.events) \subseteq t.disk <=> Citing(t) = {}
<1> DEFINE ev == t.events
           S == {ev[i].evidence : i \in Live(ev)}
<1>1. \A p : p \in UNION S <=> \E x \in S : p \in x
  BY Zenon
<1>2. \A x : x \in S <=> \E i \in Live(ev) : x = ev[i].evidence
  BY Zenon
<1>3. /\ RedCheckEvidence(ev) = UNION S
      /\ Citing(t) = {i \in Live(ev) : ~(ev[i].evidence \subseteq t.disk)}
  BY LiveMeans
<1> HIDE DEF S
<1> QED BY <1>1, <1>2, <1>3

LEMMA NextIs ==
    ASSUME NEW ev \in Seq(Events), AppendLawful(ev)
    PROVE  /\ NextPhase(ev) \in Phases
           /\ Rank[NextPhase(ev)] = Rank[DerivePhase(ev)] + 1
<1>1. DerivePhase(ev) \in Phases \ {"done"}
  BY PhaseTyped DEF AppendLawful, Terminal
<1>2. \E p \in Phases : Rank[p] = Rank[DerivePhase(ev)] + 1
  <2>1. \A q \in {"intake", "planned", "executing", "verified", "adversarial"} :
           \E p \in {"planned", "executing", "verified", "adversarial", "done"} : Rank[p] = Rank[q] + 1
    BY DEF Rank
  <2> QED BY <1>1, <2>1 DEF Phases, Rank
<1> QED BY <1>2 DEF NextPhase

(* What an accepted event leaves of a task. *)
Extended(t, e) ==
    LET ev == Append(t.events, e)
    IN  [t EXCEPT !.events = ev, !.failing = @ \cap CommandPins(ev)]

LEMMA GrownTask ==
    ASSUME NEW t \in Blockable, NEW e \in Events, e.type \notin {"transition", "retired"}
    PROVE  LET u == Extended(t, e)
           IN  /\ u \in Blockable
               /\ u.events = Append(t.events, e)
               /\ NextPhase(u.events) = NextPhase(t.events)
               /\ u.class = t.class /\ u.register = t.register
               /\ u.disk = t.disk /\ u.green = t.green
               /\ u.failing = t.failing \cap CommandPins(u.events)
               /\ Appended(t, TRUE, e) = {u}
<1> DEFINE ev == Append(t.events, e)
           u == Extended(t, e)
<1>1. t.events \in Seq(Events) /\ AppendLawful(t.events)
  BY DEF Blockable
<1>2. ev \in Seq(Events) /\ DerivePhase(ev) = DerivePhase(t.events)
  BY <1>1, PhaseQuiet
<1>3. NextPhase(ev) = NextPhase(t.events) /\ AppendLawful(ev)
  BY <1>1, <1>2 DEF NextPhase, AppendLawful, Terminal
<1>4. /\ u.events = ev /\ u.failing = t.failing \cap CommandPins(ev)
      /\ u.class = t.class /\ u.register = t.register
      /\ u.disk = t.disk /\ u.green = t.green
  BY DEF Blockable, Extended
<1>5. u \in Blockable
  <2> HIDE DEF ev
  <2> QED BY <1>2, <1>3 DEF Blockable, Extended, ev
<1>6. Appended(t, TRUE, e) = {u}
  BY <1>1 DEF Appended, Extended
<1> HIDE DEF u, ev
<1> QED BY <1>3, <1>4, <1>5, <1>6 DEF ev, u

-----------------------------------------------------------------------------
(* Counting. *)

Unpinned(t) ==
    /\ CommandPins(t.events) = {}
    /\ \/ RedCheckEvidence(t.events) = {}
       \/ t.class \notin NonCodeClasses /\ ~HasPinExemption(t.events)

LEMMA FewerLeft ==
    ASSUME NEW S, IsFiniteSet(S), NEW i \in S, NEW R \in SUBSET (S \ {i})
    PROVE  Cardinality(R) <= Cardinality(S) - 1
<1>1. IsFiniteSet(S \ {i}) /\ Cardinality(S \ {i}) = Cardinality(S) - 1
  BY FS_RemoveElement
<1>2. Cardinality(R) <= Cardinality(S \ {i})
  BY <1>1, FS_Subset
<1> QED BY <1>1, <1>2

LEMMA ToVerify ==
    ASSUME NEW t \in Blockable, NextPhase(t.events) = "verified"
    PROVE  /\ Obstacles(t) = Count(~t.green) + Count(Unpinned(t)) + 2 * Cardinality(Citing(t))
           /\ Refusal(t) = VerificationRefusal(t)
           /\ IsFiniteSet(Citing(t)) /\ Cardinality(Citing(t)) \in Nat
           /\ t.green \in BOOLEAN /\ t.failing = {}
<1>1. Citing(t) \in SUBSET Live(t.events)
  BY LiveMeans
<1>2. t.events \in Seq(Events) /\ t.green \in BOOLEAN /\ t.failing = {}
  BY DEF Blockable
<1>3. IsFiniteSet(Citing(t)) /\ Cardinality(Citing(t)) \in Nat
  BY <1>1, <1>2, FiniteLive
<1>4. Obstacles(t) = Count(~t.green) + Count(Unpinned(t)) + 2 * Cardinality(Citing(t))
  BY DEF Obstacles, Unpinned
<1>5. Refusal(t) = VerificationRefusal(t)
  BY DEF Refusal
<1> QED BY <1>2, <1>3, <1>4, <1>5

LEMMA ToFinish ==
    ASSUME NEW t \in Blockable, NextPhase(t.events) = "done"
    PROVE  /\ Obstacles(t) =
                 Count(t.register = None) + Count(~Clean(FindingsOf(t)))
                    + Count(MissingResolveEvidence(FindingsOf(t), t.disk) # {})
                    + Count(~PinnedForDone(t.class, t.events)) + 2 * Cardinality(t.failing)
           /\ Refusal(t) = DoneRefusal(t)
           /\ IsFiniteSet(t.failing) /\ Cardinality(t.failing) \in Nat
           /\ t.register # None => t.register \in Register /\ FindingsOf(t) \in Seq(Finding)
<1>1. t.events \in Seq(Events) /\ t.failing \in SUBSET CommandPins(t.events)
  BY DEF Blockable
<1>2. CommandPins(t.events) \subseteq Live(t.events)
  BY LiveMeans
<1>3. IsFiniteSet(t.failing) /\ Cardinality(t.failing) \in Nat
  BY <1>1, <1>2, FiniteLive
<1>4. t.register # None => t.register \in Register /\ FindingsOf(t) \in Seq(Finding)
  BY DEF Blockable, FindingsOf, Register
<1>5. Refusal(t) = DoneRefusal(t)
  BY DEF Refusal
<1> QED BY <1>3, <1>4, <1>5 DEF Obstacles

(* Nothing is refused exactly when nothing is in the way. *)
LEMMA RefusedIsBlocked ==
    ASSUME NEW t \in Blockable
    PROVE  /\ Refusal(t) = "none" <=> Obstacles(t) = 0
           /\ Obstacles(t) \in Nat
<1>1. CASE NextPhase(t.events) = "executing"
  <2>1. Obstacles(t) = Count(~ExecutionGuard(t.class, t.events)) /\ Refusal(t) = ExecutionRefusal(t)
    BY <1>1 DEF Obstacles, Refusal
  <2>2. ExecutionRefusal(t) = "none" <=> ExecutionGuard(t.class, t.events)
    BY DEF ExecutionRefusal, ExecutionGuard
  <2> QED BY <2>1, <2>2 DEF Count
<1>2. CASE NextPhase(t.events) = "verified"
  <2>1. Cardinality(Citing(t)) = 0 <=> RedCheckEvidence(t.events) \subseteq t.disk
    BY <1>2, ToVerify, LostEvidence, FS_EmptySet
  <2>2. VerificationRefusal(t) = "none" <=>
           t.green /\ ~Unpinned(t) /\ RedCheckEvidence(t.events) \subseteq t.disk
    BY DEF VerificationRefusal, Unpinned
  <2>3. /\ Count(~t.green) \in {0, 1} /\ (Count(~t.green) = 0 <=> t.green)
        /\ Count(Unpinned(t)) \in {0, 1} /\ (Count(Unpinned(t)) = 0 <=> ~Unpinned(t))
    BY <1>2, ToVerify DEF Count
  <2> QED BY <1>2, <2>1, <2>2, <2>3, ToVerify
<1>3. CASE NextPhase(t.events) = "done"
  <2> DEFINE fs == FindingsOf(t)
             missing == MissingResolveEvidence(fs, t.disk) # {}
             pinned == PinnedForDone(t.class, t.events)
  <2>1. DoneRefusal(t) = "none" <=>
           t.register # None /\ Clean(fs) /\ ~missing /\ pinned /\ t.failing = {}
    BY DEF DoneRefusal, FindingsOf
  <2>2. Cardinality(t.failing) \in Nat /\ (Cardinality(t.failing) = 0 <=> t.failing = {})
    BY <1>3, ToFinish, FS_EmptySet
  <2>3. /\ Count(t.register = None) \in {0, 1} /\ (Count(t.register = None) = 0 <=> t.register # None)
        /\ Count(~Clean(fs)) \in {0, 1} /\ (Count(~Clean(fs)) = 0 <=> Clean(fs))
        /\ Count(missing) \in {0, 1} /\ (Count(missing) = 0 <=> ~missing)
        /\ Count(~pinned) \in {0, 1} /\ (Count(~pinned) = 0 <=> pinned)
    BY DEF Count
  <2>4. /\ Obstacles(t) = Count(t.register = None) + Count(~Clean(fs)) + Count(missing)
                            + Count(~pinned) + 2 * Cardinality(t.failing)
        /\ Refusal(t) = DoneRefusal(t)
    BY <1>3, ToFinish
  <2> HIDE DEF fs, missing, pinned
  <2> QED BY <2>1, <2>2, <2>3, <2>4
<1>4. CASE NextPhase(t.events) \notin {"executing", "verified", "done"}
  BY <1>4 DEF Obstacles, Refusal
<1> QED BY <1>1, <1>2, <1>3, <1>4

-----------------------------------------------------------------------------
(* Each fix, of the refusals that print it. *)

Shortens(fix, t) ==
    /\ Follow(fix, t) # {}
    /\ \A u \in Follow(fix, t) : u \in Blockable /\ Obstacles(u) < Obstacles(t)

LEMMA ApprovalExecutes ==
    ASSUME NEW t \in Blockable, NextPhase(t.events) = "executing", Refusal(t) # "none",
           NEW fix \in Fixes(t, Refusal(t))
    PROVE  Shortens(fix, t)
<1>1. /\ Refusal(t) = ExecutionRefusal(t) /\ ~ExecutionGuard(t.class, t.events)
      /\ Obstacles(t) = 1
  <2>1. Refusal(t) = ExecutionRefusal(t) /\ Obstacles(t) = Count(~ExecutionGuard(t.class, t.events))
    BY DEF Refusal, Obstacles
  <2>2. ~ExecutionGuard(t.class, t.events)
    BY <2>1 DEF ExecutionRefusal, ExecutionGuard
  <2> QED BY <2>1, <2>2 DEF Count
<1>2. CASE Refusal(t) = "implementation-forbidden"
  <2> DEFINE u == [t EXCEPT !.class = "runtime-code", !.events = <<Created>>]
  <2>1. fix = "new" /\ Follow(fix, t) = {u}
    <3>1. fix = "new"
      BY <1>2 DEF Fixes
    <3> QED BY <3>1 DEF Follow
  <2>2. u.events = <<Created>> /\ t.failing = {}
    BY DEF Blockable
  <2>3. <<Created>> \in Seq(Events) /\ DerivePhase(<<Created>>) = "intake"
    <3>1. <<Created>> \in Seq(Events)
      BY EventsTyped
    <3>2. OfType(<<Created>>, "transition") = {} /\ OfType(<<Created>>, "retired") = {}
      BY DEF OfType, Created
    <3> QED BY <3>1, <3>2 DEF DerivePhase
  <2>4. AppendLawful(<<Created>>) /\ NextPhase(<<Created>>) = "planned"
    <3>1. AppendLawful(<<Created>>)
      BY <2>3 DEF AppendLawful, Terminal
    <3>2. NextPhase(<<Created>>) \in Phases /\ Rank[NextPhase(<<Created>>)] = Rank["intake"] + 1
      BY <2>3, <3>1, NextIs
    <3> QED BY <3>1, <3>2 DEF Phases, Rank
  <2>5. u \in Blockable
    BY <2>2, <2>3, <2>4 DEF Blockable, RiskClasses
  <2>6. Obstacles(u) = 0
    BY <2>2, <2>4 DEF Obstacles
  <2> HIDE DEF u
  <2> QED BY <1>1, <2>1, <2>5, <2>6 DEF Shortens
<1>3. CASE Refusal(t) = "unapproved"
  <2> DEFINE u == Extended(t, Approval)
  <2>1. Approval \in Events /\ Approval.type = "approval"
    BY EventsTyped DEF Approval
  <2>2. /\ u \in Blockable /\ u.events = Append(t.events, Approval) /\ u.class = t.class
        /\ NextPhase(u.events) = "executing" /\ Appended(t, TRUE, Approval) = {u}
    BY <2>1, GrownTask
  <2>3. t.class \notin ImplementationForbidden
    BY <1>1, <1>3 DEF ExecutionRefusal
  <2> HIDE DEF u
  <2>4. HasApproval(u.events)
    <3>1. t.events \in Seq(Events)
      BY DEF Blockable
    <3>2. OfType(Append(t.events, Approval), "approval") # {}
      BY <2>1, <3>1, OfTypeGrows
    <3> QED BY <2>2, <3>2 DEF HasApproval
  <2>5. Obstacles(u) = 0
    BY <2>2, <2>3, <2>4 DEF Obstacles, Count, ExecutionGuard
  <2>6. fix = "approve"
    BY <1>3 DEF Fixes
  <2>7. Follow(fix, t) = Appended(t, TRUE, Approval)
    BY <2>6 DEF Follow
  <2>8. Follow(fix, t) = {u}
    BY <2>2, <2>7, Zenon
  <2> QED BY <1>1, <2>2, <2>5, <2>8 DEF Shortens
<1> QED BY <1>1, <1>2, <1>3 DEF ExecutionRefusal, ExecutionGuard

(* The events that the fixes append, and what they change.                   *)
LEMMA PinGrown ==
    ASSUME NEW t \in Blockable, NEW c \in Commands, NEW x \in Expects
    PROVE  LET e == Pin(c, x, {})
               u == Extended(t, e)
           IN  /\ e \in Events /\ e.type \notin {"transition", "retired"}
               /\ CommandPins(u.events) # {}
               /\ Citing(u) = Citing(t)
               /\ u.failing = t.failing
<1> DEFINE e == Pin(c, x, {})
           u == Extended(t, e)
<1>1. e \in Events /\ e.type = "red-check" /\ e.evidence = {}
  BY EventsTyped DEF Pin
<1>2. /\ t.events \in Seq(Events) /\ u.events = Append(t.events, e) /\ u.disk = t.disk
      /\ u.failing = t.failing \cap CommandPins(u.events) /\ t.failing \subseteq CommandPins(t.events)
  <2> HIDE DEF e
  <2> QED BY <1>1, GrownTask DEF Blockable
<1>3. Len(t.events) + 1 \in CommandPins(u.events)
  BY <1>2, PinIsLive
<1> HIDE DEF e, u
<1>4. /\ Live(u.events) = Live(t.events) \cup {Len(t.events) + 1}
      /\ \A i \in Live(t.events) : u.events[i] = t.events[i]
      /\ u.events[Len(t.events) + 1] = e
  <2>1. /\ Live(Append(t.events, e)) = Live(t.events) \cup {Len(t.events) + 1}
        /\ \A i \in Live(t.events) : Append(t.events, e)[i] = t.events[i]
        /\ Append(t.events, e)[Len(t.events) + 1] = e
    BY <1>1, <1>2, LiveAppend
  <2> QED BY <1>2, <2>1
<1>5. /\ Citing(u) = {i \in Live(u.events) : ~(u.events[i].evidence \subseteq u.disk)}
      /\ Citing(t) = {i \in Live(t.events) : ~(t.events[i].evidence \subseteq t.disk)}
      /\ CommandPins(u.events) = {i \in Live(u.events) : u.events[i].command # None}
      /\ CommandPins(t.events) = {i \in Live(t.events) : t.events[i].command # None}
  BY LiveMeans, Zenon
<1>6. Citing(u) = Citing(t)
  <2>1. ~(Len(t.events) + 1 \in Citing(u))
    BY <1>1, <1>4, <1>5
  <2> QED BY <1>2, <1>4, <1>5, <2>1
<1>7. CommandPins(t.events) \subseteq CommandPins(u.events)
  BY <1>4, <1>5
<1>8. u.failing = t.failing
  BY <1>2, <1>7
<1> QED BY <1>1, <1>3, <1>6, <1>8 DEF e, u

LEMMA ExemptionGrown ==
    ASSUME NEW t \in Blockable
    PROVE  LET u == Extended(t, PinExemption)
           IN  /\ PinExemption \in Events /\ PinExemption.type \notin {"transition", "retired"}
               /\ HasPinExemption(u.events)
               /\ CommandPins(u.events) = CommandPins(t.events)
               /\ RedCheckEvidence(u.events) = RedCheckEvidence(t.events)
               /\ Citing(u) = Citing(t)
               /\ u.failing = t.failing
<1> DEFINE e == PinExemption
           u == Extended(t, e)
<1>1. e \in Events /\ e.type = "pin-exemption"
  BY EventsTyped DEF PinExemption
<1>2. /\ t.events \in Seq(Events) /\ u.events = Append(t.events, e) /\ u.disk = t.disk
      /\ u.failing = t.failing \cap CommandPins(u.events) /\ t.failing \subseteq CommandPins(t.events)
  BY <1>1, GrownTask DEF Blockable
<1> HIDE DEF e, u
<1>3. OfType(Append(t.events, e), "pin-exemption") # {}
  <2>1. t.events \in Seq(Events)
    BY <1>2
  <2> QED BY <1>1, <2>1, OfTypeGrows
<1>4. Live(u.events) = Live(t.events) /\ \A i \in Live(t.events) : u.events[i] = t.events[i]
  <2>1. /\ Live(Append(t.events, e)) = Live(t.events)
        /\ \A i \in Live(t.events) : Append(t.events, e)[i] = t.events[i]
    BY <1>1, <1>2, LiveAppend
  <2> QED BY <1>2, <2>1
<1>5. CommandPins(u.events) = CommandPins(t.events) /\ Citing(u) = Citing(t)
  <2>1. /\ Citing(u) = {i \in Live(u.events) : ~(u.events[i].evidence \subseteq u.disk)}
        /\ Citing(t) = {i \in Live(t.events) : ~(t.events[i].evidence \subseteq t.disk)}
        /\ CommandPins(u.events) = {i \in Live(u.events) : u.events[i].command # None}
        /\ CommandPins(t.events) = {i \in Live(t.events) : t.events[i].command # None}
    BY LiveMeans, Zenon
  <2> QED BY <1>2, <1>4, <2>1
<1>6. RedCheckEvidence(u.events) = RedCheckEvidence(t.events)
  <2>1. {u.events[i].evidence : i \in Live(u.events)} = {t.events[i].evidence : i \in Live(t.events)}
    BY <1>4
  <2> QED BY <2>1, LiveMeans
<1>7. HasPinExemption(u.events)
  BY <1>2, <1>3 DEF HasPinExemption
<1> QED BY <1>1, <1>2, <1>5, <1>6, <1>7 DEF e, u

LEMMA RetireGrown ==
    ASSUME NEW t \in Blockable, NEW i \in CommandPins(t.events),
           NEW x \in {t.events[i].expect, None}
    PROVE  LET e == PinRetire(t.events[i].command, x)
               u == Extended(t, e)
           IN  /\ e \in Events /\ e.type \notin {"transition", "retired"}
               /\ PinRetireLawful(t.events, t.events[i].command, x)
               /\ Citing(u) \subseteq Citing(t) \ {i}
               /\ u.failing \subseteq t.failing \ {i}
<1> DEFINE ev == t.events
           c == ev[i].command
           e == PinRetire(c, x)
           u == Extended(t, e)
<1>1. /\ ev \in Seq(Events) /\ AppendLawful(ev) /\ t.failing \subseteq CommandPins(ev)
      /\ i \in Live(ev) /\ c # None
  BY LiveMeans DEF Blockable
<1>2. i \in DOMAIN ev \ RetiredPins(ev) /\ ev[i] \in Events /\ ev[i].type = "red-check"
  BY <1>1 DEF Live, OfType
<1>3. c \in Commands /\ ev[i].expect \in Expects \cup {None}
  <2>1. \A d \in Events : d.type = "red-check" =>
           d.command \in Commands \cup {None} /\ d.expect \in Expects \cup {None}
    BY DEF Events, Created, Approval, PinExemption, Retired, Transition, Scope, Pin, PinRetire
  <2> QED BY <1>1, <1>2, <2>1
<1>4. e \in Events /\ e.type = "pin-retire" /\ e.command = c /\ e.expect = x
  BY <1>3, EventsTyped DEF PinRetire
<1>5. RetireReaches(e, ev[i])
  BY <1>2, <1>4 DEF RetireReaches
<1>6. PinRetireLawful(ev, c, x)
  BY <1>1, <1>2, <1>5 DEF PinRetireLawful
<1>7. /\ u.events = Append(ev, e) /\ u.disk = t.disk
      /\ u.failing = t.failing \cap CommandPins(u.events)
  <2> HIDE DEF e
  <2> QED BY <1>4, GrownTask
<1>8. /\ Live(u.events) = {j \in Live(ev) : ~RetireReaches(e, ev[j])}
      /\ \A j \in Live(ev) : u.events[j] = ev[j]
  <2> HIDE DEF e, u
  <2>1. /\ Live(Append(ev, e)) = {j \in Live(ev) : ~RetireReaches(e, ev[j])}
        /\ \A j \in Live(ev) : Append(ev, e)[j] = ev[j]
    <3> HIDE DEF ev, c
    <3>1. ev \in Seq(Events) /\ e \in Events /\ e.type = "pin-retire"
      BY <1>1, <1>4
    <3> QED BY <3>1, LiveAppend, Zenon
  <2>2. u.events = Append(ev, e)
    BY <1>7
  <2> HIDE DEF ev
  <2> QED BY <2>1, <2>2
<1>9. Citing(u) \subseteq Citing(t) \ {i} /\ u.failing \subseteq t.failing \ {i}
  <2> HIDE DEF e, u, ev
  <2>1. /\ Citing(u) = {j \in Live(u.events) : ~(u.events[j].evidence \subseteq u.disk)}
        /\ Citing(t) = {j \in Live(t.events) : ~(t.events[j].evidence \subseteq t.disk)}
        /\ CommandPins(u.events) = {j \in Live(u.events) : u.events[j].command # None}
    BY LiveMeans, Zenon
  <2> QED BY <1>5, <1>7, <1>8, <2>1 DEF ev
<1> QED BY <1>4, <1>6, <1>9

LEMMA Shortened ==
    ASSUME NEW fix, NEW t, Follow(fix, t) # {},
           \A u \in Follow(fix, t) : u \in Blockable /\ Obstacles(u) < Obstacles(t)
    PROVE  Shortens(fix, t)
BY DEF Shortens

(* red-check prints a fix that may pin any command.                          *)
LEMMA Pinnings ==
    ASSUME NEW t \in Blockable, Supplied
    PROVE  /\ Follow("red-check", t) # {}
           /\ \A u \in Follow("red-check", t) :
                 \E c \in Commands, x \in Expects : u = Extended(t, Pin(c, x, {}))
<1>1. \A c \in Commands, x \in Expects : Appended(t, TRUE, Pin(c, x, {})) = {Extended(t, Pin(c, x, {}))}
  <2> TAKE c \in Commands, x \in Expects
  <2> DEFINE e == Pin(c, x, {})
  <2>1. e \in Events /\ e.type \notin {"transition", "retired"}
    BY PinGrown
  <2> HIDE DEF e
  <2>2. Appended(t, TRUE, e) = {Extended(t, e)}
    BY <2>1, GrownTask
  <2> QED BY <2>2 DEF e
<1> DEFINE S == {Appended(t, TRUE, Pin(c, x, {})) : c \in Commands, x \in Expects}
<1>2. \A w : w \in S <=> \E c \in Commands, x \in Expects : w = Appended(t, TRUE, Pin(c, x, {}))
  BY SMT
<1>3. \A u : u \in Follow("red-check", t) <=> \E w \in S : u \in w
  <2>1. Follow("red-check", t) = UNION S
    BY DEF Follow
  <2> HIDE DEF S
  <2> QED BY <2>1, Zenon
<1>4. PICK c \in Commands, x \in Expects : TRUE
  BY DEF Supplied
<1> HIDE DEF S
<1>5. Extended(t, Pin(c, x, {})) \in Follow("red-check", t)
  BY <1>1, <1>2, <1>3, <1>4
<1>6. ASSUME NEW u \in Follow("red-check", t)
      PROVE  \E d \in Commands, y \in Expects : u = Extended(t, Pin(d, y, {}))
  <2>1. PICK w \in S : u \in w
    BY <1>3
  <2>2. PICK d \in Commands, y \in Expects : w = Appended(t, TRUE, Pin(d, y, {}))
    BY <1>2
  <2>3. w = {Extended(t, Pin(d, y, {}))}
    BY <1>1, <2>2
  <2> QED BY <2>1, <2>3
<1> QED BY <1>5, <1>6

Named(t) == IF t.failing # {} THEN t.failing ELSE Citing(t)

LEMMA Retirements ==
    ASSUME NEW t \in Blockable, Named(t) \subseteq CommandPins(t.events), Named(t) # {}
    PROVE  /\ Follow("pin-retire", t) # {}
           /\ \A u \in Follow("pin-retire", t) : \E i \in Named(t) :
                 /\ u \in Blockable /\ NextPhase(u.events) = NextPhase(t.events)
                 /\ u.class = t.class /\ u.register = t.register
                 /\ u.disk = t.disk /\ u.green = t.green
                 /\ Citing(u) \subseteq Citing(t) \ {i}
                 /\ u.failing \subseteq t.failing \ {i}
<1> DEFINE S == Named(t)
           E(i, x) == PinRetire(t.events[i].command, x)
           Xs(i) == {t.events[i].expect, None}
<1>1. ASSUME NEW i \in S, NEW x \in Xs(i)
      PROVE  /\ Appended(t, PinRetireLawful(t.events, t.events[i].command, x), E(i, x)) = {Extended(t, E(i, x))}
             /\ LET u == Extended(t, E(i, x))
                IN  /\ u \in Blockable /\ NextPhase(u.events) = NextPhase(t.events)
                    /\ u.class = t.class /\ u.register = t.register
                    /\ u.disk = t.disk /\ u.green = t.green
                    /\ Citing(u) \subseteq Citing(t) \ {i}
                    /\ u.failing \subseteq t.failing \ {i}
  <2> DEFINE e == E(i, x)
  <2>1. /\ e \in Events /\ e.type \notin {"transition", "retired"}
        /\ PinRetireLawful(t.events, t.events[i].command, x)
        /\ Citing(Extended(t, e)) \subseteq Citing(t) \ {i}
        /\ Extended(t, e).failing \subseteq t.failing \ {i}
    BY RetireGrown
  <2>2. Appended(t, PinRetireLawful(t.events, t.events[i].command, x), e) = Appended(t, TRUE, e)
    BY <2>1 DEF Appended
  <2> HIDE DEF e
  <2>3. /\ Extended(t, e) \in Blockable /\ NextPhase(Extended(t, e).events) = NextPhase(t.events)
        /\ Extended(t, e).class = t.class /\ Extended(t, e).register = t.register
        /\ Extended(t, e).disk = t.disk /\ Extended(t, e).green = t.green
        /\ Appended(t, TRUE, e) = {Extended(t, e)}
    BY <2>1, GrownTask
  <2> QED BY <2>1, <2>2, <2>3 DEF e
<1>2. \A i \in S : RetireOne(t, i) =
         UNION {Appended(t, PinRetireLawful(t.events, t.events[i].command, x), E(i, x)) : x \in Xs(i)}
  BY DEF RetireOne
<1>3. Follow("pin-retire", t) = UNION {RetireOne(t, i) : i \in S}
  BY DEF Follow, Named
<1>4. \A u : u \in Follow("pin-retire", t) <=> \E i \in S : u \in RetireOne(t, i)
  BY <1>3
<1>5. \A i \in S : \A u : u \in RetireOne(t, i) <=> \E x \in Xs(i) : u = Extended(t, E(i, x))
  <2> TAKE i \in S
  <2> HIDE DEF E, Xs
  <2>1. \A x \in Xs(i) : Appended(t, PinRetireLawful(t.events, t.events[i].command, x), E(i, x)) = {Extended(t, E(i, x))}
    BY <1>1
  <2> QED BY <1>2, <2>1
<1>6. \A i \in S : \E x : x \in Xs(i)
  OBVIOUS
<1> HIDE DEF E, Xs
<1> QED BY <1>1, <1>4, <1>5, <1>6

LEMMA VerificationFixed ==
    ASSUME NEW t \in Blockable, NextPhase(t.events) = "verified", Refusal(t) # "none", Supplied,
           NEW fix \in Fixes(t, Refusal(t))
    PROVE  Shortens(fix, t)
<1> DEFINE Few(u) == u \in Blockable /\ NextPhase(u.events) = "verified"
<1>1. ASSUME NEW u, Few(u)
      PROVE  /\ Obstacles(u) = Count(~u.green) + Count(Unpinned(u)) + 2 * Cardinality(Citing(u))
             /\ Count(~u.green) \in {0, 1} /\ Count(Unpinned(u)) \in {0, 1}
             /\ IsFiniteSet(Citing(u)) /\ Cardinality(Citing(u)) \in Nat
  BY <1>1, ToVerify DEF Count
<1>2. Few(t) /\ Refusal(t) = VerificationRefusal(t) /\ t.failing = {}
  BY ToVerify
<1>3. CASE fix = "repair"
  <2> DEFINE u == [t EXCEPT !.green = TRUE, !.failing = {}]
  <2>1. Refusal(t) = "battery red" /\ ~t.green
    BY <1>2, <1>3 DEF Fixes, VerificationRefusal
  <2>2. /\ u.events = t.events /\ u.disk = t.disk /\ u.class = t.class /\ u.green = TRUE
        /\ u \in Blockable
    BY DEF Blockable
  <2>3. Follow(fix, t) = {u}
    BY <1>3 DEF Follow
  <2> HIDE DEF u
  <2>4. Citing(u) = Citing(t) /\ (Unpinned(u) <=> Unpinned(t))
    BY <2>2 DEF Citing, Unpinned
  <2>5. Count(Unpinned(u)) = Count(Unpinned(t)) /\ Count(~u.green) = 0 /\ Count(~t.green) = 1
    BY <2>1, <2>2, <2>4 DEF Count
  <2>6. Obstacles(u) < Obstacles(t)
    BY <1>1, <1>2, <2>2, <2>4, <2>5
  <2> QED BY <2>2, <2>3, <2>6, Shortened
<1>4. CASE fix = "restore"
  <2> DEFINE u == [t EXCEPT !.disk = Paths]
  <2>1. t.green /\ ~Unpinned(t) /\ ~(RedCheckEvidence(t.events) \subseteq t.disk)
    BY <1>2, <1>4 DEF Fixes, VerificationRefusal, Unpinned
  <2>2. /\ u.events = t.events /\ u.disk = Paths /\ u.class = t.class /\ u.green = t.green
        /\ u \in Blockable
    BY DEF Blockable
  <2>3. Follow(fix, t) = {u}
    BY <1>4 DEF Follow
  <2> HIDE DEF u
  <2>4. Citing(u) = {} /\ (Unpinned(u) <=> Unpinned(t))
    <3>1. \A i \in Live(t.events) : t.events[i].evidence \subseteq Paths
      <4>1. \A d \in Events : d.type = "red-check" => d.evidence \subseteq Paths
        BY DEF Events, Created, Approval, PinExemption, Retired, Transition, Scope, Pin, PinRetire
      <4>2. \A i \in Live(t.events) : t.events[i] \in Events /\ t.events[i].type = "red-check"
        BY DEF Blockable, Live, OfType
      <4> QED BY <4>1, <4>2
    <3>2. Citing(u) = {i \in Live(u.events) : ~(u.events[i].evidence \subseteq u.disk)}
      BY LiveMeans, Zenon
    <3> QED BY <2>2, <3>1, <3>2 DEF Unpinned
  <2>5. Citing(t) # {}
    BY <2>1, LostEvidence
  <2>6. /\ Count(Unpinned(u)) = 0 /\ Count(~u.green) = 0
        /\ Cardinality(Citing(u)) = 0 /\ Cardinality(Citing(t)) # 0
    BY <1>1, <1>2, <2>1, <2>2, <2>4, <2>5, FS_EmptySet DEF Count
  <2>7. Obstacles(u) < Obstacles(t)
    BY <1>1, <1>2, <2>2, <2>6
  <2> QED BY <2>2, <2>3, <2>7, Shortened
<1>5. CASE fix = "red-check"
  <2>1. t.green /\ Unpinned(t)
    BY <1>2, <1>5 DEF Fixes, VerificationRefusal, Unpinned
  <2>2. ASSUME NEW c \in Commands, NEW x \in Expects
        PROVE  LET u == Extended(t, Pin(c, x, {})) IN u \in Blockable /\ Obstacles(u) < Obstacles(t)
    <3> DEFINE e == Pin(c, x, {})
               u == Extended(t, e)
    <3>1. /\ e \in Events /\ e.type \notin {"transition", "retired"}
          /\ CommandPins(u.events) # {} /\ Citing(u) = Citing(t)
      BY PinGrown
    <3> HIDE DEF e
    <3>2. Few(u) /\ u.green = t.green
      BY <3>1, GrownTask
    <3> HIDE DEF u
    <3>3. ~Unpinned(u)
      BY <3>1 DEF Unpinned
    <3>4. Count(Unpinned(u)) = 0 /\ Count(Unpinned(t)) = 1 /\ Count(~u.green) = Count(~t.green)
      BY <2>1, <3>2, <3>3 DEF Count
    <3>5. Obstacles(u) < Obstacles(t)
      BY <1>1, <1>2, <3>1, <3>2, <3>4
    <3> QED BY <3>2, <3>5 DEF u, e
  <2> QED BY <1>5, <2>2, Pinnings, Shortened
<1>6. CASE fix = "pin-exempt"
  <2> DEFINE u == Extended(t, PinExemption)
  <2>1. t.green /\ Unpinned(t) /\ RedCheckEvidence(t.events) # {}
    BY <1>2, <1>6 DEF Fixes, VerificationRefusal, Unpinned
  <2>2. /\ HasPinExemption(u.events) /\ RedCheckEvidence(u.events) = RedCheckEvidence(t.events)
        /\ Citing(u) = Citing(t)
        /\ PinExemption \in Events /\ PinExemption.type \notin {"transition", "retired"}
    BY ExemptionGrown
  <2>3. Few(u) /\ u.green = t.green /\ Appended(t, TRUE, PinExemption) = {u}
    BY <2>2, GrownTask
  <2> HIDE DEF u
  <2>4. Follow(fix, t) = Appended(t, TRUE, PinExemption)
    BY <1>6 DEF Follow
  <2>5. Follow(fix, t) = {u}
    BY <2>3, <2>4, Zenon
  <2>6. ~Unpinned(u)
    BY <2>1, <2>2 DEF Unpinned
  <2>7. Count(Unpinned(u)) = 0 /\ Count(Unpinned(t)) = 1 /\ Count(~u.green) = Count(~t.green)
    BY <2>1, <2>3, <2>6 DEF Count
  <2>8. Obstacles(u) < Obstacles(t)
    BY <1>1, <1>2, <2>2, <2>3, <2>7
  <2> QED BY <2>3, <2>5, <2>8, Shortened
<1>7. CASE fix = "pin-retire"
  <2>1. /\ ~(RedCheckEvidence(t.events) \subseteq t.disk) /\ Citing(t) \subseteq CommandPins(t.events)
        /\ ~Unpinned(t)
    BY <1>2, <1>7 DEF Fixes, VerificationRefusal, Unpinned
  <2>2. Citing(t) # {}
    BY <2>1, LostEvidence
  <2>3. /\ Follow("pin-retire", t) # {}
        /\ \A u \in Follow("pin-retire", t) : \E i \in Citing(t) :
              Few(u) /\ u.green = t.green /\ Citing(u) \subseteq Citing(t) \ {i}
    <3>1. Named(t) = Citing(t)
      BY <1>2 DEF Named
    <3> QED BY <1>2, <2>1, <2>2, <3>1, Retirements
  <2>4. ASSUME NEW u \in Follow("pin-retire", t) PROVE u \in Blockable /\ Obstacles(u) < Obstacles(t)
    <3>1. PICK i \in Citing(t) : Few(u) /\ u.green = t.green /\ Citing(u) \in SUBSET (Citing(t) \ {i})
      BY <2>3
    <3>2. Cardinality(Citing(u)) <= Cardinality(Citing(t)) - 1
      BY <1>1, <1>2, <3>1, FewerLeft
    <3>3. Count(Unpinned(t)) = 0 /\ Count(~u.green) = Count(~t.green)
      BY <2>1, <3>1 DEF Count
    <3> QED BY <1>1, <1>2, <3>1, <3>2, <3>3
  <2> QED BY <1>7, <2>3, <2>4, Shortened
<1>8. fix \in {"repair", "restore", "red-check", "pin-exempt", "pin-retire"}
  BY <1>2 DEF Fixes, VerificationRefusal
<1> QED BY <1>3, <1>4, <1>5, <1>6, <1>7, <1>8

(* What blocks the last transition, besides the pins that fail.              *)
Others(t) ==
    Count(t.register = None) + Count(~Clean(FindingsOf(t)))
        + Count(MissingResolveEvidence(FindingsOf(t), t.disk) # {})

LEMMA ToFinishMeans ==
    ASSUME NEW t \in Blockable, NextPhase(t.events) = "done"
    PROVE  /\ Obstacles(t) = Others(t) + Count(~PinnedForDone(t.class, t.events)) + 2 * Cardinality(t.failing)
           /\ Others(t) \in Nat /\ Count(~PinnedForDone(t.class, t.events)) \in {0, 1}
           /\ IsFiniteSet(t.failing) /\ Cardinality(t.failing) \in Nat
           /\ Refusal(t) = DoneRefusal(t)
<1>1. /\ Count(t.register = None) \in {0, 1} /\ Count(~Clean(FindingsOf(t))) \in {0, 1}
      /\ Count(MissingResolveEvidence(FindingsOf(t), t.disk) # {}) \in {0, 1}
      /\ Count(~PinnedForDone(t.class, t.events)) \in {0, 1}
  BY DEF Count
<1>2. Others(t) \in Nat
  BY <1>1 DEF Others
<1>3. Obstacles(t) = Others(t) + Count(~PinnedForDone(t.class, t.events)) + 2 * Cardinality(t.failing)
  BY ToFinish DEF Others
<1>4. IsFiniteSet(t.failing) /\ Cardinality(t.failing) \in Nat /\ Refusal(t) = DoneRefusal(t)
  BY ToFinish
<1> QED BY <1>1, <1>2, <1>3, <1>4

(* Closing the open findings, or those whose resolution lost a file.         *)
Closed(t, u, fix, which, ps) ==
    LET fs == t.register.findings
        gs == u.register.findings
    IN  /\ u \in Blockable /\ u.events = t.events /\ u.class = t.class
        /\ u.failing = t.failing /\ u.green = t.green
        /\ u.register \in Register /\ DOMAIN gs = DOMAIN fs
        /\ u.disk = t.disk \cup ps
        /\ \A i \in DOMAIN fs \ which : gs[i] = fs[i]
        /\ \A i \in which : gs[i] = IF fix = "resolve" THEN Resolve(fs[i], ps) ELSE WontFix(fs[i])

LEMMA Closings ==
    ASSUME NEW t \in Blockable, t.register \in Register, NEW fix \in {"resolve", "wont-fix"},
           NEW which \in SUBSET DOMAIN t.register.findings, Paths # {},
           \A i \in which : IF fix = "resolve" THEN ResolveLawful(t.register.findings[i], t.disk)
                                               ELSE WontFixLawful(t.register.findings[i])
    PROVE  /\ Closing(t, fix, which) # {}
           /\ \A u \in Closing(t, fix, which) : \E ps \in SUBSET Paths : Closed(t, u, fix, which, ps)
<1> DEFINE fs == t.register.findings
           close(f, ps) == IF fix = "resolve" THEN Resolve(f, ps) ELSE WontFix(f)
           R(ps) == [i \in DOMAIN fs |-> IF i \in which THEN close(fs[i], ps) ELSE fs[i]]
           u(ps) == [t EXCEPT !.disk = @ \cup ps, !.register.findings = R(ps)]
           P == IF fix = "resolve" THEN (SUBSET Paths) \ {{}} ELSE {{}}
<1>1. fs \in Seq(Finding) /\ t.events \in Seq(Events) /\ AppendLawful(t.events)
  BY DEF Blockable, Register
<1>2. P \in SUBSET SUBSET Paths /\ P # {}
  OBVIOUS
<1>3. Closing(t, fix, which) = {u(ps) : ps \in P}
  BY <1>1 DEF Closing
<1>4. \A f \in Finding, ps \in SUBSET Paths : close(f, ps) \in Finding
  BY DEF Resolve, WontFix, Finding, Statuses
<1>5. ASSUME NEW ps \in SUBSET Paths
      PROVE  /\ u(ps) \in Blockable /\ u(ps).events = t.events /\ u(ps).class = t.class
             /\ u(ps).failing = t.failing /\ u(ps).green = t.green
             /\ u(ps).register \in Register /\ DOMAIN u(ps).register.findings = DOMAIN fs
             /\ u(ps).disk = t.disk \cup ps
             /\ \A i \in DOMAIN fs \ which : u(ps).register.findings[i] = fs[i]
             /\ \A i \in which : u(ps).register.findings[i] = close(fs[i], ps)
  <2> DEFINE gs == R(ps)
  <2>1. gs \in Seq(Finding) /\ DOMAIN gs = DOMAIN fs
    <3>1. \A i \in DOMAIN fs : fs[i] \in Finding
      BY <1>1
    <3>2. DOMAIN fs = 1 .. Len(fs) /\ Len(fs) \in Nat
      BY <1>1
    <3>3. gs \in [1 .. Len(fs) -> Finding]
      <4> HIDE DEF close
      <4> QED BY <1>4, <3>1, <3>2
    <3> HIDE DEF gs
    <3> QED BY <3>2, <3>3
  <2>2. /\ \A i \in DOMAIN fs \ which : gs[i] = fs[i]
        /\ \A i \in which : gs[i] = close(fs[i], ps)
    <3> HIDE DEF close
    <3> QED OBVIOUS
  <2> HIDE DEF gs, close
  <2> DEFINE reg == [t.register EXCEPT !.findings = gs]
             w == [t EXCEPT !.disk = @ \cup ps, !.register = reg]
  <2>3. reg \in Register /\ reg.findings = gs
    BY <2>1 DEF Register
  <2>4. u(ps) = w
    BY DEF gs, Blockable, Register
  <2> HIDE DEF reg
  <2>5. /\ w \in Blockable /\ w.events = t.events /\ w.class = t.class /\ w.failing = t.failing
        /\ w.green = t.green /\ w.register = reg /\ w.disk = t.disk \cup ps
    BY <2>3 DEF Blockable
  <2> HIDE DEF w, u
  <2> QED BY <2>1, <2>2, <2>3, <2>4, <2>5
<1>6. \A v \in Closing(t, fix, which) : \E ps \in SUBSET Paths : v = u(ps)
  <2> HIDE DEF u, P
  <2> QED BY <1>2, <1>3
<1>7. Closing(t, fix, which) # {}
  <2> HIDE DEF u, P
  <2> QED BY <1>2, <1>3
<1>8. \A ps \in SUBSET Paths : Closed(t, u(ps), fix, which, ps)
  BY <1>5 DEF Closed
<1> HIDE DEF u
<1> QED BY <1>6, <1>7, <1>8

LEMMA DoneFixed ==
    ASSUME NEW t \in Blockable, NextPhase(t.events) = "done", Refusal(t) # "none", Supplied,
           NEW fix \in Fixes(t, Refusal(t))
    PROVE  Shortens(fix, t)
<1> DEFINE Few(u) == u \in Blockable /\ NextPhase(u.events) = "done"
           Pinned(u) == PinnedForDone(u.class, u.events)
           Missing(u) == MissingResolveEvidence(FindingsOf(u), u.disk)
<1>1. ASSUME NEW u, Few(u)
      PROVE  /\ Obstacles(u) = Others(u) + Count(~Pinned(u)) + 2 * Cardinality(u.failing)
             /\ Others(u) \in Nat /\ Count(~Pinned(u)) \in {0, 1}
             /\ IsFiniteSet(u.failing) /\ Cardinality(u.failing) \in Nat
  BY <1>1, ToFinishMeans
<1>2. Few(t) /\ Refusal(t) = DoneRefusal(t) /\ t.failing \subseteq CommandPins(t.events)
  BY ToFinishMeans DEF Blockable
<1> HIDE DEF Pinned
<1>3. ASSUME NEW u, Few(u), u.failing = t.failing, Pinned(u) <=> Pinned(t), Others(u) < Others(t)
      PROVE  u \in Blockable /\ Obstacles(u) < Obstacles(t)
  <2>1. Count(~Pinned(u)) = Count(~Pinned(t))
    BY <1>3 DEF Count
  <2> QED BY <1>1, <1>2, <1>3, <2>1
<1>4. CASE fix = "prepare"
  <2> DEFINE u(r) == [t EXCEPT !.register = [swept |-> r, findings |-> <<>>]]
  <2>1. t.register = None
    BY <1>2, <1>4 DEF Fixes, DoneRefusal
  <2>2. Follow(fix, t) = {u(r) : r \in Ranges}
    BY <1>4 DEF Follow, Blockable
  <2>3. ASSUME NEW r \in Ranges PROVE u(r) \in Blockable /\ Obstacles(u(r)) < Obstacles(t)
    <3> DEFINE reg == [swept |-> r, findings |-> <<>>]
               w == [t EXCEPT !.register = reg]
    <3>1. reg \in Register /\ reg.findings = <<>> /\ reg # None
      <4>1. reg \in Register
        BY DEF Register
      <4> QED BY <4>1, RegisterAssumption
    <3> HIDE DEF reg
    <3>2. /\ w \in Blockable /\ w.events = t.events /\ w.class = t.class
          /\ w.failing = t.failing /\ w.register = reg
      BY <3>1 DEF Blockable
    <3> HIDE DEF w
    <3>3. Others(w) = 0 /\ Others(t) = 1
      <4>1. FindingsOf(w) = <<>> /\ FindingsOf(t) = <<>>
        BY <2>1, <3>1, <3>2 DEF FindingsOf
      <4>2. \A d : Clean(<<>>) /\ MissingResolveEvidence(<<>>, d) = {}
        BY DEF Clean, MissingResolveEvidence
      <4> QED BY <2>1, <3>1, <3>2, <4>1, <4>2 DEF Others, Count
    <3>4. Pinned(w) <=> Pinned(t)
      BY <3>2 DEF Pinned
    <3>5. w \in Blockable /\ Obstacles(w) < Obstacles(t)
      BY <1>2, <1>3, <3>2, <3>3, <3>4
    <3> QED BY <3>5 DEF w, reg
  <2> HIDE DEF u
  <2>4. Ranges # {}
    BY DEF Supplied
  <2> QED BY <2>2, <2>3, <2>4, Shortened
<1>5. ASSUME NEW which \in SUBSET DOMAIN FindingsOf(t), fix \in {"resolve", "wont-fix"},
             t.register # None,
             Open(t) \subseteq which, Missing(t) \subseteq which \/ Open(t) # {},
             Open(t) \cup Missing(t) # {},
             \A i \in which : IF fix = "resolve" THEN ResolveLawful(FindingsOf(t)[i], t.disk)
                                                 ELSE WontFixLawful(FindingsOf(t)[i])
      PROVE  /\ Closing(t, fix, which) # {}
             /\ \A u \in Closing(t, fix, which) : u \in Blockable /\ Obstacles(u) < Obstacles(t)
  <2>1. t.register \in Register /\ FindingsOf(t) = t.register.findings /\ Paths # {}
    BY <1>5 DEF Blockable, FindingsOf, Supplied
  <2>2. \A i \in which : IF fix = "resolve" THEN ResolveLawful(t.register.findings[i], t.disk)
                                            ELSE WontFixLawful(t.register.findings[i])
    BY <1>5, <2>1, Zenon
  <2>4. Closing(t, fix, which) # {}
    BY <1>5, <2>1, <2>2, Closings
  <2>5. \A u \in Closing(t, fix, which) : \E ps \in SUBSET Paths : Closed(t, u, fix, which, ps)
    BY <1>5, <2>1, <2>2, Closings
  <2>3. ASSUME NEW u \in Closing(t, fix, which) PROVE u \in Blockable /\ Obstacles(u) < Obstacles(t)
    <3> DEFINE fs == FindingsOf(t)
               gs == FindingsOf(u)
    <3>1. PICK ps \in SUBSET Paths : Closed(t, u, fix, which, ps)
      BY <2>5
    <3>2. gs = u.register.findings /\ u.register # None /\ DOMAIN gs = DOMAIN fs
      BY <2>1, <3>1, RegisterAssumption DEF FindingsOf, Closed
    <3>3. \A i \in DOMAIN fs \ which : gs[i] = fs[i]
      BY <2>1, <3>1, <3>2 DEF Closed
    <3>4. ASSUME NEW i \in which
          PROVE  /\ gs[i].status # "UNRESOLVED"
                 /\ gs[i].status = "RESOLVED" => gs[i].evidence \subseteq u.disk
      <4>1. gs[i] = IF fix = "resolve" THEN Resolve(fs[i], ps) ELSE WontFix(fs[i])
        BY <2>1, <3>1, <3>2 DEF Closed
      <4>2. fs[i] \in Finding
        BY <2>1 DEF Register
      <4> HIDE DEF gs, fs
      <4>3. CASE fix = "resolve"
        <5>1. gs[i].status = "RESOLVED" /\ gs[i].evidence = ps
          BY <4>1, <4>2, <4>3 DEF Resolve, Finding
        <5> QED BY <3>1, <5>1 DEF Closed
      <4>4. CASE fix = "wont-fix"
        BY <4>1, <4>2, <4>4 DEF WontFix, Finding
      <4> QED BY <1>5, <4>3, <4>4
    <3> HIDE DEF gs, fs
    <3>5. Clean(gs)
      <4>1. \A i \in DOMAIN fs \ which : fs[i].status # "UNRESOLVED"
        BY <1>5, <2>1 DEF Open, fs
      <4> QED BY <3>2, <3>3, <3>4, <4>1 DEF Clean
    <3>6. Missing(u) \subseteq Missing(t) \ which
      BY <3>1, <3>2, <3>3, <3>4 DEF MissingResolveEvidence, gs, fs, Closed
    <3>7. Others(u) < Others(t)
      <4>1. Clean(FindingsOf(t)) <=> Open(t) = {}
        BY <2>1 DEF Clean, Open
      <4>2. Open(t) = {} => Missing(u) = {} /\ Missing(t) # {}
        BY <1>5, <3>6
      <4> QED BY <1>5, <3>2, <3>5, <3>6, <4>1, <4>2 DEF Others, Count, gs
    <3>8. Pinned(u) <=> Pinned(t)
      BY <3>1 DEF Pinned, Closed
    <3>9. Few(u) /\ u.failing = t.failing
      BY <1>2, <3>1 DEF Closed
    <3> QED BY <1>3, <3>7, <3>8, <3>9
  <2> QED BY <2>3, <2>4
<1>6. CASE fix \in {"resolve", "wont-fix"}
  <2>1. /\ t.register # None /\ FindingsOf(t) = t.register.findings
        /\ \/ ~Clean(FindingsOf(t))
           \/ fix = "resolve" /\ Missing(t) # {}
    <3>1. \/ Refusal(t) = "unresolved"
          \/ Refusal(t) = "resolution gone" /\ fix = "resolve"
      BY <1>2, <1>6 DEF Fixes, DoneRefusal
    <3> QED BY <1>2, <3>1 DEF DoneRefusal, FindingsOf
  <2>2. Clean(FindingsOf(t)) <=> Open(t) = {}
    BY <2>1 DEF Clean, Open
  <2>3. /\ Open(t) \in SUBSET DOMAIN FindingsOf(t) /\ Missing(t) \in SUBSET DOMAIN FindingsOf(t)
        /\ \A i \in Open(t) : ResolveLawful(FindingsOf(t)[i], t.disk) /\ WontFixLawful(FindingsOf(t)[i])
        /\ \A i \in Missing(t) : ResolveLawful(FindingsOf(t)[i], t.disk)
    BY <2>1 DEF Open, MissingResolveEvidence, ResolveLawful, WontFixLawful, Repairable
  <2>4. Follow(fix, t) = Closing(t, fix, IF Open(t) # {} THEN Open(t) ELSE Missing(t))
    <3>1. CASE fix = "resolve"
      BY <2>1, <3>1 DEF Follow
    <3>2. CASE fix = "wont-fix"
      <4>1. Open(t) # {}
        BY <2>1, <2>2, <3>2
      <4> QED BY <3>2, <4>1 DEF Follow
    <3> QED BY <1>6, <3>1, <3>2
  <2> DEFINE which == IF Open(t) # {} THEN Open(t) ELSE Missing(t)
  <2>5. /\ which \in SUBSET DOMAIN FindingsOf(t) /\ Open(t) \subseteq which
        /\ Missing(t) \subseteq which \/ Open(t) # {}
        /\ Open(t) \cup Missing(t) # {}
        /\ \A i \in which : IF fix = "resolve" THEN ResolveLawful(FindingsOf(t)[i], t.disk)
                                               ELSE WontFixLawful(FindingsOf(t)[i])
    <3> HIDE DEF Missing
    <3> QED BY <1>6, <2>1, <2>2, <2>3
  <2>6. Follow(fix, t) = Closing(t, fix, which)
    BY <2>4
  <2> HIDE DEF which, Missing
  <2>7. Follow(fix, t) # {} /\ \A u \in Follow(fix, t) : u \in Blockable /\ Obstacles(u) < Obstacles(t)
    BY <1>5, <1>6, <2>1, <2>5, <2>6
  <2> QED BY <2>7, Shortened
<1>7. ASSUME NEW u, Few(u), u.failing = {}, t.failing = {}, ~Pinned(t), Pinned(u), Others(u) = Others(t)
      PROVE  u \in Blockable /\ Obstacles(u) < Obstacles(t)
  <2>1. Count(~Pinned(u)) = 0 /\ Count(~Pinned(t)) = 1
    BY <1>7 DEF Count
  <2>2. Cardinality(u.failing) = Cardinality(t.failing)
    BY <1>7, Zenon
  <2>3. /\ Obstacles(u) = Others(u) + Count(~Pinned(u)) + 2 * Cardinality(u.failing)
        /\ Others(u) \in Nat /\ Cardinality(u.failing) \in Nat
    BY <1>1, <1>7
  <2>4. Obstacles(t) = Others(t) + Count(~Pinned(t)) + 2 * Cardinality(t.failing)
    BY <1>1, <1>2
  <2> QED BY <1>7, <2>1, <2>2, <2>3, <2>4
<1>8. CASE Refusal(t) = "pinless"
  <2>1. /\ ~Pinned(t) /\ t.failing = {} /\ t.class \notin NonCodeClasses
        /\ fix \in {"pin-exempt", "red-check"}
    BY <1>2, <1>8 DEF Fixes, DoneRefusal, PinnedForDone, Pinned
  <2>2. CASE fix = "pin-exempt"
    <3> DEFINE u == Extended(t, PinExemption)
    <3>1. /\ HasPinExemption(u.events) /\ u.failing = t.failing
          /\ PinExemption \in Events /\ PinExemption.type \notin {"transition", "retired"}
      BY ExemptionGrown
    <3>2. /\ Few(u) /\ u.register = t.register /\ u.disk = t.disk
          /\ Appended(t, TRUE, PinExemption) = {u}
      BY <1>2, <3>1, GrownTask
    <3> HIDE DEF u
    <3>3. Follow(fix, t) = Appended(t, TRUE, PinExemption)
      BY <2>2 DEF Follow
    <3>4. Follow(fix, t) = {u}
      BY <3>2, <3>3, Zenon
    <3>5. Pinned(u) /\ Others(u) = Others(t)
      BY <3>1, <3>2 DEF Pinned, PinnedForDone, Others, FindingsOf
    <3>6. u \in Blockable /\ Obstacles(u) < Obstacles(t)
      BY <1>7, <2>1, <3>1, <3>2, <3>5
    <3> QED BY <3>4, <3>6, Shortened
  <2>3. CASE fix = "red-check"
    <3>1. ASSUME NEW c \in Commands, NEW x \in Expects
          PROVE  LET u == Extended(t, Pin(c, x, {})) IN u \in Blockable /\ Obstacles(u) < Obstacles(t)
      <4> DEFINE e == Pin(c, x, {})
                 u == Extended(t, e)
      <4>1. /\ e \in Events /\ e.type \notin {"transition", "retired"}
            /\ CommandPins(u.events) # {} /\ u.failing = t.failing
        BY PinGrown
      <4> HIDE DEF e
      <4>2. Few(u) /\ u.register = t.register /\ u.disk = t.disk
        BY <1>2, <4>1, GrownTask
      <4> HIDE DEF u
      <4>3. Pinned(u) /\ Others(u) = Others(t)
        BY <4>1, <4>2 DEF Pinned, PinnedForDone, Others, FindingsOf
      <4>4. u \in Blockable /\ Obstacles(u) < Obstacles(t)
        BY <1>7, <2>1, <4>1, <4>2, <4>3
      <4> QED BY <4>4 DEF u, e
    <3> QED BY <2>3, <3>1, Pinnings, Shortened
  <2> QED BY <2>1, <2>2, <2>3
<1>9. CASE Refusal(t) = "pins fail"
  <2>1. Pinned(t) /\ t.failing # {} /\ fix \in {"repair", "pin-retire"}
    BY <1>2, <1>9 DEF Fixes, DoneRefusal, Pinned
  <2>2. CASE fix = "repair"
    <3> DEFINE u == [t EXCEPT !.green = TRUE, !.failing = {}]
    <3>1. /\ u \in Blockable /\ u.events = t.events /\ u.class = t.class /\ u.disk = t.disk
          /\ u.register = t.register /\ u.failing = {}
      BY DEF Blockable
    <3>2. Follow(fix, t) = {u}
      BY <2>2 DEF Follow
    <3> HIDE DEF u
    <3>3. Few(u) /\ Others(u) = Others(t) /\ Count(~Pinned(u)) = Count(~Pinned(t))
      BY <1>2, <3>1 DEF Pinned, Others, FindingsOf
    <3>4. Cardinality(u.failing) = 0 /\ Cardinality(t.failing) # 0
      BY <1>1, <1>2, <2>1, <3>1, FS_EmptySet
    <3>5. Obstacles(u) < Obstacles(t)
      BY <1>1, <1>2, <3>3, <3>4
    <3> QED BY <3>1, <3>2, <3>5, Shortened
  <2>3. CASE fix = "pin-retire"
    <3>1. Named(t) = t.failing
      BY <2>1 DEF Named
    <3>2. /\ Follow("pin-retire", t) # {}
          /\ \A u \in Follow("pin-retire", t) : \E i \in t.failing :
                /\ Few(u) /\ u.register = t.register /\ u.disk = t.disk
                /\ u.failing \subseteq t.failing \ {i}
      BY <1>2, <2>1, <3>1, Retirements
    <3>3. ASSUME NEW u \in Follow("pin-retire", t) PROVE u \in Blockable /\ Obstacles(u) < Obstacles(t)
      <4>1. PICK i \in t.failing :
               /\ Few(u) /\ u.register = t.register /\ u.disk = t.disk
               /\ u.failing \in SUBSET (t.failing \ {i})
        BY <3>2
      <4>2. Cardinality(u.failing) <= Cardinality(t.failing) - 1
        BY <1>1, <1>2, <4>1, FewerLeft
      <4>3. Count(~Pinned(t)) = 0 /\ Others(u) = Others(t)
        BY <2>1, <4>1 DEF Count, Others, FindingsOf
      <4> QED BY <1>1, <1>2, <4>1, <4>2, <4>3
    <3> QED BY <2>3, <3>2, <3>3, Shortened
  <2> QED BY <2>1, <2>2, <2>3
<1>10. fix \in {"prepare", "resolve", "wont-fix"} \/ Refusal(t) \in {"pinless", "pins fail"}
  BY <1>2 DEF Fixes, DoneRefusal
<1> QED BY <1>4, <1>6, <1>8, <1>9, <1>10

(* Whatever blocks a task.                                                   *)
LEMMA FixesShorten ==
    ASSUME NEW t \in Blockable, Refusal(t) # "none", Supplied, NEW fix \in Fixes(t, Refusal(t))
    PROVE  Shortens(fix, t)
<1>1. NextPhase(t.events) \in {"executing", "verified", "done"}
  BY DEF Refusal
<1> QED BY <1>1, ApprovalExecutes, VerificationFixed, DoneFixed

(* status grants what the law, short of the runs, grants.                    *)
LEMMA StatusTold ==
    ASSUME NEW t \in Blockable
    PROVE  Unblocked(t) <=>
              EvaluateTransition(t.class, t.events, t.register, t.disk, NextPhase(t.events), TRUE, {})
<1> DEFINE u == [t EXCEPT !.green = TRUE, !.failing = {}]
           next == NextPhase(t.events)
<1>1. /\ u.events = t.events /\ u.class = t.class /\ u.register = t.register
      /\ u.disk = t.disk /\ u.green = TRUE /\ u.failing = {}
  BY DEF Blockable
<1>2. /\ AppendLawful(t.events) /\ next \in Phases /\ Rank[next] = Rank[DerivePhase(t.events)] + 1
  BY NextIs DEF Blockable
<1> HIDE DEF u
<1>3. ExecutionRefusal(u) = "none" <=> ExecutionGuard(t.class, t.events)
  BY <1>1 DEF ExecutionRefusal, ExecutionGuard
<1>4. VerificationRefusal(u) = "none" <=> VerificationGuard(t.class, t.events, t.disk, TRUE)
  BY <1>1 DEF VerificationRefusal, VerificationGuard
<1>5. DoneRefusal(u) = "none" <=> DoneGuard(t.class, t.events, t.register, t.disk, {})
  BY <1>1 DEF DoneRefusal, DoneGuard
<1>6. Unblocked(t) <=> Refusal(u) = "none"
  BY DEF Unblocked, u
<1>7. NextPhase(u.events) = next
  BY <1>1
<1> HIDE DEF next
<1>8. Refusal(u) = "none" <=>
         /\ next = "executing" => ExecutionRefusal(u) = "none"
         /\ next = "verified" => VerificationRefusal(u) = "none"
         /\ next = "done" => DoneRefusal(u) = "none"
  BY <1>7 DEF Refusal
<1> QED BY <1>2, <1>3, <1>4, <1>5, <1>6, <1>8 DEF EvaluateTransition, next

(* Whatever blocks the next transition of a task, however many pins fail at  *)
(* once and whatever the record holds, every printed fix is accepted and     *)
(* leaves strictly less in the way, so no chain of fixes comes back to where *)
(* it started (the refusals and the fixes of task-state's guards).           *)
THEOREM RemediesLead == Spec => []RemediesLeadOut
<1>1. ASSUME NEW t \in Blockable, Supplied PROVE LeadsOut(t)
  BY <1>1, RefusedIsBlocked, FixesShorten DEF LeadsOut, Shortens
<1>2. ASSUME TypeOK, ~Terminal(events), NEW green \in BOOLEAN, NEW pins \in MayFail
      PROVE  Facts(green, pins) \in Blockable
  <2> DEFINE t == Facts(green, pins)
  <2>1. /\ riskClass \in RiskClasses \cup {None} /\ events \in Seq(Events)
        /\ register \in Register \cup {None} /\ disk \in SUBSET Paths
    BY <1>2 DEF TypeOK
  <2>2. pins \subseteq CommandPins(events) /\ (NextPhase(events) # "done" => pins = {})
    BY DEF MayFail
  <2>3. CommandPins(events) \subseteq Nat
    <3>1. CommandPins(events) \subseteq DOMAIN events
      BY DEF CommandPins, OfType
    <3> QED BY <2>1, <3>1
  <2>4. /\ t.class = riskClass /\ t.events = events /\ t.register = register
        /\ t.disk = disk /\ t.green = green /\ t.failing = pins
        /\ t \in [class: RiskClasses \cup {None}, events: Seq(Events), register: Register \cup {None},
                  disk: SUBSET Paths, green: BOOLEAN, failing: SUBSET Nat]
    BY <2>1, <2>2, <2>3 DEF Facts
  <2> HIDE DEF t
  <2>5. t \in Blockable
    BY <1>2, <2>2, <2>4 DEF Blockable, AppendLawful
  <2> QED BY <2>5 DEF t
<1>3. ASSUME TypeOK, ~Terminal(events)
      PROVE  Unblocked(Facts(TRUE, {})) <=>
                EvaluateTransition(riskClass, events, register, disk, NextPhase(events), TRUE, {})
  <2> DEFINE t == Facts(TRUE, {})
  <2>1. {} \in MayFail
    BY DEF MayFail
  <2>2. t \in Blockable
    BY <1>2, <1>3, <2>1
  <2>3. t.class = riskClass /\ t.events = events /\ t.register = register /\ t.disk = disk
    BY DEF Facts
  <2> HIDE DEF t
  <2> QED BY <2>2, <2>3, StatusTold DEF t
<1>4. TypeOK => RemediesLeadOut
  BY <1>1, <1>2, <1>3 DEF RemediesLeadOut
<1>5. Spec => []TypeOK
  BY TypeCorrect
<1> QED BY <1>4, <1>5, PTL
=============================================================================
