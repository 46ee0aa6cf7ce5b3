-------------------------- MODULE PushFence_proofs --------------------------
(***************************************************************************)
(* The transports of code, for any files, scopes, branches and commits: no *)
(* finished task authorizes new code, nothing lands unjudged on a remote   *)
(* that adopted a base, and what one gate passed no later gate refuses.    *)
(***************************************************************************)
EXTENDS FenceRemedies, MergeOwn, TaskLaw_proofs

USE TaskLawAssumption, PushFenceAssumption

(* The history: a commit is its own ancestor, its ancestors come before it   *)
(* and bring their own, and its pin is one of them; origin/HEAD's branch is  *)
(* always there.                                                             *)
History ==
    /\ \A r \in Revs :
          /\ r \in Anc(r) /\ Anc(r) \subseteq 1 .. r
          /\ \A a \in Anc(r) : Anc(a) \subseteq Anc(r)
          /\ PinAt(r) \in Anc(r) \cup {NoRev}
    /\ origin[Main] # NoRev

(* What every gate but the fence's done law asks of a citation of the task:  *)
(* it may only become easier to meet.                                        *)
Record == RecordOf(Task, class, events)

Authorizes(code) ==
    /\ events # <<>>
    /\ RecordLawful(Record, TRUE)
    /\ ScopeAuthorizes(Record, code, TRUE)

(* A commit that a gate passed while its citation stood. *)
Stands(r) == commits[r].cites = Task /\ Authorizes(CodeFiles(commits[r].own))

PassedStands ==
    \A r \in Revs : Code(r) /\ (commits[r].hooked \/ r \in judged) => Stands(r)

(* Only a done task's record can be found done in a tree. *)
DoneIsDone ==
    \A r \in Revs : commits[r].there = "settled-done" => DerivePhase(events) = "done"

FenceInv == TypeOK /\ History /\ PassedStands /\ DoneIsDone

-----------------------------------------------------------------------------
(* The record: a step never takes back what a citation needs. *)

LEMMA AuthorizesMeans ==
    ASSUME NEW code
    PROVE  Authorizes(code) <=>
             /\ events # <<>>
             /\ class \in RiskClasses \ (ImplementationForbidden \cup {"docs-only"})
             /\ class \in ApprovalRequired => HasApproval(events)
             /\ DerivePhase(events) = "done" =>
                   CommandPins(events) # {} \/ HasPinExemption(events)
             /\ RetirementShape(events)
             /\ AtLeastExecuting(DerivePhase(events))
             /\ code # {} =>
                   /\ FenceSurfaceLawful(class, events, ScopeOf(events))
                   /\ ScopeOf(events) \cap Patterns # {}
                   /\ \A f \in code : PathInScope(f, ScopeOf(events) \cap Patterns)
BY DEF Authorizes, Record, RecordOf, RecordLawful, CodeClass, ClassLawful, Untampered,
       DonePinned, RecordMustChain, ScopeAuthorizes, IsGrandfatheredScope, ScopeCovers

LEMMA ScopeMember ==
    ASSUME NEW ev, NEW p
    PROVE  p \in ScopeOf(ev) <=> \E i \in OfType(ev, "scope") : p \in ev[i].patterns
<1> DEFINE S == {ev[i].patterns : i \in OfType(ev, "scope")}
<1>1. p \in UNION S <=> \E x \in S : p \in x
  BY Zenon
<1>2. \A x : x \in S <=> \E i \in OfType(ev, "scope") : x = ev[i].patterns
  BY Zenon
<1>3. ScopeOf(ev) = UNION S
  BY DEF ScopeOf
<1> HIDE DEF S
<1> QED BY <1>1, <1>2, <1>3

(* What an appended event leaves of an approval and of a scope. *)
LEMMA AppendKeeps ==
    ASSUME NEW ev \in Seq(Events), NEW e \in Events
    PROVE  /\ HasApproval(ev) => HasApproval(Append(ev, e))
           /\ e.type # "scope" => ScopeOf(Append(ev, e)) = ScopeOf(ev)
           /\ e.type = "scope" => ScopeOf(Append(ev, e)) = ScopeOf(ev) \cup e.patterns
<1> DEFINE new == Append(ev, e)
<1>1. \A t : OfType(ev, t) \subseteq OfType(new, t)
  BY OfTypeAppend
<1>2. \A i \in OfType(ev, "scope") : new[i] = ev[i]
  BY AppendShape DEF OfType
<1>3. new[Len(ev) + 1] = e
  BY AppendShape
<1>4. OfType(new, "scope") =
          IF e.type = "scope" THEN OfType(ev, "scope") \cup {Len(ev) + 1} ELSE OfType(ev, "scope")
  BY OfTypeAppend
<1>5. HasApproval(ev) => HasApproval(new)
  BY <1>1 DEF HasApproval
<1>6. ASSUME NEW p
      PROVE  p \in ScopeOf(new) <=> p \in ScopeOf(ev) \/ (e.type = "scope" /\ p \in e.patterns)
  <2>1. /\ p \in ScopeOf(new) <=> \E i \in OfType(new, "scope") : p \in new[i].patterns
        /\ p \in ScopeOf(ev) <=> \E i \in OfType(ev, "scope") : p \in ev[i].patterns
    BY ScopeMember, Zenon
  <2> HIDE DEF new
  <2> QED BY <1>2, <1>3, <1>4, <2>1
<1> HIDE DEF new
<1>7. e.type # "scope" => ScopeOf(new) = ScopeOf(ev)
  BY <1>6
<1>8. e.type = "scope" => ScopeOf(new) = ScopeOf(ev) \cup e.patterns
  BY <1>6
<1> QED BY <1>5, <1>7, <1>8 DEF new

(* A citation survives an event that keeps the task executing or later, owes *)
(* no pin it lacks, and opens no surface the tier or the approval withholds. *)
LEMMA AuthorizesGrown ==
    ASSUME events \in Seq(Events), NEW e \in Events, NEW code, Authorizes(code), Write(e),
           e.type # "retired",
           AtLeastExecuting(DerivePhase(events')),
           DerivePhase(events') = "done" => CommandPins(events') # {} \/ HasPinExemption(events'),
           e.type = "scope" => FenceSurfaceLawful(class, events, e.patterns)
    PROVE  Authorizes(code)'
<1>1. events' = Append(events, e) /\ class' = class
  BY DEF Write
<1>2. /\ events # <<>>
      /\ class \in RiskClasses \ (ImplementationForbidden \cup {"docs-only"})
      /\ class \in ApprovalRequired => HasApproval(events)
      /\ AtLeastExecuting(DerivePhase(events))
      /\ code # {} =>
            /\ FenceSurfaceLawful(class, events, ScopeOf(events))
            /\ ScopeOf(events) \cap Patterns # {}
            /\ \A f \in code : PathInScope(f, ScopeOf(events) \cap Patterns)
  BY AuthorizesMeans
<1>3. events' # <<>>
  BY <1>1
<1>4. RetirementShape(events')
  <2>1. OfType(events, "retired") = {}
    BY <1>2 DEF AtLeastExecuting, DerivePhase, Phases, Rank
  <2>2. OfType(events', "retired") = {}
    BY <1>1, <2>1, OfTypeAppend
  <2> QED BY <2>2 DEF RetirementShape
<1>5. HasApproval(events) => HasApproval(events')
  BY <1>1, AppendKeeps
<1>6. /\ ScopeOf(events) \subseteq ScopeOf(events')
      /\ FenceSurfaceLawful(class, events, ScopeOf(events))
            => FenceSurfaceLawful(class, events', ScopeOf(events'))
  <2>1. CASE e.type = "scope"
    <3>1. ScopeOf(events') = ScopeOf(events) \cup e.patterns
      BY <1>1, <2>1, AppendKeeps
    <3> QED BY <1>5, <2>1, <3>1 DEF FenceSurfaceLawful
  <2>2. CASE e.type # "scope"
    <3>1. ScopeOf(events') = ScopeOf(events)
      BY <1>1, <2>2, AppendKeeps
    <3> QED BY <1>5, <3>1 DEF FenceSurfaceLawful
  <2> QED BY <2>1, <2>2
<1>7. ASSUME code # {}
      PROVE  /\ FenceSurfaceLawful(class', events', ScopeOf(events'))
             /\ ScopeOf(events') \cap Patterns # {}
             /\ \A f \in code : PathInScope(f, ScopeOf(events') \cap Patterns)
  BY <1>1, <1>2, <1>6, <1>7 DEF PathInScope
<1>8. class' \in ApprovalRequired => HasApproval(events')
  BY <1>1, <1>2, <1>5
<1>9. Authorizes(code)' <=>
         /\ events' # <<>>
         /\ class' \in RiskClasses \ (ImplementationForbidden \cup {"docs-only"})
         /\ class' \in ApprovalRequired => HasApproval(events')
         /\ DerivePhase(events') = "done" =>
               CommandPins(events') # {} \/ HasPinExemption(events')
         /\ RetirementShape(events')
         /\ AtLeastExecuting(DerivePhase(events'))
         /\ code # {} =>
               /\ FenceSurfaceLawful(class', events', ScopeOf(events'))
               /\ ScopeOf(events') \cap Patterns # {}
               /\ \A f \in code : PathInScope(f, ScopeOf(events') \cap Patterns)
  BY DEF Authorizes, Record, RecordOf, RecordLawful, CodeClass, ClassLawful, Untampered,
         DonePinned, RecordMustChain, ScopeAuthorizes, IsGrandfatheredScope, ScopeCovers
<1> QED BY <1>1, <1>2, <1>3, <1>4, <1>7, <1>8, <1>9

(* The steps of the record, and the event each of them writes. *)
LEMMA RecordWrites ==
    ASSUME events \in Seq(Events), RecordStep
    PROVE  \E e \in Events : Write(e) /\ (events # <<>> => AppendLawful(events))
<1>1. CASE NewTask
  BY <1>1, EventsTyped DEF NewTask
<1>2. CASE ApproveTask
  BY <1>2, EventsTyped DEF ApproveTask
<1>3. CASE ScopeTask
  <2>1. PICK ps \in SUBSET Patterns :
           ScopeLawful(class, events, ps) /\ Write(Scope(ps \ ScopeOf(events)))
    BY <1>3 DEF ScopeTask
  <2>2. Scope(ps \ ScopeOf(events)) \in Events
    BY EventsTyped
  <2> QED BY <2>1, <2>2 DEF ScopeLawful
<1>4. CASE PinTask
  <2>1. PICK c \in Commands, x \in Expects : Write(Pin(c, x, {}))
    BY <1>4 DEF PinTask
  <2>2. Pin(c, x, {}) \in Events
    BY EventsTyped
  <2> QED BY <1>4, <2>1, <2>2 DEF PinTask
<1>5. CASE RetireTask
  BY <1>5, EventsTyped DEF RetireTask, RetirementLawful
<1>6. CASE AdvanceTask
  BY <1>6, EventsTyped DEF AdvanceTask
<1> QED BY <1>1, <1>2, <1>3, <1>4, <1>5, <1>6 DEF RecordStep

(* No step of the record takes a standing citation back. *)
LEMMA AuthorizesKept ==
    ASSUME events \in Seq(Events), RecordStep
    PROVE  \A code : Authorizes(code) => Authorizes(code)'
<1> SUFFICES ASSUME NEW code, Authorizes(code) PROVE Authorizes(code)'
  OBVIOUS
<1>0. /\ events # <<>>
      /\ class \notin NonCodeClasses
      /\ AtLeastExecuting(DerivePhase(events))
  BY AuthorizesMeans DEF ImplementationForbidden, NonCodeClasses
<1>1. ASSUME NEW e \in Events, Write(e), AppendLawful(events),
             e.type \notin {"transition", "retired"},
             e.type = "scope" => FenceSurfaceLawful(class, events, e.patterns)
      PROVE  Authorizes(code)'
  <2>1. DerivePhase(events') = DerivePhase(events)
    BY <1>1, PhaseQuiet DEF Write
  <2>2. DerivePhase(events') # "done"
    BY <1>1, <2>1 DEF AppendLawful, Terminal
  <2> QED BY <1>0, <1>1, <2>1, <2>2, AuthorizesGrown
<1>2. CASE NewTask
  BY <1>0, <1>2 DEF NewTask
<1>3. CASE ApproveTask
  <2>1. Approval \in Events /\ Approval.type = "approval"
    BY EventsTyped DEF Approval
  <2> QED BY <1>1, <1>3, <2>1 DEF ApproveTask
<1>4. CASE ScopeTask
  <2>1. PICK ps \in SUBSET Patterns :
           ScopeLawful(class, events, ps) /\ Write(Scope(ps \ ScopeOf(events)))
    BY <1>4 DEF ScopeTask
  <2> DEFINE e == Scope(ps \ ScopeOf(events))
  <2>2. e \in Events /\ e.type = "scope" /\ e.patterns = ps \ ScopeOf(events)
    BY EventsTyped DEF Scope
  <2>3. FenceSurfaceLawful(class, events, e.patterns)
    BY <2>1, <2>2 DEF ScopeLawful, FenceSurfaceLawful
  <2>4. AppendLawful(events)
    BY <2>1 DEF ScopeLawful
  <2> QED BY <1>1, <2>1, <2>2, <2>3, <2>4
<1>5. CASE PinTask
  <2>1. PICK c \in Commands, x \in Expects : Write(Pin(c, x, {}))
    BY <1>5 DEF PinTask
  <2>2. Pin(c, x, {}) \in Events /\ Pin(c, x, {}).type = "red-check"
    BY EventsTyped DEF Pin
  <2> QED BY <1>1, <1>5, <2>1, <2>2 DEF PinTask
<1>6. CASE RetireTask
  BY <1>0, <1>6 DEF RetireTask, RetirementLawful, AtLeastExecuting, Rank
<1>7. CASE AdvanceTask
  <2>1. PICK target \in Phases :
           /\ AppendLawful(events)
           /\ Rank[target] = Rank[DerivePhase(events)] + 1
           /\ target = "done" => PinnedForDone(class, events)
           /\ Write(Transition(target))
    BY <1>7 DEF AdvanceTask
  <2> DEFINE e == Transition(target)
  <2>2. e \in Events /\ e.type = "transition"
    BY EventsTyped DEF Transition
  <2>3. DerivePhase(events') = target
    BY <2>1, PhaseMove, OpenNotRetired DEF Write
  <2>4. AtLeastExecuting(target)
    BY <1>0, <2>1 DEF AtLeastExecuting, Rank, Phases
  <2>5. ASSUME target = "done" PROVE CommandPins(events') # {} \/ HasPinExemption(events')
    <3>1. CommandPins(events) # {} \/ HasPinExemption(events)
      BY <1>0, <2>1, <2>5 DEF PinnedForDone
    <3>2. CommandPins(events') = CommandPins(events)
      BY <2>1, <2>2, PinsQuiet DEF Write
    <3>3. OfType(events', "pin-exemption") = OfType(events, "pin-exemption")
      BY <2>1, <2>2, OfTypeAppend DEF Write
    <3> QED BY <3>1, <3>2, <3>3 DEF HasPinExemption
  <2> QED BY <2>1, <2>2, <2>3, <2>4, <2>5, AuthorizesGrown
<1> QED BY <1>2, <1>3, <1>4, <1>5, <1>6, <1>7 DEF RecordStep

-----------------------------------------------------------------------------
(* The commits *)

LEMMA RevShape ==
    ASSUME TypeOK, NEW r \in Revs
    PROVE  /\ commits[r] \in Snapshot
           /\ r \in Nat /\ r # NoRev
           /\ Anc(r) = commits[r].anc /\ PinAt(r) = commits[r].pin
BY DEF TypeOK, Revs, Anc, PinAt, NoRev

(* What every commit is, through the hooks, around them or a merge: a        *)
(* snapshot over the tips of some branches.                                  *)
Grows(b, sides, c) ==
    /\ b \in Branches /\ sides \in SUBSET Revs
    /\ c \in Snapshot
    /\ c.anc = {Len(commits) + 1} \cup UNION {Anc(r) : r \in sides}
    /\ c.pin \in c.anc \cup {NoRev}
    /\ c.there \in {PhaseThere} \cup {commits[r].there : r \in sides}
    /\ c.hooked => CommitMsgLawful(c.cites, CodeFiles(c.own), Load)
    /\ Add(b, c)

LEMMA GrowsFrom ==
    ASSUME TypeOK, History, NEW b \in Branches, NEW sides \in SUBSET Revs, tip[b] \in sides,
           NEW own \in OwnSets \cup {{}}, NEW cites \in {Task, None}, NEW hooked \in BOOLEAN,
           NEW pin \in Pins(b, own, {PinAt(r) : r \in sides}),
           NEW there \in Theres({commits[r].there : r \in sides}),
           hooked => CommitMsgLawful(cites, CodeFiles(own), Load),
           NEW c, Add(b, c),
           c = [anc |-> {Len(commits) + 1} \cup UNION {Anc(r) : r \in sides}, own |-> own,
                cites |-> cites, there |-> there, pin |-> pin, hooked |-> hooked]
    PROVE  Grows(b, sides, c)
<1> DEFINE anc == UNION {Anc(r) : r \in sides}
<1>0. Len(commits) \in Nat /\ Revs = 1 .. Len(commits)
  BY DEF TypeOK, Revs
<1>1. \A r \in sides : Anc(r) \subseteq Nat
  BY <1>0 DEF History
<1>2. anc \in SUBSET Nat
  BY <1>1
<1>3. pin \in anc \cup {NoRev}
  <2>1. \A r \in sides : PinAt(r) \in Anc(r) \cup {NoRev}
    BY DEF History
  <2>2. Anc(tip[b]) \subseteq anc
    OBVIOUS
  <2>3. {PinAt(r) : r \in sides} \subseteq anc \cup {NoRev}
    BY <2>1
  <2> HIDE DEF anc
  <2> QED BY <2>2, <2>3 DEF Pins
<1>4. there \in {PhaseThere} \cup {commits[r].there : r \in sides}
  BY DEF Theres
<1>5. there \in {"first-landing", "in-flight-there", "settled-done"}
  <2>1. \A r \in sides : commits[r].there \in {"first-landing", "in-flight-there", "settled-done"}
    BY RevShape DEF Snapshot
  <2>2. PhaseThere \in {"first-landing", "in-flight-there", "settled-done"}
    BY DEF PhaseThere
  <2> QED BY <1>4, <2>1, <2>2
<1>6. pin \in Nat
  BY <1>2, <1>3 DEF NoRev
<1>7. c.anc = anc \cup {Len(commits) + 1} /\ c.own = own /\ c.cites = cites
      /\ c.there = there /\ c.pin = pin /\ c.hooked = hooked
  OBVIOUS
<1>8. c \in Snapshot
  <2>1. anc \cup {Len(commits) + 1} \in SUBSET Nat
    BY <1>0, <1>2
  <2> HIDE DEF anc
  <2> QED BY <1>5, <1>6, <2>1 DEF Snapshot, anc
<1> HIDE DEF anc
<1> QED BY <1>3, <1>4, <1>7, <1>8 DEF Grows, anc

LEMMA CommitGrows ==
    ASSUME TypeOK, History, NEW b \in Branches, NEW own \in OwnSets \cup {{}},
           NEW cites \in {Task, None}, NEW hooked \in BOOLEAN, Commit(b, own, cites, hooked),
           hooked => CommitMsgLawful(cites, CodeFiles(own), Load)
    PROVE  \E c : Grows(b, {tip[b]}, c)
<1>1. tip[b] \in Revs
  BY DEF TypeOK, Revs
<1>2. PICK pin \in Pins(b, own, {PinAt(tip[b])}), there \in Theres({commits[tip[b]].there}) :
         Add(b, [anc |-> Anc(tip[b]) \cup {Len(commits) + 1}, own |-> own, cites |-> cites,
                 there |-> there, pin |-> pin, hooked |-> hooked])
  BY DEF Commit
<1> DEFINE sides == {tip[b]}
<1>3. /\ {PinAt(r) : r \in sides} = {PinAt(tip[b])}
      /\ {commits[r].there : r \in sides} = {commits[tip[b]].there}
      /\ UNION {Anc(r) : r \in sides} = Anc(tip[b])
  OBVIOUS
<1>4. sides \in SUBSET Revs /\ tip[b] \in sides
  BY <1>1
<1> HIDE DEF sides
<1>5. \E c : Grows(b, sides, c)
  BY <1>2, <1>3, <1>4, GrowsFrom
<1> QED BY <1>5 DEF sides

LEMMA EveryCommitGrows ==
    ASSUME TypeOK, History, NEW b \in Branches, NEW side \in Branches,
           CommitThroughHooks(b) \/ CommitAroundHooks(b) \/ Merge(b, side)
    PROVE  \E sides, c : Grows(b, sides, c)
<1>1. \A own : Footers(own) \subseteq {Task, None}
  BY DEF Footers
<1>2. CASE CommitThroughHooks(b)
  <2>1. PICK own \in OwnSets :
           \E cites \in Footers(own) : HooksPass(own, cites) /\ Commit(b, own, cites, TRUE)
    BY <1>2, Zenon DEF CommitThroughHooks
  <2>2. PICK cites \in Footers(own) : HooksPass(own, cites) /\ Commit(b, own, cites, TRUE)
    BY <2>1
  <2>3. cites \in {Task, None}
    BY <1>1
  <2>4. CommitMsgLawful(cites, CodeFiles(own), Load)
    BY <2>2 DEF HooksPass
  <2> QED BY <2>2, <2>3, <2>4, CommitGrows
<1>3. CASE CommitAroundHooks(b)
  <2>1. PICK own \in OwnSets, cites \in {Task, None} : Commit(b, own, cites, FALSE)
    BY <1>1, <1>3 DEF CommitAroundHooks
  <2> QED BY <2>1, CommitGrows
<1>4. CASE Merge(b, side)
  <2> DEFINE sides == {tip[b], tip[side]}
  <2>1. PICK own \in OwnSets \cup {{}}, cites \in {Task, None} :
           \E pin \in Pins(b, own, {PinAt(r) : r \in sides}),
              there \in Theres({commits[r].there : r \in sides}) :
                 Add(b, [anc |-> {Len(commits) + 1} \cup UNION {Anc(r) : r \in sides},
                         own |-> own, cites |-> cites, there |-> there, pin |-> pin,
                         hooked |-> CommitMsgLawful(cites, CodeFiles(own), Load)])
    BY <1>4 DEF Merge
  <2>2. sides \in SUBSET Revs /\ tip[b] \in sides
    BY DEF TypeOK, Revs
  <2>3. CommitMsgLawful(cites, CodeFiles(own), Load) \in BOOLEAN
    BY DEF CommitMsgLawful
  <2> HIDE DEF sides
  <2> QED BY <2>1, <2>2, <2>3, GrowsFrom
<1> QED BY <1>2, <1>3, <1>4

LEMMA GrowsEffect ==
    ASSUME TypeOK, NEW b, NEW sides, NEW c, Grows(b, sides, c)
    PROVE  /\ UNCHANGED <<class, events, start, origin, judged>>
           /\ Len(commits) \in Nat /\ Revs = 1 .. Len(commits)
           /\ Revs' = Revs \cup {Len(commits) + 1} /\ commits' \in Seq(Snapshot)
           /\ \A r \in Revs : commits'[r] = commits[r]
           /\ commits'[Len(commits) + 1] = c
           /\ tip' = [tip EXCEPT ![b] = Len(commits) + 1]
<1>1. /\ commits \in Seq(Snapshot) /\ c \in Snapshot
      /\ commits' = Append(commits, c)
      /\ tip' = [tip EXCEPT ![b] = Len(commits) + 1]
      /\ UNCHANGED <<class, events, start, origin, judged>>
  BY DEF TypeOK, Grows, Add
<1> QED BY <1>1 DEF Revs

(* The judges, of code that cites the task. *)
LEMMA LoadShape ==
    /\ events # <<>> => DOMAIN Load = {Task} /\ Load[Task] = Record
    /\ events = <<>> => DOMAIN Load = {}
BY DEF Load, Record

LEMMA LawfulStands ==
    ASSUME NEW cites, NEW code, code # {}
    PROVE  /\ \A phase, settled :
                 FenceLawful(cites, code, Load, phase, settled) => cites = Task /\ Authorizes(code)
           /\ CommitMsgLawful(cites, code, Load) => cites = Task /\ Authorizes(code)
BY LoadShape DEF FenceLawful, CommitMsgLawful, CitationLawful, Authorizes

(* Another step leaves the commits and the record as they are. *)
LEMMA StandsKept ==
    ASSUME TypeOK, PassedStands, events' = events, class' = class,
           NEW r \in Revs, commits'[r] = commits[r],
           Code(r), commits[r].hooked \/ r \in judged
    PROVE  Stands(r)'
<1>1. Stands(r)
  BY DEF PassedStands
<1>2. \A code : Authorizes(code) => Authorizes(code)'
  BY DEF Authorizes, Record
<1> QED BY <1>1, <1>2 DEF Stands

LEMMA InitFenceInv == Init => FenceInv
<1> SUFFICES ASSUME Init PROVE FenceInv
  OBVIOUS
<1>0. /\ PhaseThere \in {"first-landing", "in-flight-there", "settled-done"}
      /\ PhaseThere = "settled-done" => DerivePhase(events) = "done"
  BY DEF PhaseThere
<1>1. /\ Root \in Snapshot /\ Adopted \in Snapshot
      /\ Root.anc = {1} /\ Root.pin = NoRev /\ Root.own = {} /\ Root.there = PhaseThere
      /\ Adopted.anc = {1, 2} /\ Adopted.pin = 1 /\ Adopted.own = {} /\ Adopted.there = PhaseThere
  <2> DEFINE of(anc, pin) == [anc |-> anc, own |-> {}, cites |-> None, there |-> PhaseThere,
                              pin |-> pin, hooked |-> FALSE]
  <2>1. Root = of({1}, NoRev)
    BY DEF Root
  <2>2. Adopted = of({1, 2}, 1)
    <3>1. Adopted = [of({1}, NoRev) EXCEPT !.anc = {1, 2}, !.pin = 1]
      BY <2>1 DEF Adopted
    <3> QED BY <3>1
  <2>3. {1} \in SUBSET Nat /\ {1, 2} \in SUBSET Nat /\ NoRev \in Nat
    BY DEF NoRev
  <2>4. \A anc \in SUBSET Nat, pin \in Nat : of(anc, pin) \in Snapshot
    BY <1>0 DEF Snapshot
  <2> QED BY <2>1, <2>2, <2>3, <2>4
<1>2. CASE commits = <<Root>>
  <2>1. commits \in Seq(Snapshot) /\ Revs = {1} /\ Len(commits) = 1 /\ commits[1] = Root
    BY <1>1, <1>2 DEF Revs
  <2>2. TypeOK
    BY <2>1 DEF Init, TypeOK, NoRev, Revs
  <2>3. History
    BY <1>1, <2>1 DEF Init, History, Anc, PinAt, NoRev
  <2>4. PassedStands /\ DoneIsDone
    BY <1>0, <1>1, <2>1 DEF PassedStands, DoneIsDone, Code, CodeFiles
  <2> QED BY <2>2, <2>3, <2>4 DEF FenceInv
<1>3. CASE commits = <<Root, Adopted>>
  <2>1. /\ commits \in Seq(Snapshot) /\ Revs = {1, 2} /\ Len(commits) = 2
        /\ commits[1] = Root /\ commits[2] = Adopted
    BY <1>1, <1>3 DEF Revs
  <2>2. TypeOK
    BY <2>1 DEF Init, TypeOK, NoRev, Revs
  <2>3. History
    BY <1>1, <2>1 DEF Init, History, Anc, PinAt, NoRev
  <2>4. PassedStands /\ DoneIsDone
    BY <1>0, <1>1, <2>1 DEF PassedStands, DoneIsDone, Code, CodeFiles
  <2> QED BY <2>2, <2>3, <2>4 DEF FenceInv
<1> QED BY <1>2, <1>3 DEF Init

-----------------------------------------------------------------------------
(* The three kinds of step *)

LEMMA RecordKeeps == FenceInv /\ RecordStep => FenceInv'
<1> SUFFICES ASSUME FenceInv, RecordStep PROVE FenceInv'
  OBVIOUS
<1>0. TypeOK /\ History /\ PassedStands /\ DoneIsDone /\ events \in Seq(Events)
  BY DEF FenceInv, TypeOK
<1>1. PICK e \in Events : Write(e) /\ (events # <<>> => AppendLawful(events))
  BY <1>0, RecordWrites
<1>2. /\ events' = Append(events, e) /\ UNCHANGED <<class, start, commits, tip, origin, judged>>
  BY <1>1 DEF Write, repo
<1>3. TypeOK'
  BY <1>0, <1>2 DEF TypeOK
<1>4. History'
  BY <1>0, <1>2 DEF History, Revs, Anc, PinAt
<1>5. PassedStands'
  BY <1>0, <1>2, AuthorizesKept DEF PassedStands, Stands, Revs, Code
<1>6. DoneIsDone'
  <2>1. DerivePhase(<<>>) = "intake"
    BY DEF DerivePhase, OfType
  <2>2. DerivePhase(events) # "done"
    BY <1>1, <2>1 DEF AppendLawful, Terminal
  <2> QED BY <1>0, <1>2, <2>2 DEF DoneIsDone, Revs
<1> QED BY <1>3, <1>4, <1>5, <1>6 DEF FenceInv

LEMMA CommitKeeps ==
    ASSUME FenceInv, NEW b, NEW sides, NEW c, Grows(b, sides, c) PROVE FenceInv'
<1>0. TypeOK /\ History /\ PassedStands /\ DoneIsDone
  BY DEF FenceInv
<1>n. PICK n : n = Len(commits) + 1
  OBVIOUS
<1>1. /\ UNCHANGED <<class, events, start, origin, judged>>
      /\ n \in Nat /\ n > 0 /\ Revs = 1 .. (n - 1)
      /\ Revs' = Revs \cup {n} /\ commits' \in Seq(Snapshot)
      /\ \A r \in Revs : commits'[r] = commits[r]
      /\ commits'[n] = c
      /\ tip' = [tip EXCEPT ![b] = n]
  BY <1>0, <1>n, GrowsEffect
<1>2. /\ b \in Branches /\ sides \in SUBSET Revs /\ c \in Snapshot
      /\ c.anc = {n} \cup UNION {Anc(r) : r \in sides}
      /\ c.pin \in c.anc \cup {NoRev}
      /\ c.there \in {PhaseThere} \cup {commits[r].there : r \in sides}
      /\ c.hooked => CommitMsgLawful(c.cites, CodeFiles(c.own), Load)
  BY <1>n DEF Grows
<1>3. TypeOK'
  <2>1. tip' \in [Branches -> Revs']
    BY <1>0, <1>1 DEF TypeOK, Revs
  <2>2. origin' \in [Branches -> Revs' \cup {NoRev}]
    BY <1>0, <1>1 DEF TypeOK, Revs
  <2> QED BY <1>0, <1>1, <2>1, <2>2 DEF TypeOK, Revs
<1>4. History'
  <2>1. \A r \in Revs : Anc(r)' = Anc(r) /\ PinAt(r)' = PinAt(r)
    BY <1>1 DEF Anc, PinAt
  <2>2. Anc(n)' = {n} \cup UNION {Anc(r) : r \in sides} /\ PinAt(n)' = c.pin
    BY <1>1, <1>2 DEF Anc, PinAt, NoRev
  <2>3. \A x \in Anc(n)' : x = n \/ \E r \in sides : x \in Anc(r)
    BY <2>2
  <2>4. \A r \in sides : Anc(r) \subseteq Anc(n)'
    BY <2>2
  <2>5. \A r \in sides : r \in Revs /\ Anc(r) \subseteq Revs
    BY <1>0, <1>1, <1>2 DEF History
  <2>6. n \in Anc(n)' /\ Anc(n)' \subseteq 1 .. n
    BY <1>1, <2>2, <2>3, <2>5
  <2>7. ASSUME NEW x \in Anc(n)' PROVE Anc(x)' \subseteq Anc(n)'
    <3>1. CASE x = n
      BY <3>1
    <3>2. ASSUME NEW r \in sides, x \in Anc(r) PROVE Anc(x)' \subseteq Anc(n)'
      <4>1. x \in Revs /\ Anc(x) \subseteq Anc(r)
        BY <1>0, <2>5, <3>2 DEF History
      <4> QED BY <2>1, <2>4, <4>1
    <3> QED BY <2>3, <3>1, <3>2
  <2>8. PinAt(n)' \in Anc(n)' \cup {NoRev}
    BY <1>2, <2>2
  <2>9. \A r \in Revs :
           /\ r \in Anc(r)' /\ Anc(r)' \subseteq 1 .. r
           /\ \A a \in Anc(r)' : Anc(a)' \subseteq Anc(r)'
           /\ PinAt(r)' \in Anc(r)' \cup {NoRev}
    <3> SUFFICES ASSUME NEW r \in Revs
                 PROVE  /\ r \in Anc(r)' /\ Anc(r)' \subseteq 1 .. r
                        /\ \A a \in Anc(r)' : Anc(a)' \subseteq Anc(r)'
                        /\ PinAt(r)' \in Anc(r)' \cup {NoRev}
      OBVIOUS
    <3>1. /\ r \in Anc(r) /\ Anc(r) \subseteq 1 .. r
          /\ \A a \in Anc(r) : Anc(a) \subseteq Anc(r)
          /\ PinAt(r) \in Anc(r) \cup {NoRev}
      BY <1>0 DEF History
    <3>2. \A a \in Anc(r) : a \in Revs
      BY <1>1, <3>1
    <3> QED BY <2>1, <3>1, <3>2
  <2>10. (origin[Main] # NoRev)'
    BY <1>0, <1>1 DEF History
  <2> QED BY <1>1, <2>6, <2>7, <2>8, <2>9, <2>10 DEF History
<1>5. PassedStands'
  <2>1. n \notin judged' /\ judged' = judged
    BY <1>0, <1>1 DEF TypeOK, Revs
  <2>2. ASSUME CodeFiles(c.own) # {}, c.hooked PROVE Stands(n)'
    <3>1. c.cites = Task /\ Authorizes(CodeFiles(c.own))
      BY <1>2, <2>2, LawfulStands
    <3>2. Authorizes(CodeFiles(c.own))'
      BY <1>1, <3>1 DEF Authorizes, Record
    <3> QED BY <1>1, <3>1, <3>2 DEF Stands
  <2>3. ASSUME NEW r \in Revs, Code(r)', commits'[r].hooked \/ r \in judged' PROVE Stands(r)'
    BY <1>0, <1>1, <2>3, StandsKept DEF Code
  <2> QED BY <1>1, <2>1, <2>2, <2>3 DEF PassedStands, Code
<1>6. DoneIsDone'
  <2>1. PhaseThere = "settled-done" => DerivePhase(events) = "done"
    BY DEF PhaseThere
  <2>2. c.there = "settled-done" => DerivePhase(events) = "done"
    BY <1>0, <1>2, <2>1 DEF DoneIsDone
  <2> QED BY <1>0, <1>1, <2>2 DEF DoneIsDone
<1> QED BY <1>3, <1>4, <1>5, <1>6 DEF FenceInv

LEMMA PushKeeps ==
    ASSUME FenceInv, NEW b \in Branches, NEW pushed \in Branches, Push(b, pushed) PROVE FenceInv'
<1>0. TypeOK /\ History /\ PassedStands /\ DoneIsDone
  BY DEF FenceInv
<1>1. PICK base :
         /\ judged' = judged \cup Range(b, base)
         /\ Range(b, base) \subseteq {r \in Anc(tip[b]) : JudgedLawful(b, r)}
  BY DEF Push, FencePasses
<1>2. /\ origin' = [origin EXCEPT ![pushed] = tip[pushed]]
      /\ UNCHANGED <<class, events, start, commits, tip>>
  BY DEF Push, repo
<1>3. Anc(tip[b]) \subseteq Revs /\ tip[pushed] \in Revs
  BY <1>0 DEF TypeOK, History, Revs
<1>4. TypeOK'
  BY <1>0, <1>1, <1>2, <1>3 DEF TypeOK, Revs
<1>5. History'
  <2>1. tip[pushed] # NoRev
    BY <1>0, <1>3, RevShape
  <2>2. (origin[Main] # NoRev)'
    BY <1>0, <1>2, <2>1 DEF TypeOK, History
  <2> QED BY <1>0, <1>2, <2>2 DEF History, Revs, Anc, PinAt
<1>6. PassedStands'
  <2>1. ASSUME NEW r \in Revs, Code(r), r \in Range(b, base) PROVE Stands(r)
    BY <1>1, <2>1, LawfulStands DEF JudgedLawful, Stands, Code
  <2>2. \A r \in Revs : Stands(r) => Stands(r)'
    BY <1>2 DEF Stands, Authorizes, Record
  <2> QED BY <1>0, <1>1, <1>2, <2>1, <2>2 DEF PassedStands, Revs, Code
<1>7. DoneIsDone'
  BY <1>0, <1>2 DEF DoneIsDone, Revs
<1> QED BY <1>4, <1>5, <1>6, <1>7 DEF FenceInv

LEMMA StepFenceInv == FenceInv /\ [Next]_vars => FenceInv'
<1> SUFFICES ASSUME FenceInv, [Next]_vars PROVE FenceInv'
  OBVIOUS
<1>1. CASE RecordStep
  BY <1>1, RecordKeeps
<1>2. ASSUME NEW b \in Branches, NEW side \in Branches,
             CommitThroughHooks(b) \/ CommitAroundHooks(b) \/ Merge(b, side)
      PROVE  FenceInv'
  BY <1>2, EveryCommitGrows, CommitKeeps DEF FenceInv
<1>3. ASSUME NEW b \in Branches, NEW side \in Branches, Push(b, side) PROVE FenceInv'
  BY <1>3, PushKeeps
<1>4. CASE UNCHANGED vars
  BY <1>4 DEF vars, repo, FenceInv, TypeOK, History, PassedStands, DoneIsDone, Revs, Anc, PinAt,
              Stands, Code, Authorizes, Record
<1> QED BY <1>1, <1>2, <1>3, <1>4 DEF Next

(* Everything the theorems below rest on holds of every reachable state.     *)
THEOREM FenceInvariant == Spec => []FenceInv
<1> QED BY InitFenceInv, StepFenceInv, PTL DEF Spec

-----------------------------------------------------------------------------
(* What a push lands *)

LEMMA PickedBase ==
    ASSUME NEW config, NEW committed, NEW current
    PROVE  /\ config # NoRev => PickBase(NoRev, config, committed, current) = config
           /\ config = NoRev /\ committed # NoRev
                 => PickBase(NoRev, config, committed, current) = committed
BY DEF PickBase

(* Where a push is accepted, the audit starts no later than where the pin of *)
(* the remote's own tip puts it, so what it leaves out is on the remote.     *)
LEMMA PushAudits ==
    ASSUME FenceInv, AdoptedEverywhere, NEW b \in Branches, NEW pushed \in Branches,
           Push(b, pushed), NEW r \in Anc(tip[pushed]), r \notin Anc(Anchor(b))
    PROVE  r \in judged' /\ JudgedLawful(b, r)
<1> DEFINE lawful == {x \in Anc(tip[b]) : JudgedLawful(b, x)}
           remote == PinAt(Anchor(b))
           head == PinAt(tip[b])
<1>0. TypeOK /\ History
  BY DEF FenceInv
<1>1. PICK config \in DOMAIN commits \cup {NoRev} :
         FencePasses(b, config, lawful) /\ judged' = judged \cup Range(b, PushBase(b, config))
  BY DEF Push
<1> DEFINE base == PushBase(b, config)
<1>2. /\ Widens(config, head) /\ BaseMoveJudged(config, remote, head)
      /\ Range(b, base) \subseteq lawful /\ Range(b, base) \subseteq judged'
  BY <1>1 DEF FencePasses
<1>3. Anchor(b) \in Revs /\ remote # NoRev
  <2>1. PICK a \in Branches : Anchor(b) = origin[a] /\ origin[a] # NoRev
    BY <1>0 DEF Anchor, History
  <2> QED BY <1>0, <2>1 DEF AdoptedEverywhere, TypeOK, Revs
<1>4. remote \in Anc(Anchor(b)) /\ Anc(remote) \subseteq Anc(Anchor(b)) /\ remote \in Revs
  BY <1>0, <1>3 DEF History, Revs, TypeOK
<1>5. Anc(base) \subseteq Anc(remote)
  <2>1. head # NoRev /\ (head = remote \/ config = remote)
    BY <1>2, <1>3 DEF BaseMoveJudged
  <2>2. CASE config = NoRev
    <3>1. base = head
      BY <2>1, <2>2, PickedBase DEF PushBase
    <3> QED BY <1>3, <2>1, <2>2, <3>1
  <2>3. CASE config # NoRev
    <3>1. base = config
      BY <2>3, PickedBase DEF PushBase
    <3>2. config = remote \/ config \in Anc(remote)
      BY <1>2, <2>1, <2>3 DEF Widens
    <3> QED BY <1>0, <1>4, <3>1, <3>2 DEF History
  <2> QED BY <2>2, <2>3
<1>6. r \in Anc(tip[b])
  <2>1. tip[pushed] \in Anc(tip[b]) /\ tip[b] \in Revs
    BY <1>0 DEF Push, FencedTip, TypeOK, Revs
  <2> QED BY <1>0, <2>1 DEF History
<1>7. r \in Range(b, base)
  BY <1>4, <1>5, <1>6 DEF Range
<1> QED BY <1>2, <1>7

(* Only a push moves a remote branch, and to the tip of that very branch.    *)
LEMMA OnlyPushLands ==
    ASSUME FenceInv, [Next]_vars, NEW x \in Branches, NEW r \in Landing(x)
    PROVE  \E b \in Branches : Push(b, x) /\ r \in Anc(tip[x])
<1>0. TypeOK /\ History
  BY DEF FenceInv
<1>1. ASSUME origin' = origin, \A y \in Revs : commits'[y] = commits[y] PROVE FALSE
  <2>1. Anc(origin[x])' = Anc(origin[x])
    BY <1>0, <1>1 DEF Anc, TypeOK, Revs
  <2> QED BY <2>1 DEF Landing
<1>2. CASE RecordStep
  <2>1. origin' = origin /\ commits' = commits
    BY <1>0, <1>2, RecordWrites DEF Write, repo, TypeOK
  <2> QED BY <1>1, <2>1
<1>3. ASSUME NEW b \in Branches, NEW side \in Branches,
             CommitThroughHooks(b) \/ CommitAroundHooks(b) \/ Merge(b, side)
      PROVE  FALSE
  BY <1>0, <1>1, <1>3, EveryCommitGrows, GrowsEffect
<1>4. ASSUME NEW b \in Branches, NEW pushed \in Branches, Push(b, pushed)
      PROVE  Push(b, x) /\ r \in Anc(tip[x])
  <2>1. origin' = [origin EXCEPT ![pushed] = tip[pushed]] /\ commits' = commits
    BY <1>4 DEF Push, repo
  <2>2. x = pushed
    BY <1>0, <2>1 DEF Landing, Anc, TypeOK
  <2>3. origin'[x] = tip[x]
    BY <1>0, <2>1, <2>2 DEF TypeOK
  <2> QED BY <1>4, <2>1, <2>2, <2>3 DEF Landing, Anc
<1>5. CASE UNCHANGED vars
  BY <1>1, <1>5 DEF vars, repo
<1> QED BY <1>2, <1>3, <1>4, <1>5 DEF Next

LEMMA AnchorIsRemote ==
    ASSUME FenceInv, NEW b \in Branches
    PROVE  \E a \in Branches : Anchor(b) = origin[a] /\ origin[a] # NoRev
BY DEF Anchor, FenceInv, History

(* Once the remote has adopted a base, nothing lands that no fence judged,   *)
(* whatever local base is set, wherever the pin moves, and whichever branch  *)
(* is pushed from which.                                                     *)
THEOREM AdoptedLandsJudged == Spec => AdoptedBranchLandsJudged
<1>1. ASSUME FenceInv, [Next]_vars, AdoptedEverywhere, NEW x \in Branches, NEW r \in Landing(x)
      PROVE  r \in judged' \cup UNION {Anc(origin[a]) : a \in Branches}
  <2>1. PICK b \in Branches : Push(b, x) /\ r \in Anc(tip[x])
    BY <1>1, OnlyPushLands
  <2>2. r \in judged' \/ r \in Anc(Anchor(b))
    BY <1>1, <2>1, PushAudits
  <2>3. PICK a \in Branches : Anchor(b) = origin[a]
    BY <1>1, AnchorIsRemote
  <2> QED BY <2>2, <2>3
<1>2. FenceInv /\ [Next]_vars =>
         (AdoptedEverywhere => \A b \in Branches :
             Landing(b) \subseteq judged' \cup UNION {Anc(origin[a]) : a \in Branches})
  BY <1>1
<1> QED BY <1>2, FenceInvariant, PTL DEF Spec, AdoptedBranchLandsJudged

(* A finished task never authorizes new code: once the remote tips show the  *)
(* task done, no push lands code of it that the remote does not hold.        *)
THEOREM DoneAuthorizesNothing == Spec => DoneAuthorizesNothingNew
<1> DEFINE DoneEverywhere ==
               \A b \in Branches : origin[b] # NoRev => commits[origin[b]].there = "settled-done"
<1>1. ASSUME FenceInv, [Next]_vars, AdoptedEverywhere, DoneEverywhere,
             NEW x \in Branches, NEW r \in Revs, r \in Landing(x), Code(r)'
      PROVE  \E a \in Branches : r \in Anc(origin[a])
  <2>1. PICK b \in Branches : Push(b, x) /\ r \in Anc(tip[x])
    BY <1>1, OnlyPushLands
  <2>2. PICK a \in Branches : Anchor(b) = origin[a] /\ origin[a] # NoRev
    BY <1>1, AnchorIsRemote
  <2>3. SUFFICES ASSUME r \notin Anc(Anchor(b)) PROVE FALSE
    BY <2>2
  <2>4. JudgedLawful(b, r)
    BY <1>1, <2>1, <2>3, PushAudits
  <2>5. AnchorPhase(b) = "settled-done"
    BY <1>1, <2>2 DEF AnchorPhase
  <2>6. DerivePhase(events) = "done"
    BY <1>1, <2>2 DEF FenceInv, DoneIsDone, TypeOK, Revs
  <2>7. CodeFiles(commits[r].own) # {}
    BY <1>1, <2>1 DEF Push, repo, Code
  <2>8. /\ commits[r].cites \in DOMAIN Load
        /\ CitationLawful(Load[commits[r].cites], CodeFiles(commits[r].own), TRUE, TRUE)
    BY <2>3, <2>4, <2>5, <2>7 DEF JudgedLawful, FenceLawful, IsNewCitation
  <2>9. Load[commits[r].cites].events = events
    BY <2>8, LoadShape DEF Record, RecordOf
  <2> QED BY <2>6, <2>8, <2>9 DEF CitationLawful
<1>2. FenceInv /\ [Next]_vars =>
         (AdoptedEverywhere /\ DoneEverywhere =>
             \A b \in Branches, r \in Revs : r \in Landing(b) /\ Code(r)' =>
                \E a \in Branches : r \in Anc(origin[a]))
  BY <1>1
<1> QED BY <1>2, FenceInvariant, PTL DEF Spec, DoneAuthorizesNothingNew

-----------------------------------------------------------------------------
(* The gates, of one state *)

(* A standing citation passes the fence as long as the done law is met. *)
LEMMA StandingPasses ==
    ASSUME NEW code, Authorizes(code), NEW phase, NEW settled,
           DerivePhase(events) = "done" => ~IsNewCitation("done", phase, settled)
    PROVE  FenceLawful(Task, code, Load, phase, settled)
<1>1. /\ Task \in DOMAIN Load /\ Load[Task] = Record /\ Record.events = events
      /\ RecordLawful(Record, TRUE) /\ ScopeAuthorizes(Record, code, TRUE)
  BY LoadShape DEF Authorizes, Record, RecordOf
<1>2. DerivePhase(events) # "retired"
  BY AuthorizesMeans DEF AtLeastExecuting, Phases, Rank
<1> QED BY <1>1, <1>2 DEF FenceLawful, CitationLawful

(* Settled history is never accused, however the task goes on.               *)
THEOREM SettledStays == Spec => []SettledStaysLawful
<1>1. FenceInv => SettledStaysLawful
  <2> SUFFICES ASSUME FenceInv, NEW b \in Branches, NEW r \in judged
               PROVE  FenceLawful(commits[r].cites, CodeFiles(commits[r].own), Load,
                                  commits[origin[b]].there, TRUE)
    BY DEF SettledStaysLawful
  <2> DEFINE phase == commits[origin[b]].there
  <2>1. r \in Revs
    BY DEF FenceInv, TypeOK, Revs
  <2>2. CASE CodeFiles(commits[r].own) = {}
    BY <2>2 DEF FenceLawful
  <2>3. CASE CodeFiles(commits[r].own) # {}
    <3>1. Stands(r)
      BY <2>1, <2>3 DEF FenceInv, PassedStands, Code
    <3>2. ~IsNewCitation("done", phase, TRUE)
      BY DEF IsNewCitation
    <3> QED BY <3>1, <3>2, StandingPasses DEF Stands
  <2> QED BY <2>2, <2>3
<1> QED BY <1>1, FenceInvariant, PTL

(* The transports cannot drift: what commit-msg let through, the fence lets  *)
(* through, at any later point of the task's life short of landing it done.  *)
THEOREM HookedPasses == Spec => []HookedPassesFence
<1>1. FenceInv => HookedPassesFence
  <2> SUFFICES ASSUME FenceInv, NEW r \in DOMAIN commits, commits[r].hooked,
                      NEW phase \in {"no-anchor", "first-landing", "in-flight-there"}
               PROVE  FenceLawful(commits[r].cites, CodeFiles(commits[r].own), Load, phase, FALSE)
    BY DEF HookedPassesFence
  <2>1. CASE CodeFiles(commits[r].own) = {}
    BY <2>1 DEF FenceLawful
  <2>2. CASE CodeFiles(commits[r].own) # {}
    <3>1. Stands(r)
      BY <2>2 DEF FenceInv, PassedStands, Code, Revs
    <3>2. ~IsNewCitation("done", phase, FALSE)
      BY DEF IsNewCitation
    <3> QED BY <3>1, <3>2, StandingPasses DEF Stands
  <2> QED BY <2>1, <2>2
<1> QED BY <1>1, FenceInvariant, PTL

(* The editor's hook and the two git hooks agree on every file, in every     *)
(* state of the record.                                                      *)
THEOREM EditedCommittable == Spec => []EditedIsCommittable
<1>1. EditedIsCommittable
  <2> SUFFICES ASSUME NEW f \in Files
               PROVE  EditLawful(f, {Load[id] : id \in DOMAIN Load}) <=>
                         \E cites \in DOMAIN Load \cup {None} : HooksPass({f}, cites)
    BY DEF EditedIsCommittable
  <2> DEFINE records == {Load[id] : id \in DOMAIN Load}
  <2>1. CASE ~IsCodePath(f)
    <3>1. CodeFiles({f}) = {}
      BY <2>1 DEF CodeFiles
    <3> QED BY <2>1, <3>1 DEF EditLawful, HooksPass, StagedLawful, CommitMsgLawful
  <2>2. CASE IsCodePath(f)
    <3>1. CodeFiles({f}) = {f}
      BY <2>2 DEF CodeFiles
    <3>2. CASE events = <<>>
      <4>1. records = {} /\ DOMAIN Load = {}
        BY <3>2, LoadShape
      <4> QED BY <2>2, <3>1, <4>1 DEF EditLawful, HooksPass, CommitMsgLawful
    <3>3. CASE events # <<>>
      <4>1. records = {Record} /\ DOMAIN Load = {Task} /\ Load[Task] = Record
        BY <3>3, LoadShape
      <4>2. EditLawful(f, records) <=>
               /\ DerivePhase(Record.events) \in {"executing", "verified", "adversarial"}
               /\ RecordLawful(Record, TRUE)
               /\ CitationLawful(Record, {f}, TRUE, TRUE)
        BY <2>2, <4>1 DEF EditLawful
      <4>3. ~HooksPass({f}, None)
        BY <3>1 DEF HooksPass, CommitMsgLawful
      <4>4. HooksPass({f}, Task) <=>
               /\ DerivePhase(Record.events) # "done"
               /\ RecordLawful(Record, TRUE)
               /\ CitationLawful(Record, {f}, TRUE, TRUE)
        BY <3>1, <4>1 DEF HooksPass, StagedLawful, CommitMsgLawful, CitationLawful
      <4>5. RecordLawful(Record, TRUE) /\ DerivePhase(Record.events) # "done"
               => DerivePhase(Record.events) \in {"executing", "verified", "adversarial"}
        BY DEF RecordLawful, AtLeastExecuting, Phases, Rank
      <4> QED BY <4>1, <4>2, <4>3, <4>4, <4>5
    <3> QED BY <3>2, <3>3
  <2> QED BY <2>1, <2>2
<1> QED BY <1>1, PTL

-----------------------------------------------------------------------------
(* The printed fixes *)

CodeClasses == {"runtime-code", "protected", "migration"}

Approved(c, ev) == c \in ApprovalRequired => HasApproval(ev)

(* What task-state writes stays what the fence looks for.                    *)
LEMMA SurfaceKept ==
    ASSUME NEW c, NEW ev \in Seq(Events), NEW e \in Events,
           FenceSurfaceLawful(c, ev, ScopeOf(ev)),
           e.type = "scope" => FenceSurfaceLawful(c, ev, e.patterns)
    PROVE  FenceSurfaceLawful(c, Append(ev, e), ScopeOf(Append(ev, e)))
<1> DEFINE new == Append(ev, e)
<1>1. /\ HasApproval(ev) => HasApproval(new)
      /\ e.type # "scope" => ScopeOf(new) = ScopeOf(ev)
      /\ e.type = "scope" => ScopeOf(new) = ScopeOf(ev) \cup e.patterns
  BY AppendKeeps
<1> HIDE DEF new
<1> QED BY <1>1 DEF FenceSurfaceLawful, new

LEMMA WrittenStays ==
    ASSUME NEW c, NEW ev \in Seq(Events), NEW e \in Events, MachineWritten(c, ev),
           AppendLawful(ev) \/ ev = <<>>,
           e.type # "retired",
           e.type = "transition" /\ e.to = "done" => PinnedForDone(c, ev),
           e.type = "scope" => FenceSurfaceLawful(c, ev, e.patterns)
    PROVE  MachineWritten(c, Append(ev, e))
<1> DEFINE new == Append(ev, e)
<1>1. OfType(ev, "retired") = {}
  BY OpenNotRetired DEF OfType
<1>2. OfType(new, "retired") = {}
  BY <1>1, OfTypeAppend
<1>3. ASSUME DerivePhase(new) = "done" PROVE PinnedForDone(c, new)
  <2>1. CASE e.type = "transition"
    <3>1. e = Transition(e.to) /\ e.to \in Phases
      BY <2>1, EventShape DEF Events, Created, Approval, PinExemption, Retired, Transition, Scope,
                              Pin, PinRetire
    <3>2. DerivePhase(new) = e.to
      BY <1>1, <3>1, PhaseMove
    <3>3. PinnedForDone(c, ev)
      BY <1>3, <2>1, <3>2
    <3>4. CommandPins(new) = CommandPins(ev)
      BY <2>1, PinsQuiet
    <3>5. OfType(new, "pin-exemption") = OfType(ev, "pin-exemption")
      BY <2>1, OfTypeAppend
    <3> HIDE DEF new
    <3> QED BY <3>3, <3>4, <3>5 DEF PinnedForDone, HasPinExemption
  <2>2. CASE e.type # "transition"
    <3>1. DerivePhase(ev) = "done"
      BY <1>3, <2>2, PhaseQuiet
    <3>2. DerivePhase(<<>>) # "done"
      BY DEF DerivePhase, OfType
    <3> QED BY <3>1, <3>2 DEF AppendLawful, Terminal
  <2> QED BY <2>1, <2>2
<1>4. FenceSurfaceLawful(c, new, ScopeOf(new))
  BY SurfaceKept DEF MachineWritten
<1> HIDE DEF new
<1> QED BY <1>2, <1>3, <1>4 DEF MachineWritten, RetirementShape, new

LEMMA RetiredStays ==
    ASSUME NEW c, NEW ev \in Seq(Events), MachineWritten(c, ev), RetirementLawful(ev)
    PROVE  MachineWritten(c, Append(ev, Retired))
<1> DEFINE new == Append(ev, Retired)
<1>1. Retired \in Events /\ Retired.type = "retired"
  BY EventsTyped DEF Retired
<1>2. OfType(new, "retired") = {Len(ev) + 1}
  <2>1. OfType(new, "retired") = OfType(ev, "retired") \cup {Len(ev) + 1}
    BY <1>1, OfTypeAppend, Zenon
  <2>2. OfType(ev, "retired") = {}
    BY OpenNotRetired DEF RetirementLawful
  <2> QED BY <2>1, <2>2
<1>3. Len(new) = Len(ev) + 1 /\ Len(ev) \in Nat
  BY <1>1, AppendShape
<1>4. SubSeq(new, 1, (Len(ev) + 1) - 1) = ev
  OBVIOUS
<1>5. RetirementShape(new)
  BY <1>2, <1>3, <1>4 DEF RetirementShape, RetirementLawful
<1>6. DerivePhase(new) # "done"
  BY PhaseRetired
<1>7. FenceSurfaceLawful(c, new, ScopeOf(new))
  BY <1>1, SurfaceKept DEF MachineWritten
<1> QED BY <1>5, <1>6, <1>7 DEF MachineWritten

(* So every record the clone holds is one task-state wrote.                  *)
WrittenInv == FenceInv /\ MachineWritten(class, events)

LEMMA InitWritten == Init => MachineWritten(class, events)
BY FenceRemediesAssumption DEF Init

LEMMA RecordStaysWritten ==
    ASSUME events \in Seq(Events), MachineWritten(class, events), RecordStep
    PROVE  MachineWritten(class, events)'
<1>1. ASSUME NEW e \in Events, Write(e), AppendLawful(events) \/ events = <<>>,
             e.type # "retired",
             e.type = "transition" /\ e.to = "done" => PinnedForDone(class, events),
             e.type = "scope" => FenceSurfaceLawful(class, events, e.patterns)
      PROVE  MachineWritten(class, events)'
  <2>1. MachineWritten(class, Append(events, e))
    BY <1>1, WrittenStays
  <2> QED BY <1>1, <2>1 DEF Write
<1>2. CASE NewTask
  <2>1. Created \in Events /\ Created.type = "created"
    BY EventsTyped DEF Created
  <2> QED BY <1>1, <1>2, <2>1 DEF NewTask
<1>3. CASE ApproveTask
  <2>1. Approval \in Events /\ Approval.type = "approval"
    BY EventsTyped DEF Approval
  <2> QED BY <1>1, <1>3, <2>1 DEF ApproveTask
<1>4. CASE ScopeTask
  <2>1. PICK ps \in SUBSET Patterns :
           ScopeLawful(class, events, ps) /\ Write(Scope(ps \ ScopeOf(events)))
    BY <1>4 DEF ScopeTask
  <2> DEFINE e == Scope(ps \ ScopeOf(events))
  <2>2. e \in Events /\ e.type = "scope" /\ e.patterns = ps \ ScopeOf(events)
    BY EventsTyped DEF Scope
  <2>3. FenceSurfaceLawful(class, events, e.patterns) /\ AppendLawful(events)
    BY <2>1, <2>2 DEF ScopeLawful, FenceSurfaceLawful
  <2> HIDE DEF e
  <2> QED BY <1>1, <2>1, <2>2, <2>3 DEF e
<1>5. CASE PinTask
  <2>1. PICK c \in Commands, x \in Expects : Write(Pin(c, x, {}))
    BY <1>5 DEF PinTask
  <2>2. Pin(c, x, {}) \in Events /\ Pin(c, x, {}).type = "red-check"
    BY EventsTyped DEF Pin
  <2> QED BY <1>1, <1>5, <2>1, <2>2 DEF PinTask
<1>6. CASE RetireTask
  <2>1. MachineWritten(class, Append(events, Retired))
    BY <1>6, RetiredStays DEF RetireTask
  <2> QED BY <1>6, <2>1 DEF RetireTask, Write
<1>7. CASE AdvanceTask
  <2>1. PICK target \in Phases :
           /\ AppendLawful(events)
           /\ target = "done" => PinnedForDone(class, events)
           /\ Write(Transition(target))
    BY <1>7 DEF AdvanceTask
  <2>2. /\ Transition(target) \in Events /\ Transition(target).type = "transition"
        /\ Transition(target).to = target
    BY EventsTyped DEF Transition
  <2> QED BY <1>1, <2>1, <2>2
<1> QED BY <1>2, <1>3, <1>4, <1>5, <1>6, <1>7 DEF RecordStep

LEMMA StepWritten == WrittenInv /\ [Next]_vars => MachineWritten(class, events)'
<1> SUFFICES ASSUME WrittenInv, [Next]_vars PROVE MachineWritten(class, events)'
  OBVIOUS
<1>0. FenceInv /\ MachineWritten(class, events)
  BY DEF WrittenInv
<1>1. CASE RecordStep
  BY <1>0, <1>1, RecordStaysWritten DEF FenceInv, TypeOK
<1>2. CASE UNCHANGED <<class, events>>
  BY <1>0, <1>2
<1>3. ASSUME NEW b \in Branches, NEW side \in Branches,
             CommitThroughHooks(b) \/ CommitAroundHooks(b) \/ Merge(b, side)
      PROVE  UNCHANGED <<class, events>>
  BY <1>3 DEF CommitThroughHooks, CommitAroundHooks, Commit, Merge, Add
<1>4. ASSUME NEW b \in Branches, NEW side \in Branches, Push(b, side)
      PROVE  UNCHANGED <<class, events>>
  BY <1>4 DEF Push
<1> QED BY <1>1, <1>2, <1>3, <1>4 DEF Next, vars

LEMMA WrittenInvariant == Spec => []WrittenInv
<1>1. Init => WrittenInv
  BY InitFenceInv, InitWritten DEF WrittenInv
<1>2. WrittenInv /\ [Next]_vars => WrittenInv'
  BY StepFenceInv, StepWritten DEF WrittenInv
<1> QED BY <1>1, <1>2, PTL DEF Spec

(* What a task opened by a printed fix still has ahead of it.                *)
LEMMA FreshTask ==
    /\ <<Created>> \in Seq(Events)
    /\ DerivePhase(<<Created>>) = "intake" /\ ~Terminal(<<Created>>)
    /\ ~HasApproval(<<Created>>) /\ ScopeOf(<<Created>>) = {}
<1>1. \A t : t # "created" => OfType(<<Created>>, t) = {}
  BY DEF OfType, Created
<1>2. <<Created>> \in Seq(Events)
  BY EventsTyped
<1>3. DerivePhase(<<Created>>) = "intake"
  BY <1>1 DEF DerivePhase
<1>4. ScopeOf(<<Created>>) = {}
  <2>1. OfType(<<Created>>, "scope") = {}
    BY <1>1
  <2>2. \A p : p \notin ScopeOf(<<Created>>)
    BY <2>1, ScopeMember, Zenon
  <2> QED BY <2>2
<1> QED BY <1>1, <1>2, <1>3, <1>4 DEF Terminal, HasApproval

LEMMA RecordFields ==
    ASSUME NEW id, NEW c, NEW ev
    PROVE  /\ RecordOf(id, c, ev).id = id /\ RecordOf(id, c, ev).class = c
           /\ RecordOf(id, c, ev).events = ev /\ RecordOf(id, c, ev).schema
           /\ RecordOf(id, c, ev).chained /\ RecordOf(id, c, ev).heading
           /\ RecordOf(id, c, ev).stamp = "after"
BY DEF RecordOf

Unapproved(r)   == Missing(~Approved(r.class, r.events))
Uncovered(r, f) == Missing(~ScopeCovers(r, {f}))

LEMMA MissingIs ==
    ASSUME NEW r, NEW f
    PROVE  /\ Unapproved(r) \in {0, 1} /\ Uncovered(r, f) \in {0, 1}
           /\ Unapproved(r) = 0 <=> Approved(r.class, r.events)
           /\ Uncovered(r, f) = 0 <=> ScopeCovers(r, {f})
BY DEF Unapproved, Uncovered, Missing

LEMMA ShortIs ==
    ASSUME NEW ev
    PROVE  /\ DerivePhase(ev) = "intake" => Short(ev) = 2
           /\ DerivePhase(ev) = "planned" => Short(ev) = 1
           /\ DerivePhase(ev) \notin {"intake", "planned"} => Short(ev) = 0
BY DEF Short, Rank

LEMMA AheadCases ==
    ASSUME NEW r, NEW f
    PROVE  /\ Terminal(r.events) \/ r.class \notin CodeClasses => Ahead(r, f) = 8
           /\ ~Terminal(r.events) /\ r.class = "runtime-code" /\ FenceSurfacePath(f)
                 => Ahead(r, f) = 5 + Short(r.events)
           /\ /\ ~Terminal(r.events) /\ r.class \in CodeClasses
              /\ ~(r.class = "runtime-code" /\ FenceSurfacePath(f))
              => Ahead(r, f) = Short(r.events) + Unapproved(r) + Uncovered(r, f)
<1> DEFINE steps == Short(r.events) + Unapproved(r) + Uncovered(r, f)
<1>1. Missing(~Approved(r.class, r.events))
         = Missing(r.class \in ApprovalRequired /\ ~HasApproval(r.events))
  BY DEF Missing, Approved
<1>2. Ahead(r, f) =
        CASE Terminal(r.events) \/ r.class \notin CodeClasses -> 8
          [] ~Terminal(r.events) /\ r.class = "runtime-code" /\ FenceSurfacePath(f)
                -> 5 + Short(r.events)
          [] OTHER -> steps
  BY <1>1 DEF Ahead, CodeClasses, Unapproved, Uncovered
<1> HIDE DEF steps
<1>3. "runtime-code" \in CodeClasses
  BY DEF CodeClasses
<1> QED BY <1>2, <1>3 DEF steps

LEMMA OpenedAhead ==
    ASSUME NEW r, NEW c \in CodeClasses, NEW f
    PROVE  /\ Ahead(Opened(r, c), f) \in 3 .. 7
           /\ c \in ApprovalRequired => Ahead(Opened(r, c), f) = 4
           /\ ~FenceSurfacePath(f) => Ahead(Opened(r, c), f) <= 4
<1> DEFINE s == Opened(r, c)
<1>1. s.class = c /\ s.events = <<Created>>
  BY RecordFields DEF Opened
<1>2. ~Terminal(s.events) /\ Short(s.events) = 2 /\ ~HasApproval(s.events)
  BY <1>1, FreshTask, ShortIs
<1>3. ~ScopeCovers(s, {f})
  BY <1>1, FreshTask DEF ScopeCovers
<1> HIDE DEF s
<1>4. Uncovered(s, f) = 1
  BY <1>3, MissingIs
<1>5. Unapproved(s) = IF c = "runtime-code" THEN 0 ELSE 1
  BY <1>1, <1>2, MissingIs DEF Approved, ApprovalRequired, CodeClasses
<1>6. /\ Ahead(s, f) \in 3 .. 7
      /\ c \in ApprovalRequired => Ahead(s, f) = 4
      /\ ~FenceSurfacePath(f) => Ahead(s, f) <= 4
  BY <1>1, <1>2, <1>4, <1>5, AheadCases DEF ApprovalRequired
<1> QED BY <1>6 DEF s

(* A record a commit may cite. *)
Citable(r) ==
    /\ r = RecordOf(r.id, r.class, r.events)
    /\ r.class \in RiskClasses /\ r.events \in Seq(Events)
    /\ MachineWritten(r.class, r.events)

LEMMA CitableIsWhole ==
    ASSUME NEW r, Citable(r)
    PROVE  /\ r.schema
           /\ CodeClass(r, TRUE) <=> r.class \in CodeClasses /\ Approved(r.class, r.events)
           /\ \A f : ScopeAuthorizes(r, {f}, TRUE) <=> ScopeCovers(r, {f})
<1> DEFINE c == r.class
           ev == r.events
           s == RecordOf(r.id, c, ev)
<1>1. r = s /\ c \in RiskClasses /\ MachineWritten(c, ev)
  BY DEF Citable
<1>2. /\ s.schema /\ s.chained /\ s.heading /\ s.stamp = "after"
  BY RecordFields
<1>3. /\ r.schema /\ r.chained /\ r.heading /\ r.stamp = "after"
  BY <1>1, <1>2
<1>4. CodeClass(r, TRUE) <=> r.class \in CodeClasses /\ Approved(r.class, r.events)
  BY <1>1, <1>3 DEF CodeClass, ClassLawful, Approved, CodeClasses, RiskClasses,
                    ImplementationForbidden, ApprovalRequired
<1>5. \A f : ScopeAuthorizes(r, {f}, TRUE) <=> ScopeCovers(r, {f})
  BY <1>1, <1>3 DEF ScopeAuthorizes, IsGrandfatheredScope, MachineWritten
<1> QED BY <1>3, <1>4, <1>5

(* The fence finds nothing amiss in it but its class and its phase.          *)
LEMMA CitableIsUntampered ==
    ASSUME NEW r, Citable(r), r.class \in CodeClasses PROVE Untampered(r)
<1>1. r.class \notin NonCodeClasses
  BY DEF CodeClasses, NonCodeClasses
<1>2. DonePinned(r) /\ RetirementShape(r.events)
  BY <1>1 DEF Citable, MachineWritten, DonePinned, PinnedForDone
<1>3. r = RecordOf(r.id, r.class, r.events)
  BY DEF Citable
<1>4. r.chained
  BY <1>3, RecordFields
<1> QED BY <1>2, <1>4 DEF Untampered

LEMMA ExecutingIs ==
    ASSUME NEW p
    PROVE  AtLeastExecuting(p) <=> p \in {"executing", "verified", "adversarial", "done"}
<1>1. Phases = {"intake", "planned", "executing", "verified", "adversarial", "done"}
  BY DEF Phases, Rank
<1> QED BY <1>1 DEF AtLeastExecuting, Rank

(* What a commit that cites it is told: first of its class ...               *)
LEMMA ToldClass ==
    ASSUME NEW r, Citable(r), NEW f
    PROVE  /\ r.class \notin CodeClasses => CitationFix(r, {f}) = Successor("runtime-code")
           /\ ~Approved(r.class, r.events) => CitationFix(r, {f}) = Fix("approve")
<1>1. r.schema /\ (CodeClass(r, TRUE) <=> r.class \in CodeClasses /\ Approved(r.class, r.events))
  BY CitableIsWhole
<1>2. ASSUME ~CodeClass(r, TRUE) PROVE CitationFix(r, {f}) = ClassRemedy(r)
  BY <1>1, <1>2 DEF CitationFix, RecordLawful, RecordRemedy
<1>3. ASSUME r.class \notin CodeClasses PROVE ClassRemedy(r) = Successor("runtime-code")
  BY <1>3 DEF ClassRemedy, CodeClasses, ApprovalRequired
<1>4. ASSUME ~Approved(r.class, r.events) PROVE ClassRemedy(r) = Fix("approve")
  BY <1>4 DEF ClassRemedy, Approved
<1> QED BY <1>1, <1>2, <1>3, <1>4

(* ... then of its phase, and last of its scope.                             *)
LEMMA ToldPhase ==
    ASSUME NEW r, Citable(r), NEW f, r.class \in CodeClasses, Approved(r.class, r.events)
    PROVE  /\ Terminal(r.events) => CitationFix(r, {f}) = Successor(r.class)
           /\ DerivePhase(r.events) \in {"intake", "planned"} => CitationFix(r, {f}) = Fix("advance")
           /\ DerivePhase(r.events) \in {"executing", "verified", "adversarial"} =>
                 /\ ScopeCovers(r, {f}) => CitationFix(r, {f}) = Fix("none")
                 /\ ~ScopeCovers(r, {f}) => CitationFix(r, {f}) = Fix("scope")
<1>1. r.schema /\ CodeClass(r, TRUE) /\ Untampered(r)
  BY CitableIsWhole, CitableIsUntampered
<1>2. RecordLawful(r, TRUE) <=>
         DerivePhase(r.events) \in {"executing", "verified", "adversarial", "done"}
  BY <1>1, ExecutingIs DEF RecordLawful
<1>3. ~RecordLawful(r, TRUE) => CitationFix(r, {f}) = LifecycleRemedy(r)
  BY <1>1 DEF CitationFix, RecordRemedy
<1>4. CASE DerivePhase(r.events) = "retired"
  <2>1. LifecycleRemedy(r) = Successor(r.class)
    BY <1>1, <1>4 DEF LifecycleRemedy
  <2> QED BY <1>2, <1>3, <1>4, <2>1
<1>5. CASE DerivePhase(r.events) \in {"intake", "planned"}
  <2>1. LifecycleRemedy(r) = Fix("advance")
    BY <1>1, <1>5 DEF LifecycleRemedy
  <2> QED BY <1>2, <1>3, <1>5, <2>1 DEF Terminal
<1>6. CASE DerivePhase(r.events) = "done"
  <2>1. RecordLawful(r, TRUE)
    BY <1>2, <1>6
  <2> QED BY <1>6, <2>1 DEF CitationFix
<1>7. CASE DerivePhase(r.events) \in {"executing", "verified", "adversarial"}
  <2>1. RecordLawful(r, TRUE)
    BY <1>2, <1>7
  <2>2. FenceSurfaceLawful(r.class, r.events, ScopeOf(r.events))
    BY DEF Citable, MachineWritten
  <2>3. ScopeAuthorizes(r, {f}, TRUE) <=> ScopeCovers(r, {f})
    BY CitableIsWhole
  <2> QED BY <1>7, <2>1, <2>2, <2>3 DEF CitationFix, Terminal
<1>8. DerivePhase(r.events) \in Phases \cup {"retired"}
  BY PhaseTyped DEF Citable
<1> QED BY <1>4, <1>5, <1>6, <1>7, <1>8 DEF Phases, Rank, Terminal

(* What following each fix leaves ahead. *)
LEMMA AheadIsNat ==
    ASSUME NEW r, NEW f
    PROVE  /\ Short(r.events) \in Nat /\ Unapproved(r) \in Nat /\ Uncovered(r, f) \in Nat
           /\ Ahead(r, f) \in Nat
<1>1. Short(r.events) \in Nat
  BY ShortIs
<1>2. Unapproved(r) \in {0, 1} /\ Uncovered(r, f) \in {0, 1}
  BY MissingIs, Zenon
<1> QED BY <1>1, <1>2, AheadCases

LEMMA SameAhead ==
    ASSUME NEW r, NEW s, NEW f
    PROVE  /\ ScopeOf(s.events) = ScopeOf(r.events) => Uncovered(s, f) = Uncovered(r, f)
           /\ DerivePhase(s.events) = DerivePhase(r.events) => Short(s.events) = Short(r.events)
<1>1. ScopeOf(s.events) = ScopeOf(r.events) => (ScopeCovers(s, {f}) <=> ScopeCovers(r, {f}))
  BY DEF ScopeCovers
<1>2. ScopeOf(s.events) = ScopeOf(r.events) => Uncovered(s, f) = Uncovered(r, f)
  BY <1>1, MissingIs
<1>3. DerivePhase(s.events) = DerivePhase(r.events) => Short(s.events) = Short(r.events)
  BY DEF Short
<1> QED BY <1>2, <1>3

Nearer(r, f, fix) ==
    Follow(fix, r, f) # {} /\ \A s \in Follow(fix, r, f) : Ahead(s, f) < Ahead(r, f)

LEMMA FollowIs ==
    ASSUME NEW r, NEW f
    PROVE  /\ \A c : Follow(Successor(c), r, f) = {Opened(r, c)}
           /\ Follow(Fix("approve"), r, f) = ApprovedOrOpened(r)
           /\ Follow(Fix("advance"), r, f) = UNION {AdvancedTo(r, p) : p \in Phases}
           /\ Follow(Fix("scope"), r, f) = UNION {ScopedOrOpened(r, p) : p \in GlobsOf(f)}
BY DEF Follow, Fix, Successor

LEMMA WrittenIs ==
    ASSUME NEW r, NEW e
    PROVE  Written(r, e).class = r.class /\ Written(r, e).events = Append(r.events, e)
BY DEF Written, RecordOf

(* A task that can go no further is succeeded by one of a class that can.    *)
LEMMA SuccessorIsNearer ==
    ASSUME NEW r, NEW f, NEW c \in CodeClasses,
           Terminal(r.events) \/ r.class \notin CodeClasses
    PROVE  Nearer(r, f, Successor(c))
<1>1. Ahead(r, f) = 8
  BY AheadCases
<1>2. Ahead(Opened(r, c), f) \in 3 .. 7
  BY OpenedAhead
<1>3. Follow(Successor(c), r, f) = {Opened(r, c)}
  BY FollowIs
<1> QED BY <1>1, <1>2, <1>3 DEF Nearer

LEMMA ApprovalIsNearer ==
    ASSUME NEW r, Citable(r), NEW f, ~Approved(r.class, r.events)
    PROVE  Nearer(r, f, Fix("approve"))
<1>1. r.class \in ApprovalRequired /\ r.class \in CodeClasses /\ r.class # "runtime-code"
  BY DEF Approved, ApprovalRequired, CodeClasses
<1>2. Follow(Fix("approve"), r, f) = ApprovedOrOpened(r)
  BY FollowIs
<1>3. CASE ~AppendLawful(r.events)
  <2>1. ApprovedOrOpened(r) = {Opened(r, r.class)}
    BY <1>3 DEF ApprovedOrOpened
  <2>2. Ahead(Opened(r, r.class), f) = 4
    BY <1>1, OpenedAhead
  <2>3. Ahead(r, f) = 8
    BY <1>3, AheadCases DEF AppendLawful
  <2> QED BY <1>2, <2>1, <2>2, <2>3 DEF Nearer
<1>4. CASE AppendLawful(r.events)
  <2> DEFINE s == Written(r, Approval)
  <2>1. ApprovedOrOpened(r) = {s}
    BY <1>4 DEF ApprovedOrOpened
  <2>2. /\ Approval \in Events /\ Approval.type = "approval" /\ r.events \in Seq(Events)
    BY EventsTyped DEF Approval, Citable
  <2>3. s.class = r.class /\ s.events = Append(r.events, Approval)
    BY WrittenIs
  <2>4. DerivePhase(s.events) = DerivePhase(r.events)
    BY <2>2, <2>3, PhaseQuiet
  <2>5. ScopeOf(s.events) = ScopeOf(r.events)
    BY <2>2, <2>3, AppendKeeps
  <2>6. HasApproval(s.events)
    <3>1. Approval = Append(r.events, Approval)[Len(r.events) + 1]
          /\ Len(r.events) + 1 \in DOMAIN Append(r.events, Approval)
      BY <2>2, AppendShape
    <3>2. Len(r.events) + 1 \in OfType(Append(r.events, Approval), "approval")
      BY <2>2, <3>1, Zenon DEF OfType
    <3>3. HasApproval(Append(r.events, Approval))
      BY <3>2, Zenon DEF HasApproval
    <3> QED BY <2>3, <3>3
  <2> HIDE DEF s
  <2>7. Unapproved(s) = 0 /\ Unapproved(r) = 1
    BY <2>6, MissingIs DEF Approved
  <2>8. Uncovered(s, f) = Uncovered(r, f) /\ Short(s.events) = Short(r.events)
    BY <2>4, <2>5, SameAhead
  <2>9. ~Terminal(r.events) /\ ~Terminal(s.events)
    BY <1>4, <2>4 DEF AppendLawful, Terminal
  <2>10. /\ Ahead(r, f) = Short(r.events) + 1 + Uncovered(r, f)
         /\ Ahead(s, f) = Short(r.events) + 0 + Uncovered(r, f)
    BY <1>1, <2>3, <2>7, <2>8, <2>9, AheadCases
  <2>11. Ahead(s, f) < Ahead(r, f)
    BY <2>10, AheadIsNat
  <2> QED BY <1>2, <2>1, <2>11 DEF Nearer
<1> QED BY <1>3, <1>4

LEMMA AdvanceIsNearer ==
    ASSUME NEW r, Citable(r), NEW f, r.class \in CodeClasses, Approved(r.class, r.events),
           DerivePhase(r.events) \in {"intake", "planned"}
    PROVE  Nearer(r, f, Fix("advance"))
<1>0. r.events \in Seq(Events) /\ ~Terminal(r.events) /\ AppendLawful(r.events)
  BY DEF Citable, Terminal, AppendLawful
<1>1. Follow(Fix("advance"), r, f) = UNION {AdvancedTo(r, p) : p \in Phases}
  BY FollowIs
<1>2. Phases = {"intake", "planned", "executing", "verified", "adversarial", "done"}
  BY DEF Phases, Rank
<1>3. ExecutionGuard(r.class, r.events)
  BY DEF ExecutionGuard, Approved, CodeClasses, ImplementationForbidden
<1>4. ASSUME NEW p \in Phases, NEW s \in AdvancedTo(r, p) PROVE Ahead(s, f) < Ahead(r, f)
  <2>1. s = Written(r, Transition(p)) /\ Rank[p] = Rank[DerivePhase(r.events)] + 1
    BY <1>4 DEF AdvancedTo
  <2>2. /\ Transition(p) \in Events /\ Transition(p).type = "transition"
    BY EventsTyped DEF Transition
  <2>3. s.class = r.class /\ s.events = Append(r.events, Transition(p))
    BY <2>1, WrittenIs
  <2>4. DerivePhase(s.events) = p
    BY <1>0, <2>3, PhaseMove, OpenNotRetired
  <2>5. ScopeOf(s.events) = ScopeOf(r.events) /\ (HasApproval(r.events) => HasApproval(s.events))
    BY <1>0, <2>2, <2>3, AppendKeeps
  <2>6. Short(r.events) = Short(s.events) + 1 /\ ~Terminal(s.events)
    <3>1. CASE DerivePhase(r.events) = "intake"
      <4>1. p = "planned"
        BY <1>2, <2>1, <3>1 DEF Rank
      <4> QED BY <2>4, <3>1, <4>1, ShortIs DEF Terminal
    <3>2. CASE DerivePhase(r.events) = "planned"
      <4>1. p = "executing"
        BY <1>2, <2>1, <3>2 DEF Rank
      <4> QED BY <2>4, <3>2, <4>1, ShortIs DEF Terminal
    <3> QED BY <3>1, <3>2
  <2>7. Uncovered(s, f) = Uncovered(r, f)
    BY <2>5, SameAhead
  <2>8. Unapproved(s) = 0 /\ Unapproved(r) = 0
    BY <2>3, <2>5, MissingIs DEF Approved
  <2>9. CASE r.class = "runtime-code" /\ FenceSurfacePath(f)
    <3>1. Ahead(r, f) = 5 + Short(r.events) /\ Ahead(s, f) = 5 + Short(s.events)
      BY <1>0, <2>3, <2>6, <2>9, AheadCases
    <3> QED BY <2>6, <3>1, AheadIsNat
  <2>10. CASE ~(r.class = "runtime-code" /\ FenceSurfacePath(f))
    <3>1. /\ Ahead(r, f) = Short(r.events) + 0 + Uncovered(r, f)
          /\ Ahead(s, f) = Short(s.events) + 0 + Uncovered(r, f)
      BY <1>0, <2>3, <2>6, <2>7, <2>8, <2>10, AheadCases
    <3> QED BY <2>6, <3>1, AheadIsNat
  <2> QED BY <2>9, <2>10
<1>5. \E p \in Phases : AdvancedTo(r, p) # {}
  <2>1. CASE DerivePhase(r.events) = "intake"
    BY <1>0, <1>2, <1>3, <2>1 DEF AdvancedTo, Rank
  <2>2. CASE DerivePhase(r.events) = "planned"
    BY <1>0, <1>2, <1>3, <2>2 DEF AdvancedTo, Rank
  <2> QED BY <2>1, <2>2
<1>6. \A s : s \in Follow(Fix("advance"), r, f) <=> \E p \in Phases : s \in AdvancedTo(r, p)
  <2> DEFINE S == {AdvancedTo(r, p) : p \in Phases}
  <2>1. \A s : s \in UNION S <=> \E x \in S : s \in x
    BY Zenon
  <2>2. \A x : x \in S <=> \E p \in Phases : x = AdvancedTo(r, p)
    BY Zenon
  <2>3. Follow(Fix("advance"), r, f) = UNION S
    BY <1>1
  <2> HIDE DEF S
  <2> QED BY <2>1, <2>2, <2>3
<1> QED BY <1>1, <1>4, <1>5, <1>6, Zenon DEF Nearer

LEMMA ScopeIsNearer ==
    ASSUME NEW r, Citable(r), NEW f \in Files, GlobsOf(f) # {},
           r.class \in CodeClasses, Approved(r.class, r.events),
           DerivePhase(r.events) \in {"executing", "verified", "adversarial"},
           ~ScopeCovers(r, {f})
    PROVE  Nearer(r, f, Fix("scope"))
<1>0. /\ r.events \in Seq(Events) /\ ~Terminal(r.events) /\ AppendLawful(r.events)
      /\ Rank[DerivePhase(r.events)] >= Rank["planned"]
  BY DEF Citable, Terminal, AppendLawful, Rank
<1>1. Short(r.events) = 0 /\ Unapproved(r) = 0 /\ Uncovered(r, f) = 1
  BY ShortIs, MissingIs
<1>2. ASSUME NEW p \in GlobsOf(f)
      PROVE  /\ p \in Patterns /\ <<p, f>> \in Covers /\ p \notin ScopeOf(r.events)
             /\ p \in FencePatterns <=> FenceSurfacePath(f)
             /\ ScopeLawful(r.class, r.events, {p}) <=>
                   (p \in FencePatterns => r.class \in ApprovalRequired)
  <2>1. /\ p \in Patterns /\ <<p, f>> \in Covers
        /\ p \in FencePatterns <=> FenceSurfacePath(f)
    BY DEF GlobsOf
  <2>2. p \notin ScopeOf(r.events)
    BY <2>1 DEF ScopeCovers, PathInScope
  <2>3. FenceSurfaceLawful(r.class, r.events, {p})
           <=> (p \in FencePatterns => r.class \in ApprovalRequired)
    BY DEF FenceSurfaceLawful, Approved
  <2> QED BY <1>0, <2>1, <2>2, <2>3 DEF ScopeLawful
<1>3. ASSUME NEW p \in GlobsOf(f), ScopeLawful(r.class, r.events, {p})
      PROVE  /\ ScopedOrOpened(r, p) = {Written(r, Scope({p}))}
             /\ Ahead(Written(r, Scope({p})), f) < Ahead(r, f)
  <2> DEFINE e == Scope({p})
             s == Written(r, e)
  <2>1. e \in Events /\ e.type = "scope" /\ e.patterns = {p}
    BY <1>2, <1>3, EventsTyped DEF Scope
  <2>2. s.class = r.class /\ s.events = Append(r.events, e)
    BY WrittenIs
  <2>3. DerivePhase(s.events) = DerivePhase(r.events)
    BY <1>0, <2>1, <2>2, PhaseQuiet
  <2>4. HasApproval(r.events) => HasApproval(s.events)
    BY <1>0, <2>1, <2>2, AppendKeeps
  <2>5. ScopedOrOpened(r, p) = {s}
    BY <1>3 DEF ScopedOrOpened
  <2> HIDE DEF s, e
  <2>6. ScopeOf(s.events) = ScopeOf(r.events) \cup {p}
    BY <1>0, <2>1, <2>2, AppendKeeps
  <2>7. ScopeCovers(s, {f})
    BY <1>2, <1>3, <2>6 DEF ScopeCovers, PathInScope
  <2>8. Short(s.events) = 0 /\ Unapproved(s) = 0 /\ Uncovered(s, f) = 0
    BY <1>1, <2>2, <2>3, <2>4, <2>7, SameAhead, MissingIs DEF Approved
  <2>9. ~Terminal(s.events)
    BY <1>0, <2>3 DEF Terminal
  <2>10. ~(r.class = "runtime-code" /\ FenceSurfacePath(f))
    BY <1>2, <1>3 DEF ApprovalRequired
  <2>11. /\ Ahead(s, f) = Short(s.events) + Unapproved(s) + Uncovered(s, f)
         /\ Ahead(r, f) = Short(r.events) + Unapproved(r) + Uncovered(r, f)
    BY <1>0, <2>2, <2>9, <2>10, AheadCases
  <2>12. Ahead(s, f) < Ahead(r, f)
    BY <1>1, <2>8, <2>11
  <2> QED BY <2>5, <2>12 DEF s, e
<1>4. ASSUME NEW p \in GlobsOf(f), ~ScopeLawful(r.class, r.events, {p})
      PROVE  /\ ScopedOrOpened(r, p) = {Opened(r, "protected")}
             /\ Ahead(Opened(r, "protected"), f) < Ahead(r, f)
  <2>1. p \in FencePatterns /\ r.class \notin ApprovalRequired /\ FenceSurfacePath(f)
    BY <1>2, <1>4
  <2>2. ScopedOrOpened(r, p) = {Opened(r, "protected")}
    BY <1>4, <2>1 DEF ScopedOrOpened
  <2>3. Ahead(Opened(r, "protected"), f) = 4
    BY OpenedAhead DEF CodeClasses, ApprovalRequired
  <2>4. r.class = "runtime-code"
    BY <2>1 DEF CodeClasses, ApprovalRequired
  <2>5. Ahead(r, f) = 5 + Short(r.events)
    BY <1>0, <2>1, <2>4, AheadCases
  <2> QED BY <1>1, <2>2, <2>3, <2>5
<1>5. \A p \in GlobsOf(f) :
         ScopedOrOpened(r, p) # {} /\ \A s \in ScopedOrOpened(r, p) : Ahead(s, f) < Ahead(r, f)
  <2> TAKE p \in GlobsOf(f)
  <2>1. CASE ScopeLawful(r.class, r.events, {p})
    BY <1>3, <2>1, Zenon
  <2>2. CASE ~ScopeLawful(r.class, r.events, {p})
    BY <1>4, <2>2, Zenon
  <2> QED BY <2>1, <2>2
<1>6. \A s : s \in Follow(Fix("scope"), r, f) <=> \E p \in GlobsOf(f) : s \in ScopedOrOpened(r, p)
  <2> DEFINE S == {ScopedOrOpened(r, p) : p \in GlobsOf(f)}
  <2>1. \A s : s \in UNION S <=> \E x \in S : s \in x
    BY Zenon
  <2>2. \A x : x \in S <=> \E p \in GlobsOf(f) : x = ScopedOrOpened(r, p)
    BY Zenon
  <2>3. Follow(Fix("scope"), r, f) = UNION S
    BY FollowIs
  <2> HIDE DEF S
  <2> QED BY <2>1, <2>2, <2>3
<1> QED BY <1>5, <1>6 DEF Nearer

(* Nothing is told exactly when nothing is ahead. *)
LEMMA NearerLeadsOut ==
    ASSUME NEW r, NEW f, CitationFix(r, {f}).cmd # "none", Nearer(r, f, CitationFix(r, {f}))
    PROVE  LeadsOut(r, f)
<1> DEFINE fix == CitationFix(r, {f})
<1>1. Follow(fix, r, f) # {} /\ \A s \in Follow(fix, r, f) : Ahead(s, f) < Ahead(r, f)
  BY DEF Nearer
<1>2. PICK s \in Follow(fix, r, f) : Ahead(s, f) < Ahead(r, f)
  BY <1>1
<1>3. Ahead(r, f) # 0
  BY <1>2, AheadIsNat
<1> QED BY <1>1, <1>3 DEF LeadsOut

LEMMA EveryFixLeadsOut ==
    ASSUME NEW r, Citable(r), NEW f \in Files, GlobsOf(f) # {}
    PROVE  LeadsOut(r, f)
<1>1. /\ \A c : Successor(c).cmd = "new"
      /\ \A cmd : Fix(cmd).cmd = cmd
  BY DEF Successor, Fix
<1>2. CASE r.class \notin CodeClasses
  <2>1. CitationFix(r, {f}) = Successor("runtime-code")
    BY <1>2, ToldClass
  <2>2. Nearer(r, f, Successor("runtime-code"))
    BY <1>2, SuccessorIsNearer DEF CodeClasses
  <2> QED BY <1>1, <2>1, <2>2, NearerLeadsOut
<1>3. CASE ~Approved(r.class, r.events)
  <2>1. CitationFix(r, {f}) = Fix("approve")
    BY <1>3, ToldClass
  <2>2. Nearer(r, f, Fix("approve"))
    BY <1>3, ApprovalIsNearer
  <2> QED BY <1>1, <2>1, <2>2, NearerLeadsOut
<1> DEFINE codes == r.class \in CodeClasses /\ Approved(r.class, r.events)
<1>4. CASE codes /\ Terminal(r.events)
  <2>1. CitationFix(r, {f}) = Successor(r.class)
    BY <1>4, ToldPhase
  <2>2. Nearer(r, f, Successor(r.class))
    BY <1>4, SuccessorIsNearer
  <2> QED BY <1>1, <2>1, <2>2, NearerLeadsOut
<1>5. CASE codes /\ DerivePhase(r.events) \in {"intake", "planned"}
  <2>1. CitationFix(r, {f}) = Fix("advance")
    BY <1>5, ToldPhase
  <2>2. Nearer(r, f, Fix("advance"))
    BY <1>5, AdvanceIsNearer
  <2> QED BY <1>1, <2>1, <2>2, NearerLeadsOut
<1>6. CASE codes /\ DerivePhase(r.events) \in {"executing", "verified", "adversarial"}
  <2>1. CASE ~ScopeCovers(r, {f})
    <3>1. CitationFix(r, {f}) = Fix("scope")
      BY <1>6, <2>1, ToldPhase
    <3>2. Nearer(r, f, Fix("scope"))
      BY <1>6, <2>1, ScopeIsNearer
    <3> QED BY <1>1, <3>1, <3>2, NearerLeadsOut
  <2>2. CASE ScopeCovers(r, {f})
    <3>1. CitationFix(r, {f}) = Fix("none")
      BY <1>6, <2>2, ToldPhase
    <3>2. Short(r.events) = 0 /\ Unapproved(r) = 0 /\ Uncovered(r, f) = 0
      BY <1>6, <2>2, ShortIs, MissingIs
    <3>3. ~Terminal(r.events)
      BY <1>6 DEF Terminal
    <3>4. ~(r.class = "runtime-code" /\ FenceSurfacePath(f))
      <4>1. PICK p \in ScopeOf(r.events) \cap Patterns : <<p, f>> \in Covers
        BY <2>2 DEF ScopeCovers, PathInScope
      <4>2. FenceSurfacePath(f) => p \in FencePatterns
        BY <4>1, FenceRemediesAssumption
      <4>3. FenceSurfaceLawful(r.class, r.events, ScopeOf(r.events))
        BY DEF Citable, MachineWritten
      <4> QED BY <4>1, <4>2, <4>3 DEF FenceSurfaceLawful, ApprovalRequired
    <3>5. Ahead(r, f) = 0
      BY <1>6, <3>2, <3>3, <3>4, AheadCases
    <3> QED BY <1>1, <3>1, <3>5 DEF LeadsOut
  <2> QED BY <2>1, <2>2
<1>7. Terminal(r.events) \/ DerivePhase(r.events) \in
          {"intake", "planned", "executing", "verified", "adversarial"}
  <2>1. DerivePhase(r.events) \in Phases \cup {"retired"}
    BY PhaseTyped DEF Citable
  <2>2. Phases = {"intake", "planned", "executing", "verified", "adversarial", "done"}
    BY DEF Phases, Rank
  <2> QED BY <2>1, <2>2 DEF Terminal
<1> QED BY <1>2, <1>3, <1>4, <1>5, <1>6, <1>7

(* The printed fixes end: whatever state the cited task is in, each leaves   *)
(* fewer commands ahead, up to a task that authorizes the file; and what the *)
(* editor's banner lists as authorizing is what the staged gate counts.      *)
THEOREM FixesLeadOut == Spec => []PrintedFixesLeadOut
<1> DEFINE records == {Load[id] : id \in DOMAIN Load}
<1>1. ASSUME WrittenInv, NEW r \in records PROVE Citable(r)
  <2>1. DOMAIN Load \subseteq {Task} /\ (Task \in DOMAIN Load => Load[Task] = Record)
    BY LoadShape
  <2>2. r = RecordOf(Task, class, events)
    BY <2>1 DEF Record
  <2>3. class \in RiskClasses /\ events \in Seq(Events) /\ MachineWritten(class, events)
    BY <1>1 DEF WrittenInv, FenceInv, TypeOK
  <2>4. r.id = Task /\ r.class = class /\ r.events = events
    BY <2>2, RecordFields
  <2> QED BY <2>2, <2>3, <2>4 DEF Citable
<1>2. ASSUME NEW f \in Files PROVE Ahead(RecordOf(Task, NewTaskClass(f), <<Created>>), f) <= 4
  <2>1. Opened(Record, NewTaskClass(f)) = RecordOf(Task, NewTaskClass(f), <<Created>>)
    BY RecordFields DEF Opened, Record
  <2>2. CASE FenceSurfacePath(f)
    <3>1. NewTaskClass(f) \in CodeClasses \cap ApprovalRequired
      BY <2>2 DEF NewTaskClass, CodeClasses, ApprovalRequired
    <3>2. Ahead(Opened(Record, NewTaskClass(f)), f) = 4
      BY <3>1, OpenedAhead
    <3> QED BY <2>1, <3>2
  <2>3. CASE ~FenceSurfacePath(f)
    <3>1. NewTaskClass(f) \in CodeClasses
      BY <2>3 DEF NewTaskClass, CodeClasses
    <3>2. Ahead(Opened(Record, NewTaskClass(f)), f) <= 4
      BY <2>3, <3>1, OpenedAhead
    <3> QED BY <2>1, <3>2
  <2> QED BY <2>2, <2>3
<1>3. ASSUME NEW r \in InWindow(records) PROVE AppendLawful(r.events) /\ BannerAdvance(r) \in Phases
  <2>1. DerivePhase(r.events) \in {"executing", "verified", "adversarial"}
    BY DEF InWindow
  <2>2. \E p \in Phases : Rank[p] = Rank[DerivePhase(r.events)] + 1
    BY <2>1 DEF Phases, Rank
  <2>3. BannerAdvance(r) \in Phases
    BY <2>2 DEF BannerAdvance
  <2> QED BY <2>1, <2>3 DEF AppendLawful, Terminal
<1>4. ASSUME NEW f \in CodeFiles(Files)
      PROVE  StagedLawful({f}, records) <=> Authorizing(records) # {}
  <2>1. CodeFiles({f}) = {f}
    BY DEF CodeFiles
  <2>2. \A r : RecordLawful(r, TRUE) =>
           DerivePhase(r.events) \in {"executing", "verified", "adversarial", "done"}
    BY ExecutingIs DEF RecordLawful
  <2> HIDE DEF records
  <2> QED BY <2>1, <2>2 DEF StagedLawful, Authorizing, InWindow
<1> HIDE DEF records
<1>5. ASSUME WrittenInv PROVE PrintedFixesLeadOut
  <2>1. ASSUME NEW f \in CodeFiles(Files), GlobsOf(f) # {}, NEW r \in records PROVE LeadsOut(r, f)
    BY <1>1, <1>5, <2>1, EveryFixLeadsOut DEF CodeFiles
  <2>2. CodeFiles(Files) \subseteq Files
    BY DEF CodeFiles
  <2> QED BY <1>2, <1>3, <1>4, <2>1, <2>2 DEF PrintedFixesLeadOut, records
<1> QED BY <1>5, WrittenInvariant, PTL

-----------------------------------------------------------------------------
(* Without git's own merge (a git that cannot merge-tree), the fallback        *)
(* answers for at least as much: a path the exact rule holds a merge to is     *)
(* one the fallback holds it to, whatever the contents                         *)
(* (tools/task-coverage.mjs:704).                                              *)
THEOREM FallbackIsNoWeaker ==
    ASSUME NEW m, NEW b, NEW p, NEW q, m # Conflict, OwnByCleanMerge(m, b, p, q)
    PROVE  OwnByFallback(m, {b}, p, q)
<1>1. CASE m # p /\ m # q
  BY <1>1 DEF OwnByFallback
<1>2. CASE m = p
  <2>1. p # q /\ q # b
    BY <1>2 DEF OwnByCleanMerge, CleanMerge
  <2>2. QED
    BY <1>2, <2>1 DEF OwnByFallback
<1>3. CASE m = q
  <2>1. p # q /\ p # b
    BY <1>3 DEF OwnByCleanMerge, CleanMerge
  <2>2. QED
    BY <1>3, <2>1 DEF OwnByFallback
<1>4. QED
  BY <1>1, <1>2, <1>3
=============================================================================
