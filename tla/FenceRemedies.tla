---------------------------- MODULE FenceRemedies ----------------------------
(***************************************************************************)
(* The fix that a refused commit or edit is shown: recordRemedy and the    *)
(* citation's own (tools/task-coverage.mjs), and the denial and banner of  *)
(* the editor's plugin (tools/zcode-plugin/lib/gate-law.mjs).  `r` is a    *)
(* record as loadRecord returns it.                                        *)
(***************************************************************************)
EXTENDS PushFence

(* A fix is a command; `class` is the one a new task is to be opened with.   *)
Fix(cmd)      == [cmd |-> cmd, class |-> None]
Successor(c)  == [cmd |-> "new", class |-> c]

(* A class that never writes code needs a new task; a missing approval is    *)
(* recorded; a vanished heading needs its entry back.                        *)
ClassRemedy(r) ==
    CASE r.class \notin ApprovalRequired                       -> Successor("runtime-code")
      [] r.class \in ApprovalRequired /\ ~HasApproval(r.events) -> Fix("approve")
      [] OTHER                                                 -> Fix("restore")

(* Tamper first; a retired task is succeeded; any other is short of          *)
(* executing and advances one phase.                                         *)
LifecycleRemedy(r) ==
    CASE ~Untampered(r)                                           -> Fix("restore")
      [] Untampered(r) /\ DerivePhase(r.events) = "retired"        -> Successor(r.class)
      [] OTHER                                                    -> Fix("advance")

RecordRemedy(r, codeStaged) ==
    CASE ~r.schema                             -> Fix("restore")
      [] r.schema /\ ~CodeClass(r, codeStaged) -> ClassRemedy(r)
      [] OTHER                                 -> LifecycleRemedy(r)

(* fenceSurfaceRefusal: the fence's surface is a protected task's.           *)
TierRemedy(r) == IF r.class \notin ApprovalRequired THEN Successor("protected") ELSE Fix("approve")

(* What a commit of `code` that cites `r` is told; "none" when it passes.    *)
CitationFix(r, code) ==
    IF ~RecordLawful(r, TRUE) THEN RecordRemedy(r, TRUE)
    ELSE IF DerivePhase(r.events) = "done" THEN Successor(r.class)
    ELSE IF ScopeAuthorizes(r, code, TRUE) THEN Fix("none")
    ELSE IF ~FenceSurfaceLawful(r.class, r.events, ScopeOf(r.events)) THEN TierRemedy(r)
    ELSE Fix("scope")

(* newTaskFix: the class of the new task that is to carry file `f`, and a    *)
(* mutant that prints one class for every file.                              *)
NewTaskClassAlways(f) == "runtime-code"
NewTaskClass(f) == IF FenceSurfacePath(f) THEN "protected" ELSE "runtime-code"

-----------------------------------------------------------------------------
(* Following a fix: the records it may leave.  A command that is refused     *)
(* prints a fix in turn, which is followed: a terminal record takes no       *)
(* approval and names its successor; a scope that reaches the fence's        *)
(* surface is a protected task's.                                            *)

Opened(r, c)  == RecordOf(r.id, c, <<Created>>)
Written(r, e) == RecordOf(r.id, r.class, Append(r.events, e))

ApprovedOrOpened(r) == IF AppendLawful(r.events) THEN {Written(r, Approval)} ELSE {Opened(r, r.class)}

AdvancedTo(r, p) ==
    IF /\ AppendLawful(r.events) /\ Rank[p] = Rank[DerivePhase(r.events)] + 1
       /\ p = "executing" => ExecutionGuard(r.class, r.events)
    THEN {Written(r, Transition(p))} ELSE {}

ScopedOrOpened(r, p) ==
    IF ScopeLawful(r.class, r.events, {p}) THEN {Written(r, Scope({p}))}
    ELSE IF p \in FencePatterns /\ r.class \notin ApprovalRequired THEN {Opened(r, "protected")}
    ELSE {}

(* "<the missing glob>": one that covers the file, and reaches the fence's   *)
(* surface only for a file on it.                                            *)
GlobsOf(f) == {p \in Patterns : <<p, f>> \in Covers /\ (p \in FencePatterns <=> FenceSurfacePath(f))}

Follow(fix, r, f) ==
    CASE fix.cmd = "new"     -> {Opened(r, fix.class)}
      [] fix.cmd = "approve" -> ApprovedOrOpened(r)
      [] fix.cmd = "advance" -> UNION {AdvancedTo(r, p) : p \in Phases}
      [] fix.cmd = "scope"   -> UNION {ScopedOrOpened(r, p) : p \in GlobsOf(f)}
      [] OTHER               -> {}

-----------------------------------------------------------------------------
(* How many commands are still ahead of a commit of `f`, at most: four for a *)
(* task whose class may scope over it.  A class that may not is found out by *)
(* the scope; a class that writes no code, and a terminal task, at once.     *)
Missing(amiss) == IF amiss THEN 1 ELSE 0

Short(ev) ==
    LET phase == DerivePhase(ev)
    IN  IF phase \in {"intake", "planned"} THEN Rank["executing"] - Rank[phase] ELSE 0

Ahead(r, f) ==
    CASE Terminal(r.events) \/ r.class \notin {"runtime-code", "protected", "migration"} -> 8
      [] ~Terminal(r.events) /\ r.class = "runtime-code" /\ FenceSurfacePath(f) -> 5 + Short(r.events)
      [] OTHER -> Short(r.events)
                    + Missing(r.class \in ApprovalRequired /\ ~HasApproval(r.events))
                    + Missing(~ScopeCovers(r, {f}))

(* Nothing is told once nothing is ahead; what is told brings it nearer.     *)
LeadsOut(r, f) ==
    LET fix == CitationFix(r, {f})
    IN  /\ fix.cmd = "none" <=> Ahead(r, f) = 0
        /\ fix.cmd # "none" =>
              /\ Follow(fix, r, f) # {}
              /\ \A s \in Follow(fix, r, f) : Ahead(s, f) < Ahead(r, f)

(* What task-state leaves in a record; the fence looks for all of it again.  *)
MachineWritten(c, ev) ==
    /\ RetirementShape(ev)
    /\ DerivePhase(ev) = "done" => PinnedForDone(c, ev)
    /\ FenceSurfaceLawful(c, ev, ScopeOf(ev))

(* The exploration starts from such records; coversFenceSurface knows every  *)
(* pattern that covers a file of the surface.                                *)
ASSUME FenceRemediesAssumption ==
    /\ \A c \in Classes, ev \in Records : MachineWritten(c, ev)
    /\ \A p \in Patterns, f \in Files : <<p, f>> \in Covers /\ FenceSurfacePath(f) => p \in FencePatterns

(* standingOf: the records in the window, which the banner lists, each as    *)
(* authorizing or as refused.                                                *)
InWindow(records)    == {r \in records : DerivePhase(r.events) \in {"executing", "verified", "adversarial"}}
Authorizing(records) == {r \in InWindow(records) : RecordLawful(r, TRUE)}

(* bannerContext: the command it prescribes for a task in the window.        *)
BannerAdvance(r) == CHOOSE p \in Phases : Rank[p] = Rank[DerivePhase(r.events)] + 1

(* "Both transports print a fix that runs": whatever state the cited task is *)
(* in, the fixes printed for a refused commit of a code file never end and   *)
(* never turn in a circle: each leaves fewer commands ahead, up to a task    *)
(* that authorizes the file.  The editor's denial sends the file to a class  *)
(* whose scope may hold it, so no refusal is met on that way.  The banner    *)
(* calls a task authorizing exactly when the staged gate counts it.          *)
PrintedFixesLeadOut ==
    LET records   == {Load[id] : id \in DOMAIN Load}
        scopeable == {f \in CodeFiles(Files) : GlobsOf(f) # {}}
    IN  /\ \A f \in scopeable, r \in records : LeadsOut(r, f)
        /\ \A f \in scopeable :
              ~EditLawful(f, records) => Ahead(RecordOf(Task, NewTaskClass(f), <<Created>>), f) <= 4
        /\ \A r \in InWindow(records) : AppendLawful(r.events) /\ BannerAdvance(r) \in Phases
        /\ \A f \in CodeFiles(Files) : StagedLawful({f}, records) <=> Authorizing(records) # {}
=============================================================================
