------------------------------ MODULE CommitLaw ------------------------------
(***************************************************************************)
(* tools/task-coverage.mjs, the pure half: which code a commit may carry.  *)
(* The staged gate, the commit-msg gate and the push fence all judge       *)
(* through these operators; each answers TRUE where the code returns null. *)
(*                                                                         *)
(* A file is a member of Files; what its path spells is its membership in  *)
(* the sets below.  A record is what loadRecord returns: the parsed JSON   *)
(* of tasks/<id>.json, reduced to what the law reads.                      *)
(***************************************************************************)
EXTENDS TaskLaw, FiniteSets

CONSTANTS
    Files,           \* repository paths
    SurfaceFiles,    \* .stallion-base and what lies under the surface's roots
    UnlistedFiles,   \* under .github/, and not a workflow
    GatesFiles,      \* under docs/gates/
    TreeFiles,       \* under apps/, packages/, tools/ or deploy/
    ExecutableFiles, \* named, or with an extension, as code is
    Covers           \* <<pattern, file>>: the glob dialect (module ScopeGlob)

ASSUME CommitLawAssumption ==
    /\ UNION {SurfaceFiles, UnlistedFiles, GatesFiles, TreeFiles, ExecutableFiles} \subseteq Files
    /\ Covers \subseteq Patterns \X Files

FenceSurfacePath(f) == f \in SurfaceFiles \ UnlistedFiles

IsCodePath(f) == FenceSurfacePath(f) \/ f \in TreeFiles \cap ExecutableFiles

CodeFiles(fs) == {f \in fs : IsCodePath(f)}

-----------------------------------------------------------------------------
(* Records.  `stamp` is the creation stamp against the cutovers: "before"    *)
(* them, "after" them, or "malformed", which no cutover excuses; `settled`   *)
(* says the done transition is stamped before the pin law; `chained` that    *)
(* the hash chain holds; `heading` that the approval's decision exists.      *)

RecordOf(id, class, ev) ==
    [id |-> id, schema |-> TRUE, class |-> class, events |-> ev, stamp |-> "after",
     settled |-> FALSE, chained |-> TRUE, heading |-> TRUE]

IsGrandfatheredScope(r) == r.stamp = "before"
RecordMustChain(r)      == r.stamp # "before"

ClassLawful(r) ==
    /\ r.class \in RiskClasses \ ImplementationForbidden
    /\ r.class \in ApprovalRequired => HasApproval(r.events) /\ r.heading

(* A done record without a pin or an exemption was not written by task-state.*)
DonePinned(r) ==
    DerivePhase(r.events) = "done" =>
        CommandPins(r.events) # {} \/ HasPinExemption(r.events) \/ r.settled

(* Nothing follows a retirement, and it follows no executing.                *)
RetirementShape(ev) ==
    \A i \in OfType(ev, "retired") :
        /\ i = Len(ev)
        /\ DerivePhase(SubSeq(ev, 1, i - 1)) \in {"intake", "planned"}

Untampered(r) ==
    /\ DonePinned(r)
    /\ RecordMustChain(r) => r.chained
    /\ RetirementShape(r.events)

CodeClass(r, codeStaged) ==
    ClassLawful(r) /\ (codeStaged => r.class # "docs-only")

AtLeastExecuting(phase) == phase \in Phases /\ Rank[phase] >= Rank["executing"]

(* A mutant: done is no phase that is executing or later. *)
RecordLawfulInFlight(r, codeStaged) ==
    /\ r.schema /\ CodeClass(r, codeStaged) /\ Untampered(r)
    /\ DerivePhase(r.events) \in {"executing", "verified", "adversarial"}

(* recordRefusal; a retired task is in no phase that is executing or later.  *)
RecordLawful(r, codeStaged) ==
    /\ r.schema
    /\ CodeClass(r, codeStaged)
    /\ Untampered(r)
    /\ AtLeastExecuting(DerivePhase(r.events))

-----------------------------------------------------------------------------
(* The scope law.  `Patterns` are those globRefusal admits.                  *)

PathInScope(f, ps) == \E p \in ps : <<p, f>> \in Covers

ScopeCovers(r, code) ==
    LET usable == ScopeOf(r.events) \cap Patterns
    IN  usable # {} /\ \A f \in code : PathInScope(f, usable)

(* scopeRefusal: the tier law is judged again at both transports. *)
ScopeAuthorizes(r, code, tierLawApplies) ==
    code # {} /\ ~IsGrandfatheredScope(r) =>
        /\ tierLawApplies => FenceSurfaceLawful(r.class, r.events, ScopeOf(r.events))
        /\ ScopeCovers(r, code)

(* citationRefusal: the one seam of commit-msg and the fence. *)
CitationLawful(r, code, isNew, tierLawApplies) ==
    /\ DerivePhase(r.events) # "retired"
    /\ isNew => DerivePhase(r.events) # "done"
    /\ ScopeAuthorizes(r, code, tierLawApplies)

(* A mutant: done is judged against the working tree alone. *)
IsNewCitationHere(phase, anchorPhase, settled) == phase # "done"

(* A mutant: every citation of a done task is posthumous. *)
IsNewCitationAlways(phase, anchorPhase, settled) == TRUE

(* isNewCitation: is a done record's citation posthumous, by what the settled*)
(* anchor knew of the task?                                                  *)
IsNewCitation(phase, anchorPhase, settled) ==
    \/ phase # "done"
    \/ ~settled /\ anchorPhase \in {"settled-done", "unreadable"}

-----------------------------------------------------------------------------
(* The gates *)

(* stagedRefusal over the records readTaskRecords keeps: some task in flight *)
(* that the record law accepts, whatever its scope.                          *)
StagedLawful(fs, records) ==
    \/ CodeFiles(fs) = {}
    \/ \E r \in records : DerivePhase(r.events) # "done" /\ RecordLawful(r, TRUE)

(* citedVerdict, after the staged scan; `load` maps an id to its record.     *)
CommitMsgLawful(cites, code, load) ==
    IF cites = None THEN code = {}
    ELSE /\ cites \in DOMAIN load
         /\ RecordLawful(load[cites], code # {})
         /\ CitationLawful(load[cites], code, TRUE, TRUE)

(* A mutant: the editor's window includes done. *)
EditLawfulWhenDone(f, records) ==
    IsCodePath(f) => \E r \in records : RecordLawful(r, TRUE) /\ ScopeAuthorizes(r, {f}, TRUE)

(* The authoring gate: authoringDecision, over the records in the window of  *)
(* authorizingPhases.  A record the law throws on authorizes nothing.        *)
EditLawful(f, records) ==
    IsCodePath(f) => \E r \in records :
        /\ DerivePhase(r.events) \in {"executing", "verified", "adversarial"}
        /\ RecordLawful(r, TRUE)
        /\ CitationLawful(r, {f}, TRUE, TRUE)

(* checkRange, of one commit that is past the cutovers.                      *)
FenceLawful(cites, code, load, anchorPhase, settled) ==
    code # {} =>
        /\ cites \in DOMAIN load
        /\ RecordLawful(load[cites], TRUE)
        /\ LET phase == DerivePhase(load[cites].events)
           IN  CitationLawful(load[cites], code,
                              IsNewCitation(phase, anchorPhase, settled), TRUE)

-----------------------------------------------------------------------------
(* Where the range starts *)

NoRev == 0

PickBase(explicit, config, committed, originCurrent) ==
    CHOOSE b \in {explicit, config, committed, originCurrent} :
        \/ b = explicit /\ explicit # NoRev
        \/ b = config /\ explicit = NoRev /\ config # NoRev
        \/ b = committed /\ {explicit, config} = {NoRev} /\ committed # NoRev
        \/ b = originCurrent /\ {explicit, config, committed} = {NoRev}

(* A mutant: a move judged from any explicit base is judged. *)
BaseMoveJudgedFromAny(audited, remoteBase, headBase) ==
    remoteBase = NoRev \/ headBase = remoteBase \/ audited # NoRev

(* movedBaseVerdict: deleting the pin is a move too. *)
BaseMoveJudged(audited, remoteBase, headBase) ==
    \/ remoteBase = NoRev
    \/ headBase # NoRev /\ headBase = remoteBase
    \/ headBase # NoRev /\ audited = remoteBase
=============================================================================
