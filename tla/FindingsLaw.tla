----------------------------- MODULE FindingsLaw -----------------------------
(***************************************************************************)
(* tools/task-findings.mjs and the write bodies of                         *)
(* tools/adversarial-runner.mjs, the pure half: what a findings register   *)
(* admits.  A register is the range its pass marker pins and the sequence  *)
(* of findings; a finding's id (f1, f2, ...) is its place in the sequence. *)
(*                                                                         *)
(* Severities are ranked: LOW 0, MEDIUM 1, HIGH 2, CRITICAL 3.  `place` is *)
(* the evidence a finding was recorded with, normalized (its dedupKey);    *)
(* `evidence` is the list of files a resolution cites.                     *)
(***************************************************************************)
EXTENDS Naturals, Sequences

CONSTANTS
    Claims,          \* what a finding says is wrong
    Places,          \* the evidence strings it may cite when recorded
    Severities,      \* the severities in use
    Paths,           \* the files a resolution may cite
    Ranges,          \* the commit ranges a pass may sweep
    None             \* no register; no evidence

ASSUME FindingsLawAssumption ==
    /\ Severities \subseteq 0 .. 3
    /\ None \notin Places \cup Claims
    /\ Claims \cap Places = {}

Candidate ==
    [claim: Claims, place: Places \cup {None}, severity: Severities, proof: BOOLEAN]

Statuses == {"UNRESOLVED", "RESOLVED", "WONT-FIX"}

Finding ==
    [claim: Claims, place: Places \cup {None}, severity: Severities, proof: BOOLEAN,
     status: Statuses, evidence: SUBSET Paths]

Register == [swept: Ranges, findings: Seq(Finding)]

ASSUME RegisterAssumption == None \notin Register

-----------------------------------------------------------------------------
OwesProof(severity) == severity >= 2

(* normalizedEvidenceOf: the evidence, or the claim when there is none. *)
DedupKey(f) == IF f.place = None THEN f.claim ELSE f.place

(* duplicateEvidenceOf *)
SameEscape(fs, c) == {i \in DOMAIN fs : DedupKey(fs[i]) = DedupKey(c)}

(* A mutant: two findings may cite one escape. *)
AppendFindingLawfulTwice(fs, c) == OwesProof(c.severity) => c.proof

(* appendFinding: a new escape, carrying the proof its severity owes. *)
AppendFindingLawful(fs, c) ==
    /\ SameEscape(fs, c) = {}
    /\ OwesProof(c.severity) => c.proof

AppendFinding(fs, c) ==
    Append(fs, [claim |-> c.claim, place |-> c.place, severity |-> c.severity,
                proof |-> c.proof, status |-> "UNRESOLVED", evidence |-> {}])

(* duplicateEscapeOf: the same evidence is the same escape only under the    *)
(* same claim; a different claim on it refuses.                              *)
DuplicateEscape(f, c) == f.claim = c.claim

(* A mutant: the duplicate's severity replaces the standing one. *)
RaiseLawfulEitherWay(f, c) ==
    /\ DuplicateEscape(f, c)
    /\ f.status = "UNRESOLVED"
    /\ OwesProof(c.severity) => f.proof \/ c.proof

(* raiseSeverity: a duplicate raises an unresolved finding, and only raises  *)
(* it; what it is raised to may owe a proof.                                 *)
RaiseLawful(f, c) ==
    /\ DuplicateEscape(f, c)
    /\ f.status = "UNRESOLVED"
    /\ c.severity > f.severity
    /\ OwesProof(c.severity) => f.proof \/ c.proof

Raise(f, c) ==
    [f EXCEPT !.severity = c.severity, !.proof = @ \/ OwesProof(c.severity)]

(* closedFindingRefusal: the one exception to append-only resolutions.  The  *)
(* evidence of a RESOLVED finding may be replaced once some of it is gone.   *)
Repairable(f, disk) == f.status = "RESOLVED" /\ f.evidence \ disk # {}

(* setFindingStatus for resolve, which injects the file test ... *)
ResolveLawful(f, disk) == f.status = "UNRESOLVED" \/ Repairable(f, disk)

Resolve(f, ps) == [f EXCEPT !.status = "RESOLVED", !.evidence = ps]

(* ... and for wont-fix, which does not. *)
WontFixLawful(f) == f.status = "UNRESOLVED"

WontFix(f) == [f EXCEPT !.status = "WONT-FIX"]

(* aggregateFindings(..).clean *)
Clean(fs) == \A i \in DOMAIN fs : fs[i].status # "UNRESOLVED"

(* missingResolveEvidence: the findings whose resolution lost a file. *)
MissingResolveEvidence(fs, disk) ==
    {i \in DOMAIN fs : fs[i].status = "RESOLVED" /\ fs[i].evidence \ disk # {}}
=============================================================================
