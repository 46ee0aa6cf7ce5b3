------------------------------ MODULE Readers ------------------------------
(***************************************************************************)
(* The readers of one tasks/ directory, each of which loads its files by   *)
(* itself: verdict, the done gate, status, handoff and metrics, the bundles*)
(* of prepare and calibrate, the retrospective; and the four readers of a  *)
(* task record.                                                            *)
(***************************************************************************)
EXTENDS Naturals, Sequences, FiniteSets, FiniteSetsExt

CONSTANTS Null

(* A register file is Null or [json, schema, task, marker, findings]: the    *)
(* marker is "set", "null", "missing" or "wrong", and of a text that does    *)
(* not parse `findings` are the ones it still holds.  A finding is           *)
(* [id, status, high, proof, old, evidence, why]: whether its severity owes a*)
(* proof, it has one, it predates the proof law, which evidence it cites     *)
(* ("live", "dead"), whether it has a justification.                         *)

FindingStatuses == {"UNRESOLVED", "RESOLVED", "WONT-FIX"}

-----------------------------------------------------------------------------
(* shapeError, over idError and owesProof; statusObligationError. *)
ShapeLawful(f) == f.status \in FindingStatuses /\ (f.high /\ ~f.old => f.proof)
StatusObligationMet(f) ==
    (f.status = "WONT-FIX" => f.why) /\ (f.status = "RESOLVED" => f.evidence # {})

(* validateFindings, over registerShapeError, passMarkerError, findingError. *)
ValidateFindings(r) ==
    /\ r.schema /\ r.marker \in {"set", "null"}
    /\ \A i \in DOMAIN r.findings : ShapeLawful(r.findings[i]) /\ StatusObligationMet(r.findings[i])
    /\ \A i, j \in DOMAIN r.findings : r.findings[i].id = r.findings[j].id => i = j

LoadFindings(file) ==
    IF file = Null THEN [ok |-> TRUE, register |-> Null]
    ELSE IF file.json /\ ValidateFindings(file) THEN [ok |-> TRUE, register |-> file]
    ELSE [ok |-> FALSE, register |-> Null]

(* A mutant: a register that was not parsed counts as empty. *)
RemintOfferedUnparsed(parsed) == parsed = Null \/ parsed.findings = <<>>

(* findingsRepair: whether its fix offers `rm` and a fresh prepare. *)
RemintOffered(parsed) == parsed # Null /\ parsed.findings = <<>>

(* What a reader of the register of `id` takes, or what it offers instead.   *)
Taken(r)       == [ok |-> TRUE,  register |-> r,    remint |-> FALSE]
Refused(parsed) == [ok |-> FALSE, register |-> Null, remint |-> RemintOffered(parsed)]
NoPass         == [ok |-> FALSE, register |-> Null, remint |-> FALSE]

(* loadOwnedFindings (task-state) *)
LoadOwnedFindings(id, file) ==
    LET loaded == LoadFindings(file)
    IN  IF ~loaded.ok THEN Refused(Null)
        ELSE IF loaded.register # Null /\ loaded.register.task # id THEN Refused(loaded.register)
        ELSE Taken(loaded.register)

(* parseRegisterForWrite (the runner): what it parsed is counted, lawful or not. *)
ParseRegisterForWrite(id, file) ==
    IF file = Null THEN NoPass
    ELSE IF ~file.json THEN Refused(Null)
    ELSE IF ~ValidateFindings(file) \/ file.task # id THEN Refused(file)
    ELSE Taken(file)

(* loadMarkedRegister, markerRefusal (the runner) *)
LoadMarkedRegister(id, file) ==
    LET loaded == LoadFindings(file)
    IN  IF ~loaded.ok THEN Refused(Null)
        ELSE IF loaded.register = Null THEN NoPass
        ELSE IF loaded.register.task # id THEN Refused(loaded.register)
        ELSE IF loaded.register.marker # "set" THEN NoPass
        ELSE Taken(loaded.register)

-----------------------------------------------------------------------------
Of(register, status) == {f \in Range(register.findings) : f.status = status}

(* missingResolveEvidence, by finding. *)
Missing(register) == {f \in Of(register, "RESOLVED") : "dead" \in f.evidence}

(* cmdVerdict *)
VerdictClean(id, file) ==
    LET read == LoadMarkedRegister(id, file)
    IN  read.ok /\ Missing(read.register) = {} /\ Of(read.register, "UNRESOLVED") = {}

(* doneGuard, what it asks of the register. *)
DoneAccepts(id, file) ==
    LET read == LoadOwnedFindings(id, file)
    IN  /\ read.ok /\ read.register # Null /\ read.register.marker = "set"
        /\ Of(read.register, "UNRESOLVED") = {} /\ Missing(read.register) = {}

(* handoffReport, cmdHandoff: where each finding is told. *)
Handoff(register) ==
    [worked   |-> Of(register, "RESOLVED") \ Missing(register),
     failed   |-> Of(register, "WONT-FIX"),
     notTried |-> Of(register, "UNRESOLVED") \cup Missing(register)]

(* metricRow, metricDerivation: a register that does not load is announced.  *)
MetricRow(file) ==
    LET loaded   == LoadFindings(file)
        findings == IF loaded.ok /\ loaded.register # Null THEN loaded.register.findings ELSE <<>>
    IN  [findings |-> Len(findings), highs |-> Cardinality({i \in DOMAIN findings : findings[i].high}), incomplete |-> ~loaded.ok]

-----------------------------------------------------------------------------
(* The retrospective.  A directory maps ids to register files. *)
LoadRegisters(dir) ==
    LET present == {id \in DOMAIN dir : dir[id] # Null}
    IN  [registers |-> {LoadFindings(dir[id]).register : id \in {x \in present : LoadFindings(dir[x]).ok}},
         skipped   |-> {id \in present : ~LoadFindings(dir[id]).ok}]

WontFixOf(registers) == UNION {{<<r.task, f.id>> : f \in Of(r, "WONT-FIX")} : r \in registers}

(* lessonsIndex, bundleBlock: every boundary rides along. *)
LessonsIndex(registers) ==
    [registers |-> Cardinality(registers), findings |-> MapThenSumSet(LAMBDA r : Len(r.findings), registers),
     wontFix |-> WontFixOf(registers)]
BundleBlock(index) == IF index.registers = 0 THEN {} ELSE index.wontFix

(* runIndex: its exit is 0. *)
IndexGreen(readable, dir) == readable /\ LoadRegisters(dir).skipped = {}

(* cmdPrepare, cmdCalibrate: the lessons in the bundles. *)
PreparedLessons(dir) ==
    [rows |-> BundleBlock(LessonsIndex(LoadRegisters(dir).registers)), warned |-> LoadRegisters(dir).skipped # {}]
ReplayedLessons(dir, id) ==
    BundleBlock(LessonsIndex({r \in LoadRegisters(dir).registers : r.task # id}))

-----------------------------------------------------------------------------
(* A task record's file is Null or [json, schema, id, events]: whether its   *)
(* events are a list of objects.                                             *)

(* parseTaskRecord, loadTask (task-state); taskRecordOf (the runner);        *)
(* loadRecord (the fence); readTask (the workspaces).                        *)
LoadTask(id, file)     == file # Null /\ file.json /\ file.schema /\ file.id = id
TaskRecordOf(id, file) == file # Null /\ file.json /\ file.schema /\ file.events /\ file.id = id
LoadRecord(id, file)   == file # Null /\ file.json /\ file.id = id
ReadTask(id, file)     == LoadRecord(id, file) /\ file.schema

(* metricRecord, unlistedReason: which files status and metrics list.        *)
Listed(id, file) == file # Null /\ file.json /\ file.schema /\ file.id = id

-----------------------------------------------------------------------------
(* Two readers of one register do not disagree on what matters: verdict says *)
(* CLEAN exactly when the done gate takes the register, and then metrics and *)
(* the retrospective count all of it; no reader offers to remove a register  *)
(* that holds a finding, torn or not; handoff tells every finding once, and  *)
(* as not tried exactly those that block the verdict                         *)
(* (tools/task-findings.mjs:205, tools/adversarial-runner.mjs:428,           *)
(* tools/task-state.mjs:555).                                                *)
RegisterReadAlike(id, file) ==
    LET register == LoadOwnedFindings(id, file).register
        told     == Handoff(register)
    IN  /\ VerdictClean(id, file) <=> DoneAccepts(id, file)
        /\ VerdictClean(id, file) =>
            /\ MetricRow(file).findings = Len(file.findings) /\ ~MetricRow(file).incomplete
            /\ file \in LoadRegisters([x \in {id} |-> file]).registers
        /\ \A read \in {LoadOwnedFindings(id, file), ParseRegisterForWrite(id, file), LoadMarkedRegister(id, file)} :
            read.remint => file.findings = <<>>
        /\ register # Null =>
            /\ \A f \in Range(register.findings) :
                Cardinality({s \in {"worked", "failed", "notTried"} : f \in told[s]}) = 1
            /\ register.marker = "set" => (VerdictClean(id, file) <=> told.notTried = {})

(* What past passes accepted reaches every new pass: each boundary of each   *)
(* register that can be read rides in the bundles, and a register that cannot*)
(* be read is announced; a replay carries every boundary but those of the    *)
(* register it replays, when that register names its own task; the index is  *)
(* green only over all of the files (tools/retrospective.mjs:108, :138,      *)
(* tools/adversarial-runner.mjs:1021).                                       *)
LessonsReachThePass(dir, id) ==
    LET read(x) == dir[x] # Null /\ LoadFindings(dir[x]).ok
        rows(x) == {<<dir[x].task, f.id>> : f \in Of(dir[x], "WONT-FIX")}
    IN  /\ \A x \in DOMAIN dir : read(x) => rows(x) \subseteq PreparedLessons(dir).rows
        /\ (\E x \in DOMAIN dir : dir[x] # Null /\ ~read(x)) => PreparedLessons(dir).warned /\ ~IndexGreen(TRUE, dir)
        /\ read(id) /\ dir[id].task = id =>
            /\ rows(id) \cap ReplayedLessons(dir, id) = {}
            /\ \A x \in DOMAIN dir : read(x) /\ dir[x].task # id => rows(x) \subseteq ReplayedLessons(dir, id)

(* A record that the runner writes findings for is one that every other tool *)
(* reads and lists, and what a workspace opens for, the fence reads          *)
(* (tools/adversarial-runner.mjs:165, tools/task-workspace.mjs:147).         *)
RecordReadAlike(id, file) ==
    /\ TaskRecordOf(id, file) => LoadTask(id, file) /\ ReadTask(id, file) /\ Listed(id, file)
    /\ ReadTask(id, file) <=> LoadTask(id, file)
    /\ LoadTask(id, file) => LoadRecord(id, file)
=============================================================================
