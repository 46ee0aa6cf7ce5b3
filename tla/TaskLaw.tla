------------------------------- MODULE TaskLaw -------------------------------
(***************************************************************************)
(* tools/task-state.mjs, the pure half: what a task record means.          *)
(*                                                                         *)
(* A record is a risk class and an append-only sequence of events; the     *)
(* phase, the live pins and the scope are derived from the events, never   *)
(* stored.  The judges below answer TRUE where the code answers null or    *)
(* { ok: true }; refusal texts and remedies are left out.                  *)
(*                                                                         *)
(* Time stamps are left out, and with them the cutovers that grandfather   *)
(* old records: every pin carries its --expect signature, and the hash     *)
(* chain is unbroken.                                                      *)
(***************************************************************************)
EXTENDS FindingsLaw

CONSTANTS
    Commands,        \* the shell commands a pin may run
    Expects,         \* the --expect signatures of pins
    Patterns,        \* the scope globs
    FencePatterns    \* those that reach the fence's own surface

ASSUME TaskLawAssumption ==
    /\ FencePatterns \subseteq Patterns
    /\ None \notin Commands \cup Expects

RiskClasses ==
    {"planning-only", "docs-only", "runtime-code", "protected", "migration", "experiment"}

ImplementationForbidden == {"planning-only", "experiment"}
ApprovalRequired        == {"protected", "migration"}
NonCodeClasses          == {"planning-only", "docs-only", "experiment"}

(* PHASES, with the place of each in the order. *)
Rank == [intake |-> 0, planned |-> 1, executing |-> 2,
         verified |-> 3, adversarial |-> 4, done |-> 5]
Phases == DOMAIN Rank

-----------------------------------------------------------------------------
(* The events of a record *)

Created       == [type |-> "created"]
Approval      == [type |-> "approval"]
PinExemption  == [type |-> "pin-exemption"]
Retired       == [type |-> "retired"]
Transition(t) == [type |-> "transition", to |-> t]
Scope(ps)     == [type |-> "scope", patterns |-> ps]

(* A command pin, with or without supplementary evidence ... *)
Pin(c, x, ps) == [type |-> "red-check", command |-> c, expect |-> x, evidence |-> ps]

(* ... and a red-check that records evidence paths alone. *)
PathCheck(ps) == Pin(None, None, ps)

PinRetire(c, x) == [type |-> "pin-retire", command |-> c, expect |-> x]

Events ==
    {Created, Approval, PinExemption, Retired}
        \cup {Transition(t) : t \in Phases}
        \cup {Scope(ps) : ps \in SUBSET Patterns}
        \cup {Pin(c, x, ps) : c \in Commands \cup {None}, x \in Expects \cup {None},
                              ps \in SUBSET Paths}
        \cup {PinRetire(c, x) : c \in Commands, x \in Expects \cup {None}}

-----------------------------------------------------------------------------
(* What the events derive *)

OfType(ev, t) == {i \in DOMAIN ev : ev[i].type = t}

Latest(S) == CHOOSE i \in S : \A j \in S : j <= i

(* The `to` of the last transition; a retired event anywhere is terminal. *)
DerivePhase(ev) ==
    LET moves == OfType(ev, "transition")
    IN  IF OfType(ev, "retired") # {} THEN "retired"
        ELSE IF moves = {} THEN "intake"
        ELSE ev[Latest(moves)].to

Terminal(ev) == DerivePhase(ev) \in {"done", "retired"}

HasApproval(ev)     == OfType(ev, "approval") # {}
HasPinExemption(ev) == OfType(ev, "pin-exemption") # {}

ScopeOf(ev) == UNION {ev[i].patterns : i \in OfType(ev, "scope")}

RetireReaches(retire, e) ==
    /\ e.type = "red-check"
    /\ e.command = retire.command
    /\ retire.expect = None \/ e.expect = retire.expect

(* A mutant: a retirement keyed by the command, whenever it was recorded. *)
RetiredPinsEver(ev) ==
    {i \in DOMAIN ev : \E j \in OfType(ev, "pin-retire") : RetireReaches(ev[j], ev[i])}

(* A pin-retire reaches back to the pins recorded before it, never forward. *)
RetiredPins(ev) ==
    {i \in DOMAIN ev :
        \E j \in OfType(ev, "pin-retire") : i < j /\ RetireReaches(ev[j], ev[i])}

CommandPins(ev) ==
    {i \in OfType(ev, "red-check") \ RetiredPins(ev) : ev[i].command # None}

RedCheckEvidence(ev) ==
    UNION {ev[i].evidence : i \in OfType(ev, "red-check") \ RetiredPins(ev)}

-----------------------------------------------------------------------------
(* The judges *)

(* terminalAppendRefusal: the write seam's law. *)
AppendLawful(ev) == ~Terminal(ev)

(* The retirement law: only a task that never executed. *)
RetirementLawful(ev) == AppendLawful(ev) /\ DerivePhase(ev) \in {"intake", "planned"}

(* A mutant: the tier alone opens the fence surface. *)
FenceSurfaceLawfulByTier(class, ev, ps) ==
    ps \cap FencePatterns # {} => class \in ApprovalRequired

(* A fence-surface pattern needs a protected tier and a recorded approval. *)
FenceSurfaceLawful(class, ev, ps) ==
    ps \cap FencePatterns # {} => class \in ApprovalRequired /\ HasApproval(ev)

(* cmdScope, inside the lock. *)
ScopeLawful(class, ev, ps) ==
    /\ AppendLawful(ev)
    /\ Rank[DerivePhase(ev)] >= Rank["planned"]
    /\ FenceSurfaceLawful(class, ev, ps)
    /\ ps \ ScopeOf(ev) # {}

(* cmdPinRetire, inside the lock: it reaches at least one pin that is live. *)
PinRetireLawful(ev, c, x) ==
    /\ AppendLawful(ev)
    /\ \E i \in DOMAIN ev \ RetiredPins(ev) : RetireReaches(PinRetire(c, x), ev[i])

ExecutionGuard(class, ev) ==
    /\ class \notin ImplementationForbidden
    /\ class \in ApprovalRequired => HasApproval(ev)

(* evidenceOnDisk is one conjunct: every recorded path is a file on `disk`. *)
VerificationGuard(class, ev, disk, batteryGreen) ==
    /\ batteryGreen
    /\ RedCheckEvidence(ev) # {} \/ CommandPins(ev) # {}
    /\ class \notin NonCodeClasses => CommandPins(ev) # {} \/ HasPinExemption(ev)
    /\ RedCheckEvidence(ev) \subseteq disk

(* pinlessDoneRefusal *)
PinnedForDone(class, ev) ==
    class \in NonCodeClasses \/ CommandPins(ev) # {} \/ HasPinExemption(ev)

(* A mutant: done owes no pin that is still live. *)
DoneGuardPinless(class, ev, reg, disk, greenFailures) ==
    /\ reg # None
    /\ Clean(reg.findings)
    /\ MissingResolveEvidence(reg.findings, disk) = {}
    /\ greenFailures = {}

(* The done gate.  A register that exists carries its pass marker: only      *)
(* prepare mints one.                                                        *)
DoneGuard(class, ev, reg, disk, greenFailures) ==
    /\ reg # None
    /\ Clean(reg.findings)
    /\ MissingResolveEvidence(reg.findings, disk) = {}
    /\ PinnedForDone(class, ev)
    /\ greenFailures = {}

(* A mutant: any later phase will do. *)
EvaluateTransitionSkipping(class, ev, reg, disk, target, batteryGreen, greenFailures) ==
    /\ AppendLawful(ev)
    /\ Rank[target] > Rank[DerivePhase(ev)]
    /\ target = "executing" => ExecutionGuard(class, ev)
    /\ target = "verified" => VerificationGuard(class, ev, disk, batteryGreen)
    /\ target = "done" => DoneGuard(class, ev, reg, disk, greenFailures)

(* evaluateTransition: one phase at a time, through the guard of the target. *)
EvaluateTransition(class, ev, reg, disk, target, batteryGreen, greenFailures) ==
    /\ AppendLawful(ev)
    /\ Rank[target] = Rank[DerivePhase(ev)] + 1
    /\ target = "executing" => ExecutionGuard(class, ev)
    /\ target = "verified" => VerificationGuard(class, ev, disk, batteryGreen)
    /\ target = "done" => DoneGuard(class, ev, reg, disk, greenFailures)
=============================================================================
