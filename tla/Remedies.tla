------------------------------ MODULE Remedies ------------------------------
(***************************************************************************)
(* What task-state prints when a transition is blocked: the refusal, and   *)
(* the commands of its fix (tools/task-state.mjs, the guards, `status` and *)
(* `handoff`).  A refusal is named by its reason.  Following a fix is one  *)
(* command of the lifecycle, judged as the lifecycle judges it.            *)
(***************************************************************************)
EXTENDS TaskLifecycle, FiniteSets

(* The facts of a transition: `green` is the battery's verdict, `failing`    *)
(* the live pins that do not pass, `disk` the files the record may cite.     *)
Facts(green, failing) ==
    [class |-> riskClass, events |-> events, register |-> register, disk |-> disk,
     green |-> green, failing |-> failing]

NextPhase(ev) == CHOOSE p \in Phases : Rank[p] = Rank[DerivePhase(ev)] + 1

-----------------------------------------------------------------------------
(* The reasons, in the order the guards give them. *)

ExecutionRefusal(t) ==
    CASE ExecutionGuard(t.class, t.events)    -> "none"
      [] t.class \in ImplementationForbidden  -> "implementation-forbidden"
      [] OTHER                                -> "unapproved"

VerificationRefusal(t) ==
    LET pinned == CommandPins(t.events) # {}
        files  == RedCheckEvidence(t.events)
    IN  IF ~t.green THEN "battery red"
        ELSE IF files = {} /\ ~pinned THEN "no red-check"
        ELSE IF t.class \notin NonCodeClasses /\ ~pinned /\ ~HasPinExemption(t.events) THEN "no command pin"
        ELSE IF ~(files \subseteq t.disk) THEN "evidence gone"
        ELSE "none"

DoneRefusal(t) ==
    IF t.register = None THEN "no register"
    ELSE IF ~Clean(t.register.findings) THEN "unresolved"
    ELSE IF MissingResolveEvidence(t.register.findings, t.disk) # {} THEN "resolution gone"
    ELSE IF ~PinnedForDone(t.class, t.events) THEN "pinless"
    ELSE IF t.failing # {} THEN "pins fail"
    ELSE "none"

Refusal(t) ==
    CASE NextPhase(t.events) = "executing" -> ExecutionRefusal(t)
      [] NextPhase(t.events) = "verified"  -> VerificationRefusal(t)
      [] NextPhase(t.events) = "done"      -> DoneRefusal(t)
      [] OTHER                             -> "none"

(* The red-checks whose evidence is gone. *)
Citing(t) ==
    {i \in OfType(t.events, "red-check") \ RetiredPins(t.events) : ~(t.events[i].evidence \subseteq t.disk)}

(* The commands of the fix; pin-retire for lost evidence is printed for the  *)
(* paths that were recorded with a pin.                                      *)
Fixes(t, reason) ==
    CASE reason = "implementation-forbidden" -> {"new"}
      [] reason = "unapproved"      -> {"approve"}
      [] reason = "battery red"     -> {"repair"}
      [] reason = "no red-check"    -> {"red-check"}
      [] reason = "no command pin"  -> {"red-check", "pin-exempt"}
      [] reason = "evidence gone"   ->
            IF Citing(t) \subseteq CommandPins(t.events) THEN {"restore", "pin-retire"} ELSE {"restore"}
      [] reason = "no register"     -> {"prepare"}
      [] reason = "unresolved"      -> {"resolve", "wont-fix"}
      [] reason = "resolution gone" -> {"resolve"}
      [] reason = "pinless"         -> {"pin-exempt", "red-check"}
      [] reason = "pins fail"       -> {"repair", "pin-retire"}

(* status: what it says of the next transition, from the facts it has: it    *)
(* runs neither the battery nor the pins.                                    *)
Unblocked(t) == Refusal([t EXCEPT !.green = TRUE, !.failing = {}]) = "none"

-----------------------------------------------------------------------------
(* Following a fix: the tasks it may leave; none when the command refuses.   *)

Appended(t, lawful, e) ==
    IF AppendLawful(t.events) /\ lawful
    THEN LET ev == Append(t.events, e)
         IN  {[t EXCEPT !.events = ev, !.failing = @ \cap CommandPins(ev)]}
    ELSE {}

(* The pin alone, or every pin of its command. *)
RetireOne(t, i) ==
    LET c == t.events[i].command
    IN  UNION {Appended(t, PinRetireLawful(t.events, c, x), PinRetire(c, x)) : x \in {t.events[i].expect, None}}

(* Each of `which` is closed.  A resolution cites files that were never gone: *)
(* a path of the model stands for such a file too.                            *)
Closing(t, fix, which) ==
    LET lawful(f)    == IF fix = "resolve" THEN ResolveLawful(f, t.disk) ELSE WontFixLawful(f)
        close(f, ps) == IF fix = "resolve" THEN Resolve(f, ps) ELSE WontFix(f)
    IN  IF AppendLawful(t.events) /\ \A i \in which : lawful(t.register.findings[i])
        THEN {[t EXCEPT !.disk = @ \cup ps, !.register.findings =
                  [i \in DOMAIN @ |-> IF i \in which THEN close(@[i], ps) ELSE @[i]]] :
                  ps \in IF fix = "resolve" THEN (SUBSET Paths) \ {{}} ELSE {{}}}
        ELSE {}

Open(t) == {i \in DOMAIN t.register.findings : t.register.findings[i].status = "UNRESOLVED"}

Follow(fix, t) ==
    CASE fix = "new"        -> {[t EXCEPT !.class = "runtime-code", !.events = <<Created>>]}
      [] fix = "approve"    -> Appended(t, TRUE, Approval)
      [] fix = "pin-exempt" -> Appended(t, TRUE, PinExemption)
      [] fix = "red-check"  -> UNION {Appended(t, TRUE, Pin(c, x, {})) : c \in Commands, x \in Expects}
      [] fix = "pin-retire" ->
            UNION {RetireOne(t, i) : i \in IF t.failing # {} THEN t.failing ELSE Citing(t)}
      [] fix = "repair"     -> {[t EXCEPT !.green = TRUE, !.failing = {}]}
      [] fix = "restore"    -> {[t EXCEPT !.disk = Paths]}
      [] fix = "prepare"    ->
            IF AppendLawful(t.events)
            THEN {[t EXCEPT !.register = [swept |-> r, findings |-> <<>>]] : r \in Ranges} ELSE {}
      [] fix = "resolve"    ->
            Closing(t, fix, IF Open(t) # {} THEN Open(t) ELSE MissingResolveEvidence(t.register.findings, t.disk))
      [] fix = "wont-fix"   -> Closing(t, fix, Open(t))

-----------------------------------------------------------------------------
(* What blocks a task, counted.  A pin that fails or cites lost evidence     *)
(* counts twice: retiring it may leave the task without a pin.               *)
Count(amiss) == IF amiss THEN 1 ELSE 0

FindingsOf(t) == IF t.register = None THEN <<>> ELSE t.register.findings

Obstacles(t) ==
    LET pinned == CommandPins(t.events) # {}
        lacks  == \/ RedCheckEvidence(t.events) = {}
                  \/ t.class \notin NonCodeClasses /\ ~HasPinExemption(t.events)
    IN  CASE NextPhase(t.events) = "executing" -> Count(~ExecutionGuard(t.class, t.events))
          [] NextPhase(t.events) = "verified"  ->
                Count(~t.green) + Count(~pinned /\ lacks) + 2 * Cardinality(Citing(t))
          [] NextPhase(t.events) = "done"      ->
                Count(t.register = None) + Count(~Clean(FindingsOf(t)))
                    + Count(MissingResolveEvidence(FindingsOf(t), t.disk) # {})
                    + Count(~PinnedForDone(t.class, t.events)) + 2 * Cardinality(t.failing)
          [] OTHER                             -> 0

(* No command in flight, and none was killed half way: what is printed       *)
(* depends on neither, so this leaves out no refusal.                        *)
Quiet ==
    /\ \A s \in Sessions : session[s] = Idle
    /\ register = None <=> bundles = None

(* Whoever follows a fix has something to type in it. *)
Supplied == {} \notin {Commands, Expects, Paths, Ranges}

(* Each command of the fix is accepted and leaves less in the way, whatever  *)
(* is typed in it; nothing is refused once nothing is.                       *)
LeadsOut(t) ==
    /\ Refusal(t) = "none" <=> Obstacles(t) = 0
    /\ Refusal(t) # "none" => \A fix \in Fixes(t, Refusal(t)) :
          /\ Follow(fix, t) # {}
          /\ \A u \in Follow(fix, t) : Obstacles(u) < Obstacles(t)

(* The live pins that may fail when advance runs them. *)
MayFail == IF NextPhase(events) = "done" THEN SUBSET CommandPins(events) ELSE {{}}

(* "A printed fix that refuses too is no fix", and a retire remedy must not  *)
(* lead straight back to the refusal it came from: whatever blocks the next  *)
(* transition, be the battery red or any of the pins failing, every fix      *)
(* leads out of it.  `status` calls a transition unblocked exactly when the  *)
(* law, short of the runs, grants it.                                        *)
RemediesLeadOut ==
    Supplied /\ Exists /\ ~Terminal(events) /\ Quiet =>
        /\ \A green \in BOOLEAN, pins \in MayFail : LeadsOut(Facts(green, pins))
        /\ Unblocked(Facts(TRUE, {})) <=>
              EvaluateTransition(riskClass, events, register, disk, NextPhase(events), TRUE, {})
=============================================================================
