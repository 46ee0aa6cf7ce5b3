------------------------------ MODULE PinRuns ------------------------------
(***************************************************************************)
(* What a command pin's runs are read to say: the run that records it RED  *)
(* and the two that clear it at done (tools/task-state.mjs:809-930).       *)
(***************************************************************************)
EXTENDS Naturals, Sequences, FiniteSets, Functions

CONSTANTS Null

(* A check asserts something each time it runs: it holds, fails, crashes     *)
(* before it asserts, or hangs; and the shell may lose its exit status, as   *)
(* `check | tail` does.  A noisy check prints its signature whatever happens.*)
Outcomes == [asserts : {"holds", "fails", "crashes", "hangs"}, lost : BOOLEAN]

(* runPinCommand: Null is a run that delivers no verdict, which dies. *)
RunPinCommand(noisy, outcome) ==
    IF outcome.asserts = "hangs" THEN Null
    ELSE [exitCode |-> IF outcome.asserts = "holds" \/ outcome.lost THEN 0 ELSE 1,
          output   |-> {outcome.asserts} \cup IF noisy THEN {"fails"} ELSE {}]

(* A pattern is a set of printed marks, one of which it needs, or Malformed. *)
Malformed == {"malformed"}

PatternMatches(pattern, output) == pattern # Malformed /\ pattern \cap output # {}

(* expectationRefusal: none. *)
Expected(pattern, output) == pattern # Malformed /\ PatternMatches(pattern, output)

(* cmdRedCheck: whether the run records the pin. *)
RecordedRed(expect, before, cutover) ==
    /\ expect = Null => ~cutover
    /\ before # Null /\ before.exitCode # 0
    /\ expect # Null => Expected(expect, before.output)

(* steadyRunFailure, vacuousGreenOf: none. *)
Steady(runs)        == \A i \in 1..2 : i \in DOMAIN runs /\ runs[i].exitCode = 0
Vacuous(expect, run) == expect # Null /\ PatternMatches(expect, run.output)

(* A mutant: a re-run that exits 0 is GREEN. *)
GreenVerdictOfExit(expect, runs) == Steady(runs)

(* greenVerdictOf: none, over the runs that pinGreenness hands it; one that  *)
(* delivers no verdict ends the command.                                     *)
GreenVerdictOf(expect, runs) == Steady(runs) /\ \A i \in DOMAIN runs : ~Vacuous(expect, runs[i])

-----------------------------------------------------------------------------
(* A pin that names what only a failed assertion prints goes from RED to     *)
(* GREEN by the fix alone: it was recorded from a failed assertion, and none *)
(* of the re-runs fails, intermittently or behind a lost exit status; a      *)
(* check that cannot be told from its own failure never goes GREEN           *)
(* (tools/task-state.mjs:837, :857, :879).                                   *)
RedThenGreen(expect, noisy, cutover, before, after) ==
    LET runs  == [i \in 1..2 |-> RunPinCommand(noisy, after[i])]
        moved == /\ RecordedRed(expect, RunPinCommand(noisy, before), cutover)
                 /\ Null \notin Range(runs) /\ GreenVerdictOf(expect, runs)
    IN  /\ moved /\ expect = {"fails"} => before.asserts = "fails" /\ \A i \in 1..2 : after[i].asserts # "fails"
        /\ moved /\ expect = {"fails"} => ~noisy
        /\ moved /\ ~(\E i \in 1..2 : after[i].lost) => \A i \in 1..2 : after[i].asserts = "holds"
=============================================================================
