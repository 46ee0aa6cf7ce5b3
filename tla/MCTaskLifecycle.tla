--------------------------- MODULE MCTaskLifecycle ---------------------------
(* Small tasks: one or two pins, a handful of events, two sessions. *)
EXTENDS Remedies, TLC

CONSTANTS s1, s2, c1, x1, x2, f1, f2, tools, fence, claim1, claim2, line1, r1, r2

TwoSessions == {s1, s2}
OneSession  == {s1}
NoData      == {}

OneCommand  == {c1}
OneExpect   == {x1}
TwoExpects  == {x1, x2}
OnePath     == {f1}
TwoPaths    == {f1, f2}
BothScopes  == {tools, fence}
FenceScope  == {fence}
OneClaim    == {claim1}
TwoClaims   == {claim1, claim2}
OnePlace    == {line1}
OneRange    == {r1}
TwoRanges   == {r1, r2}

LowToHigh   == {0, 2}
LowOnly     == {0}

AllClasses  == RiskClasses
TierClasses == {"runtime-code", "protected", "planning-only"}
CodeClass   == {"runtime-code"}
DocsClass   == {"docs-only"}
PlanClass   == {"planning-only"}

(* A bound: once a finding is recorded there is room for one pin, until then *)
(* for all (the first of the extras is the created event).                   *)
PinsOrFindings == register # None => register.findings = <<>> \/ Extras <= 2

(* No action names one session, signature, file or claim. *)
Symmetry ==
    Permutations(Sessions) \cup Permutations(Expects)
        \cup Permutations(Paths) \cup Permutations(Claims)
=============================================================================
