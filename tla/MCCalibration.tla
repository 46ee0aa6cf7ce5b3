--------------------------- MODULE MCCalibration ---------------------------
(* A wave of three known defects and claims of three kinds: prose that only *)
(* a link can make count, prose that blankets every defect, and a claim     *)
(* that is dense on one defect and less so on another.                      *)
EXTENDS Calibration

CONSTANTS s1, s2, r1, r2

TwoSessions == {s1, s2}
OneRange    == {r1}
TwoRanges   == {r1, r2}

Sparse  == [shared |-> <<2, 3, 2>>, dense |-> {}]
Blanket == [shared |-> <<4, 4, 4>>, dense |-> {1}]
Pointed == [shared |-> <<5, 0, 3>>, dense |-> {3}]

AllProfiles == {Sparse, Blanket, Pointed}
LastDefect  == {3}

OneProfile  == {Pointed}

(* A bound: one claim of the register is linked, at whatever place. *)
OneLinked ==
    calibration # None =>
        Cardinality({i \in DOMAIN calibration.claims : calibration.claims[i].link # None}) <= 1

(* No action names one session or one range. *)
Symmetry == Permutations(Sessions) \cup Permutations(Ranges)
=============================================================================
