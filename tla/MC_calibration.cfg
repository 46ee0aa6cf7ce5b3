\* Two sessions calibrate, record and grade while the wave is re-prepared and
\* still gains defects.
CONSTANTS
  s1 = s1
  s2 = s2
  r1 = r1
  r2 = r2
  None = None
  Sessions <- TwoSessions
  Ranges <- TwoRanges
  Profiles <- AllProfiles
  Links <- LastDefect
  MaxKnown = 3
  MaxClaims = 3
  MaxEpochs = 1
SPECIFICATION Spec
CONSTRAINT OneLinked
SYMMETRY Symmetry
INVARIANTS
  DispatchesTileClaims
  MatchCountsFairly
  VerdictGradesOneDispatch
PROPERTIES
  OneVerdictPerDispatch
