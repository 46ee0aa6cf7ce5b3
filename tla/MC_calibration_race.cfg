\* One verdict and one calibrate, in flight together.
CONSTANTS
  s1 = s1
  s2 = s2
  r1 = r1
  r2 = r2
  None = None
  Sessions <- TwoSessions
  Ranges <- OneRange
  Profiles <- OneProfile
  Links <- LastDefect
  MaxKnown = 3
  MaxClaims = 1
  MaxEpochs = 1
SPECIFICATION Spec
INVARIANT EarlierClaimsNeverGraded
