\* The record's law: two sessions race advances and red-checks against the
\* one-step commands; the register is prepared and stays empty.
CONSTANTS
  s1 = s1
  s2 = s2
  c1 = c1
  x1 = x1
  x2 = x2
  f1 = f1
  f2 = f2
  tools = tools
  fence = fence
  claim1 = claim1
  claim2 = claim2
  line1 = line1
  r1 = r1
  r2 = r2
  None = None
  Sessions <- TwoSessions
  Classes <- TierClasses
  Commands <- OneCommand
  Expects <- OneExpect
  Paths <- NoData
  Patterns <- BothScopes
  FencePatterns <- FenceScope
  Claims <- OneClaim
  Places <- NoData
  Severities <- LowOnly
  Ranges <- OneRange
  MaxExtras = 2
  MaxFindings = 0
SPECIFICATION Spec
SYMMETRY Symmetry
INVARIANTS
  PhasesInOrder
  GatesJudgedWhatRan
  ApprovalsComeInOrder
PROPERTIES
  TerminalFrozen
