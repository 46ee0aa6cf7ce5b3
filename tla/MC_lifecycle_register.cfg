\* The register's law: one task with two sessions that prepare, record,
\* resolve and wont-fix while its files come and go and it may be retired.
CONSTANTS
  s1 = s1
  s2 = s2
  c1 = c1
  x1 = x1
  x2 = x2
  f1 = f1
  f2 = f2
  tools = tools
  fence = fence
  claim1 = claim1
  claim2 = claim2
  line1 = line1
  r1 = r1
  r2 = r2
  None = None
  Sessions <- TwoSessions
  Classes <- PlanClass
  Commands <- NoData
  Expects <- NoData
  Paths <- TwoPaths
  Patterns <- NoData
  FencePatterns <- NoData
  Claims <- TwoClaims
  Places <- OnePlace
  Severities <- LowToHigh
  Ranges <- OneRange
  MaxExtras = 0
  MaxFindings = 2
SPECIFICATION Spec
SYMMETRY Symmetry
INVARIANTS
  DistinctEscapes
PROPERTIES
  FindingsAppendOnly
