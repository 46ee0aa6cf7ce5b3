\* A task that is finished or retired while runner commands are in flight:
\* its register comes to rest.
CONSTANTS
  s1 = s1
  s2 = s2
  c1 = c1
  x1 = x1
  x2 = x2
  f1 = f1
  f2 = f2
  tools = tools
  fence = fence
  claim1 = claim1
  claim2 = claim2
  line1 = line1
  r1 = r1
  r2 = r2
  None = None
  Sessions <- TwoSessions
  Classes <- DocsClass
  Commands <- OneCommand
  Expects <- OneExpect
  Paths <- NoData
  Patterns <- NoData
  FencePatterns <- NoData
  Claims <- OneClaim
  Places <- NoData
  Severities <- LowOnly
  Ranges <- TwoRanges
  MaxExtras = 1
  MaxFindings = 1
SPECIFICATION FairSpec
PROPERTIES
  RegisterSettles
