\* One advance to done and one record, in flight together.
CONSTANTS
  s1 = s1
  s2 = s2
  c1 = c1
  x1 = x1
  x2 = x2
  f1 = f1
  f2 = f2
  tools = tools
  fence = fence
  claim1 = claim1
  claim2 = claim2
  line1 = line1
  r1 = r1
  r2 = r2
  None = None
  Sessions <- TwoSessions
  Classes <- DocsClass
  Commands <- NoData
  Expects <- NoData
  Paths <- OnePath
  Patterns <- NoData
  FencePatterns <- NoData
  Claims <- OneClaim
  Places <- NoData
  Severities <- LowOnly
  Ranges <- OneRange
  MaxExtras = 1
  MaxFindings = 1
SPECIFICATION Spec
INVARIANT DoneRegisterClean
