\* The arc of a code task's pins: a command is pinned, retired and pinned
\* again, with and without an evidence file, while an advance is under way.
CONSTANTS
  s1 = s1
  s2 = s2
  c1 = c1
  x1 = x1
  x2 = x2
  f1 = f1
  f2 = f2
  tools = tools
  fence = fence
  claim1 = claim1
  claim2 = claim2
  line1 = line1
  r1 = r1
  r2 = r2
  None = None
  Sessions <- OneSession
  Classes <- CodeClass
  Commands <- OneCommand
  Expects <- OneExpect
  Paths <- OnePath
  Patterns <- NoData
  FencePatterns <- NoData
  Claims <- OneClaim
  Places <- NoData
  Severities <- LowOnly
  Ranges <- OneRange
  MaxExtras = 3
  MaxFindings = 1
SPECIFICATION Spec
CONSTRAINT PinsOrFindings
SYMMETRY Symmetry
INVARIANTS
  CodeDonePinned
  RemediesLeadOut
PROPERTIES
  RecordedPinIsLive
