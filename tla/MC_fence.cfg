\* The push fence over one task and two branches: commits through and around
\* the hooks, merges, a moving adoption base, and pushes.
CONSTANTS
  c1 = c1
  x1 = x1
  tool = tool
  pinfile = pinfile
  doc = doc
  tools = tools
  fence = fence
  None = None
  Commands <- OneCommand
  Expects <- OneExpect
  Patterns <- AllPatterns
  FencePatterns <- FenceOnly
  Claims <- NoClaims
  Places <- NoPaths
  Severities <- NoSeverity
  Paths <- NoPaths
  Ranges <- NoRange
  Files <- AllFiles
  SurfaceFiles <- BaseFiles
  UnlistedFiles <- NoFiles
  GatesFiles <- NoFiles
  TreeFiles <- CodeFile
  ExecutableFiles <- Executable
  Covers <- Coverage
  Classes <- Protected
  Branches <- TwoBranches
  Main <- MainBranch
  BaseFile = pinfile
  OwnSets <- Authored
  Sneaked <- CodeOnly
  Records <- Prefixes
  MaxWork = 4
SPECIFICATION Spec
INVARIANTS
  SettledStaysLawful
  HookedPassesFence
  EditedIsCommittable
  PrintedFixesLeadOut
PROPERTIES
  DoneAuthorizesNothingNew
  AdoptedBranchLandsJudged
CHECK_DEADLOCK FALSE
