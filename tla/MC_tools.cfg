\* Four machines and the judgements, each by itself.  p1, p2 and t1..t3 are
\* shared by the machines (a behaviour is one machine's) to keep the symmetry small.
CONSTANTS
  Calls = {p1, p2}
  Targets = {t1, t2, t3}
  Destructive = dx
  MaxTargets = 2
  Ttl = 2
  Skew = 1
  MaxTime = 4
  MaxDenials = 4
  What <- MCWhat
  MaxEvents = 4
  MaxTampers = 2
  Runs = {t1, t2, t3}
  MaxChanges = 2
  Edits = {p1, p2}
  Branches <- MCBranches
  Roots <- MCRoots
  SurfaceFiles <- MCSurface
  Flags <- MCFlags
  NoFooter = NoFooter
  Absent = Absent
  Dangling = Dangling
  Null = Null
  Silent = Silent
SPECIFICATION Spec
SYMMETRY Symmetry
INVARIANTS
  DemandsStand
  ChainedIsWritten
  OneRunPerCheckout
  ForgetLosesNothing
  CommitsReachABranch
  TextReadAsRun
  ScopedSurfaceIsTiered
  CertifiedWiringRuns
  PassedScansHold
  HooksReadAlike
  RecordsReadTrue
  GatesReadTheirMaps
PROPERTIES
  RatchetNeverNarrows
CHECK_DEADLOCK FALSE
