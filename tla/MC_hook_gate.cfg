\* The same machines and inputs as MC_tools.cfg: a hook whose only mention of
\* the gate is in the text of an `echo`.
CONSTANTS
  Calls = {p1, p2}
  Targets = {t1, t2, t3}
  Destructive = dx
  MaxTargets = 2
  Ttl = 2
  Skew = 1
  MaxTime = 4
  MaxDenials = 4
  What <- MCWhat
  MaxEvents = 4
  MaxTampers = 2
  Runs = {t1, t2, t3}
  MaxChanges = 2
  Edits = {p1, p2}
  Branches <- MCBranches
  Roots <- MCRoots
  SurfaceFiles <- MCSurface
  Flags <- MCFlags
  NoFooter = NoFooter
  Absent = Absent
  Dangling = Dangling
  Null = Null
  Silent = Silent
SPECIFICATION Spec
SYMMETRY Symmetry
INVARIANTS
  CertifiedGateIsACommand
CHECK_DEADLOCK FALSE
