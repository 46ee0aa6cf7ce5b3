\* Three writers, any of which may be killed anywhere; the lockfile of a dead
\* one may reach the stale age once a single writer is left.
CONSTANTS
  p1 = p1
  p2 = p2
  p3 = p3
  None = None
  Procs <- MCProcs
  Crashers <- MCCrashers
  MaxAttempts = 3
  StaleOrphans = "lone"
  StaleHolders = FALSE
SPECIFICATION FairSpec
INVARIANTS
  MutualExclusion
  NoLostUpdate
  ReadersSeeWholeFile
PROPERTIES
  EveryProcessSettles
  ImplementsAtomicUpdates
  StaleOrphanIsTakenOver
