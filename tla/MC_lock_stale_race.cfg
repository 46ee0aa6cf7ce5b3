\* One writer dies holding the lock and the lockfile turns stale; two live
\* writers find it.  No live holder ever reaches the stale age.
CONSTANTS
  p1 = p1
  p2 = p2
  p3 = p3
  None = None
  Procs <- MCProcs
  Crashers <- OneCrasher
  MaxAttempts = 3
  StaleOrphans = "any"
  StaleHolders = FALSE
SPECIFICATION Spec
INVARIANT NoLostUpdate
