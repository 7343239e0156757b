CONSTANTS
  main = main
  topic = topic
  x = x
  r1 = r1
  r2 = r2
  none = none
  NoOutput = none
  Mirrored <- MCMirrored
  Fresh <- MCFresh
  Users <- MCUsers
  Runs <- MCRuns
  Sandboxed = {r2}
  Closers = {k1, k2}
  Outputs <- MCOutputs
  Bases <- MCBases
  Imports <- MCImports
  Manifests <- MCManifests
  MaxCommit = 3
SYMMETRY Symmetry
SPECIFICATION Spec
INVARIANTS
  AuditRefIsRunHead
  HostHistoryKept
  FailedCloseLeavesNothing
  PoolIsolated
PROPERTIES
  EarlierRefsKept
  PushedAsJudged
\* Runs and closes end.
CHECK_DEADLOCK FALSE
