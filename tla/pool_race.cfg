CONSTANTS
  main = main
  topic = topic
  x = x
  r1 = r1
  r2 = r2
  none = none
  NoOutput = none
  Mirrored <- MCMirrored
  Fresh <- MCFresh
  Users <- MCUsers
  Runs <- MCRuns
  Sandboxed = {}
  Closers = {k1}
  Outputs <- MCOutputs
  Bases <- MCBases
  Imports <- MCImports
  Manifests <- MCManifests
  MaxCommit = 3
SPECIFICATION Spec
INVARIANTS
  OutputHasOneWinner
CHECK_DEADLOCK FALSE
