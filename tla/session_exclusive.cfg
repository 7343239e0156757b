\* Writers never overlap; Runs overlap everything; one process is killed.
CONSTANTS
  Procs = {p1, p2, p3}
  Opener = opener
  ExclusiveWriters = TRUE
  Stragglers = TRUE
  MaxCrashes = 1
SPECIFICATION FairSpec
INVARIANTS
  MetaIntact
  LabelDurable
  TombstoneHasNoPool
  RestingSessionUsable
PROPERTIES
  ImplementsLifecycle
  ClosingResolves
\* Every process does one verb and ends.
CHECK_DEADLOCK FALSE
