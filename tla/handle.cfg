CONSTANTS
  Kinds <- MCKinds
  MaxEvents = 4
  PipeCap = 2
  QueueCap = 2
SPECIFICATION FairSpec
INVARIANTS
  LoopComplete
PROPERTIES
  LeavesUnlessFull
  RunReturns
\* The context is left, or stuck.
CHECK_DEADLOCK FALSE
