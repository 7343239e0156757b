CONSTANTS
  Kinds <- MCKinds
  MaxEvents = 4
  PipeCap = 2
  QueueCap = 2
SPECIFICATION FairSpec
PROPERTIES
  ContextExits
CHECK_DEADLOCK FALSE
