SPECIFICATION FairSpec
CONSTANTS
  Kin <- MCKin
  MaxLines = 1
  MaxOps = 2
  OutCap = 1
  CmdCap = 1
  StreamCap = 1
  Binary = TRUE
INVARIANTS
  EventsComplete
  ReasonTrue
  GroupIsShot
  KillArrives
PROPERTIES
  RunEnds
CHECK_DEADLOCK FALSE
