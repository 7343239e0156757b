SPECIFICATION FairSpec
CONSTANTS
  Tries = {}
  Asks = {}
  Listeners = {}
  Declared = {}
  Added = {}
  MaxWritten = 1
  MaxOps = 1
  OutCap = 1
  CmdCap = 1
INVARIANTS
  AgentUnderControl
  LinesArrive
PROPERTIES
  SandboxRunEnds
\* The Run is over.
CHECK_DEADLOCK FALSE
