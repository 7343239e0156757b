SPECIFICATION Spec
CONSTANTS
  Tries = {t1}
  Asks <- MCAsks
  Listeners <- MCListeners
  Declared <- MCDeclared
  Added = {}
  MaxWritten = 0
  MaxOps = 0
  OutCap = 1
  CmdCap = 1
INVARIANTS
  PolicyKept
  DnsDenialsShown
\* The Run is over.
CHECK_DEADLOCK FALSE
