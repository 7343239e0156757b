CONSTANTS
  None = None
  p1 = p1
  Procs = {p1}
  Runs = {p1}
  MaxKills = 0
  Deaths = 0
  Modes <- PiModes
SPECIFICATION Spec
INVARIANTS HistoryPreserved
CHECK_DEADLOCK FALSE
