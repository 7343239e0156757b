CONSTANTS
  None = None
  p1 = p1
  p2 = p2
  Procs = {p1, p2}
  Runs = {p1}
  MaxKills = 1
  Deaths = 1
  Modes <- MCModes
SPECIFICATION Spec
INVARIANTS LeftoversExplained FilteredWhileUp OpensOwnPorts ExtractsQuietDisk
PROPERTIES KernelWholeUnlessRaced BootsWhole
CHECK_DEADLOCK FALSE
