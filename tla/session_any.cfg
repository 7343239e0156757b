\* Any two processes overlap, and one is killed.
CONSTANTS
  Procs = {p1, p2, p3}
  Opener = opener
  ExclusiveWriters = FALSE
  Stragglers = FALSE
  MaxCrashes = 1
SYMMETRY Symmetry
SPECIFICATION Spec
INVARIANTS
  OutcomesTrue
\* Every process does one verb and ends.
CHECK_DEADLOCK FALSE
