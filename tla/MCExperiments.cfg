CONSTANTS
  Repeat = 2
  Proc = {p1, p2, p3}
  Plans <- MCPlans
  Graphs = 3
  ThreadsOf = {0, 1, 2, 4}
  Reps = 2
  Launches = 2
SPECIFICATION Spec
INVARIANTS
  RunsAreComparable
  VerdictsAreTrue
PROPERTIES
  ExperimentsEnd
\* The programs end.
CHECK_DEADLOCK FALSE
