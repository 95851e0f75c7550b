SPECIFICATION Spec
CONSTANTS
  Caps = {1, 4}
  MaxAttempts = 2
INVARIANTS
  OwnFileOnly
  EveryLineAccounted
  CapOvershootBounded
  SummaryAtMostOnce
PROPERTIES
  WriteEnds
\* The processes end.
CHECK_DEADLOCK FALSE
