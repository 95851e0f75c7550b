SPECIFICATION Spec
CONSTANTS
  Caps = {4}
  MaxAttempts = 2
PROPERTIES
  ForkedWriteEnds
CHECK_DEADLOCK FALSE
