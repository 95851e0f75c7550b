SPECIFICATION Spec
CONSTANTS
  MaxResponse = 3
  MaxLog = 10
INVARIANTS
  PlainGetIsOk
