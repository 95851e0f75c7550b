SPECIFICATION Safety
CONSTANTS
  Ids = {a, b}
  MaxCreates = 2
  PromptChild = TRUE
INVARIANTS
  StoppedCarriesExitCode
CHECK_DEADLOCK FALSE
