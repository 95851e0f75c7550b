SPECIFICATION Spec
CONSTANTS
  Ids = {a, b}
  MaxCreates = 3
  PromptChild = TRUE
INVARIANTS
  TypeOK
  EventsMatchInstances
  NothingOutlivesItsRecord
  WatchedUntilReported
  LogFollowsInstance
PROPERTIES
  ImplementsInstanceLife
  DeadIsReported
  StopTerminates
  LauncherLeaves
\* The launcher stops when it is shut down or killed.
CHECK_DEADLOCK FALSE
