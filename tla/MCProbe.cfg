CONSTANTS
  Task = {"main", "c1", "c2", "sampler"}
  Main = "main"
  Sampler = "sampler"
  AfterSampler = 1
  ThreadOf <- MCThreadOf
  Module = {"torch", "vllm", "plugin"}
  Target = {"optimize", "load_model"}
  ModuleOf <- MCModuleOf
  MinDur = 1
  MinImport = 1
  MaxClock = 2
  MaxSpans = 4
  MaxDescs = 3
  MaxPieces = 2
  Upstream = Upstream
  MaxProcs = 5
SPECIFICATION Spec
INVARIANTS
  SpansNest
  CoverageFromTrace
  ImportTimesAddUp
  CaptureLeavesTorch
  ForwardsAreLabelled
  NoNestedServer
\* All calls of the bounds are made, or the process has failed.
CHECK_DEADLOCK FALSE
