CONSTANTS
  Target = {registry, loader}
  RegistryTarget = registry
  Traces <- MCTraces
SPECIFICATION Spec
INVARIANTS PhasesReconcile OwnerIsJustified CoverageIsTrue MeasuresAreTrue DarkSpansAreDark
