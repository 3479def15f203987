CONSTANTS
  MaxNodes = 3
  Blueprints <- MCBlueprints
  MaxSteps = 6
  MaxSignals = 3
  GxMaxFaults = 1
  NoSignal = NoSignal
  SvMaxSteps <- MCSteps
  SvMaxSignals = 3
SPECIFICATION MCSpec
INVARIANTS ShownCodeOnly WalkFitsBlueprint GatedAndSaved
PROPERTIES WorkflowsEnd
CHECK_DEADLOCK FALSE
