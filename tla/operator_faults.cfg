SPECIFICATION Spec
CONSTANTS
  specA = specA
  specB = specB
  NoSpec = NoSpec
  Specs <- TwoSpecs
  MaxPods = 2
  MaxTasks = 1
  MaxEdits = 1
  MaxTime = 1
  StatusEdits = FALSE
  PodOutcomes <- OnlyFail
  NodesMayBeLost = TRUE
  MaxFaults = 1
  FaultKinds <- AllFaults
INVARIANTS
  TypeOK
  StatusTruthful
  DependenciesPresent
PROPERTIES
  BoundOnce
  OutcomeIsFinal
CHECK_DEADLOCK FALSE
