SPECIFICATION Spec
CONSTANTS
  specA = specA
  specB = specB
  NoSpec = NoSpec
  Specs <- OneSpec
  MaxPods = 2
  MaxTasks = 2
  MaxEdits = 1
  MaxTime = 1
  StatusEdits = FALSE
  PodOutcomes <- Succeed
  NodesMayBeLost = FALSE
  MaxFaults = 0
  FaultKinds <- NoFaults
INVARIANTS
  DependenciesPresent
CHECK_DEADLOCK FALSE
