SPECIFICATION Spec
CONSTANTS
  specA = specA
  specB = specB
  NoSpec = NoSpec
  Specs <- OneSpec
  MaxPods = 2
  MaxTasks = 1
  MaxEdits = 0
  MaxTime = 1
  StatusEdits = FALSE
  PodOutcomes <- Succeed
  NodesMayBeLost = FALSE
  MaxFaults = 1
  FaultKinds <- StaleReads
INVARIANTS
  AtMostOnePod
CHECK_DEADLOCK FALSE
