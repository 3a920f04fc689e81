SPECIFICATION FairSpec
CONSTANTS
  specA = specA
  specB = specB
  NoSpec = NoSpec
  Specs <- OneSpec
  MaxPods = 2
  MaxTasks = 2
  MaxEdits = 1
  MaxTime = 1
  StatusEdits = TRUE
  PodOutcomes <- NoOutcome
  NodesMayBeLost = TRUE
  MaxFaults = 0
  FaultKinds <- NoFaults
INVARIANTS
  StatusTruthful
PROPERTIES
  ImplementsLifecycle
  SubmittedTaskGetsPod
  DependentsCollected
  BoundOnce
  InvalidTaskFails
CHECK_DEADLOCK FALSE
