SPECIFICATION FairSpec
CONSTANTS
  specA = specA
  specB = specB
  NoSpec = NoSpec
  Specs <- OneSpec
  MaxPods = 2
  MaxTasks = 1
  MaxEdits = 0
  MaxTime = 2
  StatusEdits = FALSE
  PodOutcomes <- SucceedOrEvicted
  NodesMayBeLost = FALSE
  MaxFaults = 1
  FaultKinds <- AllFaults
INVARIANTS
  StatusTruthful
PROPERTIES
  OutcomeIsFinal
  ImplementsLifecycle
  SubmittedTaskGetsPod
  OutcomeReported
CHECK_DEADLOCK FALSE
