SPECIFICATION SandboxSpec
CONSTANTS
  specA = specA
  NoSpec = NoSpec
  Specs <- OneSpec
  MaxPods = 1
  MaxTasks = 1
  MaxEdits = 0
  MaxTime = 1
  StatusEdits = FALSE
  PodOutcomes <- FinalPodStates
  NodesMayBeLost = FALSE
  MaxFaults = 0
  FaultKinds <- NoFaults
  MaxSteps = 1
  MaxTools = 0
  Tokens <- OneToken
  MaxEmitFaults = 0
INVARIANTS
  StatusMatchesProcess
PROPERTIES
  SubmittedTaskEnds
CHECK_DEADLOCK FALSE
