SPECIFICATION Spec
CONSTANTS
  MaxSteps = 1
  MaxTools = 1
  Tokens <- OneToken
  MaxEmitFaults = 0
INVARIANT
  EventsAsDocumented
CHECK_DEADLOCK FALSE
