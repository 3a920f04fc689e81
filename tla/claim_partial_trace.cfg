SPECIFICATION Spec
CONSTANTS
  MaxEvents = 2
  MaxRaises = 0
  Recorded = 2
INVARIANT
  PartialTraceReadable
CHECK_DEADLOCK FALSE
