SPECIFICATION Spec
CONSTANTS
  MaxEvents = 5
  MaxRaises = 3
  Recorded = 3
INVARIANTS
  TypeOK
  EmittedIsDurable
  ReaderHonest
  OnlyLastLineTorn
  ReplayStamps
CHECK_DEADLOCK FALSE
