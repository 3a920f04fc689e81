SPECIFICATION FairSpec
CONSTANTS
  MaxSteps = 2
  MaxTools = 2
  Tokens <- OneOrTwo
  MaxEmitFaults = 2
INVARIANTS
  TypeOK
  LogWellFormed
  ConversationWellFormed
  RecordedOrReported
  DoneAccounts
  CleanTermination
PROPERTIES
  Terminates
CHECK_DEADLOCK FALSE
