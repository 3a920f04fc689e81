SPECIFICATION Spec
CONSTANTS
  Lines <- AllLines
  Contents <- NewTexts
  InitialFiles <- SmallFiles
  ForeignFiles <- Foreign
  MAX_FILE_BYTES = 4
  MaxLine = 4
  MaxCalls = 2
INVARIANTS
  TypeOK
  MutationsAccount
  MutationHonest
  EditExact
  NumbersAgree
PROPERTIES
  ToolReturns
CHECK_DEADLOCK FALSE
