SPECIFICATION Spec
CONSTANTS
  Lines <- AllLines
  Contents <- NewTexts
  InitialFiles <- SmallFiles
  ForeignFiles <- Foreign
  MAX_FILE_BYTES = 4
  MaxLine = 4
  MaxCalls = 1
INVARIANT
  EditsOnlyRange
CHECK_DEADLOCK FALSE
