CONSTANTS
  NULL = NULL
  Garbage = Garbage
  MaxNodes = 4
  ParseSexp <- MCParse
  Inputs <- SafeInputs
SPECIFICATION Spec
INVARIANT
  NextInitialised
CHECK_DEADLOCK FALSE
