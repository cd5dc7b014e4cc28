CONSTANTS
  NULL = NULL
  Garbage = Garbage
  MaxNodes = 4
  ParseSexp <- MCParse
  Inputs <- OldInputs
SPECIFICATION Spec
INVARIANT
  NoDoubleFree
CHECK_DEADLOCK FALSE
