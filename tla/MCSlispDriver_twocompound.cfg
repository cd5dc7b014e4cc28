CONSTANTS
  NULL = NULL
  Garbage = Garbage
  MaxNodes = 4
  ParseSexp <- MCParse
  Inputs <- TwoCompoundInputs
SPECIFICATION Spec
INVARIANT NoUseAfterFree
CHECK_DEADLOCK FALSE
