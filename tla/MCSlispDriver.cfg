CONSTANTS
  NULL = NULL
  Garbage = Garbage
  MaxNodes = 4
  ParseSexp <- MCParse
  Inputs <- SafeInputs
SPECIFICATION Spec
INVARIANTS
  ResultCorrect
  NoLeakReported
CHECK_DEADLOCK FALSE
