CONSTANTS
  NULL = NULL
  Names = {"x", "ab"}
  Vals = {v1, v2}
  MaxVars = 2
  MaxDepth = 2
SPECIFICATION Spec
INVARIANT BoundNameFound
CHECK_DEADLOCK FALSE
