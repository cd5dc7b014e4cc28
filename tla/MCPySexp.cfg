CONSTANTS
  NULL = NULL
  Garbage = Garbage
  Inputs <- Exprs
SPECIFICATION Spec
INVARIANT FollowsConventions
CHECK_DEADLOCK FALSE
