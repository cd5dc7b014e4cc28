CONSTANTS
  NULL = NULL
  Garbage = Garbage
  Objs = {o1, o2}
  Inputs <- PlainInputs
SPECIFICATION Spec
INVARIANT AryRepresentsSx
CHECK_DEADLOCK FALSE
