CONSTANTS
  NULL = NULL
  Garbage = Garbage
  MaxDocLen = 10
  SafeSplitsOnly = TRUE
  ExtractOnlyAtDepth0 = FALSE
  ContPerExpr = TRUE
  Docs <- AtomAfterCloseDocs
SPECIFICATION Spec
INVARIANT ExtractedInOrder
