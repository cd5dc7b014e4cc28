CONSTANTS
  NULL = NULL
  Garbage = Garbage
  MaxDocLen = 10
  SafeSplitsOnly = TRUE
  ExtractOnlyAtDepth0 = FALSE
  ContPerExpr = TRUE
  Docs <- GeneratedDocs
SPECIFICATION Spec
INVARIANTS
  TypeOK
  ExtractedInOrder
  NoCrash
  NoUseAfterFree
PROPERTIES
  StreamRefined
