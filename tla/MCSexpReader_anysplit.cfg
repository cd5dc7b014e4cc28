CONSTANTS
  NULL = NULL
  Garbage = Garbage
  MaxAtom = 8
  MaxDocLen = 6
  QuotedAtomSubtype = "BASIC"
  SafeSplitsOnly = FALSE
  ExtractOnlyAtDepth0 = TRUE
  Docs <- GeneratedDocs
SPECIFICATION Spec
INVARIANT
  ExtractedInOrder
