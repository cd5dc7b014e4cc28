CONSTANTS
  NULL = NULL
  Garbage = Garbage
  MaxAtom = 8
  MaxDocLen = 8
  QuotedAtomSubtype = "BASIC"
  SafeSplitsOnly = TRUE
  ExtractOnlyAtDepth0 = TRUE
  Docs <- GeneratedDocs
SPECIFICATION Spec
PROPERTIES
  StreamRefined
