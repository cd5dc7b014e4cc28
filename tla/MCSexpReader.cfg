CONSTANTS
  NULL = NULL
  Garbage = Garbage
  MaxAtom = 5
  MaxDocLen = 10
  QuotedAtomSubtype = "BASIC"
  SafeSplitsOnly = TRUE
  ExtractOnlyAtDepth0 = TRUE
  Docs <- GeneratedDocs
SPECIFICATION Spec
INVARIANTS
  TypeOK
  ExtractedInOrder
  StackHeightMatchesDepth
  QDepthMatchesCapture
  NoSpin
  AtomWithinBuffer
