\* One request, the mirror fails after the anchor: the file is deleted.
CONSTANTS
  CaseIds = {c1}
  DocumentIds = {d1, d2}
  Requests = {r1}
  MayFail = TRUE
  NoCase = NoCase
  NoDocument = NoDocument
  Actors <- MCActors
  DocumentTypeClaims <- MCDocumentTypeClaims
  AnchoredTypes <- MCAnchoredTypes
  Hashes = {h1}
  MaxVersion = 2
  MaxAuditSequence = 2
SPECIFICATION BackendSpec
INVARIANTS
  AnchoredFileKept
CHECK_DEADLOCK FALSE
SYMMETRY MCSymmetry
