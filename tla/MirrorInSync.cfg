\* Two requests at a time, nothing fails: the mirror loses an answer.
CONSTANTS
  CaseIds = {c1}
  DocumentIds = {d1, d2}
  Requests = {r1, r2}
  MayFail = FALSE
  NoCase = NoCase
  NoDocument = NoDocument
  Actors <- MCActors
  DocumentTypeClaims <- MCDocumentTypeClaims
  AnchoredTypes <- MCAnchoredTypes
  Hashes = {h1}
  MaxVersion = 2
  MaxAuditSequence = 2
SPECIFICATION BackendSpec
INVARIANTS
  MirrorInSync
CHECK_DEADLOCK FALSE
SYMMETRY MCSymmetry
