\* Two requests at a time; databases, connections and the process may fail.
CONSTANTS
  CaseIds = {c1}
  DocumentIds = {d1, d2}
  Requests = {r1, r2}
  MayFail = TRUE
  NoCase = NoCase
  NoDocument = NoDocument
  Actors <- MCActors
  DocumentTypeClaims <- MCDocumentTypeClaims
  AnchoredTypes <- MCAnchoredTypes
  Hashes = {h1}
  MaxVersion = 2
  MaxAuditSequence = 3
SPECIFICATION BackendSpec
INVARIANTS
  MirrorShowsPast
  MirrorDocumentsSound
CHECK_DEADLOCK FALSE
SYMMETRY MCSymmetry
