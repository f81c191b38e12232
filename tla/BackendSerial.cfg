\* One request at a time and no failures, up to issuance and its amendment.
CONSTANTS
  CaseIds = {c1}
  DocumentIds = {d1, d2}
  Requests = {r1}
  MayFail = FALSE
  NoCase = NoCase
  NoDocument = NoDocument
  Actors <- MCActors
  DocumentTypeClaims <- MCDocumentTypeClaims
  AnchoredTypes <- MCAnchoredTypes
  Hashes = {h1}
  MaxVersion = 2
  MaxAuditSequence = 12
SPECIFICATION BackendFairSpec
INVARIANTS
  MirrorInSync
  ForeignLaneEndorsed
  AnchoredFileKept
PROPERTIES
  MirrorCatchesUp
CHECK_DEADLOCK FALSE
