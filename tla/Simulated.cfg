\* Two uploads overlap with the transitions of their case, up to an
\* issue.
CONSTANTS
  CaseIds = {c1}
  DocumentIds = {d1, d2}
  Uploads = {u1, u2}
  NoCase = NoCase
  NoDocument = NoDocument
  Actors <- MCActors
  DocumentTypeClaims <- MCDocumentTypeClaims
  AnchoredTypes <- MCAnchoredTypes
  Hashes = {h1}
  MaxAuditSequence = 8
SPECIFICATION SimulatedSpec
INVARIANTS
  StoredRecordsLegal
  TrailIsTree
PROPERTIES
  OnlyLateUploadsUndo
CHECK_DEADLOCK FALSE
SYMMETRY UploadSymmetry
