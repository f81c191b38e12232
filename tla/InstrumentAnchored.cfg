\* One case through review and issue, with one document.
CONSTANTS
  CaseIds = {c1}
  DocumentIds = {d1}
  NoCase = NoCase
  NoDocument = NoDocument
  Actors <- MCActors
  DocumentTypeClaims <- MCDocumentTypeClaims
  AnchoredTypes <- MCAnchoredTypes
  Hashes = {h1}
  MaxVersion = 3
  MaxAuditSequence = 8
SPECIFICATION ChaincodeSpec
INVARIANT IssuedInstrumentAnchored
CHECK_DEADLOCK FALSE
