\* One case through review and issue while three documents are anchored.
CONSTANTS
  CaseIds = {c1}
  DocumentIds = {d1, d2, d3}
  NoCase = NoCase
  NoDocument = NoDocument
  Actors <- MCActors
  DocumentTypeClaims <- MCDocumentTypeClaims
  AnchoredTypes <- MCAnchoredTypes
  Hashes = {h1}
  MaxVersion = 3
  MaxAuditSequence = 8
SPECIFICATION ChaincodeSpec
INVARIANTS
  CaseDocumentsExact
  ActiveDocumentsListed
  VersionChainSound
PROPERTIES
  ReferencesImmutable
  WorkflowUndisturbed
CHECK_DEADLOCK FALSE
SYMMETRY DocumentSymmetry
