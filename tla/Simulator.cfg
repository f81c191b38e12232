\* Two messages at a time, repeated at will, on one case under review.
CONSTANTS
  CaseIds = {c1}
  NoCase = NoCase
  NoDocument = NoDocument
  DocumentIds <- MCDocumentIds
  Actors <- MCActors
  DocumentTypeClaims <- MCDocumentTypeClaims
  AnchoredTypes <- MCAnchoredTypes
  Hashes = {h1}
  MaxVersion = 1
  MaxAuditSequence = 9
  Exchanges = {x1, x2}
  OfficerActions <- MCOfficerActions
  DocumentPool <- MCDocumentPool
  Manifests <- MCManifests
  MaxRecords = 2
  MayFail = TRUE
SPECIFICATION SimulatorSpec
INVARIANTS
  ExchangeLogTrue
  RepeatsRefused
  IntakeSubmittable
CHECK_DEADLOCK FALSE
SYMMETRY ExchangeSymmetry
