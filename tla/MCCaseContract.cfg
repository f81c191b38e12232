\* One case, long enough for an issue, a substantive amendment and a closure.
CONSTANTS
  CaseIds = {c1}
  DocumentIds = {}
  NoCase = NoCase
  Actors <- MCActors
  DocumentTypeClaims <- MCDocumentTypeClaims
  MaxAuditSequence = 18
SPECIFICATION Spec
INVARIANTS
  TypeOK
  StateIndexExact
  TrailGapFree
  TrailReplays
  InformationRequestResumable
  AmendmentKeepsBaseline
  IssuanceMatchesState
  ApprovalIsEndorsed
  ReviewPrecedesGrant
  VersionCountsInstruments
  EveryInstrumentReviewed
  NoCaseStuck
PROPERTIES
  TrailAppendOnly
  AmendmentRejectionRestores
  OutcomesAreFinal
  LifecycleSpec
CHECK_DEADLOCK FALSE
