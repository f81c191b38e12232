\* Every tool, three cases per series, two workers, one failed call.
CONSTANTS
  CaseIds <- MCCaseIds
  DocumentIds <- MCDocumentIds
  DocumentIdOf <- MCDocumentIdOf
  NoCase = NoCase
  NoDocument = NoDocument
  Actors <- MCActors
  DocumentTypeClaims <- MCDocumentTypeClaims
  AnchoredTypes = {}
  Hashes = {h1}
  MaxVersion = 2
  MaxAuditSequence = 20
  SeedCount = 3
  Workers = 2
  MaxFailures = 1
SPECIFICATION EvaluationSpec
INVARIANTS
  ReportsTruthful
PROPERTIES
  EvaluationConcludes
CHECK_DEADLOCK FALSE
