\* One case through its first review, three submissions in flight.
CONSTANTS
  CaseIds = {c1}
  DocumentIds = {}
  NoCase = NoCase
  Actors <- MCActors
  DocumentTypeClaims <- MCDocumentTypeClaims
  MaxAuditSequence = 5
  Submissions = {s1, s2, s3}
SPECIFICATION FabricSpec
INVARIANTS
  AnswersTrue
PROPERTIES
  Serializable
CHECK_DEADLOCK FALSE
SYMMETRY SubmissionSymmetry
