\* Two cases and crossing loads, overlapping requests with a document, or all
\* roles: one of these at a time.
CONSTANTS
  CaseIds = {c1, c2}
  DocumentIds = {d1}
  NoCase = NoCase
  NoDocument = NoDocument
  Actors <- MCUserActors
  DocumentTypeClaims <- MCDocumentTypeClaims
  AnchoredTypes <- MCAnchoredTypes
  Hashes = {h1}
  MaxVersion = 1
  MaxAuditSequence = 4
  Requests = {r1, r2}
  MayFail = TRUE
  Loads = {l1, l2}
  WorkspaceRoles <- MCUserRoles
SPECIFICATION WorkspaceSpec
CONSTRAINT SessionsExplored
INVARIANTS
  SelectionShown
  SubmissionsAuthorised
PROPERTIES
  SuccessShown
SYMMETRY WorkspaceSymmetry
