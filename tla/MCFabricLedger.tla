--------------------------- MODULE MCFabricLedger ---------------------------
(* Small instances of FabricLedger for TLC. *)
EXTENDS FabricLedger, TLC

Officer(r) ==
  [role |-> r, organizationType |-> OrganizationOf[r], activeFlag |-> TRUE]

MCActors == {Officer(r) : r \in UserRoles \ {"auditor"}}

MCDocumentTypeClaims == {DOCUMENT_TYPES}

SubmissionSymmetry == Permutations(Submissions)
=============================================================================
