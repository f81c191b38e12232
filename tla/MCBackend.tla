----------------------------- MODULE MCBackend ------------------------------
(* Small instances of Backend for TLC. *)
EXTENDS Backend, TLC

Officer(r) ==
  [role |-> r, organizationType |-> OrganizationOf[r], activeFlag |-> TRUE]

MCActors == {Officer(r) : r \in UserRoles \ {"admin", "auditor"}}

MCAnchoredTypes == {"item_technical_specification"}

MCDocumentTypeClaims == {DOCUMENT_TYPES}

MCSymmetry ==
  Permutations(CaseIds) \cup Permutations(DocumentIds) \cup Permutations(Requests)
=============================================================================
