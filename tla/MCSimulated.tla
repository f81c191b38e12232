---------------------------- MODULE MCSimulated -----------------------------
(* A small instance of Simulated for TLC. *)
EXTENDS Simulated, TLC

MCActors ==
  {[role |-> r, organizationType |-> OrganizationOf[r], activeFlag |-> TRUE] :
     r \in UserRoles \ {"admin", "auditor"}}

MCAnchoredTypes == {"item_technical_specification"}

MCDocumentTypeClaims == {DOCUMENT_TYPES}

UploadSymmetry == Permutations(DocumentIds) \cup Permutations(Uploads)
=============================================================================
