---------------------------- MODULE MCChaincode -----------------------------
(* Small instances of Chaincode for TLC. *)
EXTENDS Chaincode, TLC

Officer(r) ==
  [role |-> r, organizationType |-> OrganizationOf[r], activeFlag |-> TRUE]

\* The officers a first review needs: an instrument is anchored by the
\* coordinating authority only, a specification by anyone but an auditor.
MCActors ==
  {Officer(r) : r \in UserRoles \ {"admin"}}

MCAnchoredTypes == {"item_technical_specification", "assurance_instrument"}

MCDocumentTypeClaims == {DOCUMENT_TYPES}

DocumentSymmetry == Permutations(DocumentIds)
=============================================================================
