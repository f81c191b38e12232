--------------------------- MODULE MCCaseContract ---------------------------
(* Small instances of CaseContract for TLC. *)
EXTENDS CaseContract

\* One officer of each role in its own organisation, one inactive officer and
\* one whose role does not belong to the organisation it claims.
MCActors ==
  {[role |-> r, organizationType |-> OrganizationOf[r], activeFlag |-> TRUE] :
     r \in UserRoles}
  \cup
  {[role |-> "coordination_officer",
    organizationType |-> "coordinating_authority", activeFlag |-> FALSE],
   [role |-> "foreign_regulator_officer",
    organizationType |-> "domestic_regulator", activeFlag |-> TRUE]}

\* Every type, none, and all but the assurance instrument.
MCDocumentTypeClaims ==
  {DOCUMENT_TYPES, {}, DOCUMENT_TYPES \ {"assurance_instrument"}}
=============================================================================
