---------------------------- MODULE MCSimulator -----------------------------
(* A small instance of Simulator for TLC. *)
EXTENDS Simulator, TLC

MCActors ==
  {OfficerOf(r) : r \in UserRoles \ {"admin", "auditor"}}

\* The way to the foreign regulator and back to it after a request, and
\* the refusals of the other authorities.
MCOfficerActions ==
  {"submit_case", "record_domestic_review", "forward_to_coordination",
   "forward_to_foreign_authority", "respond_to_information_request",
   "reject_case"}

MCAnchoredTypes ==
  REQUIRED_INTAKE_DOCUMENTS
    \cup {"foreign_regulator_response", "request_for_information_notice"}

\* One document of each intake type, two answers, two requests.
MCDocumentPool ==
  [assurance_application_form     |-> {"form"},
   item_technical_specification   |-> {"specification"},
   end_use_declaration            |-> {"declaration"},
   foreign_regulator_response     |-> {"response1", "response2"},
   request_for_information_notice |-> {"notice1", "notice2"}]

MCDocumentIds == UNION {MCDocumentPool[t] : t \in MCAnchoredTypes}

Entry(type, inline) == [documentType |-> type, inline |-> inline]

\* A complete manifest, one whose declaration has no content.
MCManifests ==
  {<<Entry("assurance_application_form", TRUE),
     Entry("item_technical_specification", TRUE),
     Entry("end_use_declaration", inline)>> : inline \in BOOLEAN}

MCDocumentTypeClaims == {DOCUMENT_TYPES}

ExchangeSymmetry == Permutations(Exchanges)
=============================================================================
