---------------------------- MODULE MCEvaluation ----------------------------
(* A small instance of Evaluation for TLC. *)
EXTENDS Evaluation

MCCaseIds == ScriptedCases
MCDocumentIdOf(case, key) == case \o "/" \o seedId(key.type, key.n)
MCDocumentIds ==
  {MCDocumentIdOf(case, key) : case \in ScriptedCases, key \in ScriptedKeys}
MCActors ==
  {OfficerOf(role) : role \in {Applicant, Domestic, Coordination, Foreign}}
MCDocumentTypeClaims == {DOCUMENT_TYPES}
=============================================================================
