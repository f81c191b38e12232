------------------------------ MODULE Workflow ------------------------------
(***************************************************************************)
(* The workflow rules shared by the chaincode, the backend and the         *)
(* frontend: packages/shared/src/workflow.ts with the vocabulary of        *)
(* domain.ts and the role matrix of permissions.ts.  A module of pure      *)
(* operators: a transition either is refused or maps a case record to its  *)
(* successor.                                                              *)
(*                                                                         *)
(* A case record keeps the fields the rules read or write.  Descriptive    *)
(* fields (applicant, item, timestamps) are left out.  A justification is  *)
(* reduced to whether it is non-blank; a JavaScript undefined is the       *)
(* string Undefined.                                                       *)
(***************************************************************************)
EXTENDS Naturals

CONSTANT DocumentIds    \* identifiers of the documents a case may refer to

-----------------------------------------------------------------------------
(* Vocabulary. *)

Undefined == "undefined"

OrganizationTypes ==
  {"domestic_regulator", "coordinating_authority", "foreign_regulator",
   "applicant_organization", "auditor_body", "platform_admin"}

UserRoles ==
  {"domestic_regulator_officer", "coordination_officer",
   "foreign_regulator_officer", "applicant_case_manager", "auditor", "admin"}

WorkflowStates ==
  {"draft", "submitted", "under_domestic_review",
   "more_information_requested", "awaiting_coordination",
   "forwarded_to_foreign_authority", "under_foreign_review", "approved",
   "rejected", "issued", "amended", "revoked", "closed_archived"}

WorkflowActions ==
  {"create_case", "submit_case", "record_domestic_review",
   "request_more_information", "respond_to_information_request",
   "forward_to_coordination", "forward_to_foreign_authority",
   "record_foreign_review", "approve_case", "reject_case",
   "initiate_non_substantive_amendment", "initiate_substantive_amendment",
   "issue_assurance", "amend_assurance", "reject_amendment",
   "revoke_assurance", "close_case"}

DOCUMENT_TYPES ==
  {"assurance_application_form", "item_technical_specification",
   "end_use_declaration", "transport_authorization",
   "package_design_certificate", "safety_analysis_attachment",
   "supporting_correspondence", "request_for_information_notice",
   "response_to_information_package", "coordination_forwarding_package",
   "foreign_regulator_response", "assurance_instrument",
   "amendment_request_package", "revocation_notice",
   "inspection_or_audit_evidence"}

UserClaims ==
  [role : UserRoles, organizationType : OrganizationTypes,
   activeFlag : BOOLEAN]

AssuranceCase ==
  [currentState : WorkflowStates,
   currentSubstate : WorkflowStates \cup {Undefined},
   domesticRegulatorStatus : {"not_started", "in_review", "endorsed", "rejected"},
   coordinationStatus : {"not_started", "queued", "forwarded", "completed"},
   foreignRegulatorStatus : {"not_started", "in_review", "approved", "rejected"},
   issuanceStatus : {"not_issued", "issued", "superseded", "revoked"},
   currentAssuranceVersion : Nat,
   pendingAmendmentReviewMode : {"none", "non_substantive", "substantive"},
   amendmentBaseState : {"issued", "amended", Undefined},
   amendmentFlag : BOOLEAN,
   revocationFlag : BOOLEAN,
   activeDocumentIds : SUBSET DocumentIds,
   auditSequenceNumber : Nat]

-----------------------------------------------------------------------------
(* ROLE_PERMISSION_MATRIX: the organisation each role belongs to and the   *)
(* actions it may perform.                                                 *)

OrganizationOf ==
  [domestic_regulator_officer |-> "domestic_regulator",
   coordination_officer       |-> "coordinating_authority",
   foreign_regulator_officer  |-> "foreign_regulator",
   applicant_case_manager     |-> "applicant_organization",
   auditor                    |-> "auditor_body",
   admin                      |-> "platform_admin"]

AllowedActions ==
  [domestic_regulator_officer |->
     {"record_domestic_review", "request_more_information",
      "forward_to_coordination", "reject_case",
      "initiate_non_substantive_amendment", "initiate_substantive_amendment",
      "reject_amendment", "amend_assurance", "revoke_assurance",
      "close_case"},
   coordination_officer |->
     {"request_more_information", "forward_to_foreign_authority",
      "initiate_non_substantive_amendment", "initiate_substantive_amendment",
      "issue_assurance", "amend_assurance", "reject_amendment",
      "revoke_assurance", "close_case"},
   foreign_regulator_officer |->
     {"record_foreign_review", "request_more_information", "approve_case",
      "reject_case", "reject_amendment"},
   applicant_case_manager |->
     {"create_case", "submit_case", "respond_to_information_request"},
   auditor |-> {},
   admin   |-> {"create_case", "submit_case", "close_case"}]

-----------------------------------------------------------------------------
(* TRANSITIONS: one rule per entry of the table.                           *)

ApplicantRoles == {"applicant_case_manager", "admin"}
ApplicantOrgs  == {"applicant_organization", "platform_admin"}

\* The three lanes in which an authority is reviewing a case.
ReviewLanes ==
  {"under_domestic_review", "awaiting_coordination", "under_foreign_review"}

ReviewerRoles ==
  {"domestic_regulator_officer", "coordination_officer",
   "foreign_regulator_officer"}

ReviewerOrgs ==
  {"domestic_regulator", "coordinating_authority", "foreign_regulator"}

NationalRoles == {"domestic_regulator_officer", "coordination_officer"}
NationalOrgs  == {"domestic_regulator", "coordinating_authority"}

InForceStates == {"issued", "amended"}

Rule(action, from, to, roles, orgs, documents) ==
  [action |-> action, from |-> from, to |-> to, allowedRoles |-> roles,
   allowedOrganizationTypes |-> orgs, requiredDocumentTypes |-> documents]

SubmitCaseRule ==
  Rule("submit_case", {"draft"}, "submitted", ApplicantRoles, ApplicantOrgs,
       {"assurance_application_form", "item_technical_specification",
        "end_use_declaration"})

RecordDomesticReviewRule ==
  Rule("record_domestic_review", {"submitted"}, "under_domestic_review",
       {"domestic_regulator_officer"}, {"domestic_regulator"}, {})

RequestMoreInformationRule ==
  Rule("request_more_information", ReviewLanes, "more_information_requested",
       ReviewerRoles, ReviewerOrgs, {"request_for_information_notice"})

RespondToInformationRequestRule ==
  Rule("respond_to_information_request", {"more_information_requested"},
       "resume_from_substate", ApplicantRoles, ApplicantOrgs,
       {"response_to_information_package"})

ForwardToCoordinationRule ==
  Rule("forward_to_coordination", {"under_domestic_review"},
       "awaiting_coordination",
       {"domestic_regulator_officer"}, {"domestic_regulator"}, {})

ForwardToForeignAuthorityRule ==
  Rule("forward_to_foreign_authority", {"awaiting_coordination"},
       "forwarded_to_foreign_authority",
       {"coordination_officer"}, {"coordinating_authority"},
       {"coordination_forwarding_package"})

\* Mutant: the start of a foreign review can be recorded again.
RecordForeignReviewRule_Again ==
  Rule("record_foreign_review",
       {"forwarded_to_foreign_authority", "under_foreign_review"},
       "under_foreign_review",
       {"foreign_regulator_officer"}, {"foreign_regulator"}, {})

RecordForeignReviewRule ==
  Rule("record_foreign_review", {"forwarded_to_foreign_authority"},
       "under_foreign_review",
       {"foreign_regulator_officer"}, {"foreign_regulator"}, {})

\* Mutant: approval before the foreign review was recorded.
ApproveCaseRule_Unrecorded ==
  Rule("approve_case", {"forwarded_to_foreign_authority", "under_foreign_review"},
       "approved", {"foreign_regulator_officer"}, {"foreign_regulator"},
       {"foreign_regulator_response"})

ApproveCaseRule ==
  Rule("approve_case", {"under_foreign_review"}, "approved",
       {"foreign_regulator_officer"}, {"foreign_regulator"},
       {"foreign_regulator_response"})

RejectCaseRule ==
  Rule("reject_case", ReviewLanes, "rejected", ReviewerRoles, ReviewerOrgs, {})

InitiateNonSubstantiveAmendmentRule ==
  Rule("initiate_non_substantive_amendment", InForceStates,
       "awaiting_coordination", NationalRoles, NationalOrgs,
       {"amendment_request_package"})

InitiateSubstantiveAmendmentRule ==
  Rule("initiate_substantive_amendment", InForceStates,
       "under_domestic_review", NationalRoles, NationalOrgs,
       {"amendment_request_package"})

IssueAssuranceRule ==
  Rule("issue_assurance", {"approved"}, "issued",
       {"coordination_officer"}, {"coordinating_authority"},
       {"assurance_instrument"})

\* Mutant: only the non-substantive path can be concluded.
AmendAssuranceRule_CoordinationOnly ==
  Rule("amend_assurance", {"awaiting_coordination"}, "amended",
       {"coordination_officer"}, {"coordinating_authority"},
       {"amendment_request_package", "assurance_instrument"})

AmendAssuranceRule ==
  Rule("amend_assurance", {"awaiting_coordination", "approved"}, "amended",
       {"coordination_officer"}, {"coordinating_authority"},
       {"amendment_request_package", "assurance_instrument"})

\* Mutant: a rejected amendment always falls back to the first issue.
RejectAmendmentRule_ToIssued ==
  Rule("reject_amendment", ReviewLanes, "issued",
       ReviewerRoles, ReviewerOrgs, {})

RejectAmendmentRule ==
  Rule("reject_amendment", ReviewLanes, "resume_from_amendment_base",
       ReviewerRoles, ReviewerOrgs, {})

\* Mutant: an archived assurance can be revoked.
RevokeAssuranceRule_Archived ==
  Rule("revoke_assurance", InForceStates \cup {"closed_archived"}, "revoked",
       NationalRoles, NationalOrgs, {"revocation_notice"})

RevokeAssuranceRule ==
  Rule("revoke_assurance", InForceStates, "revoked",
       NationalRoles, NationalOrgs, {"revocation_notice"})

\* Mutant: an approved case can be closed before its assurance is issued.
CloseCaseRule_Approved ==
  Rule("close_case", InForceStates \cup {"approved", "rejected", "revoked"},
       "closed_archived", NationalRoles \cup {"admin"},
       NationalOrgs \cup {"platform_admin"}, {})

CloseCaseRule ==
  Rule("close_case", InForceStates \cup {"rejected", "revoked"},
       "closed_archived", NationalRoles \cup {"admin"},
       NationalOrgs \cup {"platform_admin"}, {})

TRANSITIONS ==
  {SubmitCaseRule, RecordDomesticReviewRule, RequestMoreInformationRule,
   RespondToInformationRequestRule, ForwardToCoordinationRule,
   ForwardToForeignAuthorityRule, RecordForeignReviewRule, ApproveCaseRule,
   RejectCaseRule, InitiateNonSubstantiveAmendmentRule,
   InitiateSubstantiveAmendmentRule, IssueAssuranceRule, AmendAssuranceRule,
   RejectAmendmentRule, RevokeAssuranceRule, CloseCaseRule}

-----------------------------------------------------------------------------
(* evaluateTransition: every reason for a refusal is a conjunct.           *)

\* An actor whose role belongs to the organisation it claims, and is active.
ActorInGoodStanding(actor) ==
  /\ actor.activeFlag
  /\ OrganizationOf[actor.role] = actor.organizationType

ActorAllowed(rule, actor) ==
  /\ ActorInGoodStanding(actor)
  /\ rule.action \in AllowedActions[actor.role]
  /\ actor.role \in rule.allowedRoles
  /\ actor.organizationType \in rule.allowedOrganizationTypes

AmendmentInitiations ==
  {"initiate_non_substantive_amendment", "initiate_substantive_amendment"}

\* The conditions on the record that depend on the action.
RecordAllows(caseRecord, action) ==
  /\ action = "respond_to_information_request" =>
       caseRecord.currentSubstate # Undefined
  /\ action = "approve_case" =>
       caseRecord.domesticRegulatorStatus = "endorsed"
  /\ action \in AmendmentInitiations =>
       /\ caseRecord.currentAssuranceVersion >= 1
       /\ caseRecord.issuanceStatus = "issued"
       /\ caseRecord.pendingAmendmentReviewMode = "none"
  /\ action = "forward_to_foreign_authority" =>
       caseRecord.pendingAmendmentReviewMode # "non_substantive"
  /\ action \in {"issue_assurance", "reject_case"} =>
       caseRecord.pendingAmendmentReviewMode = "none"
  /\ action = "reject_amendment" =>
       /\ caseRecord.pendingAmendmentReviewMode # "none"
       /\ caseRecord.amendmentBaseState # Undefined
  /\ action = "amend_assurance" =>
       /\ caseRecord.pendingAmendmentReviewMode # "none"
       /\ caseRecord.currentState = "awaiting_coordination" =>
            caseRecord.pendingAmendmentReviewMode = "non_substantive"
       /\ caseRecord.currentState = "approved" =>
            caseRecord.pendingAmendmentReviewMode = "substantive"

JustifiedActions ==
  {"request_more_information", "reject_case", "reject_amendment",
   "revoke_assurance"}

evaluateTransition(caseRecord, rule, actor, documentTypes, justified) ==
  /\ caseRecord.currentState \in rule.from
  /\ ActorAllowed(rule, actor)
  /\ rule.requiredDocumentTypes \subseteq documentTypes
  /\ RecordAllows(caseRecord, rule.action)
  /\ rule.action \in JustifiedActions => justified

\* Mutant: the resume targets are stored as they stand.
nextState_Unresolved(caseRecord, rule) == rule.to

nextState(caseRecord, rule) ==
  IF rule.to = "resume_from_substate" THEN caseRecord.currentSubstate
  ELSE IF rule.to = "resume_from_amendment_base"
       THEN caseRecord.amendmentBaseState
       ELSE rule.to

-----------------------------------------------------------------------------
(* applyTransition: one operator per field the transition may assign, then *)
(* the record they make.                                                   *)

\* Mutant: a response leaves the remembered lane behind.
nextSubstate_KeepsLane(caseRecord, action) ==
  IF action = "request_more_information" THEN caseRecord.currentState
  ELSE IF action = "reject_amendment" THEN Undefined
  ELSE caseRecord.currentSubstate

\* currentSubstate remembers the lane that asked for information.
nextSubstate(caseRecord, action) ==
  IF action = "request_more_information" THEN caseRecord.currentState
  ELSE IF action \in {"respond_to_information_request", "reject_amendment"}
       THEN Undefined
  ELSE caseRecord.currentSubstate

nextDomesticStatus(caseRecord, action, organizationType) ==
  IF action \in {"record_domestic_review", "initiate_substantive_amendment"}
  THEN "in_review"
  ELSE IF action \in {"forward_to_coordination", "amend_assurance",
                      "initiate_non_substantive_amendment", "reject_amendment"}
       THEN "endorsed"
  ELSE IF action = "reject_case" /\ organizationType = "domestic_regulator"
       THEN "rejected"
  ELSE caseRecord.domesticRegulatorStatus

nextCoordinationStatus(caseRecord, action, organizationType) ==
  IF action \in {"forward_to_coordination", "initiate_non_substantive_amendment"}
  THEN "queued"
  ELSE IF action = "forward_to_foreign_authority" THEN "forwarded"
  ELSE IF action = "initiate_substantive_amendment" THEN "not_started"
  ELSE IF \/ action \in {"approve_case", "issue_assurance", "amend_assurance",
                         "reject_amendment"}
          \/ /\ action = "reject_case"
             /\ organizationType = "coordinating_authority"
       THEN "completed"
  ELSE caseRecord.coordinationStatus

\* Mutant: a substantive amendment keeps the approval of the last review.
nextForeignStatus_KeepsApproval(caseRecord, action, organizationType) ==
  IF action = "record_foreign_review" THEN "in_review"
  ELSE IF action \in {"approve_case", "initiate_non_substantive_amendment",
                      "amend_assurance", "reject_amendment"}
       THEN "approved"
  ELSE IF action = "reject_case" /\ organizationType = "foreign_regulator"
       THEN "rejected"
  ELSE caseRecord.foreignRegulatorStatus

nextForeignStatus(caseRecord, action, organizationType) ==
  IF action = "record_foreign_review" THEN "in_review"
  ELSE IF action = "initiate_substantive_amendment" THEN "not_started"
  ELSE IF action \in {"approve_case", "initiate_non_substantive_amendment",
                      "amend_assurance", "reject_amendment"}
       THEN "approved"
  ELSE IF action = "reject_case" /\ organizationType = "foreign_regulator"
       THEN "rejected"
  ELSE caseRecord.foreignRegulatorStatus

\* Mutant: revocation leaves the issuance status alone.
nextIssuanceStatus_IgnoresRevocation(caseRecord, action) ==
  IF action \in {"issue_assurance", "amend_assurance", "reject_amendment"}
  THEN "issued"
  ELSE caseRecord.issuanceStatus

nextIssuanceStatus(caseRecord, action) ==
  IF action \in {"issue_assurance", "amend_assurance", "reject_amendment"}
  THEN "issued"
  ELSE IF action = "revoke_assurance" THEN "revoked"
  ELSE caseRecord.issuanceStatus

\* Mutant: an amendment keeps the version.
nextVersion_IgnoresAmendment(caseRecord, action) ==
  IF action = "issue_assurance" /\ caseRecord.currentAssuranceVersion = 0
  THEN 1 ELSE caseRecord.currentAssuranceVersion

nextVersion(caseRecord, action) ==
  LET version == caseRecord.currentAssuranceVersion
  IN IF action = "issue_assurance" /\ version = 0 THEN 1
     ELSE IF action = "amend_assurance" THEN version + 1
     ELSE version

ClosesAmendment(action) ==
  action \in {"amend_assurance", "reject_amendment", "revoke_assurance"}

\* Mutant: a substantive amendment is not marked as pending.
nextReviewMode_IgnoresSubstantive(caseRecord, action) ==
  IF action = "initiate_non_substantive_amendment" THEN "non_substantive"
  ELSE IF ClosesAmendment(action) THEN "none"
  ELSE caseRecord.pendingAmendmentReviewMode

nextReviewMode(caseRecord, action) ==
  IF action = "initiate_non_substantive_amendment" THEN "non_substantive"
  ELSE IF action = "initiate_substantive_amendment" THEN "substantive"
  ELSE IF ClosesAmendment(action) THEN "none"
  ELSE caseRecord.pendingAmendmentReviewMode

\* Mutant: only a non-substantive amendment records its base state.
nextBaseState_NonSubstantiveOnly(caseRecord, action) ==
  IF action = "initiate_non_substantive_amendment"
  THEN caseRecord.currentState
  ELSE IF ClosesAmendment(action) THEN Undefined
  ELSE caseRecord.amendmentBaseState

nextBaseState(caseRecord, action) ==
  IF action \in AmendmentInitiations THEN caseRecord.currentState
  ELSE IF ClosesAmendment(action) THEN Undefined
  ELSE caseRecord.amendmentBaseState

\* Mutant: the documents of the transition replace the active ones.
nextActiveDocuments_Replaces(caseRecord, relatedDocumentIds) ==
  relatedDocumentIds

nextActiveDocuments(caseRecord, relatedDocumentIds) ==
  caseRecord.activeDocumentIds \cup relatedDocumentIds

\* updatedCase, for a transition that evaluateTransition allows.
applyTransition(caseRecord, rule, actor, relatedDocumentIds) ==
  LET action == rule.action
      org == actor.organizationType
  IN [currentState |-> nextState(caseRecord, rule),
      currentSubstate |-> nextSubstate(caseRecord, action),
      domesticRegulatorStatus |-> nextDomesticStatus(caseRecord, action, org),
      coordinationStatus |-> nextCoordinationStatus(caseRecord, action, org),
      foreignRegulatorStatus |-> nextForeignStatus(caseRecord, action, org),
      issuanceStatus |-> nextIssuanceStatus(caseRecord, action),
      currentAssuranceVersion |-> nextVersion(caseRecord, action),
      pendingAmendmentReviewMode |-> nextReviewMode(caseRecord, action),
      amendmentBaseState |-> nextBaseState(caseRecord, action),
      amendmentFlag |->
        \/ caseRecord.amendmentFlag
        \/ action \in AmendmentInitiations \cup {"amend_assurance"},
      revocationFlag |->
        caseRecord.revocationFlag \/ action = "revoke_assurance",
      activeDocumentIds |->
        nextActiveDocuments(caseRecord, relatedDocumentIds),
      auditSequenceNumber |-> caseRecord.auditSequenceNumber + 1]

\* buildDraftCase, with the sequence number createDraftTransition then sets.
DraftCase ==
  [currentState |-> "draft",
   currentSubstate |-> Undefined,
   domesticRegulatorStatus |-> "not_started",
   coordinationStatus |-> "not_started",
   foreignRegulatorStatus |-> "not_started",
   issuanceStatus |-> "not_issued",
   currentAssuranceVersion |-> 0,
   pendingAmendmentReviewMode |-> "none",
   amendmentBaseState |-> Undefined,
   amendmentFlag |-> FALSE,
   revocationFlag |-> FALSE,
   activeDocumentIds |-> {},
   auditSequenceNumber |-> 1]

=============================================================================
