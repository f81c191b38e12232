------------------------------ MODULE Scripts -------------------------------
(***************************************************************************)
(* What the evaluation tools ask of the system, as data: the scenarios of  *)
(* the scenario runner (scenarios.ts), the samples of the screenshot pack  *)
(* (screenshot-pack.ts), the series of the benchmark seeding               *)
(* (benchmark-seed.service.ts) and the rounds of the Caliper benchmark     *)
(* (evaluation/caliper).  A script is the sequence of service calls made   *)
(* for one case; a document is named by its type and the number it has     *)
(* among the case's documents of that type.                                *)
(***************************************************************************)
EXTENDS Workflow, Sequences

Applicant    == "applicant_case_manager"
Domestic     == "domestic_regulator_officer"
Coordination == "coordination_officer"
Foreign      == "foreign_regulator_officer"

Key(type, n) == [type |-> type, n |-> n]

-----------------------------------------------------------------------------
(* The calls of a script. *)

CreateDraft == [call |-> "createDraft"]

UploadNth(role, type, n, supersedes) ==
  [call |-> "upload", role |-> role, key |-> Key(type, n),
   supersedes |-> supersedes]

Upload(role, type)    == UploadNth(role, type, 1, {})
Supersede(role, type) == UploadNth(role, type, 2, {Key(type, 1)})

Transition(role, rule, keys) ==
  [call |-> "transition", role |-> role, rule |-> rule, keys |-> keys]

\* A transition inside expectScenarioFailure, with the reason it looks for.
Attempt(role, rule, keys, reason) ==
  [call |-> "attempt", role |-> role, rule |-> rule, keys |-> keys,
   expected |-> reason]

-----------------------------------------------------------------------------
(* The way every script takes, up to where it leaves it. *)

MINIMAL_SUBMISSION_DOCUMENT_TYPES ==
  <<"assurance_application_form", "item_technical_specification",
    "end_use_declaration">>

FULL_SUBMISSION_DOCUMENT_TYPES ==
  MINIMAL_SUBMISSION_DOCUMENT_TYPES
    \o <<"supporting_correspondence", "transport_authorization",
         "package_design_certificate">>

KeysOf(types) == {Key(types[i], 1) : i \in DOMAIN types}

createDraftWithDocuments(types) ==
  <<CreateDraft>> \o [i \in DOMAIN types |-> Upload(Applicant, types[i])]

buildSubmittedBaseline(types) ==
  createDraftWithDocuments(types)
    \o <<Transition(Applicant, SubmitCaseRule, KeysOf(types))>>

buildUnderDomesticReviewBaseline(types) ==
  buildSubmittedBaseline(types)
    \o <<Transition(Domestic, RecordDomesticReviewRule, {})>>

\* Forwarding to the foreign regulator, with the n-th forwarding package.
Forwarding(n) ==
  <<Transition(Domestic, ForwardToCoordinationRule, {}),
    UploadNth(Coordination, "coordination_forwarding_package", n, {}),
    Transition(Coordination, ForwardToForeignAuthorityRule,
               {Key("coordination_forwarding_package", n)}),
    Transition(Foreign, RecordForeignReviewRule, {})>>

buildUnderForeignReviewBaseline(types) ==
  buildUnderDomesticReviewBaseline(types) \o Forwarding(1)

Approval ==
  <<Upload(Foreign, "foreign_regulator_response"),
    Transition(Foreign, ApproveCaseRule,
               {Key("foreign_regulator_response", 1)})>>

Issuance ==
  <<Upload(Coordination, "assurance_instrument"),
    Transition(Coordination, IssueAssuranceRule,
               {Key("assurance_instrument", 1)})>>

buildIssuedBaseline(types) ==
  buildUnderForeignReviewBaseline(types) \o Approval \o Issuance

RequestAmendment(rule) ==
  <<Upload(Domestic, "amendment_request_package"),
    Transition(Domestic, rule, {Key("amendment_request_package", 1)})>>

\* The renewed review of a substantive amendment, up to its new instrument.
RenewedReview ==
  RequestAmendment(InitiateSubstantiveAmendmentRule)
    \o Forwarding(2)
    \o <<Supersede(Foreign, "foreign_regulator_response"),
         Transition(Foreign, ApproveCaseRule,
                    {Key("foreign_regulator_response", 2)}),
         Supersede(Coordination, "assurance_instrument")>>

Amendment ==
  <<Transition(Coordination, AmendAssuranceRule,
               {Key("amendment_request_package", 1),
                Key("assurance_instrument", 2)})>>

Revocation ==
  <<Upload(Domestic, "revocation_notice"),
    Transition(Domestic, RevokeAssuranceRule, {Key("revocation_notice", 1)})>>

InformationRequest(role) ==
  <<Upload(role, "request_for_information_notice"),
    Transition(role, RequestMoreInformationRule,
               {Key("request_for_information_notice", 1)})>>

-----------------------------------------------------------------------------
(* The scenarios. *)

\* verifyDocument and finalizeScenario: reads that end a scenario, which may
\* override the terminal state it reports.
Finalize == <<[call |-> "finalize", override |-> Undefined]>>
FinalizeBlocked == <<[call |-> "finalize", override |-> "blocked"]>>

runNormalApprovalScenario ==
  buildIssuedBaseline(FULL_SUBMISSION_DOCUMENT_TYPES) \o Finalize

runMoreInformationLoopScenario ==
  buildUnderForeignReviewBaseline(FULL_SUBMISSION_DOCUMENT_TYPES)
    \o InformationRequest(Foreign)
    \o <<Upload(Applicant, "response_to_information_package"),
         Transition(Applicant, RespondToInformationRequestRule,
                    {Key("response_to_information_package", 1)})>>
    \o Approval \o Issuance \o Finalize

runRejectionScenario ==
  buildUnderDomesticReviewBaseline(MINIMAL_SUBMISSION_DOCUMENT_TYPES)
    \o <<Transition(Domestic, RejectCaseRule, {})>> \o Finalize

runSubstantiveAmendmentScenario ==
  buildIssuedBaseline(FULL_SUBMISSION_DOCUMENT_TYPES)
    \o RenewedReview \o Amendment \o Finalize

runNonSubstantiveAmendmentScenario ==
  buildIssuedBaseline(FULL_SUBMISSION_DOCUMENT_TYPES)
    \o RequestAmendment(InitiateNonSubstantiveAmendmentRule)
    \o <<Supersede(Coordination, "assurance_instrument")>>
    \o Amendment \o Finalize

runRevocationScenario ==
  buildIssuedBaseline(FULL_SUBMISSION_DOCUMENT_TYPES) \o Revocation \o Finalize

runUnauthorizedAttemptScenario ==
  buildSubmittedBaseline(MINIMAL_SUBMISSION_DOCUMENT_TYPES)
    \o <<Attempt(Applicant, RecordDomesticReviewRule, {}, "not_allowed")>>
    \o FinalizeBlocked

runMissingDocumentPathScenario ==
  LET types == SubSeq(MINIMAL_SUBMISSION_DOCUMENT_TYPES, 1, 2)
  IN createDraftWithDocuments(types)
       \o <<Attempt(Applicant, SubmitCaseRule, KeysOf(types),
                    "missing_documents")>>
       \o FinalizeBlocked

runInvalidTransitionAttemptScenario ==
  buildUnderDomesticReviewBaseline(MINIMAL_SUBMISSION_DOCUMENT_TYPES)
    \o <<Attempt(Coordination, ForwardToForeignAuthorityRule, {},
                 "no_transition")>>
    \o FinalizeBlocked

EVALUATION_SCENARIOS ==
  <<[id |-> "normal-approval-fuel-shipment",
     script |-> runNormalApprovalScenario],
    [id |-> "more-info-loop", script |-> runMoreInformationLoopScenario],
    [id |-> "rejection-missing-documents", script |-> runRejectionScenario],
    [id |-> "substantive-amendment-post-issuance",
     script |-> runSubstantiveAmendmentScenario],
    [id |-> "non-substantive-amendment-post-issuance",
     script |-> runNonSubstantiveAmendmentScenario],
    [id |-> "revocation", script |-> runRevocationScenario],
    [id |-> "unauthorized-attempt", script |-> runUnauthorizedAttemptScenario],
    [id |-> "missing-document-path", script |-> runMissingDocumentPathScenario],
    [id |-> "invalid-transition-attempt",
     script |-> runInvalidTransitionAttemptScenario]>>

\* SYNTHETIC_SCENARIOS: the terminal state the catalogue announces, in order.
expectedTerminalState ==
  <<"issued", "issued", "rejected", "amended", "amended", "revoked",
    "blocked", "blocked", "blocked">>

-----------------------------------------------------------------------------
(* The samples of the screenshot pack. *)

ScreenshotDocumentTypes ==
  MINIMAL_SUBMISSION_DOCUMENT_TYPES \o <<"supporting_correspondence">>

createSubmittedCase == buildSubmittedBaseline(ScreenshotDocumentTypes)

createMoreInfoCase ==
  createSubmittedCase
    \o <<Transition(Domestic, RecordDomesticReviewRule, {})>>
    \o InformationRequest(Domestic)

createRejectedCase ==
  createSubmittedCase
    \o <<Transition(Domestic, RecordDomesticReviewRule, {}),
         Transition(Domestic, RejectCaseRule, {})>>

createUnderForeignReviewCase ==
  createSubmittedCase
    \o <<Transition(Domestic, RecordDomesticReviewRule, {})>> \o Forwarding(1)

createApprovedCase == createUnderForeignReviewCase \o Approval

createIssuedCase == createApprovedCase \o Issuance

createAmendedCase ==
  createIssuedCase
    \o RequestAmendment(InitiateNonSubstantiveAmendmentRule)
    \o <<Supersede(Coordination, "assurance_instrument")>> \o Amendment

createRevokedCase == createIssuedCase \o Revocation

\* The samples in the order main creates them, and the state that the
\* description of each promises.
ScreenshotSamples ==
  <<[id |-> "applicant-draft", script |-> <<CreateDraft>>, shows |-> "draft"],
    [id |-> "applicant-more-info", script |-> createMoreInfoCase,
     shows |-> "more_information_requested"],
    [id |-> "domestic-rejected", script |-> createRejectedCase,
     shows |-> "rejected"],
    [id |-> "foreign-review", script |-> createUnderForeignReviewCase,
     shows |-> "under_foreign_review"],
    [id |-> "coordination-approved", script |-> createApprovedCase,
     shows |-> "approved"],
    [id |-> "auditor-issued", script |-> createIssuedCase, shows |-> "issued"],
    [id |-> "coordination-amended", script |-> createAmendedCase,
     shows |-> "amended"],
    [id |-> "domestic-revoked", script |-> createRevokedCase,
     shows |-> "revoked"]>>

-----------------------------------------------------------------------------
(* The series of the benchmark seeding. *)

seedAnchorCases == <<CreateDraft>>

seedDraftSubmissionCases ==
  createDraftWithDocuments(MINIMAL_SUBMISSION_DOCUMENT_TYPES)

seedSubmittedCases == buildSubmittedBaseline(MINIMAL_SUBMISSION_DOCUMENT_TYPES)

seedIssuedCases ==
  buildIssuedBaseline(MINIMAL_SUBMISSION_DOCUMENT_TYPES)
    \o <<Upload(Domestic, "amendment_request_package")>>

seedApprovedAmendmentCases ==
  buildIssuedBaseline(MINIMAL_SUBMISSION_DOCUMENT_TYPES) \o RenewedReview

SeedSeries ==
  <<[id |-> "anchor-case", script |-> seedAnchorCases],
    [id |-> "draft-case", script |-> seedDraftSubmissionCases],
    [id |-> "submitted-case", script |-> seedSubmittedCases],
    [id |-> "issued-case", script |-> seedIssuedCases],
    [id |-> "approved-amendment-case",
     script |-> seedApprovedAmendmentCases]>>

-----------------------------------------------------------------------------
(* The rounds of the Caliper benchmark on the seeded cases: the series each *)
(* round works on and the transaction it sends, without any service call.  *)

BenchmarkRounds ==
  <<[series |-> "anchor-case",
     call |-> Upload(Coordination, "coordination_forwarding_package")],
    [series |-> "issued-case",
     call |-> Supersede(Coordination, "assurance_instrument")],
    [series |-> "draft-case",
     call |-> Transition(Applicant, SubmitCaseRule,
                         KeysOf(MINIMAL_SUBMISSION_DOCUMENT_TYPES))],
    [series |-> "submitted-case",
     call |-> Transition(Domestic, RecordDomesticReviewRule, {})],
    [series |-> "issued-case",
     call |-> Transition(Domestic, InitiateSubstantiveAmendmentRule,
                         {Key("amendment_request_package", 1)})],
    [series |-> "approved-amendment-case",
     call |-> Transition(Coordination, AmendAssuranceRule,
                         {Key("amendment_request_package", 1),
                          Key("assurance_instrument", 2)})]>>

\* The state each series is left in by the rounds.
StateAfterRounds ==
  <<"draft", "submitted", "under_domestic_review", "under_domestic_review",
    "amended">>

=============================================================================
